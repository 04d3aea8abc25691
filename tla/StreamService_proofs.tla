------------------------ MODULE StreamService_proofs ------------------------
(***************************************************************************)
(* The requests of a session, any number of them: their records keep their  *)
(* types, keys are given back, one request at a time has the run, and what a *)
(* run leaves behind is accounted for.                                      *)
(***************************************************************************)
EXTENDS StreamService, TLAPS

GraphState == [workspace : Requests, resumed : BOOLEAN]

StatusSound == status \in [Requests -> Snapshot \cup {None}]

SessionSound == session \in SessionRecord \cup {None} /\ SessionTypeOK

TypeInv ==
    /\ request \in [Requests -> Request]
    /\ lifecycle \in [Requests -> Lifecycle]
    /\ StatusSound
    /\ active_runs \in [Requests -> Requests \cup {None}]
    /\ producer \in [Requests -> ProducerStep]
    /\ SessionSound
    /\ vault \subseteq Requests
    /\ checkpoint \in Checkpoint \cup {None}
    /\ workspaces \subseteq Requests

\* What the parts of a request know of each other.
StreamContext(q) ==
    /\ lifecycle[q].cleanup # "none" => request[q].phase = "done"
    /\ lifecycle[q].stop_requested <=> lifecycle[q].cleanup # "none"
    /\ request[q].phase \in {"accepted", "serving", "leaving", "done"} => Run(q) \in Requests
    /\ producer[q] # "none" => request[q].phase \in {"serving", "leaving", "done"}
    /\ ProducerAlive(q) /\ request[q].phase = "done" =>
         lifecycle[q].cleanup \in {"waiting", "deferred"}
    /\ producer[q] = "streaming" => request[q].graph \in GraphState
    /\ q \in vault =>
         \/ request[q].phase \in {"admitted", "beginning", "accepted", "serving", "leaving", "lost"}
         \/ lifecycle[q].cleanup \in {"waiting", "deferred", "releasing"}

Inv == TypeInv /\ \A q \in Requests : StreamContext(q)

\* The requests that work for the run they name, or have yet to give it back.
Holds(q) ==
    \/ request[q].phase \in {"accepted", "serving", "leaving"}
    \/ lifecycle[q].cleanup \in {"waiting", "deferred", "releasing", "checkpoint", "lease"}

OneHolder ==
    overtaken = {} /\ ~down =>
        /\ \A q \in Requests : Holds(q) /\ Open => LeasedTo(Run(q))
        /\ \A p, q \in Requests : Holds(p) /\ Holds(q) => p = q
        /\ \A q \in Requests : request[q].phase = "accepted" /\ Open => session.approval = None
-----------------------------------------------------------------------------
LEMMA InitInv == ServiceInit => Inv /\ OneHolder
<1> SUFFICES ASSUME ServiceInit PROVE Inv /\ OneHolder
  OBVIOUS
<1> USE RequestsAssumption DEF ServiceInit, LifecycleInit, SessionInit, StatusInit, VaultInit
<1>1. TypeInv
  <2>1. NewRequest \in Request
    BY DEF NewRequest, Request, Phase, Termination
  <2>2. NewLifecycle \in Lifecycle
    BY DEF NewLifecycle, Lifecycle, CleanupStep, Termination
  <2>3. Unleased \in SessionRecord
    BY DEF Unleased, SessionRecord
  <2>4. SessionSound
    BY <2>3 DEF SessionSound, SessionTypeOK, Unleased
  <2>5. QED BY <2>1, <2>2, <2>4 DEF TypeInv, StatusSound, ProducerStep
<1>2. ASSUME NEW q \in Requests PROVE StreamContext(q) /\ ~Holds(q) /\ request[q].phase = "new"
  BY DEF StreamContext, Holds, NewRequest, NewLifecycle, ProducerAlive
<1>3. QED BY <1>1, <1>2 DEF Inv, OneHolder
-----------------------------------------------------------------------------
(* The registries. *)

\* Every method of the session leaves a sound record.
LEMMA SessionBegin ==
    ASSUME SessionSound, NEW run \in Requests, BeginRun(run)
    PROVE  SessionSound'
<1>1. session \in SessionRecord
  BY DEF SessionSound, BeginRun, LeasedTo, Open
<1>2. session' \in SessionRecord /\ session'.active_run = run
      /\ session'.decision = session.decision
  BY <1>1 DEF BeginRun, SessionRecord
<1>3. session.decision # "none" => session.approval # None
  BY DEF SessionSound, SessionTypeOK, BeginRun, LeasedTo, Open
<1>4. session'.approval = session.approval
  BY <1>1 DEF BeginRun, SessionRecord
<1>5. QED BY <1>2, <1>3, <1>4, RequestsAssumption DEF SessionSound, SessionTypeOK

LEMMA SessionFinish ==
    ASSUME SessionSound, NEW run, FinishOwnedRun(run)
    PROVE  SessionSound'
BY DEF SessionSound, SessionTypeOK, FinishOwnedRun, Unleased, SessionRecord

LEMMA SessionApproval ==
    ASSUME SessionSound, NEW run \in Requests, NEW fresh \in Requests, BeginApproval(run, fresh)
    PROVE  SessionSound'
<1>1. session \in SessionRecord /\ session.active_run = run
  BY DEF SessionSound, BeginApproval, LeasedTo, Open
<1>2. CASE Undecided
  BY <1>2 DEF BeginApproval, SessionSound, SessionTypeOK
<1>3. CASE ~Undecided
  <2>1. session' \in SessionRecord /\ session'.active_run = run
        /\ session'.approval = fresh /\ session'.decision = "none"
    BY <1>1, <1>3 DEF BeginApproval, SessionRecord
  <2>2. QED BY <2>1, RequestsAssumption DEF SessionSound, SessionTypeOK
<1>4. QED BY <1>2, <1>3

LEMMA SessionDecide ==
    ASSUME SessionSound, NEW approval \in Requests, NEW verdict \in Verdicts,
           Decide(approval, verdict)
    PROVE  SessionSound'
<1>1. session \in SessionRecord
  BY DEF SessionSound, Decide, Open
<1>2. session' \in SessionRecord /\ session'.active_run = session.active_run
      /\ session'.approval = session.approval /\ session.approval = approval
  BY <1>1 DEF Decide, SessionRecord
<1>3. session.approval # None => session.active_run # None
  BY DEF SessionSound, SessionTypeOK, Decide, Open
<1>4. QED BY <1>2, <1>3, RequestsAssumption DEF SessionSound, SessionTypeOK

LEMMA SessionConsume ==
    ASSUME SessionSound, NEW run, NEW verdict, ConsumeDecision(run, verdict)
    PROVE  SessionSound'
<1>1. session \in SessionRecord
  BY DEF SessionSound, ConsumeDecision, Open
<1>2. session' \in SessionRecord /\ session'.approval = None /\ session'.decision = "none"
  BY <1>1 DEF ConsumeDecision, SessionRecord
<1>3. QED BY <1>2 DEF SessionSound, SessionTypeOK

LEMMA SessionUnchanged ==
    ASSUME SessionSound, session' \in {session, None}
    PROVE  SessionSound'
BY DEF SessionSound, SessionTypeOK

\* Every method of the status registry leaves snapshots.
LEMMA StatusUpdate ==
    ASSUME StatusSound, NEW run, NEW lc \in LifecycleStatus,
           NEW terminal \in {"none", "completed", "failed"}, NEW retained \in BOOLEAN,
           Update(run, lc, terminal, retained)
    PROVE  StatusSound'
BY DEF StatusSound, Update, Snapshot

LEMMA StatusUpdateLifecycle ==
    ASSUME StatusSound, NEW run \in Requests, NEW lc \in LifecycleStatus, UpdateLifecycle(run, lc)
    PROVE  StatusSound'
BY DEF StatusSound, UpdateLifecycle, Update, Snapshot

LEMMA StatusUpdateTerminal ==
    ASSUME StatusSound, NEW run \in Requests, NEW lc \in LifecycleStatus,
           NEW terminal \in {"none", "completed", "failed"}, UpdateTerminal(run, lc, terminal)
    PROVE  StatusSound'
BY DEF StatusSound, UpdateTerminal, Update, Snapshot

LEMMA StatusUpdateWaiting ==
    ASSUME StatusSound, NEW run \in Requests, UpdateWaiting(run)
    PROVE  StatusSound'
BY DEF StatusSound, UpdateWaiting, Update, Snapshot, LifecycleStatus

LEMMA StatusStart ==
    ASSUME StatusSound, NEW run \in Requests, StartStatus(run) \/ DropStatus(run)
    PROVE  StatusSound'
<1>1. [lifecycle |-> "running", terminal |-> "none", retained |-> FALSE] \in Snapshot
  BY DEF Snapshot, LifecycleStatus
<1>2. QED BY <1>1 DEF StatusSound, StartStatus, DropStatus
-----------------------------------------------------------------------------
\* What a step of another request leaves alone.
LEMMA OthersKept ==
    ASSUME NEW p \in Requests, StreamContext(p), request'[p] = request[p],
           lifecycle'[p] = lifecycle[p], producer'[p] = producer[p],
           p \in vault' => p \in vault
    PROVE  StreamContext(p)'
BY DEF StreamContext, Run, ProducerAlive
-----------------------------------------------------------------------------
(* The handler.                                                             *)

LEMMA AdmitInv ==
    ASSUME Inv, NEW q \in Requests, Admit(q)
    PROVE  Inv'
<1> USE RequestsAssumption DEF Admit, To, Store
<1>1. TypeInv'
  <2>1. request' \in [Requests -> Request]
    BY DEF Inv, TypeInv, Request, Phase
  <2>2. SessionSound'
    BY SessionUnchanged DEF Inv, TypeInv
  <2>3. QED BY <2>1, <2>2 DEF Inv, TypeInv, StatusSound
<1>2. ASSUME NEW p \in Requests PROVE StreamContext(p)'
  <2>1. CASE p = q
    BY <2>1 DEF Inv, TypeInv, StreamContext, Request, Run, ProducerAlive
  <2>2. CASE p # q
    BY <2>2, OthersKept DEF Inv, TypeInv
  <2>3. QED BY <2>1, <2>2
<1>3. QED BY <1>1, <1>2 DEF Inv

LEMMA ResumeInv ==
    ASSUME Inv, NEW q \in Requests, NEW run \in Requests, NEW verdict \in Verdicts,
           ResumeRun(q, run, verdict)
    PROVE  Inv'
<1>s. SessionSound'
  <2>1. ConsumeDecision(run, verdict) /\ SessionSound
    BY DEF ResumeRun, Inv, TypeInv
  <2>2. QED BY <2>1, SessionConsume
<1> USE RequestsAssumption DEF ResumeRun
<1>1. TypeInv'
  <2>1. request' \in [Requests -> Request]
    <3>1. request[q] \in Request
      BY DEF Inv, TypeInv
    <3>2. [request[q] EXCEPT !.phase = "accepted", !.run = run, !.resume_value = verdict] \in Request
      BY <3>1 DEF Request, Phase
    <3>3. QED BY <3>2 DEF Inv, TypeInv
  <2>2. SessionSound'
    BY <1>s
  <2>3. QED BY <2>1, <2>2 DEF Inv, TypeInv, StatusSound
<1>2. ASSUME NEW p \in Requests PROVE StreamContext(p)'
  <2>1. CASE p = q
    BY <2>1 DEF Inv, TypeInv, StreamContext, Request, Run, ProducerAlive
  <2>2. CASE p # q
    BY <2>2, OthersKept DEF Inv, TypeInv
  <2>3. QED BY <2>1, <2>2
<1>3. QED BY <1>1, <1>2 DEF Inv

LEMMA NothingToResumeInv ==
    ASSUME Inv, NEW q \in Requests, NothingToResume(q)
    PROVE  Inv'
<1> USE RequestsAssumption DEF NothingToResume, To, cleanupVars, resourceVars
<1>1. TypeInv'
  <2>1. request' \in [Requests -> Request]
    BY DEF Inv, TypeInv, Request, Phase
  <2>2. SessionSound'
    BY SessionUnchanged DEF Inv, TypeInv
  <2>3. QED BY <2>1, <2>2 DEF Inv, TypeInv, StatusSound
<1>2. ASSUME NEW p \in Requests PROVE StreamContext(p)'
  <2>1. CASE p = q
    BY <2>1 DEF Inv, TypeInv, StreamContext, Request, Run, ProducerAlive
  <2>2. CASE p # q
    BY <2>2, OthersKept DEF Inv, TypeInv
  <2>3. QED BY <2>1, <2>2
<1>3. QED BY <1>1, <1>2 DEF Inv

LEMMA BeginNewRunInv ==
    ASSUME Inv, NEW q \in Requests, BeginNewRun(q)
    PROVE  Inv'
<1>s. SessionSound'
  <2>1. BeginRun(q) /\ SessionSound
    BY DEF BeginNewRun, Inv, TypeInv
  <2>2. QED BY <2>1, SessionBegin
<1> USE RequestsAssumption DEF BeginNewRun
<1>1. TypeInv'
  <2>1. request' \in [Requests -> Request]
    <3>1. request[q] \in Request
      BY DEF Inv, TypeInv
    <3>2. [request[q] EXCEPT !.phase = "accepted", !.run = q] \in Request
      BY <3>1 DEF Request, Phase
    <3>3. QED BY <3>2 DEF Inv, TypeInv
  <2>2. SessionSound'
    BY <1>s
  <2>3. QED BY <2>1, <2>2 DEF Inv, TypeInv, StatusSound
<1>2. ASSUME NEW p \in Requests PROVE StreamContext(p)'
  <2>1. CASE p = q
    BY <2>1 DEF Inv, TypeInv, StreamContext, Request, Run, ProducerAlive
  <2>2. CASE p # q
    BY <2>2, OthersKept DEF Inv, TypeInv
  <2>3. QED BY <2>1, <2>2
<1>3. QED BY <1>1, <1>2 DEF Inv

LEMMA RefuseInv ==
    ASSUME Inv, NEW q \in Requests, RefuseRun(q)
    PROVE  Inv'
<1> USE RequestsAssumption DEF RefuseRun, To, Revoke
<1>1. TypeInv'
  <2>1. request' \in [Requests -> Request]
    BY DEF Inv, TypeInv, Request, Phase
  <2>2. SessionSound'
    BY SessionUnchanged DEF Inv, TypeInv
  <2>3. QED BY <2>1, <2>2 DEF Inv, TypeInv, StatusSound
<1>2. ASSUME NEW p \in Requests PROVE StreamContext(p)'
  <2>1. CASE p = q
    BY <2>1 DEF Inv, TypeInv, StreamContext, Request, Run, ProducerAlive
  <2>2. CASE p # q
    BY <2>2, OthersKept DEF Inv, TypeInv
  <2>3. QED BY <2>1, <2>2
<1>3. QED BY <1>1, <1>2 DEF Inv

LEMMA LostInv ==
    ASSUME Inv, NEW q \in Requests, RaiseInHandler(q) \/ LoseResponse(q)
    PROVE  Inv'
<1> USE RequestsAssumption DEF RaiseInHandler, LoseResponse, To, cleanupVars, resourceVars
<1>1. TypeInv'
  <2>1. request' \in [Requests -> Request]
    BY DEF Inv, TypeInv, Request, Phase
  <2>2. SessionSound'
    BY SessionUnchanged DEF Inv, TypeInv
  <2>3. QED BY <2>1, <2>2 DEF Inv, TypeInv, StatusSound
<1>2. ASSUME NEW p \in Requests PROVE StreamContext(p)'
  <2>1. CASE p = q
    BY <2>1 DEF Inv, TypeInv, StreamContext, Request, Run, ProducerAlive
  <2>2. CASE p # q
    BY <2>2, OthersKept DEF Inv, TypeInv
  <2>3. QED BY <2>1, <2>2
<1>3. QED BY <1>1, <1>2 DEF Inv

LEMMA StartGeneratorInv ==
    ASSUME Inv, NEW q \in Requests, StartGenerator(q)
    PROVE  Inv'
<1> USE RequestsAssumption DEF StartGenerator, To, CreateLifecycle, resourceVars
<1>a. Run(q) \in Requests
  BY DEF Inv, StreamContext
<1>1. TypeInv'
  <2>1. request' \in [Requests -> Request]
    BY DEF Inv, TypeInv, Request, Phase
  <2>2. lifecycle' \in [Requests -> Lifecycle]
    BY DEF Inv, TypeInv, Lifecycle, NewLifecycle, CleanupStep, Termination
  <2>3. StatusSound'
    BY <1>a, StatusStart DEF Inv, TypeInv
  <2>4. producer' \in [Requests -> ProducerStep]
    BY DEF Inv, TypeInv, ProducerStep
  <2>5. active_runs' \in [Requests -> Requests \cup {None}]
    BY <1>a DEF Inv, TypeInv
  <2>6. SessionSound'
    BY SessionUnchanged DEF Inv, TypeInv
  <2>7. QED BY <2>1, <2>2, <2>3, <2>4, <2>5, <2>6 DEF Inv, TypeInv, StatusSound
<1>2. ASSUME NEW p \in Requests PROVE StreamContext(p)'
  <2>1. CASE p = q
    BY <2>1 DEF Inv, TypeInv, StreamContext, Request, Run, ProducerAlive, NewLifecycle
  <2>2. CASE p # q
    BY <2>2, OthersKept DEF Inv, TypeInv
  <2>3. QED BY <2>1, <2>2
<1>3. QED BY <1>1, <1>2 DEF Inv

-----------------------------------------------------------------------------
(* The producer thread.                                                     *)

LEMMA ProducerStopsInv ==
    ASSUME Inv, NEW q \in Requests, ProducerStops(q)
    PROVE  Inv'
<1> USE RequestsAssumption DEF ProducerStops, At, resourceVars
<1>1. TypeInv'
  <2>1. producer' \in [Requests -> ProducerStep]
    BY DEF Inv, TypeInv, ProducerStep
  <2>2. SessionSound'
    BY SessionUnchanged DEF Inv, TypeInv
  <2>3. QED BY <2>1, <2>2 DEF Inv, TypeInv, StatusSound
<1>2. ASSUME NEW p \in Requests PROVE StreamContext(p)'
  <2>1. CASE p = q
    BY <2>1 DEF Inv, TypeInv, StreamContext, Request, Run, ProducerAlive
  <2>2. CASE p # q
    BY <2>2, OthersKept DEF Inv, TypeInv
  <2>3. QED BY <2>1, <2>2
<1>3. QED BY <1>1, <1>2 DEF Inv

LEMMA SetWorkspaceType ==
    ASSUME Inv, NEW q \in Requests, SetWorkspace(q)
    PROVE  lifecycle' \in [Requests -> Lifecycle]
<1>1. lifecycle[q] \in Lifecycle
  BY DEF Inv, TypeInv
<1>2. checkpoint # None => [lifecycle[q] EXCEPT !.workspace = checkpoint.workspace] \in Lifecycle
  BY <1>1 DEF Inv, TypeInv, Checkpoint, Lifecycle
<1>3. QED BY <1>2 DEF SetWorkspace, Inv, TypeInv

LEMMA ResumeGraphInv ==
    ASSUME Inv, NEW q \in Requests, ResumeGraph(q)
    PROVE  Inv'
<1> USE RequestsAssumption DEF ResumeGraph, At, Interrupted, resourceVars
<1>c. [workspace |-> checkpoint.workspace, resumed |-> TRUE] \in GraphState
  BY DEF Inv, TypeInv, Checkpoint, GraphState
<1>1. TypeInv'
  <2>1. producer' \in [Requests -> ProducerStep]
    BY DEF Inv, TypeInv, ProducerStep
  <2>2. request' \in [Requests -> Request]
    <3>1. request[q] \in Request
      BY DEF Inv, TypeInv
    <3>2. [request[q] EXCEPT !.graph = [workspace |-> checkpoint.workspace, resumed |-> TRUE]] \in Request
      BY <3>1, <1>c DEF Request, GraphState
    <3>3. QED BY <3>2 DEF Inv, TypeInv
  <2>3. SessionSound'
    BY SessionUnchanged DEF Inv, TypeInv
  <2>4. QED BY <2>1, <2>2, <2>3 DEF Inv, TypeInv, StatusSound
<1>2. ASSUME NEW p \in Requests PROVE StreamContext(p)'
  <2>1. CASE p = q
    BY <2>1, <1>c DEF Inv, TypeInv, StreamContext, Request, Run, ProducerAlive
  <2>2. CASE p # q
    BY <2>2, OthersKept DEF Inv, TypeInv
  <2>3. QED BY <2>1, <2>2
<1>3. QED BY <1>1, <1>2 DEF Inv

LEMMA LeaveGraphInv ==
    ASSUME Inv, NEW q \in Requests, LeaveGraphSuspended(q)
    PROVE  Inv'
<1> USE RequestsAssumption DEF LeaveGraphSuspended, At, resourceVars
<1>1. TypeInv'
  <2>1. producer' \in [Requests -> ProducerStep]
    BY DEF Inv, TypeInv, ProducerStep
  <2>2. SessionSound'
    BY SessionUnchanged DEF Inv, TypeInv
  <2>3. QED BY <2>1, <2>2 DEF Inv, TypeInv, StatusSound
<1>2. ASSUME NEW p \in Requests PROVE StreamContext(p)'
  <2>1. CASE p = q
    BY <2>1 DEF Inv, TypeInv, StreamContext, Request, Run, ProducerAlive
  <2>2. CASE p # q
    BY <2>2, OthersKept DEF Inv, TypeInv
  <2>3. QED BY <2>1, <2>2
<1>3. QED BY <1>1, <1>2 DEF Inv

LEMMA BeginGraphInv ==
    ASSUME Inv, NEW q \in Requests, BeginGraph(q)
    PROVE  Inv'
<1> USE RequestsAssumption DEF BeginGraph, At
<1>1. TypeInv'
  <2>1. producer' \in [Requests -> ProducerStep]
    BY DEF Inv, TypeInv, ProducerStep
  <2>2. request' \in [Requests -> Request]
    <3>1. request[q] \in Request
      BY DEF Inv, TypeInv
    <3>2. [request[q] EXCEPT !.graph = [workspace |-> q, resumed |-> FALSE]] \in Request
      BY <3>1 DEF Request
    <3>3. QED BY <3>2 DEF Inv, TypeInv
  <2>3. checkpoint' \in Checkpoint \cup {None}
    BY DEF Inv, TypeInv, Checkpoint
  <2>4. workspaces' \subseteq Requests
    BY DEF Inv, TypeInv
  <2>5. SessionSound'
    BY SessionUnchanged DEF Inv, TypeInv
  <2>6. QED BY <2>1, <2>2, <2>3, <2>4, <2>5 DEF Inv, TypeInv, StatusSound
<1>2. ASSUME NEW p \in Requests PROVE StreamContext(p)'
  <2>1. CASE p = q
    BY <2>1 DEF Inv, TypeInv, StreamContext, Request, Run, ProducerAlive, GraphState
  <2>2. CASE p # q
    BY <2>2, OthersKept DEF Inv, TypeInv
  <2>3. QED BY <2>1, <2>2
<1>3. QED BY <1>1, <1>2 DEF Inv

LEMMA GraphSuspendsInv ==
    ASSUME Inv, NEW q \in Requests, GraphSuspends(q)
    PROVE  Inv'
<1> USE RequestsAssumption DEF GraphSuspends, GraphLeaves, At
<1>c. request[q].graph.workspace \in Requests
  BY DEF Inv, StreamContext, GraphState, GraphLeaves, At
<1>1. TypeInv'
  <2>1. producer' \in [Requests -> ProducerStep]
    BY DEF Inv, TypeInv, ProducerStep
  <2>2. checkpoint' \in Checkpoint \cup {None}
    BY <1>c DEF Inv, TypeInv, Checkpoint
  <2>3. SessionSound'
    BY SessionUnchanged DEF Inv, TypeInv
  <2>4. QED BY <2>1, <2>2, <2>3 DEF Inv, TypeInv, StatusSound
<1>2. ASSUME NEW p \in Requests PROVE StreamContext(p)'
  <2>1. CASE p = q
    BY <2>1 DEF Inv, TypeInv, StreamContext, Request, Run, ProducerAlive
  <2>2. CASE p # q
    BY <2>2, OthersKept DEF Inv, TypeInv
  <2>3. QED BY <2>1, <2>2
<1>3. QED BY <1>1, <1>2 DEF Inv

LEMMA GraphFailsInv ==
    ASSUME Inv, NEW q \in Requests, NEW failed \in BOOLEAN, GraphFails(q, failed)
    PROVE  Inv'
<1> USE RequestsAssumption DEF GraphFails, GraphLeaves, GraphRemovesWorkspace, Fault, At
<1>c. request[q].graph.workspace \in Requests
  BY DEF Inv, StreamContext, GraphState, GraphLeaves, At
<1>1. TypeInv'
  <2>1. producer' \in [Requests -> ProducerStep]
    BY DEF Inv, TypeInv, ProducerStep
  <2>2. request' \in [Requests -> Request]
    BY DEF Inv, TypeInv, Request, Phase
  <2>3. checkpoint' \in Checkpoint \cup {None}
    BY <1>c DEF Inv, TypeInv, Checkpoint
  <2>4. workspaces' \subseteq Requests
    BY DEF Inv, TypeInv
  <2>5. SessionSound'
    BY SessionUnchanged DEF Inv, TypeInv
  <2>6. QED BY <2>1, <2>2, <2>3, <2>4, <2>5 DEF Inv, TypeInv, StatusSound
<1>2. ASSUME NEW p \in Requests PROVE StreamContext(p)'
  <2>1. CASE p = q
    BY <2>1 DEF Inv, TypeInv, StreamContext, Request, Run, ProducerAlive
  <2>2. CASE p # q
    BY <2>2, OthersKept DEF Inv, TypeInv
  <2>3. QED BY <2>1, <2>2
<1>3. QED BY <1>1, <1>2 DEF Inv

LEMMA GraphAppliesInv ==
    ASSUME Inv, NEW q \in Requests, GraphApplies(q)
    PROVE  Inv'
<1> USE RequestsAssumption DEF GraphApplies, GraphLeaves, GraphRemovesWorkspace, Fault, At
<1>c. request[q].graph.workspace \in Requests
  BY DEF Inv, StreamContext, GraphState, GraphLeaves, At
<1>1. TypeInv'
  <2>1. producer' \in [Requests -> ProducerStep]
    BY DEF Inv, TypeInv, ProducerStep
  <2>2. checkpoint' \in Checkpoint \cup {None}
    BY <1>c DEF Inv, TypeInv, Checkpoint
  <2>3. workspaces' \subseteq Requests
    BY DEF Inv, TypeInv
  <2>4. SessionSound'
    BY SessionUnchanged DEF Inv, TypeInv
  <2>5. QED BY <2>1, <2>2, <2>3, <2>4 DEF Inv, TypeInv, StatusSound
<1>2. ASSUME NEW p \in Requests PROVE StreamContext(p)'
  <2>1. CASE p = q
    BY <2>1 DEF Inv, TypeInv, StreamContext, Request, Run, ProducerAlive
  <2>2. CASE p # q
    BY <2>2, OthersKept DEF Inv, TypeInv
  <2>3. QED BY <2>1, <2>2
<1>3. QED BY <1>1, <1>2 DEF Inv

LEMMA GraphRaisesInv ==
    ASSUME Inv, NEW q \in Requests, GraphRaises(q)
    PROVE  Inv'
<1> USE RequestsAssumption DEF GraphRaises, Fault, At
<1>1. TypeInv'
  <2>1. producer' \in [Requests -> ProducerStep]
    BY DEF Inv, TypeInv, ProducerStep
  <2>2. request' \in [Requests -> Request]
    <3>1. request[q] \in Request
      BY DEF Inv, TypeInv
    <3>2. [request[q] EXCEPT !.stream_failed = TRUE] \in Request
      BY <3>1 DEF Request
    <3>3. QED BY <3>2 DEF Inv, TypeInv
  <2>3. workspaces' \subseteq Requests
    BY DEF Inv, TypeInv
  <2>4. SessionSound'
    BY SessionUnchanged DEF Inv, TypeInv
  <2>5. QED BY <2>1, <2>2, <2>3, <2>4 DEF Inv, TypeInv, StatusSound
<1>2. ASSUME NEW p \in Requests PROVE StreamContext(p)'
  <2>1. CASE p = q
    BY <2>1 DEF Inv, TypeInv, StreamContext, Request, Run, ProducerAlive
  <2>2. CASE p # q
    BY <2>2, OthersKept DEF Inv, TypeInv
  <2>3. QED BY <2>1, <2>2
<1>3. QED BY <1>1, <1>2 DEF Inv

LEMMA SeeSuspensionInv ==
    ASSUME Inv, NEW q \in Requests, SeeSuspension(q)
    PROVE  Inv'
<1>w. lifecycle' \in [Requests -> Lifecycle]
  <2>1. SetWorkspace(q)
    BY DEF SeeSuspension
  <2>2. QED BY <2>1, SetWorkspaceType
<1> USE RequestsAssumption DEF SeeSuspension, SetWorkspace, At, resourceVars
<1>1. TypeInv'
  <2>1. producer' \in [Requests -> ProducerStep]
    BY DEF Inv, TypeInv, ProducerStep
  <2>2. lifecycle' \in [Requests -> Lifecycle]
    BY <1>w
  <2>3. SessionSound'
    BY SessionUnchanged DEF Inv, TypeInv
  <2>4. QED BY <2>1, <2>2, <2>3 DEF Inv, TypeInv, StatusSound
<1>2. ASSUME NEW p \in Requests PROVE StreamContext(p)'
  <2>1. CASE p = q
    BY <2>1 DEF Inv, TypeInv, StreamContext, Request, Run, ProducerAlive
  <2>2. CASE p # q
    BY <2>2, OthersKept DEF Inv, TypeInv
  <2>3. QED BY <2>1, <2>2
<1>3. QED BY <1>1, <1>2 DEF Inv

LEMMA SeeOutcomeInv ==
    ASSUME Inv, NEW q \in Requests, SeeOutcome(q)
    PROVE  Inv'
<1>w. lifecycle' \in [Requests -> Lifecycle]
  <2>1. SetWorkspace(q)
    BY DEF SeeOutcome
  <2>2. QED BY <2>1, SetWorkspaceType
<1> USE RequestsAssumption DEF SeeOutcome, SetWorkspace, At, resourceVars
<1>1. TypeInv'
  <2>1. producer' \in [Requests -> ProducerStep]
    BY DEF Inv, TypeInv, ProducerStep
  <2>2. lifecycle' \in [Requests -> Lifecycle]
    BY <1>w
  <2>3. request' \in [Requests -> Request]
    BY DEF Inv, TypeInv, Request, Phase, Termination
  <2>4. SessionSound'
    BY SessionUnchanged DEF Inv, TypeInv
  <2>5. QED BY <2>1, <2>2, <2>3, <2>4 DEF Inv, TypeInv, StatusSound
<1>2. ASSUME NEW p \in Requests PROVE StreamContext(p)'
  <2>1. CASE p = q
    BY <2>1 DEF Inv, TypeInv, StreamContext, Request, Run, ProducerAlive
  <2>2. CASE p # q
    BY <2>2, OthersKept DEF Inv, TypeInv
  <2>3. QED BY <2>1, <2>2
<1>3. QED BY <1>1, <1>2 DEF Inv

LEMMA ReportOutcomeInv ==
    ASSUME Inv, NEW q \in Requests, ReportOutcome(q)
    PROVE  Inv'
<1> USE RequestsAssumption DEF ReportOutcome, At, resourceVars
<1>a. Run(q) \in Requests
  BY DEF Inv, StreamContext, At
<1>1. TypeInv'
  <2>1. producer' \in [Requests -> ProducerStep]
    BY DEF Inv, TypeInv, ProducerStep
  <2>2. StatusSound'
    BY <1>a, StatusUpdateTerminal DEF Inv, TypeInv, LifecycleStatus
  <2>3. SessionSound'
    BY SessionUnchanged DEF Inv, TypeInv
  <2>4. QED BY <2>1, <2>2, <2>3 DEF Inv, TypeInv, StatusSound
<1>2. ASSUME NEW p \in Requests PROVE StreamContext(p)'
  <2>1. CASE p = q
    BY <2>1 DEF Inv, TypeInv, StreamContext, Request, Run, ProducerAlive
  <2>2. CASE p # q
    BY <2>2, OthersKept DEF Inv, TypeInv
  <2>3. QED BY <2>1, <2>2
<1>3. QED BY <1>1, <1>2 DEF Inv

LEMMA AskApprovalInv ==
    ASSUME Inv, NEW q \in Requests, AskApproval(q)
    PROVE  Inv'
<1>s. SessionSound'
  <2>1. BeginApproval(Run(q), q) /\ SessionSound /\ Run(q) \in Requests
    BY DEF AskApproval, At, Inv, TypeInv, StreamContext
  <2>2. QED BY <2>1, SessionApproval
<1> USE RequestsAssumption DEF AskApproval, At
<1>b. BeginApproval(Run(q), q) => session.approval \in Requests \cup {None}
  BY DEF Inv, TypeInv, SessionSound, SessionRecord, BeginApproval, LeasedTo, Open
<1>1. TypeInv'
  <2>1. producer' \in [Requests -> ProducerStep]
    BY DEF Inv, TypeInv, ProducerStep
  <2>2. request' \in [Requests -> Request]
    BY <1>b DEF Inv, TypeInv, Request, Phase, Undecided
  <2>3. SessionSound'
    BY <1>s
  <2>4. QED BY <2>1, <2>2, <2>3 DEF Inv, TypeInv, StatusSound
<1>2. ASSUME NEW p \in Requests PROVE StreamContext(p)'
  <2>1. CASE p = q
    BY <2>1 DEF Inv, TypeInv, StreamContext, Request, Run, ProducerAlive
  <2>2. CASE p # q
    BY <2>2, OthersKept DEF Inv, TypeInv
  <2>3. QED BY <2>1, <2>2
<1>3. QED BY <1>1, <1>2 DEF Inv

LEMMA RetainInv ==
    ASSUME Inv, NEW q \in Requests, RetainForHitl(q)
    PROVE  Inv'
<1> USE RequestsAssumption DEF RetainForHitl, At, resourceVars
<1>a. Run(q) \in Requests
  BY DEF Inv, StreamContext, At
<1>b. lifecycle[q].workspace \in Requests /\ request[q].approval \in Requests
  BY DEF Inv, TypeInv, SessionSound, SessionRecord, IsResumableApproval, LeasedTo, Open
<1>1. TypeInv'
  <2>1. producer' \in [Requests -> ProducerStep]
    BY DEF Inv, TypeInv, ProducerStep
  <2>2. lifecycle' \in [Requests -> Lifecycle]
    BY <1>b DEF Inv, TypeInv, Lifecycle, Retention
  <2>3. StatusSound'
    BY <1>a, StatusUpdateWaiting DEF Inv, TypeInv
  <2>4. SessionSound'
    BY SessionUnchanged DEF Inv, TypeInv
  <2>5. QED BY <2>1, <2>2, <2>3, <2>4 DEF Inv, TypeInv, StatusSound
<1>2. ASSUME NEW p \in Requests PROVE StreamContext(p)'
  <2>1. CASE p = q
    BY <2>1 DEF Inv, TypeInv, StreamContext, Request, Run, ProducerAlive
  <2>2. CASE p # q
    BY <2>2, OthersKept DEF Inv, TypeInv
  <2>3. QED BY <2>1, <2>2
<1>3. QED BY <1>1, <1>2 DEF Inv

LEMMA RecoveryFailsInv ==
    ASSUME Inv, NEW q \in Requests, RecoveryFails(q)
    PROVE  Inv'
<1> USE RequestsAssumption DEF RecoveryFails, At, resourceVars
<1>1. TypeInv'
  <2>1. producer' \in [Requests -> ProducerStep]
    BY DEF Inv, TypeInv, ProducerStep
  <2>2. request' \in [Requests -> Request]
    <3>1. request[q] \in Request
      BY DEF Inv, TypeInv
    <3>2. [request[q] EXCEPT !.termination = "failed", !.stream_failed = TRUE] \in Request
      BY <3>1 DEF Request, Termination
    <3>3. QED BY <3>2 DEF Inv, TypeInv
  <2>3. SessionSound'
    BY SessionUnchanged DEF Inv, TypeInv
  <2>4. QED BY <2>1, <2>2, <2>3 DEF Inv, TypeInv, StatusSound
<1>2. ASSUME NEW p \in Requests PROVE StreamContext(p)'
  <2>1. CASE p = q
    BY <2>1 DEF Inv, TypeInv, StreamContext, Request, Run, ProducerAlive
  <2>2. CASE p # q
    BY <2>2, OthersKept DEF Inv, TypeInv
  <2>3. QED BY <2>1, <2>2
<1>3. QED BY <1>1, <1>2 DEF Inv

LEMMA MarkRetainedInv ==
    ASSUME Inv, NEW q \in Requests, MarkRetained(q)
    PROVE  Inv'
<1> USE RequestsAssumption DEF MarkRetained, At, resourceVars
<1>1. TypeInv'
  <2>1. producer' \in [Requests -> ProducerStep]
    BY DEF Inv, TypeInv, ProducerStep
  <2>2. request' \in [Requests -> Request]
    <3>1. request[q] \in Request
      BY DEF Inv, TypeInv
    <3>2. [request[q] EXCEPT !.hitl_retained = TRUE, !.termination = "hitl_paused"] \in Request
      BY <3>1 DEF Request, Termination
    <3>3. QED BY <3>2 DEF Inv, TypeInv
  <2>3. SessionSound'
    BY SessionUnchanged DEF Inv, TypeInv
  <2>4. QED BY <2>1, <2>2, <2>3 DEF Inv, TypeInv, StatusSound
<1>2. ASSUME NEW p \in Requests PROVE StreamContext(p)'
  <2>1. CASE p = q
    BY <2>1 DEF Inv, TypeInv, StreamContext, Request, Run, ProducerAlive
  <2>2. CASE p # q
    BY <2>2, OthersKept DEF Inv, TypeInv
  <2>3. QED BY <2>1, <2>2
<1>3. QED BY <1>1, <1>2 DEF Inv

LEMMA AnnounceInv ==
    ASSUME Inv, NEW q \in Requests, AnnounceApproval(q) \/ FinishProducer(q)
    PROVE  Inv'
<1> USE RequestsAssumption DEF AnnounceApproval, FinishProducer, At, resourceVars
<1>1. TypeInv'
  <2>1. producer' \in [Requests -> ProducerStep]
    BY DEF Inv, TypeInv, ProducerStep
  <2>2. SessionSound'
    BY SessionUnchanged DEF Inv, TypeInv
  <2>3. QED BY <2>1, <2>2 DEF Inv, TypeInv, StatusSound
<1>2. ASSUME NEW p \in Requests PROVE StreamContext(p)'
  <2>1. CASE p = q
    BY <2>1 DEF Inv, TypeInv, StreamContext, Request, Run, ProducerAlive
  <2>2. CASE p # q
    BY <2>2, OthersKept DEF Inv, TypeInv
  <2>3. QED BY <2>1, <2>2
<1>3. QED BY <1>1, <1>2 DEF Inv

-----------------------------------------------------------------------------
(* The generator and the cleanup.                                           *)

LEMMA DeliverInv ==
    ASSUME Inv, NEW q \in Requests, Deliver(q)
    PROVE  Inv'
<1> USE RequestsAssumption DEF Deliver, historyVars, cleanupVars, resourceVars
<1>1. TypeInv'
  <2>1. SessionSound'
    BY SessionUnchanged DEF Inv, TypeInv
  <2>2. QED BY <2>1 DEF Inv, TypeInv, StatusSound
<1>2. ASSUME NEW p \in Requests PROVE StreamContext(p)'
  <2>1. CASE p = q
    BY <2>1 DEF Inv, TypeInv, StreamContext, Request, Run, ProducerAlive
  <2>2. CASE p # q
    BY <2>2, OthersKept DEF Inv, TypeInv
  <2>3. QED BY <2>1, <2>2
<1>3. QED BY <1>1, <1>2 DEF Inv

LEMMA EndOfStreamInv ==
    ASSUME Inv, NEW q \in Requests, EndOfStream(q)
    PROVE  Inv'
<1> USE RequestsAssumption DEF EndOfStream, To, historyVars, cleanupVars, resourceVars
<1>1. TypeInv'
  <2>1. request' \in [Requests -> Request]
    <3>1. request[q] \in Request
      BY DEF Inv, TypeInv
    <3>2. [request[q] EXCEPT !.phase = "leaving"] \in Request
      BY <3>1 DEF Request, Phase
    <3>3. QED BY <3>2 DEF Inv, TypeInv
  <2>2. SessionSound'
    BY SessionUnchanged DEF Inv, TypeInv
  <2>3. QED BY <2>1, <2>2 DEF Inv, TypeInv, StatusSound
<1>2. ASSUME NEW p \in Requests PROVE StreamContext(p)'
  <2>1. CASE p = q
    BY <2>1 DEF Inv, TypeInv, StreamContext, Request, Run, ProducerAlive
  <2>2. CASE p # q
    BY <2>2, OthersKept DEF Inv, TypeInv
  <2>3. QED BY <2>1, <2>2
<1>3. QED BY <1>1, <1>2 DEF Inv

LEMMA ClientLeavesInv ==
    ASSUME Inv, NEW q \in Requests, ClientLeaves(q)
    PROVE  Inv'
<1>r. request' \in [Requests -> Request]
  <2>1. PICK termination \in {"left", request[q].termination} :
              request' = [request EXCEPT ![q].phase = "leaving", ![q].termination = termination]
    BY DEF ClientLeaves
  <2>2. request[q] \in Request /\ termination \in Termination
    BY DEF Inv, TypeInv, Request, Termination
  <2>3. [request[q] EXCEPT !.phase = "leaving", !.termination = termination] \in Request
    BY <2>2 DEF Request, Phase
  <2>4. QED BY <2>1, <2>3 DEF Inv, TypeInv
<1> USE RequestsAssumption DEF ClientLeaves, historyVars, cleanupVars, resourceVars
<1>1. TypeInv'
  <2>1. request' \in [Requests -> Request]
    BY <1>r
  <2>2. SessionSound'
    BY SessionUnchanged DEF Inv, TypeInv
  <2>3. QED BY <2>1, <2>2 DEF Inv, TypeInv, StatusSound
<1>2. ASSUME NEW p \in Requests PROVE StreamContext(p)'
  <2>1. CASE p = q
    BY <2>1 DEF Inv, TypeInv, StreamContext, Request, Run, ProducerAlive
  <2>2. CASE p # q
    BY <2>2, OthersKept DEF Inv, TypeInv
  <2>3. QED BY <2>1, <2>2
<1>3. QED BY <1>1, <1>2 DEF Inv

LEMMA CallCleanupInv ==
    ASSUME Inv, NEW q \in Requests, CallCleanup(q)
    PROVE  Inv'
<1> USE RequestsAssumption DEF CallCleanup, BeginCleanup, To, resourceVars
<1>a. Run(q) \in Requests
  BY DEF Inv, StreamContext
<1>t. request[q].termination \in Termination /\ request[q].hitl_retained \in BOOLEAN
  BY DEF Inv, TypeInv, Request
<1>1. TypeInv'
  <2>1. request' \in [Requests -> Request]
    <3>1. request[q] \in Request
      BY DEF Inv, TypeInv
    <3>2. [request[q] EXCEPT !.phase = "done"] \in Request
      BY <3>1 DEF Request, Phase
    <3>3. QED BY <3>2 DEF Inv, TypeInv
  <2>2. lifecycle' \in [Requests -> Lifecycle]
    <3>1. lifecycle[q] \in Lifecycle
      BY DEF Inv, TypeInv
    <3>2. [lifecycle[q] EXCEPT !.cleanup = "waiting", !.stop_requested = TRUE,
             !.reason = request[q].termination, !.retain_for_hitl = request[q].hitl_retained,
             !.errors = {}, !.producer_timed_out = FALSE,
             !.workspace_retained = FALSE, !.cleanup_complete = FALSE] \in Lifecycle
      BY <3>1, <1>t DEF Lifecycle, CleanupStep
    <3>3. QED BY <3>2 DEF Inv, TypeInv, CleaningFor
  <2>3. StatusSound'
    BY <1>a, StatusUpdateLifecycle DEF Inv, TypeInv, LifecycleStatus
  <2>4. SessionSound'
    BY SessionUnchanged DEF Inv, TypeInv
  <2>5. QED BY <2>1, <2>2, <2>3, <2>4 DEF Inv, TypeInv, StatusSound
<1>2. ASSUME NEW p \in Requests PROVE StreamContext(p)'
  <2>1. CASE p = q
    BY <2>1 DEF Inv, TypeInv, StreamContext, Request, Run, ProducerAlive, CleaningFor
  <2>2. CASE p # q
    BY <2>2, OthersKept DEF Inv, TypeInv
  <2>3. QED BY <2>1, <2>2
<1>3. QED BY <1>1, <1>2 DEF Inv

LEMMA TimeOutInv ==
    ASSUME Inv, NEW q \in Requests, TimeOutProducer(q)
    PROVE  Inv'
<1> USE RequestsAssumption DEF TimeOutProducer, ProducerTimesOut, Slow, resourceVars
<1>a. Run(q) \in Requests
  BY DEF Inv, StreamContext
<1>1. TypeInv'
  <2>1. lifecycle' \in [Requests -> Lifecycle]
    <3>1. lifecycle[q] \in Lifecycle
      BY DEF Inv, TypeInv
    <3>2. [lifecycle[q] EXCEPT !.cleanup = "deferred", !.producer_timed_out = TRUE] \in Lifecycle
      BY <3>1 DEF Lifecycle, CleanupStep
    <3>3. QED BY <3>2 DEF Inv, TypeInv
  <2>2. StatusSound'
    BY <1>a, StatusUpdateLifecycle DEF Inv, TypeInv, LifecycleStatus
  <2>3. SessionSound'
    BY SessionUnchanged DEF Inv, TypeInv
  <2>4. QED BY <2>1, <2>2, <2>3 DEF Inv, TypeInv, StatusSound
<1>2. ASSUME NEW p \in Requests PROVE StreamContext(p)'
  <2>1. CASE p = q
    BY <2>1 DEF Inv, TypeInv, StreamContext, Request, Run, ProducerAlive
  <2>2. CASE p # q
    BY <2>2, OthersKept DEF Inv, TypeInv
  <2>3. QED BY <2>1, <2>2
<1>3. QED BY <1>1, <1>2 DEF Inv

\* What each step of the cleanup does, seen from the rest of the service.
CleanupKeeps(q) ==
    /\ \A p \in Requests \ {q} : lifecycle'[p] = lifecycle[p]
    /\ lifecycle[q].cleanup # "none" /\ lifecycle'[q].stop_requested
    /\ lifecycle'[q].cleanup \in {"releasing", "checkpoint", "lease", "workspace", "reporting", "done"}
    /\ lifecycle'[q].cleanup \in {"releasing", "checkpoint", "lease"} =>
         lifecycle[q].cleanup \in {"waiting", "deferred", "releasing", "checkpoint"}
    /\ producer' = producer /\ ~ProducerAlive(q)
    /\ vault' \subseteq vault /\ (q \in vault' => lifecycle'[q].cleanup = "releasing")

CleanupTyped ==
    /\ lifecycle' \in [Requests -> Lifecycle]
    /\ StatusSound' /\ SessionSound'
    /\ active_runs' \in [Requests -> Requests \cup {None}]
    /\ checkpoint' \in Checkpoint \cup {None} /\ workspaces' \subseteq Requests

LEMMA JoinStep ==
    ASSUME Inv, NEW q \in Requests, JoinProducer(q) \/ JoinDeferred(q)
    PROVE  CleanupTyped /\ CleanupKeeps(q)
<1> USE DEF JoinProducer, JoinDeferred, resourceVars
<1>1. lifecycle[q] \in Lifecycle /\ lifecycle[q].stop_requested
  BY DEF Inv, TypeInv, StreamContext
<1>2. /\ [lifecycle[q] EXCEPT !.cleanup = "releasing"] \in Lifecycle
      /\ [lifecycle[q] EXCEPT !.cleanup = "releasing", !.retain_for_hitl = FALSE] \in Lifecycle
  BY <1>1 DEF Lifecycle, CleanupStep
<1>3. lifecycle' \in [Requests -> Lifecycle]
  BY <1>2 DEF Inv, TypeInv
<1>4. SessionSound'
  BY SessionUnchanged DEF Inv, TypeInv
<1>5. CleanupTyped
  BY <1>3, <1>4 DEF CleanupTyped, Inv, TypeInv, StatusSound
<1>6. CleanupKeeps(q)
  BY <1>1 DEF CleanupKeeps, Inv, TypeInv, Lifecycle
<1>7. QED BY <1>5, <1>6

LEMMA RevokeStep ==
    ASSUME Inv, NEW q \in Requests, NEW run \in Requests, RevokeCredential(q, run)
    PROVE  CleanupTyped /\ CleanupKeeps(q)
<1> DEFINE workspace == Discovered(q)
           retained == ValidRetention(q, workspace)
           errors == IF lifecycle[q].retain_for_hitl /\ ~retained THEN {"retention"} ELSE {}
           step == IF retained THEN "done" ELSE "checkpoint"
           new == [lifecycle[q] EXCEPT
                     !.workspace = workspace,
                     !.released = lifecycle[q].released \cup {"credential"},
                     !.workspace_retained = retained,
                     !.cleanup_complete = retained,
                     !.cleanup = step,
                     !.errors = errors]
<1>1. lifecycle[q] \in Lifecycle /\ lifecycle[q].stop_requested /\ lifecycle[q].cleanup = "releasing"
  BY DEF RevokeCredential, Inv, TypeInv, StreamContext
<1>2. workspace \in Requests \cup {None} /\ retained \in BOOLEAN
  BY <1>1 DEF Discovered, ValidRetention, Inv, TypeInv, Lifecycle, Checkpoint
<1>3. lifecycle' = [lifecycle EXCEPT ![q] = new]
  BY DEF RevokeCredential
<1>4. errors \in SUBSET (Resource \cup {"discovery", "retention"}) /\ step \in CleanupStep
      /\ lifecycle[q].released \cup {"credential"} \in SUBSET Resource
  BY <1>1 DEF CleanupStep, Resource, Lifecycle
<1>5. new \in Lifecycle /\ new.stop_requested /\ new.cleanup = step
  <2> HIDE DEF workspace, retained, errors, step
  <2>1. QED BY <1>1, <1>2, <1>4 DEF Lifecycle
<1>6. IF retained THEN UpdateWaiting(run) ELSE UNCHANGED status
  BY DEF RevokeCredential
<1>7. /\ vault' = vault \ {q} /\ producer' = producer
      /\ UNCHANGED <<active_runs, session, checkpoint, workspaces>>
  BY DEF RevokeCredential, Revoke
<1> HIDE DEF new
<1>8. StatusSound'
  BY <1>6, StatusUpdateWaiting DEF Inv, TypeInv, StatusSound
<1>9. SessionSound'
  BY <1>7, SessionUnchanged DEF Inv, TypeInv
<1>10. CleanupTyped
  BY <1>3, <1>5, <1>7, <1>8, <1>9 DEF CleanupTyped, Inv, TypeInv
<1>11. ~ProducerAlive(q)
  BY <1>1 DEF Inv, StreamContext
<1>12. CleanupKeeps(q)
  BY <1>1, <1>3, <1>5, <1>7, <1>11 DEF CleanupKeeps, Inv, TypeInv
<1>13. QED BY <1>10, <1>12

LEMMA DiscoveryStep ==
    ASSUME Inv, NEW q \in Requests, DiscoveryRaises(q)
    PROVE  CleanupTyped /\ CleanupKeeps(q)
<1> DEFINE errors == IF lifecycle[q].retain_for_hitl THEN {"discovery", "retention"}
                     ELSE {"discovery"}
           new == [lifecycle[q] EXCEPT
                     !.released = lifecycle[q].released \cup {"credential"},
                     !.cleanup = "checkpoint", !.errors = errors]
<1>1. lifecycle[q] \in Lifecycle /\ lifecycle[q].stop_requested /\ lifecycle[q].cleanup = "releasing"
  BY DEF DiscoveryRaises, Inv, TypeInv, StreamContext
<1>2. lifecycle' = [lifecycle EXCEPT ![q] = new]
  BY DEF DiscoveryRaises
<1>3. errors \in SUBSET (Resource \cup {"discovery", "retention"})
      /\ lifecycle[q].released \cup {"credential"} \in SUBSET Resource
  BY <1>1 DEF Resource, Lifecycle
<1>4. new \in Lifecycle /\ new.stop_requested /\ new.cleanup = "checkpoint"
  <2> HIDE DEF errors
  <2>1. QED BY <1>1, <1>3 DEF Lifecycle, CleanupStep
<1>5. /\ vault' = vault \ {q} /\ producer' = producer
      /\ UNCHANGED <<status, active_runs, session, checkpoint, workspaces>>
  BY DEF DiscoveryRaises, Revoke
<1> HIDE DEF new
<1>6. SessionSound'
  BY <1>5, SessionUnchanged DEF Inv, TypeInv
<1>7. CleanupTyped
  BY <1>2, <1>4, <1>5, <1>6 DEF CleanupTyped, Inv, TypeInv, StatusSound
<1>8. ~ProducerAlive(q)
  BY <1>1 DEF Inv, StreamContext
<1>9. CleanupKeeps(q)
  BY <1>1, <1>2, <1>4, <1>5, <1>8 DEF CleanupKeeps, Inv, TypeInv
<1>10. QED BY <1>7, <1>9

\* The object of a cleanup that goes on to the next resource, released or not.
LEMMA ResourceStep ==
    ASSUME Inv, NEW q \in Requests, lifecycle[q].cleanup \in {"checkpoint", "lease", "workspace"},
           NEW resource \in Resource, NEW next \in {"lease", "workspace", "reporting"},
           Released(q, resource, next) \/ Raises(q, resource, next)
    PROVE  /\ lifecycle' \in [Requests -> Lifecycle]
           /\ \A p \in Requests \ {q} : lifecycle'[p] = lifecycle[p]
           /\ lifecycle'[q].cleanup = next /\ lifecycle'[q].stop_requested
           /\ ~ProducerAlive(q) /\ q \notin vault
<1>1. lifecycle[q] \in Lifecycle /\ lifecycle[q].stop_requested
  BY DEF Inv, TypeInv, StreamContext
<1>2. ~ProducerAlive(q) /\ q \notin vault
  BY DEF Inv, StreamContext
<1>3. PICK released \in SUBSET Resource, errors \in SUBSET (Resource \cup {"discovery", "retention"}) :
           lifecycle' = [lifecycle EXCEPT ![q] =
               [lifecycle[q] EXCEPT !.cleanup = next, !.released = released, !.errors = errors]]
  <2>1. CASE Released(q, resource, next)
    <3>1. lifecycle[q].released \cup {resource} \in SUBSET Resource
          /\ lifecycle[q].errors \in SUBSET (Resource \cup {"discovery", "retention"})
      BY <1>1 DEF Lifecycle
    <3>2. lifecycle' = [lifecycle EXCEPT ![q] =
               [lifecycle[q] EXCEPT !.cleanup = next,
                   !.released = lifecycle[q].released \cup {resource}, !.errors = lifecycle[q].errors]]
      BY <1>1, <2>1 DEF Released, Inv, TypeInv, Lifecycle
    <3>3. QED BY <3>1, <3>2
  <2>2. CASE Raises(q, resource, next)
    <3>1. lifecycle[q].errors \cup {resource} \in SUBSET (Resource \cup {"discovery", "retention"})
          /\ lifecycle[q].released \in SUBSET Resource
      BY <1>1 DEF Lifecycle
    <3>2. lifecycle' = [lifecycle EXCEPT ![q] =
               [lifecycle[q] EXCEPT !.cleanup = next, !.released = lifecycle[q].released,
                   !.errors = lifecycle[q].errors \cup {resource}]]
      BY <1>1, <2>2 DEF Raises, Inv, TypeInv, Lifecycle
    <3>3. QED BY <3>1, <3>2
  <2>3. QED BY <2>1, <2>2
<1>4. [lifecycle[q] EXCEPT !.cleanup = next, !.released = released, !.errors = errors] \in Lifecycle
  BY <1>1 DEF Lifecycle, CleanupStep
<1>5. [lifecycle[q] EXCEPT !.cleanup = next, !.released = released, !.errors = errors].stop_requested
      /\ [lifecycle[q] EXCEPT !.cleanup = next, !.released = released, !.errors = errors].cleanup = next
  BY <1>1 DEF Lifecycle
<1>6. QED BY <1>2, <1>3, <1>4, <1>5 DEF Inv, TypeInv

LEMMA ReleaseStep ==
    ASSUME Inv, NEW q \in Requests, NEW run \in Requests,
           DeleteCheckpoint(q) \/ ReleaseLease(q, run) \/ DeleteWorkspace(q)
    PROVE  CleanupTyped /\ CleanupKeeps(q)
<1>1. \E resource \in Resource, next \in {"lease", "workspace", "reporting"} :
          /\ Released(q, resource, next) \/ Raises(q, resource, next)
          /\ next = "lease" => lifecycle[q].cleanup = "checkpoint"
  BY DEF DeleteCheckpoint, ReleaseLease, DeleteWorkspace, Resource
<1>2. lifecycle[q].cleanup \in {"checkpoint", "lease", "workspace"}
  BY DEF DeleteCheckpoint, ReleaseLease, DeleteWorkspace
<1>3. /\ UNCHANGED <<status, active_runs, producer, vault>>
      /\ checkpoint' \in {checkpoint, None} /\ workspaces' \subseteq workspaces
      /\ UNCHANGED session \/ FinishOwnedRun(run)
  BY DEF DeleteCheckpoint, ReleaseLease, DeleteWorkspace
<1>4. SessionSound'
  <2>1. SessionSound
    BY DEF Inv, TypeInv
  <2>2. QED BY <1>3, <2>1, SessionUnchanged, SessionFinish
<1>5. CleanupTyped
  BY <1>1, <1>2, <1>3, <1>4, ResourceStep DEF CleanupTyped, Inv, TypeInv, StatusSound
<1>6. CleanupKeeps(q)
  BY <1>1, <1>2, <1>3, ResourceStep DEF CleanupKeeps
<1>7. QED BY <1>5, <1>6

LEMMA ReportStep ==
    ASSUME Inv, NEW q \in Requests, NEW run \in Requests, ReportCleanup(q, run)
    PROVE  CleanupTyped /\ CleanupKeeps(q)
<1> DEFINE complete == lifecycle[q].errors = {}
           new == IF complete THEN Finished(q) ELSE [lifecycle[q] EXCEPT !.cleanup = "done"]
<1>1. lifecycle[q] \in Lifecycle /\ lifecycle[q].stop_requested /\ lifecycle[q].cleanup = "reporting"
  BY DEF ReportCleanup, Inv, TypeInv, StreamContext
<1>2. lifecycle' = [lifecycle EXCEPT ![q] = new]
  BY <1>1 DEF ReportCleanup, Inv, TypeInv
<1>3. new \in Lifecycle /\ new.stop_requested /\ new.cleanup = "done"
  <2>1. Finished(q) \in Lifecycle /\ Finished(q).stop_requested /\ Finished(q).cleanup = "done"
    BY <1>1 DEF Finished, NewLifecycle, Lifecycle, CleanupStep, Termination
  <2>2. LET d == [lifecycle[q] EXCEPT !.cleanup = "done"] IN
            d \in Lifecycle /\ d.stop_requested /\ d.cleanup = "done"
    BY <1>1 DEF Lifecycle, CleanupStep
  <2>3. QED BY <2>1, <2>2
<1> HIDE DEF new
<1>4. StatusSound'
  <2>1. PICK lc \in {"cleanup_completed", "cleanup_failed"}, terminal \in {"completed", "failed"} :
            Update(run, lc, terminal, FALSE)
    BY DEF ReportCleanup
  <2>2. StatusSound /\ lc \in LifecycleStatus
    BY DEF Inv, TypeInv, LifecycleStatus
  <2>3. QED BY <2>1, <2>2, StatusUpdate
<1>5. UNCHANGED <<producer, session, vault, checkpoint, workspaces>>
  BY DEF ReportCleanup, resourceVars
<1>6. SessionSound'
  BY <1>5, SessionUnchanged DEF Inv, TypeInv
<1>7. active_runs' \in [Requests -> Requests \cup {None}]
  BY DEF ReportCleanup, Unregister, Inv, TypeInv
<1>8. ~ProducerAlive(q) /\ q \notin vault
  BY <1>1 DEF Inv, StreamContext
<1>9. CleanupTyped
  BY <1>2, <1>3, <1>4, <1>5, <1>6, <1>7 DEF CleanupTyped, Inv, TypeInv
<1>10. CleanupKeeps(q)
  BY <1>1, <1>2, <1>3, <1>5, <1>8 DEF CleanupKeeps, Inv, TypeInv
<1>11. QED BY <1>9, <1>10

LEMMA CleanupStepFacts ==
    ASSUME Inv, NEW q \in Requests, CleanupProceeds(q, Run(q))
    PROVE  CleanupTyped /\ CleanupKeeps(q) /\ Run(q) \in Requests
<1>1. lifecycle[q].cleanup # "none"
  BY DEF CleanupProceeds, JoinProducer, JoinDeferred, RevokeCredential, DiscoveryRaises,
         DeleteCheckpoint, ReleaseLease, DeleteWorkspace, ReportCleanup
<1>2. Run(q) \in Requests
  BY <1>1 DEF Inv, StreamContext
<1>3. QED BY <1>2, JoinStep, RevokeStep, DiscoveryStep, ReleaseStep, ReportStep DEF CleanupProceeds

LEMMA CleanUpInv == ASSUME Inv, NEW q \in Requests, CleanUp(q) PROVE Inv'
<1>1. CleanupTyped /\ CleanupKeeps(q) /\ Run(q) \in Requests
  BY CleanupStepFacts DEF CleanUp
<1>2. request[q].phase = "done" /\ request[q] \in Request
  BY <1>1 DEF CleanupKeeps, Inv, TypeInv, StreamContext
<1>3. PICK new \in Request : /\ request' = [request EXCEPT ![q] = new]
                             /\ new.phase = "done" /\ new.run = Run(q)
  <2>1. [NewRequest EXCEPT !.phase = "done", !.run = Run(q)] \in Request
    BY <1>1 DEF NewRequest, Request, Phase, Termination
  <2>2. CASE lifecycle'[q].cleanup = "done"
    BY <2>1, <2>2 DEF CleanUp, NewRequest
  <2>3. CASE lifecycle'[q].cleanup # "done"
    <3>1. request' = [request EXCEPT ![q] = request[q]]
      BY <2>3 DEF CleanUp, Inv, TypeInv
    <3>2. QED BY <1>2, <3>1 DEF Run
  <2>4. QED BY <2>2, <2>3
<1>4. request' \in [Requests -> Request] /\ request'[q] = new
      /\ \A p \in Requests \ {q} : request'[p] = request[p]
  BY <1>3 DEF Inv, TypeInv
<1>5. TypeInv'
  BY <1>1, <1>4 DEF TypeInv, CleanupTyped, CleanupKeeps, Inv
<1>6. ASSUME NEW p \in Requests PROVE StreamContext(p)'
  <2>1. CASE p = q
    BY <1>1, <1>3, <1>4, <2>1 DEF CleanupKeeps, StreamContext, Run, ProducerAlive
  <2>2. CASE p # q
    BY <1>1, <1>4, <2>2, OthersKept DEF CleanupKeeps, Inv
  <2>3. QED BY <2>1, <2>2
<1>7. QED BY <1>5, <1>6 DEF Inv

-----------------------------------------------------------------------------
(* The user, the time-outs, and the end of the service.                     *)

\* Steps after which every request has the object, the thread and the locals it
\* had.
LEMMA RequestsKept ==
    ASSUME Inv, UNCHANGED <<request, lifecycle, producer, active_runs, checkpoint, workspaces>>,
           vault' \subseteq vault, StatusSound', SessionSound'
    PROVE  Inv'
<1>1. TypeInv'
  BY DEF Inv, TypeInv
<1>2. ASSUME NEW p \in Requests PROVE StreamContext(p)'
  BY OthersKept DEF Inv
<1>3. QED BY <1>1, <1>2 DEF Inv

LEMMA EnvironmentInv ==
    ASSUME Inv, NEW q \in Requests, NEW verdict \in Verdicts,
           UserDecides(q, verdict) \/ CredentialExpires(q) \/ StatusExpires(q)
    PROVE  Inv'
<1>1. SessionSound /\ StatusSound
  BY DEF Inv, TypeInv
<1>2. CASE UserDecides(q, verdict)
  <2>1. Decide(q, verdict)
    BY <1>2 DEF UserDecides
  <2>2. SessionSound'
    BY <1>1, <2>1, SessionDecide
  <2>3. QED BY <1>1, <1>2, <2>2, RequestsKept DEF UserDecides, StatusSound
<1>3. CASE CredentialExpires(q)
  <2>1. SessionSound'
    BY <1>1, <1>3, SessionUnchanged DEF CredentialExpires
  <2>2. QED BY <1>1, <1>3, <2>1, RequestsKept DEF CredentialExpires, PurgeCredential, StatusSound
<1>4. CASE StatusExpires(q)
  <2>1. SessionSound'
    BY <1>1, <1>4, SessionUnchanged DEF StatusExpires
  <2>2. DropStatus(q)
    BY <1>4 DEF StatusExpires
  <2>3. StatusSound'
    BY <1>1, <2>2, StatusStart
  <2>4. QED BY <1>1, <1>4, <2>1, <2>3, RequestsKept DEF StatusExpires
<1>5. QED BY <1>2, <1>3, <1>4

\* A cleanup is repeated of a request whose object is done.
LEMMA ShutdownInv == ASSUME Inv, Shutdown PROVE Inv'
<1> DEFINE again == {q \in Requests : Repeats(q) /\ \E run \in Requests : active_runs[run] = q}
           Cleaning(q) == CleaningFor(q, "service_shutdown", FALSE)
<1>1. lifecycle' = [q \in Requests |-> IF q \in again THEN Cleaning(q) ELSE lifecycle[q]]
  BY DEF Shutdown
<1>2. ASSUME NEW q \in Requests
      PROVE  Cleaning(q) \in Lifecycle /\ Cleaning(q).cleanup = "waiting" /\ Cleaning(q).stop_requested
  <2>1. lifecycle[q] \in Lifecycle
    BY DEF Inv, TypeInv
  <2>2. QED BY <2>1 DEF CleaningFor, Lifecycle, CleanupStep, Termination
<1>3. ASSUME NEW q \in again PROVE q \in Requests /\ lifecycle[q].cleanup = "done"
  BY DEF Repeats
<1>4. /\ UNCHANGED <<active_runs, producer, request, session, vault, checkpoint, workspaces>>
  BY DEF Shutdown, resourceVars
<1>5. StatusSound'
  <2>1. \A s \in Snapshot : [s EXCEPT !.lifecycle = "cancelling"] \in Snapshot
    BY DEF Snapshot, LifecycleStatus
  <2>2. status' = [run \in Requests |->
            IF active_runs[run] \in again /\ status[run] # None
            THEN [status[run] EXCEPT !.lifecycle = "cancelling"] ELSE status[run]]
    BY DEF Shutdown
  <2> HIDE DEF again
  <2>3. QED BY <2>1, <2>2 DEF Inv, TypeInv, StatusSound
<1>6. SessionSound'
  BY <1>4, SessionUnchanged DEF Inv, TypeInv
<1> HIDE DEF again, Cleaning
<1>7. TypeInv'
  BY <1>1, <1>2, <1>4, <1>5, <1>6 DEF Inv, TypeInv
<1>8. ASSUME NEW q \in Requests PROVE StreamContext(q)'
  <2>1. CASE q \in again
    BY <1>1, <1>2, <1>3, <1>4, <2>1 DEF Inv, StreamContext, Run, ProducerAlive
  <2>2. CASE q \notin again
    BY <1>1, <1>4, <2>2, OthersKept DEF Inv
  <2>3. QED BY <2>1, <2>2
<1>9. QED BY <1>7, <1>8 DEF Inv
-----------------------------------------------------------------------------
LEMMA HandlerInv ==
    ASSUME Inv, NEW q \in Requests, Admit(q) \/ Handler(q) \/ LoseResponse(q) PROVE Inv'
BY AdmitInv, ResumeInv, NothingToResumeInv, BeginNewRunInv, RefuseInv, LostInv, StartGeneratorInv
   DEF Handler

LEMMA ProducerInv == ASSUME Inv, NEW q \in Requests, Producer(q) PROVE Inv'
BY ProducerStopsInv, ResumeGraphInv, LeaveGraphInv, BeginGraphInv, GraphSuspendsInv,
   GraphFailsInv, GraphAppliesInv, GraphRaisesInv, SeeSuspensionInv, SeeOutcomeInv,
   ReportOutcomeInv, AskApprovalInv, RetainInv, RecoveryFailsInv, MarkRetainedInv, AnnounceInv
   DEF Producer

LEMMA ConsumerInv ==
    ASSUME Inv, NEW q \in Requests,
           Consumer(q) \/ ClientLeaves(q) \/ CleanUp(q) \/ TimeOutProducer(q)
    PROVE  Inv'
BY DeliverInv, EndOfStreamInv, CallCleanupInv, ClientLeavesInv, CleanUpInv, TimeOutInv
   DEF Consumer

LEMMA NextInv == ASSUME Inv, [ServiceNext]_svars PROVE Inv'
<1>1. ASSUME NEW q \in Requests,
             \/ Admit(q) \/ Handler(q) \/ LoseResponse(q)
             \/ Producer(q) \/ Consumer(q) \/ ClientLeaves(q) \/ CleanUp(q) \/ TimeOutProducer(q)
      PROVE  Inv'
  BY <1>1, HandlerInv, ProducerInv, ConsumerInv
<1>2. ASSUME NEW q \in Requests, NEW verdict \in Verdicts,
             CredentialExpires(q) \/ StatusExpires(q) \/ UserDecides(q, verdict)
      PROVE  Inv'
  BY <1>2, EnvironmentInv
<1>3. CASE SessionExpires
  <2>1. SessionSound' /\ StatusSound'
    BY <1>3, SessionUnchanged DEF SessionExpires, ExpireSession, Inv, TypeInv, StatusSound
  <2>2. QED BY <1>3, <2>1, RequestsKept DEF SessionExpires
<1>4. CASE Shutdown
  BY <1>4, ShutdownInv
<1>5. CASE Resting \/ UNCHANGED svars
  <2>1. UNCHANGED svars
    BY <1>5 DEF Resting
  <2>2. SessionSound' /\ StatusSound'
    BY <2>1, SessionUnchanged DEF svars, cleanupVars, resourceVars, Inv, TypeInv, StatusSound
  <2>3. QED BY <2>1, <2>2, RequestsKept DEF svars, cleanupVars, resourceVars
<1>6. \E verdict \in Verdicts : TRUE
  BY DEF Verdicts
<1>7. QED BY <1>1, <1>2, <1>3, <1>4, <1>5, <1>6 DEF ServiceNext

-----------------------------------------------------------------------------
(* One request at a time holds the run.                                     *)

\* Steps that make nobody a holder and leave the lease to who has it.
LEMMA HoldersKept ==
    ASSUME OneHolder, overtaken \subseteq overtaken', down => down',
           Open' => /\ Open /\ session'.active_run = session.active_run
                    /\ session.approval = None => session'.approval = None,
           \A p \in Requests :
               /\ Holds(p)' => Holds(p) /\ Run(p)' = Run(p)
               /\ request'[p].phase = "accepted" => request[p].phase = "accepted"
    PROVE  OneHolder'
BY DEF OneHolder, LeasedTo

\* One request moves on, and everything else stays.
LEMMA HolderMoves ==
    ASSUME Inv, OneHolder, NEW q \in Requests, overtaken' = overtaken, down' = down,
           session' = session,
           \A p \in Requests \ {q} : request'[p] = request[p] /\ lifecycle'[p] = lifecycle[p],
           Holds(q)' => Holds(q) /\ Run(q)' = Run(q),
           request'[q].phase = "accepted" => request[q].phase = "accepted"
    PROVE  OneHolder'
<1>1. \A p \in Requests :
          /\ Holds(p)' => Holds(p) /\ Run(p)' = Run(p)
          /\ request'[p].phase = "accepted" => request[p].phase = "accepted"
  BY DEF Holds, Run
<1>2. QED BY <1>1, HoldersKept DEF Open

LEMMA HandlerHolds ==
    ASSUME Inv, OneHolder, NEW q \in Requests,
           \/ Admit(q) \/ NothingToResume(q) \/ RefuseRun(q) \/ RaiseInHandler(q)
           \/ LoseResponse(q) \/ StartGenerator(q)
    PROVE  OneHolder'
<1> USE DEF Admit, NothingToResume, RefuseRun, RaiseInHandler, LoseResponse, StartGenerator,
            To, CreateLifecycle, historyVars, cleanupVars, resourceVars
<1>1. \A p \in Requests \ {q} : request'[p] = request[p] /\ lifecycle'[p] = lifecycle[p]
  BY DEF Inv, TypeInv
<1>2. request[q] \in Request /\ request'[q].run = request[q].run
  BY DEF Inv, TypeInv, Request
<1>3. Holds(q)' => Holds(q) /\ Run(q)' = Run(q)
  BY <1>2 DEF Inv, TypeInv, Holds, Run, Request, NewLifecycle
<1>4. request'[q].phase # "accepted"
  BY DEF Inv, TypeInv, Request
<1>5. overtaken' = overtaken /\ down' = down /\ session' = session
  OBVIOUS
<1>6. QED BY <1>1, <1>3, <1>4, <1>5, HolderMoves

\* A run begins when nobody has the lease, so nobody holds one.
LEMMA BeginHolds ==
    ASSUME Inv, OneHolder, NEW q \in Requests, BeginNewRun(q)
    PROVE  OneHolder'
<1> SUFFICES ASSUME overtaken' = {}, ~down' PROVE OneHolder'
  BY DEF OneHolder
<1>1. overtaken = {} /\ ~down /\ LeasedTo(None) /\ session.approval = None
  BY DEF BeginNewRun, BeginRun, historyVars, Inv, TypeInv, SessionSound, SessionTypeOK,
         LeasedTo, Open
<1>2. ASSUME NEW p \in Requests PROVE ~Holds(p)
  <2>1. Holds(p) => LeasedTo(Run(p)) /\ Run(p) \in Requests
    BY <1>1 DEF OneHolder, LeasedTo, Holds, Inv, StreamContext
  <2>2. QED BY <1>1, <2>1, RequestsAssumption DEF LeasedTo
<1>3. session \in SessionRecord
  BY <1>1 DEF Inv, TypeInv, SessionSound, LeasedTo, Open
<1>4. session'.active_run = q /\ session'.approval = None
  BY <1>1, <1>3 DEF BeginNewRun, BeginRun, SessionRecord
<1>5. Run(q)' = q /\ \A p \in Requests \ {q} : ~Holds(p)'
  BY <1>2 DEF BeginNewRun, Inv, TypeInv, Request, Run, Holds
<1>6. QED BY <1>4, <1>5 DEF OneHolder, LeasedTo, Holds

\* A decision is consumed when the one who asked for it has left.
LEMMA ResumeHolds ==
    ASSUME Inv, OneHolder, NEW q \in Requests, NEW run \in Requests, NEW verdict \in Verdicts,
           ResumeRun(q, run, verdict)
    PROVE  OneHolder'
<1> SUFFICES ASSUME overtaken' = {}, ~down' PROVE OneHolder'
  BY DEF OneHolder
<1>1. overtaken = {} /\ ~down /\ ~Overtakes(run)
  BY DEF ResumeRun
<1>2. Open /\ session.active_run = run /\ session.approval # None
  BY DEF ResumeRun, ConsumeDecision, Decided
<1>3. ASSUME NEW p \in Requests PROVE ~Holds(p)
  <2>1. SUFFICES ASSUME Holds(p) PROVE FALSE
    OBVIOUS
  <2>2. Run(p) = run /\ request[p].phase # "accepted"
    BY <1>1, <1>2, <2>1 DEF OneHolder, LeasedTo
  <2>3. QED BY <1>1, <2>1, <2>2 DEF Overtakes, Holds
<1>4. session \in SessionRecord
  BY <1>2 DEF Inv, TypeInv, SessionSound, Open
<1>5. session'.active_run = run /\ session'.approval = None
  BY <1>2, <1>4 DEF ResumeRun, ConsumeDecision, SessionRecord
<1>6. Run(q)' = run /\ \A p \in Requests \ {q} : ~Holds(p)'
  BY <1>3 DEF ResumeRun, Inv, TypeInv, Request, Run, Holds
<1>7. QED BY <1>5, <1>6 DEF OneHolder, LeasedTo, Holds

\* What the thread of a request leaves alone.
ProducerFrame ==
    /\ \A p \in Requests : /\ request'[p].phase = request[p].phase /\ Run(p)' = Run(p)
                           /\ lifecycle'[p].cleanup = lifecycle[p].cleanup
    /\ overtaken' = overtaken /\ down' = down

LEMMA GraphFrame ==
    ASSUME Inv, NEW q \in Requests,
           \/ ProducerStops(q) \/ ResumeGraph(q) \/ LeaveGraphSuspended(q) \/ BeginGraph(q)
           \/ GraphSuspends(q) \/ GraphApplies(q) \/ GraphRaises(q)
           \/ \E stream_failed \in BOOLEAN : GraphFails(q, stream_failed)
    PROVE  ProducerFrame /\ session' = session
<1> USE DEF Inv, TypeInv, ProducerFrame, Run, Request, resourceVars, historyVars
<1>1. CASE ProducerStops(q) \/ LeaveGraphSuspended(q) \/ GraphSuspends(q) \/ GraphApplies(q)
  BY <1>1 DEF ProducerStops, LeaveGraphSuspended, GraphSuspends, GraphApplies
<1>2. CASE ResumeGraph(q) \/ BeginGraph(q) \/ GraphRaises(q)
  BY <1>2 DEF ResumeGraph, BeginGraph, GraphRaises
<1>3. CASE \E stream_failed \in BOOLEAN : GraphFails(q, stream_failed)
  BY <1>3 DEF GraphFails
<1>4. QED BY <1>1, <1>2, <1>3

LEMMA OutcomeFrame ==
    ASSUME Inv, NEW q \in Requests,
           \/ SeeSuspension(q) \/ SeeOutcome(q) \/ ReportOutcome(q) \/ RetainForHitl(q)
           \/ RecoveryFails(q) \/ MarkRetained(q) \/ AnnounceApproval(q) \/ FinishProducer(q)
    PROVE  ProducerFrame /\ session' = session
<1> USE DEF Inv, TypeInv, ProducerFrame, Run, Request, resourceVars, historyVars
<1>1. CASE SeeSuspension(q)
  BY <1>1 DEF SeeSuspension, SetWorkspace, Lifecycle
<1>2. CASE SeeOutcome(q)
  <2>1. \A p \in Requests : lifecycle'[p].cleanup = lifecycle[p].cleanup
    BY <1>2 DEF SeeOutcome, SetWorkspace, Lifecycle
  <2>2. \A p \in Requests : request'[p].phase = request[p].phase /\ request'[p].run = request[p].run
    BY <1>2 DEF SeeOutcome
  <2>3. QED BY <1>2, <2>1, <2>2 DEF SeeOutcome
<1>3. CASE ReportOutcome(q) \/ AnnounceApproval(q) \/ FinishProducer(q)
  BY <1>3 DEF ReportOutcome, AnnounceApproval, FinishProducer
<1>4. CASE RetainForHitl(q)
  BY <1>4 DEF RetainForHitl, Lifecycle
<1>5. CASE RecoveryFails(q) \/ MarkRetained(q)
  BY <1>5 DEF RecoveryFails, MarkRetained
<1>6. QED BY <1>1, <1>2, <1>3, <1>4, <1>5

LEMMA AskFrame ==
    ASSUME Inv, NEW q \in Requests, AskApproval(q)
    PROVE  ProducerFrame /\ ProducerAlive(q) /\ BeginApproval(Run(q), q)
BY DEF AskApproval, At, ProducerAlive, Inv, TypeInv, ProducerFrame, Run, Request, historyVars

\* A thread belongs to a holder, and nobody else can be about to start one.
LEMMA ProducerHolds ==
    ASSUME Inv, OneHolder, NEW q \in Requests, Producer(q)
    PROVE  OneHolder'
<1>1. CASE ProducerFrame /\ session' = session
  <2>1. \A p \in Requests :
          /\ Holds(p)' => Holds(p) /\ Run(p)' = Run(p)
          /\ request'[p].phase = "accepted" => request[p].phase = "accepted"
    BY <1>1 DEF ProducerFrame, Holds
  <2>2. QED BY <1>1, <2>1, HoldersKept DEF ProducerFrame, Open
<1>2. CASE AskApproval(q)
  <2> SUFFICES ASSUME overtaken' = {}, ~down' PROVE OneHolder'
    BY DEF OneHolder
  <2>1. ProducerFrame /\ ProducerAlive(q) /\ BeginApproval(Run(q), q)
    BY <1>2, AskFrame
  <2>2. overtaken = {} /\ ~down
    BY <2>1 DEF ProducerFrame
  <2>3. Holds(q) /\ request[q].phase # "accepted"
    BY <2>1 DEF Inv, StreamContext, ProducerAlive, Holds
  <2>4. \A p \in Requests : request'[p].phase # "accepted"
    BY <2>1, <2>2, <2>3 DEF OneHolder, Holds, ProducerFrame
  <2>5. session' # None => session # None /\ session'.active_run = session.active_run
    <3>1. session \in SessionRecord
      BY <2>1 DEF BeginApproval, LeasedTo, Open, Inv, TypeInv, SessionSound
    <3>2. QED BY <2>1, <3>1 DEF BeginApproval, LeasedTo, Open, SessionRecord
  <2>6. QED BY <2>1, <2>2, <2>4, <2>5 DEF OneHolder, ProducerFrame, Holds, LeasedTo, Open
<1>3. (ProducerFrame /\ session' = session) \/ AskApproval(q)
  BY GraphFrame, OutcomeFrame DEF Producer
<1>4. QED BY <1>1, <1>2, <1>3

LEMMA ConsumerHolds ==
    ASSUME Inv, OneHolder, NEW q \in Requests,
           Consumer(q) \/ ClientLeaves(q) \/ TimeOutProducer(q)
    PROVE  OneHolder'
<1> USE DEF Inv, TypeInv, Request, Run, Holds, To, historyVars, cleanupVars, resourceVars
<1>1. CASE Deliver(q)
  BY <1>1, HoldersKept DEF Deliver, Open
<1>2. CASE EndOfStream(q)
  <2>1. \A p \in Requests \ {q} : request'[p] = request[p] /\ lifecycle'[p] = lifecycle[p]
    BY <1>2 DEF EndOfStream
  <2>2. Holds(q)' /\ Holds(q) /\ Run(q)' = Run(q) /\ request'[q].phase # "accepted"
    BY <1>2 DEF EndOfStream
  <2>3. QED BY <1>2, <2>1, <2>2, HolderMoves DEF EndOfStream
<1>3. CASE ClientLeaves(q)
  <2>1. \A p \in Requests \ {q} : request'[p] = request[p] /\ lifecycle'[p] = lifecycle[p]
    BY <1>3 DEF ClientLeaves
  <2>2. Holds(q)' /\ Holds(q) /\ Run(q)' = Run(q) /\ request'[q].phase # "accepted"
    BY <1>3 DEF ClientLeaves
  <2>3. QED BY <1>3, <2>1, <2>2, HolderMoves DEF ClientLeaves
<1>4. CASE CallCleanup(q)
  <2>1. \A p \in Requests \ {q} : request'[p] = request[p] /\ lifecycle'[p] = lifecycle[p]
    BY <1>4 DEF CallCleanup, BeginCleanup
  <2>2. Holds(q) /\ Run(q)' = Run(q) /\ request'[q].phase # "accepted"
    BY <1>4 DEF CallCleanup
  <2>3. QED BY <1>4, <2>1, <2>2, HolderMoves DEF CallCleanup
<1>5. CASE TimeOutProducer(q)
  <2>1. \A p \in Requests \ {q} : request'[p] = request[p] /\ lifecycle'[p] = lifecycle[p]
    BY <1>5 DEF TimeOutProducer, ProducerTimesOut
  <2>2. Holds(q) /\ Run(q)' = Run(q) /\ request'[q].phase = request[q].phase
    BY <1>5 DEF TimeOutProducer, ProducerTimesOut
  <2>3. QED BY <1>5, <2>1, <2>2, HolderMoves DEF TimeOutProducer, ProducerTimesOut
<1>6. QED BY <1>1, <1>2, <1>3, <1>4, <1>5 DEF Consumer


\* A cleanup releases the lease as the only holder, and holds nothing after.
LEMMA CleanUpHolds ==
    ASSUME Inv, OneHolder, NEW q \in Requests, CleanUp(q)
    PROVE  OneHolder'
<1>1. CleanupProceeds(q, Run(q)) /\ CleanupKeeps(q) /\ Run(q) \in Requests
  BY CleanupStepFacts DEF CleanUp
<1>2. /\ \A p \in Requests \ {q} : request'[p] = request[p] /\ lifecycle'[p] = lifecycle[p]
      /\ request[q].phase = "done" /\ request'[q].phase = "done" /\ Run(q)' = Run(q)
      /\ overtaken' = overtaken /\ down' = down
  <2>1. request[q].phase = "done" /\ request[q] \in Request
    BY <1>1 DEF CleanupKeeps, Inv, TypeInv, StreamContext
  <2>2. \A p \in Requests \ {q} : lifecycle'[p] = lifecycle[p]
    BY <1>1 DEF CleanupKeeps
  <2>3. overtaken' = overtaken /\ down' = down
    BY DEF CleanUp, historyVars
  <2>4. CASE lifecycle'[q].cleanup = "done"
    BY <2>1, <2>2, <2>3, <2>4 DEF CleanUp, Inv, TypeInv, NewRequest, Run
  <2>5. CASE lifecycle'[q].cleanup # "done"
    BY <2>1, <2>2, <2>3, <2>5 DEF CleanUp, Run
  <2>6. QED BY <2>4, <2>5
<1>3. CASE session' = session
  <2>1. Holds(q)' => Holds(q)
    BY <1>1, <1>2 DEF Holds, CleanupKeeps
  <2>2. QED BY <1>2, <1>3, <2>1, HolderMoves
<1>4. CASE ReleaseLease(q, Run(q))
  <2>1. Holds(q) /\ lifecycle'[q].cleanup = "workspace"
    BY <1>4 DEF ReleaseLease, Released, Holds, Inv, TypeInv, Lifecycle
  <2>2. ~Holds(q)'
    BY <1>2, <2>1 DEF Holds
  <2>3. \A p \in Requests \ {q} : Holds(p)' <=> Holds(p)
    BY <1>2 DEF Holds
  <2>4. \A p \in Requests : request'[p].phase = "accepted" => Holds(p)'
    BY DEF Holds
  <2> SUFFICES ASSUME overtaken' = {}, ~down' PROVE OneHolder'
    BY DEF OneHolder
  <2>5. \A p \in Requests \ {q} : ~Holds(p)
    BY <1>2, <2>1 DEF OneHolder
  <2>6. QED BY <2>2, <2>3, <2>4, <2>5 DEF OneHolder
<1>5. session' = session \/ ReleaseLease(q, Run(q))
  BY <1>1 DEF CleanupProceeds, JoinProducer, JoinDeferred, RevokeCredential, DiscoveryRaises,
              DeleteCheckpoint, DeleteWorkspace, ReportCleanup, resourceVars
<1>6. QED BY <1>3, <1>4, <1>5

\* A session that is closed is not opened again, and a decision leaves the lease.
LEMMA EnvironmentHolds ==
    ASSUME Inv, OneHolder, UNCHANGED <<request, lifecycle, overtaken, down>>,
           \/ UNCHANGED session \/ ExpireSession
           \/ \E q \in Requests, verdict \in Verdicts : Decide(q, verdict)
    PROVE  OneHolder'
<1>1. Open' => /\ Open /\ session'.active_run = session.active_run
               /\ session.approval = None => session'.approval = None
  <2>1. ASSUME NEW q \in Requests, NEW verdict \in Verdicts, Decide(q, verdict)
        PROVE  /\ Open /\ session'.active_run = session.active_run
               /\ session'.approval = session.approval
    <3>1. Open /\ session \in SessionRecord
      BY <2>1 DEF Decide, Open, Inv, TypeInv, SessionSound
    <3>2. QED BY <2>1, <3>1 DEF Decide, SessionRecord
  <2>2. QED BY <2>1 DEF ExpireSession, Open
<1>2. \A p \in Requests : Holds(p)' <=> Holds(p)
  BY DEF Holds
<1>3. QED BY <1>1, <1>2, HoldersKept DEF Run

LEMMA NextHolder == ASSUME Inv, OneHolder, [ServiceNext]_svars PROVE OneHolder'
<1>1. ASSUME NEW q \in Requests,
             \/ Admit(q) \/ Handler(q) \/ LoseResponse(q)
             \/ Producer(q) \/ Consumer(q) \/ ClientLeaves(q) \/ CleanUp(q) \/ TimeOutProducer(q)
      PROVE  OneHolder'
  <2>1. CASE Admit(q) \/ Handler(q) \/ LoseResponse(q)
    BY <2>1, HandlerHolds, BeginHolds, ResumeHolds DEF Handler
  <2>2. CASE Producer(q)
    BY <2>2, ProducerHolds
  <2>3. CASE Consumer(q) \/ ClientLeaves(q) \/ TimeOutProducer(q)
    BY <2>3, ConsumerHolds
  <2>4. CASE CleanUp(q)
    BY <2>4, CleanUpHolds
  <2>5. QED BY <1>1, <2>1, <2>2, <2>3, <2>4
<1>2. ASSUME NEW q \in Requests, NEW verdict \in Verdicts, UserDecides(q, verdict)
      PROVE  OneHolder'
  BY <1>2, EnvironmentHolds DEF UserDecides
<1>3. ASSUME NEW q \in Requests, CredentialExpires(q) \/ StatusExpires(q)
      PROVE  OneHolder'
  BY <1>3, EnvironmentHolds DEF CredentialExpires, StatusExpires, historyVars
<1>4. CASE SessionExpires
  BY <1>4, EnvironmentHolds DEF SessionExpires, historyVars
<1>5. CASE Shutdown
  BY <1>5 DEF Shutdown, OneHolder
<1>6. CASE Resting \/ UNCHANGED svars
  BY <1>6, EnvironmentHolds DEF Resting, svars, cleanupVars, resourceVars, historyVars
<1>7. QED BY <1>1, <1>2, <1>3, <1>4, <1>5, <1>6 DEF ServiceNext
-----------------------------------------------------------------------------
\* The invariant of any number of requests in a session.
THEOREM ServiceInvariance == ServiceSpec => [](Inv /\ OneHolder)
<1>1. ServiceInit => Inv /\ OneHolder
  BY InitInv
<1>2. Inv /\ OneHolder /\ [ServiceNext]_svars => Inv' /\ OneHolder'
  BY NextInv, NextHolder
<1>3. QED BY <1>1, <1>2, PTL DEF ServiceSpec

\* Every registry and every object of a run keeps its type, and a run is asked to
\* stop exactly when its cleanup has been called (run_lifecycle.py, cleanup).
THEOREM ServiceTypeCorrect == ServiceSpec => []ServiceTypeOK
<1>1. Inv => ServiceTypeOK
  <2> SUFFICES ASSUME Inv PROVE ServiceTypeOK
    OBVIOUS
  <2> USE DEF Inv, TypeInv
  <2>1. SessionTypeOK /\ \A run \in Requests : status[run] # None => status[run] \in Snapshot
    BY DEF SessionSound, StatusSound
  <2>2. ASSUME NEW q \in Requests
        PROVE  /\ lifecycle[q].cleanup \in CleanupStep
               /\ lifecycle[q].stop_requested <=> lifecycle[q].cleanup # "none"
               /\ lifecycle[q].released \subseteq Resource
               /\ request[q].phase \in Phase /\ Run(q) \in Requests \cup {None}
               /\ request[q].termination \in Termination
               /\ producer[q] \in ProducerStep
    BY DEF StreamContext, Lifecycle, Request, Run
  <2>3. /\ vault \subseteq Requests /\ checkpoint # None => checkpoint \in Checkpoint
        /\ workspaces \subseteq Requests
        /\ \A run \in Requests : active_runs[run] \in Requests \cup {None}
    OBVIOUS
  <2>4. QED BY <2>1, <2>2, <2>3 DEF ServiceTypeOK
<1>2. QED BY <1>1, ServiceInvariance, PTL

\* Two requests never have a thread at work at once, however many are sent and
\* whichever cleanup gives up waiting (session_registry.py, begin_run).
THEOREM OneProducerAtATime == ServiceSpec => []OneProducer
<1>1. Inv /\ OneHolder => OneProducer
  <2>1. ASSUME Inv, NEW q \in Requests, ProducerAlive(q) PROVE Holds(q)
    BY <2>1 DEF Inv, StreamContext, ProducerAlive, Holds
  <2>2. QED BY <2>1 DEF OneHolder, OneProducer
<1>2. QED BY <1>1, ServiceInvariance, PTL

\* A key outlives its request only if the response was lost before its generator
\* ran (credentials.py, revoke; app.py, refactor_code_stream).
KeysGivenBack == \A q \in vault : Pending(q) \/ request[q].phase = "lost"

THEOREM NoKeyLeftBehind == ServiceSpec => []KeysGivenBack
<1>1. Inv => KeysGivenBack
  BY DEF Inv, TypeInv, StreamContext, KeysGivenBack, Pending, InProgress
<1>2. QED BY <1>1, ServiceInvariance, PTL

(***************************************************************************)
(* What a run leaves behind: the checkpoint, the workspaces, the lease and   *)
(* the approval.  GeneralInv holds whatever happens; Undisturbed while no    *)
(* cleanup is overtaken and the service is up; Owned as long as, besides,    *)
(* no deletion was missed before the service went down.                      *)
(***************************************************************************)

Begun(w) == producer[w] \notin {"none", "starting"}

\* What a request knows, whatever the others do.
RequestContext(q) ==
    /\ request[q].phase \in {"new", "admitted", "beginning"} =>
         Run(q) = None /\ request[q].resume_value = "none"
    /\ request[q].phase = "done" => lifecycle[q].cleanup # "none"
    /\ \/ producer[q] = "none" /\ ~Stopped(q)
       \/ producer[q] \in {"starting", "streaming", "streamed"}
       => lifecycle[q].workspace = None
    /\ producer[q] \in {"suspended", "approving", "retaining", "announcing"} =>
         lifecycle[q].workspace # None
    /\ lifecycle[q].hitl_retention # None =>
         lifecycle[q].workspace = lifecycle[q].hitl_retention.workspace
    /\ lifecycle[q].cleanup = "none" \/ ProducerAlive(q) => lifecycle[q].released = {}
    /\ \/ lifecycle[q].cleanup \in {"workspace", "reporting"}
       \/ lifecycle[q].cleanup = "done" /\ ~lifecycle[q].workspace_retained
       => "lease" \in lifecycle[q].released
    /\ "lease" \in lifecycle[q].released => ~LeasedTo(Run(q))
    /\ lifecycle[q].workspace_retained \/ lifecycle[q].cleanup_complete =>
         lifecycle[q].cleanup = "done"
    /\ down => /\ request[q].phase \in {"new", "done", "refused", "lost"} /\ ~Kept(q)
               /\ lifecycle[q].cleanup \in {"waiting", "releasing"} => ~lifecycle[q].retain_for_hitl

\* A run is named by the request that began it ...
RunsNamed == \A q, run \in Requests : Run(q) = run => Run(run) = run
LeaseNamed == \A run \in Requests : LeasedTo(run) => Run(run) = run
\* ... the object that is registered last is of that run ...
ObjectsNamed ==
    \A run, q \in Requests : active_runs[run] = q =>
        Run(q) = run /\ request[q].phase \in {"serving", "leaving", "done"}
\* ... and a workspace is named by the request whose graph began in it.
Made(w) ==
    \/ w \in workspaces \/ w \in applied
    \/ checkpoint # None /\ checkpoint.workspace = w
    \/ \E q \in Requests : \/ lifecycle[q].workspace = w
                           \/ producer[q] = "streaming" /\ request[q].graph.workspace = w
WorkspacesNamed == applied \subseteq Requests /\ \A w \in Requests : Made(w) => Begun(w)

\* What is reported as completed is applied.
CheckpointApplied ==
    checkpoint # None /\ checkpoint.shows = "success" => checkpoint.workspace \in applied
ObjectApplied(q) ==
    \/ request[q].termination = "completed" \/ producer[q] = "succeeded"
    \/ lifecycle[q].reason = "completed"
    => lifecycle[q].workspace \in applied
StatusApplied ==
    \A run \in Requests : status[run] # None /\ status[run].terminal = "completed" =>
        \E q \in Requests : Run(q) = run /\ lifecycle[q].workspace \in applied

\* Somebody answers for the lease.
Answered(run) ==
    \/ \E q \in Requests : Run(q) = run /\ request[q].phase \in {"accepted", "lost"}
    \/ \E q \in Requests : active_runs[run] = q /\ (Holds(q) \/ Kept(q))
LeaseAnswered == \A run \in Requests : LeasedTo(run) => Answered(run)

GeneralInv ==
    /\ \A q \in Requests : RequestContext(q) /\ ObjectApplied(q)
    /\ RunsNamed /\ LeaseNamed /\ ObjectsNamed /\ WorkspacesNamed
    /\ CheckpointApplied /\ StatusApplied

InterruptedIn(w) == Interrupted /\ checkpoint.workspace = w
OwnThere(q, w) == w = Run(q) => w \in workspaces

\* No other run works in the workspace of this one or has given its lease back.
Apart(q) ==
    \A p \in Requests : /\ lifecycle[p].workspace = Run(q) => Run(p) = Run(q)
                        /\ "lease" \in lifecycle[p].released => Run(p) # Run(q)

\* The sole holder, and the checkpoint it works on.
HolderContext(q) ==
    /\ request[q].phase # "accepted" => active_runs[Run(q)] = q
    /\ Open /\ session.approval # None =>
         /\ session.approval = q
         /\ producer[q] \in {"approving", "retaining", "announcing", "finishing", "dead"}
    /\ Apart(q)
    /\ request[q].phase = "accepted" \/ producer[q] = "starting" =>
         /\ request[q].resume_value # "none" => Interrupted /\ OwnThere(q, checkpoint.workspace)
         /\ request[q].resume_value = "approved" => checkpoint.workspace \in approved
         /\ request[q].resume_value = "none" => \A p \in Requests : Run(p) = Run(q) => p = q
    /\ producer[q] \in {"suspended", "approving"} => InterruptedIn(lifecycle[q].workspace)
    /\ /\ lifecycle[q].hitl_retention # None
       /\ lifecycle[q].cleanup \in {"none", "waiting", "deferred", "releasing"}
       => /\ InterruptedIn(lifecycle[q].workspace) /\ OwnThere(q, lifecycle[q].workspace)
          /\ Open => session.approval = lifecycle[q].hitl_retention.approval

\* A run kept for its approval, which nobody works on.
KeptContext(q) ==
    /\ InterruptedIn(lifecycle[q].workspace) /\ OwnThere(q, lifecycle[q].workspace)
    /\ Open => /\ LeasedTo(Run(q))
               /\ Taken(q) \/ session.approval = lifecycle[q].hitl_retention.approval
    /\ \A p \in Requests : Holds(p) => request[p].phase = "accepted" /\ Run(p) = Run(q)
    /\ Apart(q)
    /\ status[Run(q)] # None => status[Run(q)].lifecycle = "waiting_for_hitl"

\* The approval the user is asked for is of the change in the workspace.
ApprovalContext ==
    Open /\ session.approval # None =>
        LET a == session.approval
            change == lifecycle[a].workspace IN
        /\ Run(a) = session.active_run /\ change # None /\ change \notin applied
        /\ Interrupted => checkpoint.workspace = change
        /\ session.decision = "approved" => change \in approved
        /\ Holds(a) \/ Kept(a)

GraphOwn(q) ==
    producer[q] = "streaming" =>
        /\ OwnThere(q, request[q].graph.workspace)
        /\ ~request[q].graph.resumed => request[q].graph.workspace = q /\ q \notin applied

Undisturbed ==
    /\ \A q \in Requests : Holds(q) => HolderContext(q)
    /\ \A q \in Requests : Kept(q) => KeptContext(q)
    /\ ApprovalContext
    /\ Interrupted => checkpoint.workspace \notin applied
    /\ \A q \in Requests : GraphOwn(q)

UndisturbedInv == overtaken = {} /\ ~down => Undisturbed

\* What is left of it when the service shuts down.
ApprovedWork(q) ==
    /\ producer[q] = "streaming" /\ request[q].graph.resumed
    /\ request[q].resume_value = "approved"
    => request[q].graph.workspace \in approved
ApprovedOnly ==
    overtaken = {} => applied \subseteq approved /\ \A q \in Requests : ApprovedWork(q)

\* The part of the cleanup that may still change the checkpoint.
Unclean(q) ==
    \/ request[q].phase \in {"accepted", "serving", "leaving"}
    \/ /\ lifecycle[q].cleanup \in {"waiting", "deferred", "releasing", "checkpoint"}
       /\ "checkpoint" \notin lifecycle[q].released

Owns(q, w) ==
    LET object == lifecycle[q] IN
    \/ /\ object.cleanup \in {"none", "waiting", "deferred", "releasing"}
       /\ IF object.workspace # None THEN w = object.workspace
          ELSE checkpoint # None /\ checkpoint.workspace = w
       /\ "workspace" \notin object.released
    \/ /\ object.cleanup \in {"checkpoint", "lease", "workspace"}
       /\ \/ w = object.workspace /\ "workspace" \notin object.released
          \/ "discovery" \in object.errors
    \/ object.cleanup = "reporting" /\ object.errors \cap {"discovery", "workspace"} # {}
    \/ /\ object.cleanup = "done"
       /\ \/ object.workspace_retained /\ w = object.workspace /\ "workspace" \notin object.released
          \/ /\ ~object.workspace_retained /\ ~object.cleanup_complete
             /\ object.errors \cap {"discovery", "workspace"} # {}

FaultFree(q) ==
    LET object == lifecycle[q] IN
    /\ object.errors \cap {"discovery", "checkpoint", "workspace"} = {}
    /\ \/ object.cleanup \in {"lease", "workspace", "reporting"}
       \/ object.cleanup = "done" /\ ~object.workspace_retained
       => "checkpoint" \in object.released
    /\ \/ object.cleanup = "reporting"
       \/ object.cleanup = "done" /\ ~object.workspace_retained
       \/ /\ object.cleanup \in {"waiting", "deferred", "releasing", "checkpoint", "done"}
          /\ "checkpoint" \in object.released
       => "workspace" \in object.released
FaultsCounted ==
    faults \in Nat /\ (faults = 0 => Open /\ \A q \in Requests : FaultFree(q))

GraphHas(q) ==
    producer[q] = "streaming" =>
        checkpoint # None /\ checkpoint.workspace = request[q].graph.workspace

Owned ==
    /\ \A w \in workspaces : \E q \in Requests : active_runs[Run(w)] = q /\ Owns(q, w)
    /\ \A p, q \in Requests : Unclean(p) /\ Unclean(q) => p = q
    /\ \A q \in Requests : GraphHas(q)

OwnedInv == overtaken = {} /\ (~down \/ faults = 0) => Owned

\* The effect of every action, field by field, for the proofs of the parts below.

OthersSame(q) ==
    \A p \in Requests \ {q} : /\ request'[p] = request[p] /\ lifecycle'[p] = lifecycle[p]
                              /\ producer'[p] = producer[p]

\* What the actions before the run, and the loss of a response, change.
HandlerChanges(q) ==
    /\ OthersSame(q)
    /\ UNCHANGED <<lifecycle, producer, session, active_runs, checkpoint, workspaces,
                   status, faults, historyVars, down>>
    /\ request[q].phase = "new" => ~down
    /\ \/ /\ request[q].phase \in {"new", "admitted", "beginning"}
          /\ request'[q].phase \in {"admitted", "beginning", "refused", "lost"}
       \/ request[q].phase = "accepted" /\ request'[q].phase = "lost"
    /\ request'[q].run = request[q].run /\ request'[q].resume_value = request[q].resume_value
    /\ request'[q].graph = request[q].graph /\ request'[q].termination = request[q].termination

LEMMA HandlerEffect ==
    ASSUME Inv, NEW q \in Requests,
           \/ Admit(q) \/ NothingToResume(q) \/ RefuseRun(q) \/ RaiseInHandler(q)
           \/ LoseResponse(q)
    PROVE  HandlerChanges(q)
<1> USE DEF HandlerChanges
<1> USE DEF To, Inv, TypeInv, Request, OthersSame, cleanupVars, resourceVars, historyVars
<1>1. CASE Admit(q)
  BY <1>1 DEF Admit
<1>2. CASE NothingToResume(q)
  BY <1>2 DEF NothingToResume
<1>3. CASE RefuseRun(q)
  BY <1>3 DEF RefuseRun
<1>4. CASE RaiseInHandler(q)
  BY <1>4 DEF RaiseInHandler
<1>5. CASE LoseResponse(q)
  BY <1>5 DEF LoseResponse
<1> QED BY <1>1, <1>2, <1>3, <1>4, <1>5

BeginChanges(q) ==
    /\ OthersSame(q)
    /\ UNCHANGED <<lifecycle, producer, active_runs, checkpoint, workspaces,
                   status, faults, historyVars, down>>
    /\ request[q].phase = "beginning" /\ request'[q].phase = "accepted"
    /\ request'[q].run = q /\ request'[q].resume_value = request[q].resume_value
    /\ request'[q].graph = request[q].graph /\ request'[q].termination = request[q].termination
    /\ Open /\ session.active_run = None /\ session.approval = None
    /\ session'.active_run = q /\ session'.approval = None /\ Open'

LEMMA BeginEffect ==
    ASSUME Inv, NEW q \in Requests, BeginNewRun(q)
    PROVE  BeginChanges(q)
<1> USE DEF BeginChanges
<1>1. session \in SessionRecord /\ Open /\ session.active_run = None /\ session.approval = None
  BY DEF BeginNewRun, BeginRun, LeasedTo, Open, Inv, TypeInv, SessionSound, SessionTypeOK
<1>2. session' = [session EXCEPT !.active_run = q]
  BY DEF BeginNewRun, BeginRun
<1>3. session'.active_run = q /\ session'.approval = None /\ Open'
  BY <1>1, <1>2, RequestsAssumption, NoSession DEF SessionRecord, Open, Inv, TypeInv, SessionSound, SessionTypeOK
<1>4. QED BY <1>1, <1>3 DEF BeginNewRun, Inv, TypeInv, Request, OthersSame, historyVars

ResumeChanges(q, run, verdict) ==
    /\ OthersSame(q)
    /\ UNCHANGED <<lifecycle, producer, active_runs, checkpoint, workspaces,
                   status, faults, approved, applied, down>>
    /\ request[q].phase = "admitted" /\ request'[q].phase = "accepted"
    /\ request'[q].run = run /\ request'[q].resume_value = verdict /\ verdict # "none"
    /\ request'[q].graph = request[q].graph /\ request'[q].termination = request[q].termination
    /\ Open /\ session.active_run = run /\ session.approval # None /\ session.decision = verdict
    /\ session'.active_run = run /\ session'.approval = None /\ Open'
    /\ overtaken' = {} => overtaken = {} /\ ~Overtakes(run)

LEMMA ResumeEffect ==
    ASSUME Inv, NEW q \in Requests, NEW run \in Requests, NEW verdict \in Verdicts,
           ResumeRun(q, run, verdict)
    PROVE  ResumeChanges(q, run, verdict)
<1> USE DEF ResumeChanges
<1>1. /\ session \in SessionRecord /\ Open /\ session.active_run = run
      /\ session.approval # None /\ session.decision = verdict
  BY DEF ResumeRun, ConsumeDecision, Decided, Open, Inv, TypeInv, SessionSound, SessionTypeOK
<1>2. session' = [session EXCEPT !.approval = None, !.decision = "none"]
  BY DEF ResumeRun, ConsumeDecision
<1>3. session'.active_run = run /\ session'.approval = None /\ Open'
  BY <1>1, <1>2, NoSession DEF SessionRecord, Open
<1>5. overtaken' = {} => overtaken = {} /\ ~Overtakes(run)
  BY DEF ResumeRun
<1>6. verdict # "none"
  BY DEF Verdicts
<1>7. /\ OthersSame(q) /\ request[q].phase = "admitted" /\ request'[q].phase = "accepted"
      /\ request'[q].run = run /\ request'[q].resume_value = verdict
      /\ request'[q].graph = request[q].graph /\ request'[q].termination = request[q].termination
  BY DEF ResumeRun, Inv, TypeInv, Request, OthersSame
<1>8. QED BY <1>1, <1>3, <1>5, <1>6, <1>7 DEF ResumeRun


\* The types in the form the proofs use.
Typed ==
    /\ \A q \in Requests : /\ Run(q) \in Requests \cup {None}
                            /\ active_runs[q] \in Requests \cup {None}
                            /\ lifecycle[q].workspace \in Requests \cup {None}
    /\ Open => /\ session.active_run \in Requests \cup {None}
               /\ session.approval \in Requests \cup {None}
    /\ checkpoint # None => checkpoint.workspace \in Requests
    /\ workspaces \subseteq Requests

LEMMA TypedInv == Inv => Typed
BY DEF Inv, TypeInv, Typed, Run, Request, Lifecycle, SessionSound, SessionRecord, Checkpoint, Open

StartChanges(q) ==
    /\ OthersSame(q)
    /\ UNCHANGED <<session, checkpoint, workspaces, faults, historyVars, down>>
    /\ request[q].phase = "accepted" /\ request'[q].phase = "serving"
    /\ request'[q].run = request[q].run /\ request'[q].resume_value = request[q].resume_value
    /\ request'[q].graph = request[q].graph /\ request'[q].termination = request[q].termination
    /\ producer[q] = "none" /\ producer'[q] = "starting"
    /\ ~Stopped(q) /\ lifecycle'[q] = NewLifecycle
    /\ Run(q) \in Requests /\ active_runs'[Run(q)] = q
    /\ \A run \in Requests \ {Run(q)} : active_runs'[run] = active_runs[run]
                                          /\ status'[run] = status[run]
    /\ status'[Run(q)].terminal = "none"

LEMMA StartEffect ==
    ASSUME Inv, NEW q \in Requests, StartGenerator(q)
    PROVE  StartChanges(q)
BY DEF StartChanges, StartGenerator, To, CreateLifecycle, StartStatus, Inv, TypeInv, StatusSound,
       StreamContext, Request, OthersSame, Run, Stopped, resourceVars, historyVars

\* What a step of the thread changes in any case.
ProducerChanges(q) ==
    /\ OthersSame(q)
    /\ UNCHANGED <<active_runs, approved, overtaken, down>>
    /\ ProducerAlive(q) /\ producer'[q] \notin {"none", "starting"}
    /\ request'[q].phase = request[q].phase /\ request'[q].run = request[q].run
    /\ request'[q].resume_value = request[q].resume_value
    /\ lifecycle'[q].cleanup = lifecycle[q].cleanup
    /\ lifecycle'[q].stop_requested = lifecycle[q].stop_requested
    /\ lifecycle'[q].reason = lifecycle[q].reason
    /\ lifecycle'[q].retain_for_hitl = lifecycle[q].retain_for_hitl
    /\ lifecycle'[q].released = lifecycle[q].released
    /\ lifecycle'[q].errors = lifecycle[q].errors
    /\ lifecycle'[q].workspace_retained = lifecycle[q].workspace_retained
    /\ lifecycle'[q].cleanup_complete = lifecycle[q].cleanup_complete
    /\ applied \subseteq applied'

LEMMA ProducerEffect ==
    ASSUME Inv, NEW q \in Requests, Producer(q)
    PROVE  ProducerChanges(q)
<1> USE DEF Inv, TypeInv, Request, OthersSame, At, ProducerAlive, resourceVars, historyVars, ProducerChanges
<1>1. CASE ProducerStops(q)
  BY <1>1 DEF ProducerStops
<1>2. CASE ResumeGraph(q)
  BY <1>2 DEF ResumeGraph
<1>3. CASE LeaveGraphSuspended(q)
  BY <1>3 DEF LeaveGraphSuspended
<1>4. CASE BeginGraph(q)
  BY <1>4 DEF BeginGraph
<1>5. CASE GraphSuspends(q)
  BY <1>5 DEF GraphSuspends, GraphLeaves
<1>6. CASE GraphApplies(q)
  BY <1>6 DEF GraphApplies, GraphLeaves
<1>7. CASE GraphRaises(q)
  BY <1>7 DEF GraphRaises
<1>8. CASE \E stream_failed \in BOOLEAN : GraphFails(q, stream_failed)
  BY <1>8 DEF GraphFails, GraphLeaves
<1>9. CASE SeeSuspension(q)
  BY <1>9 DEF SeeSuspension, SetWorkspace, Lifecycle
<1>10. CASE SeeOutcome(q)
  BY <1>10 DEF SeeOutcome, SetWorkspace, Lifecycle
<1>11. CASE ReportOutcome(q)
  BY <1>11 DEF ReportOutcome
<1>12. CASE AskApproval(q)
  BY <1>12 DEF AskApproval
<1>13. CASE RetainForHitl(q)
  BY <1>13 DEF RetainForHitl, Lifecycle
<1>14. CASE RecoveryFails(q)
  BY <1>14 DEF RecoveryFails
<1>15. CASE MarkRetained(q)
  BY <1>15 DEF MarkRetained
<1>16. CASE AnnounceApproval(q)
  BY <1>16 DEF AnnounceApproval
<1>17. CASE FinishProducer(q)
  BY <1>17 DEF FinishProducer
<1> QED BY <1>1, <1>2, <1>3, <1>4, <1>5, <1>6, <1>7, <1>8, <1>9, <1>10, <1>11, <1>12, <1>13, <1>14,
           <1>15, <1>16, <1>17 DEF Producer

\* What a step of the cleanup changes in any case: with the cleanup done, the
\* locals of the generator are forgotten.
CleanupChanges(q) ==
    /\ OthersSame(q) /\ producer' = producer /\ ~ProducerAlive(q)
    /\ UNCHANGED <<historyVars, down>>
    /\ lifecycle[q].cleanup # "none" /\ lifecycle'[q].cleanup # "none"
    /\ Stopped(q) /\ Stopped(q)'
    /\ request[q].phase = "done" /\ request'[q].phase = "done"
    /\ Run(q) \in Requests /\ request'[q].run = request[q].run
    /\ \/ UNCHANGED request
       \/ /\ lifecycle'[q].cleanup = "done"
          /\ request'[q].resume_value = "none" /\ request'[q].termination = "left"

LEMMA CleanupEffect ==
    ASSUME Inv, NEW q \in Requests, CleanUp(q)
    PROVE  CleanupChanges(q)
<1>1. CleanupProceeds(q, Run(q)) /\ CleanupKeeps(q) /\ Run(q) \in Requests
  BY CleanupStepFacts DEF CleanUp
<1>2. request[q].phase = "done" /\ Stopped(q)
  BY <1>1 DEF CleanupKeeps, Inv, StreamContext, Stopped
<1>3. Stopped(q)' /\ lifecycle'[q].cleanup # "none"
  BY <1>1 DEF CleanupKeeps, Stopped
<1>4. CASE lifecycle'[q].cleanup = "done"
  <2>1. request' = [request EXCEPT ![q] = [NewRequest EXCEPT !.phase = "done", !.run = Run(q)]]
    BY <1>4 DEF CleanUp
  <2>2. request'[q] = [NewRequest EXCEPT !.phase = "done", !.run = Run(q)]
        /\ \A p \in Requests \ {q} : request'[p] = request[p]
    BY <2>1 DEF Inv, TypeInv
  <2>3. request'[q].run = Run(q) /\ request'[q].phase = "done"
        /\ request'[q].resume_value = "none" /\ request'[q].termination = "left"
    BY <2>2 DEF NewRequest
  <2>4. QED BY <1>1, <1>2, <1>3, <1>4, <2>2, <2>3
           DEF CleanupChanges, CleanupKeeps, OthersSame, CleanUp, Run
<1>5. CASE lifecycle'[q].cleanup # "done"
  BY <1>1, <1>2, <1>3, <1>5 DEF CleanupChanges, CleanupKeeps, OthersSame, CleanUp, Run
<1> QED BY <1>4, <1>5

\* What the end of the wait for the producer makes of the object.
RevokeChanges(q) ==
    LET retained == ValidRetention(q, Discovered(q)) IN
    /\ lifecycle[q].cleanup = "releasing"
    /\ lifecycle'[q].cleanup = IF retained THEN "done" ELSE "checkpoint"
    /\ lifecycle'[q].workspace = Discovered(q)
    /\ lifecycle'[q].released = lifecycle[q].released \cup {"credential"}
    /\ lifecycle'[q].workspace_retained = retained /\ lifecycle'[q].cleanup_complete = retained
    /\ lifecycle'[q].errors = IF lifecycle[q].retain_for_hitl /\ ~retained THEN {"retention"} ELSE {}
    /\ lifecycle'[q].hitl_retention = lifecycle[q].hitl_retention
    /\ lifecycle'[q].reason = lifecycle[q].reason
    /\ lifecycle'[q].retain_for_hitl = lifecycle[q].retain_for_hitl
    /\ IF retained THEN UpdateWaiting(Run(q)) ELSE UNCHANGED status
    /\ UNCHANGED <<active_runs, session, checkpoint, workspaces, faults>>

LEMMA RevokeEffect ==
    ASSUME Inv, NEW q \in Requests, RevokeCredential(q, Run(q))
    PROVE  RevokeChanges(q)
<1>1. lifecycle[q] \in Lifecycle /\ lifecycle \in [Requests -> Lifecycle]
  BY DEF Inv, TypeInv
<1>2. QED BY <1>1 DEF RevokeCredential, RevokeChanges, Lifecycle

\* The generator leaves, calls the cleanup, and the cleanup waits.
LeavingChanges(q) ==
    /\ OthersSame(q)
    /\ UNCHANGED <<lifecycle, producer, session, active_runs, checkpoint, workspaces,
                   status, faults, historyVars, down>>
    /\ request[q].phase = "serving" /\ request'[q].phase = "leaving"
    /\ request'[q].run = request[q].run /\ request'[q].resume_value = request[q].resume_value
    /\ request'[q].graph = request[q].graph
    /\ request'[q].termination \in {"left", request[q].termination}

LEMMA LeavingEffect ==
    ASSUME Inv, NEW q \in Requests, EndOfStream(q) \/ ClientLeaves(q)
    PROVE  LeavingChanges(q)
<1> USE DEF LeavingChanges, OthersSame, Inv, TypeInv, Request, historyVars, cleanupVars, resourceVars
<1>1. CASE EndOfStream(q)
  BY <1>1 DEF EndOfStream, To
<1>2. CASE ClientLeaves(q)
  BY <1>2 DEF ClientLeaves
<1> QED BY <1>1, <1>2

\* UpdateLifecycle of the run's snapshot.
StatusMoves(q) ==
    /\ \A run \in Requests \ {Run(q)} : status'[run] = status[run]
    /\ status'[Run(q)] # None => status[Run(q)] # None /\ status'[Run(q)].terminal = status[Run(q)].terminal

\* What is not known of the object before its cleanup, and what is.
ObjectKept(q) ==
    /\ lifecycle'[q].workspace = lifecycle[q].workspace
    /\ lifecycle'[q].hitl_retention = lifecycle[q].hitl_retention
    /\ lifecycle'[q].released = lifecycle[q].released
CleaningStarts(q) ==
    /\ ObjectKept(q)
    /\ lifecycle'[q].cleanup = "waiting" /\ lifecycle'[q].stop_requested
    /\ lifecycle'[q].errors = {}
    /\ ~lifecycle'[q].workspace_retained /\ ~lifecycle'[q].cleanup_complete

CallChanges(q) ==
    /\ OthersSame(q) /\ producer' = producer
    /\ UNCHANGED <<session, active_runs, checkpoint, workspaces, faults, historyVars, down>>
    /\ request[q].phase = "leaving" /\ request'[q].phase = "done"
    /\ request'[q].run = request[q].run /\ request'[q].resume_value = request[q].resume_value
    /\ request'[q].graph = request[q].graph /\ request'[q].termination = request[q].termination
    /\ lifecycle[q].cleanup = "none"
    /\ CleaningStarts(q) /\ lifecycle'[q].reason = request[q].termination
    /\ Run(q) \in Requests /\ StatusMoves(q)

TimeOutChanges(q) ==
    /\ OthersSame(q) /\ producer' = producer
    /\ UNCHANGED <<request, session, active_runs, checkpoint, workspaces, faults, historyVars, down>>
    /\ lifecycle[q].cleanup = "waiting" /\ producer[q] \in {"streaming", "approving"}
    /\ ObjectKept(q) /\ lifecycle'[q].cleanup = "deferred"
    /\ lifecycle'[q].stop_requested = lifecycle[q].stop_requested
    /\ lifecycle'[q].reason = lifecycle[q].reason /\ lifecycle'[q].errors = lifecycle[q].errors
    /\ lifecycle'[q].workspace_retained = lifecycle[q].workspace_retained
    /\ lifecycle'[q].cleanup_complete = lifecycle[q].cleanup_complete
    /\ Run(q) \in Requests /\ StatusMoves(q)

LEMMA CallEffect ==
    ASSUME Inv, NEW q \in Requests, CallCleanup(q)
    PROVE  CallChanges(q)
<1>1. OthersSame(q) /\ CleaningStarts(q) /\ lifecycle'[q].reason = request[q].termination
  BY DEF OthersSame, CallCleanup, BeginCleanup, To, CleaningFor, CleaningStarts, ObjectKept,
         Inv, TypeInv, Lifecycle
<1>2. Run(q) \in Requests /\ lifecycle[q].cleanup = "none"
  BY DEF CallCleanup, Inv, StreamContext
<1>3. StatusMoves(q)
  BY <1>2 DEF StatusMoves, CallCleanup, BeginCleanup, UpdateLifecycle, Update, Inv, TypeInv, StatusSound
<1>4. QED BY <1>1, <1>2, <1>3 DEF CallChanges, CallCleanup, To, Inv, TypeInv, Request, resourceVars

LEMMA TimeOutEffect ==
    ASSUME Inv, NEW q \in Requests, TimeOutProducer(q)
    PROVE  TimeOutChanges(q)
<1>1. /\ OthersSame(q) /\ ObjectKept(q) /\ lifecycle'[q].cleanup = "deferred"
      /\ lifecycle'[q].stop_requested = lifecycle[q].stop_requested
      /\ lifecycle'[q].reason = lifecycle[q].reason /\ lifecycle'[q].errors = lifecycle[q].errors
      /\ lifecycle'[q].workspace_retained = lifecycle[q].workspace_retained
      /\ lifecycle'[q].cleanup_complete = lifecycle[q].cleanup_complete
  BY DEF OthersSame, ObjectKept, TimeOutProducer, ProducerTimesOut, Inv, TypeInv, Lifecycle
<1>2. Run(q) \in Requests
  BY DEF TimeOutProducer, ProducerTimesOut, Inv, StreamContext
<1>3. StatusMoves(q)
  BY <1>2 DEF StatusMoves, TimeOutProducer, ProducerTimesOut, UpdateLifecycle, Update, Inv, TypeInv, StatusSound
<1>4. QED BY <1>1, <1>2, <1>3 DEF TimeOutChanges, TimeOutProducer, ProducerTimesOut, Slow, resourceVars

\* The user decides.
DecideChanges(verdict) ==
    /\ UNCHANGED <<request, lifecycle, producer, active_runs, checkpoint, workspaces, status,
                   faults, applied, overtaken, down>>
    /\ Open /\ session.approval # None /\ ~down /\ session.decision = "none"
    /\ session'.active_run = session.active_run /\ session'.approval = session.approval
    /\ session'.decision = verdict /\ Open'
    /\ LET change == lifecycle[session.approval].workspace IN
         approved' = IF verdict = "approved" THEN approved \cup {change} ELSE approved \ {change}

LEMMA DecideEffect ==
    ASSUME Inv, NEW q \in Requests, NEW verdict \in Verdicts, UserDecides(q, verdict)
    PROVE  DecideChanges(verdict)
<1>1. Open /\ session \in SessionRecord /\ session.approval = q /\ session.decision = "none"
      /\ session' = [session EXCEPT !.decision = verdict]
  BY DEF UserDecides, Decide, Open, Inv, TypeInv, SessionSound
<1>2. session'.active_run = session.active_run /\ session'.approval = session.approval
      /\ session'.decision = verdict /\ Open'
  BY <1>1, NoSession DEF SessionRecord, Open
<1>3. QED BY <1>1, <1>2, RequestsAssumption DEF DecideChanges, UserDecides

\* Records expire, or nothing happens.
EnvironmentChanges ==
    /\ UNCHANGED <<request, lifecycle, producer, active_runs, checkpoint, workspaces,
                   historyVars, down>>
    /\ session' = session \/ (session' = None /\ Fault)
    /\ faults' = faults \/ Fault
    /\ \A run \in Requests : status'[run] \in {status[run], None}

LEMMA EnvironmentEffect ==
    ASSUME Inv,
           \/ \E q \in Requests : CredentialExpires(q) \/ StatusExpires(q) \/ Deliver(q)
           \/ SessionExpires \/ Resting \/ UNCHANGED svars
    PROVE  EnvironmentChanges
<1> USE DEF EnvironmentChanges, Fault
<1>1. ASSUME NEW q \in Requests, CredentialExpires(q) \/ StatusExpires(q) \/ Deliver(q)
      PROVE  EnvironmentChanges
  BY <1>1 DEF CredentialExpires, StatusExpires, DropStatus, Deliver, cleanupVars, resourceVars,
              Inv, TypeInv, StatusSound
<1>2. CASE SessionExpires
  BY <1>2 DEF SessionExpires, ExpireSession
<1>3. CASE Resting \/ UNCHANGED svars
  BY <1>3 DEF Resting, svars, cleanupVars, resourceVars
<1> QED BY <1>1, <1>2, <1>3

\* The cleanups that a shutdown repeats.
CleansAgain(q) == Repeats(q) /\ \E run \in Requests : active_runs[run] = q

ShutdownChanges ==
    /\ ~down /\ down' /\ \A q \in Requests : ~InProgress(q)
    /\ UNCHANGED <<request, producer, session, active_runs, checkpoint, workspaces, faults,
                   historyVars>>
    /\ \A q \in Requests :
         /\ CleansAgain(q) => /\ CleaningStarts(q) /\ lifecycle'[q].reason = "service_shutdown"
                              /\ ~lifecycle'[q].retain_for_hitl
         /\ ~CleansAgain(q) => lifecycle'[q] = lifecycle[q]
    /\ \A run \in Requests : status'[run] # None =>
         status[run] # None /\ status'[run].terminal = status[run].terminal

LEMMA ShutdownEffect == ASSUME Inv, Shutdown PROVE ShutdownChanges
<1>1. ASSUME NEW q \in Requests
      PROVE  /\ CleansAgain(q) => lifecycle'[q] = CleaningFor(q, "service_shutdown", FALSE)
             /\ ~CleansAgain(q) => lifecycle'[q] = lifecycle[q]
  BY DEF Shutdown, CleansAgain
<1>2. ASSUME NEW q \in Requests, CleansAgain(q)
      PROVE  /\ CleaningStarts(q) /\ lifecycle'[q].reason = "service_shutdown"
             /\ ~lifecycle'[q].retain_for_hitl
  <2>1. lifecycle[q] \in Lifecycle
    BY DEF Inv, TypeInv
  <2>2. lifecycle'[q] = CleaningFor(q, "service_shutdown", FALSE)
    BY <1>1, <1>2
  <2>3. CleaningFor(q, "service_shutdown", FALSE).reason = "service_shutdown"
        /\ ~CleaningFor(q, "service_shutdown", FALSE).retain_for_hitl
    BY <2>1 DEF CleaningFor, Lifecycle
  <2>4. QED BY <2>1, <2>2, <2>3 DEF CleaningFor, CleaningStarts, ObjectKept, Lifecycle
<1>3. ASSUME NEW run \in Requests, status'[run] # None
      PROVE  status[run] # None /\ status'[run].terminal = status[run].terminal
  BY <1>3 DEF Shutdown, Inv, TypeInv, StatusSound, Snapshot
<1>4. QED BY <1>1, <1>2, <1>3 DEF ShutdownChanges, Shutdown, resourceVars

\* Every step of the service is one of these.
HandlerStep(q) ==
    \/ HandlerChanges(q) \/ BeginChanges(q) \/ StartChanges(q)
    \/ \E run \in Requests, verdict \in Verdicts : ResumeChanges(q, run, verdict)
ConsumerStep(q) == LeavingChanges(q) \/ CallChanges(q) \/ TimeOutChanges(q)

RequestStep(q) ==
    \/ HandlerStep(q) \/ ConsumerStep(q)
    \/ Producer(q) /\ ProducerChanges(q)
    \/ CleanUp(q) /\ CleanupChanges(q)
ServiceStep ==
    \/ \E q \in Requests : RequestStep(q)
    \/ \E verdict \in Verdicts : DecideChanges(verdict)
    \/ EnvironmentChanges \/ ShutdownChanges

LEMMA Steps == ASSUME Inv, [ServiceNext]_svars PROVE ServiceStep
<1>1. ASSUME NEW q \in Requests, Admit(q) \/ Handler(q) \/ LoseResponse(q)
      PROVE  HandlerStep(q)
  BY <1>1, HandlerEffect, BeginEffect, StartEffect, ResumeEffect DEF Handler, HandlerStep
<1>2. ASSUME NEW q \in Requests, Consumer(q) \/ ClientLeaves(q) \/ TimeOutProducer(q)
      PROVE  ConsumerStep(q) \/ EnvironmentChanges
  BY <1>2, LeavingEffect, CallEffect, TimeOutEffect, EnvironmentEffect DEF Consumer, ConsumerStep
<1>3. ASSUME NEW q \in Requests, Producer(q) PROVE ProducerChanges(q)
  BY <1>3, ProducerEffect
<1>4. ASSUME NEW q \in Requests, CleanUp(q) PROVE CleanupChanges(q)
  BY <1>4, CleanupEffect
<1>5. ASSUME NEW q \in Requests, NEW verdict \in Verdicts, UserDecides(q, verdict)
      PROVE  DecideChanges(verdict)
  BY <1>5, DecideEffect
<1>6. ASSUME NEW q \in Requests, CredentialExpires(q) \/ StatusExpires(q)
      PROVE  EnvironmentChanges
  BY <1>6, EnvironmentEffect
<1>7. CASE SessionExpires \/ Resting \/ UNCHANGED svars
  BY <1>7, EnvironmentEffect DEF ServiceStep
<1>8. CASE Shutdown
  BY <1>8, ShutdownEffect DEF ServiceStep
<1>9. ASSUME NEW q \in Requests,
             \/ Admit(q) \/ Handler(q) \/ LoseResponse(q)
             \/ Producer(q) \/ Consumer(q) \/ ClientLeaves(q)
             \/ CleanUp(q) \/ TimeOutProducer(q)
             \/ CredentialExpires(q) \/ StatusExpires(q)
             \/ \E verdict \in Verdicts : UserDecides(q, verdict)
      PROVE  ServiceStep
  BY <1>1, <1>2, <1>3, <1>4, <1>5, <1>6, <1>9 DEF ServiceStep, RequestStep
<1> QED BY <1>7, <1>8, <1>9 DEF ServiceNext

\* No step takes back that a run was overtaken or that the service shut down.
LEMMA HistoryGrows ==
    ASSUME ServiceStep
    PROVE  /\ overtaken' = {} => overtaken = {}
           /\ down' = down \/ ShutdownChanges
<1>1. ASSUME NEW q \in Requests, HandlerStep(q)
      PROVE  (overtaken' = {} => overtaken = {}) /\ down' = down
  <2>1. ASSUME NEW run \in Requests, NEW verdict \in Verdicts, ResumeChanges(q, run, verdict)
        PROVE  (overtaken' = {} => overtaken = {}) /\ down' = down
    BY <2>1 DEF ResumeChanges
  <2>2. CASE HandlerChanges(q) \/ BeginChanges(q) \/ StartChanges(q)
    BY <2>2 DEF HandlerChanges, BeginChanges, StartChanges, historyVars
  <2> QED BY <1>1, <2>1, <2>2 DEF HandlerStep
<1>2. ASSUME NEW q \in Requests, ConsumerStep(q)
      PROVE  overtaken' = overtaken /\ down' = down
  BY <1>2 DEF ConsumerStep, LeavingChanges, CallChanges, TimeOutChanges, historyVars
<1>3. ASSUME NEW q \in Requests, ProducerChanges(q) \/ CleanupChanges(q)
      PROVE  overtaken' = overtaken /\ down' = down
  BY <1>3 DEF ProducerChanges, CleanupChanges, historyVars
<1>4. ASSUME NEW verdict \in Verdicts, DecideChanges(verdict)
      PROVE  overtaken' = overtaken /\ down' = down
  BY <1>4 DEF DecideChanges, historyVars
<1>5. ASSUME EnvironmentChanges
      PROVE  overtaken' = overtaken /\ down' = down
  BY <1>5 DEF EnvironmentChanges, historyVars
<1>6. ASSUME ShutdownChanges PROVE overtaken' = overtaken
  BY <1>6 DEF ShutdownChanges, historyVars
<1> QED BY <1>1, <1>2, <1>3, <1>4, <1>5, <1>6 DEF ServiceStep, RequestStep

\* GeneralInv, action by action: the handlers,

LEMMA HandlerGen ==
    ASSUME Inv, GeneralInv, NEW q \in Requests, HandlerStep(q)
    PROVE  GeneralInv'
<1>0. Typed
  BY TypedInv
<1> USE DEF HandlerStep, HandlerChanges, BeginChanges, ResumeChanges, StartChanges, NewLifecycle, OthersSame, historyVars
<1>1. \A p \in Requests : RequestContext(p)'
  BY RequestsAssumption DEF GeneralInv, RunsNamed, RequestContext, Stopped, ProducerAlive, Run, Kept, Registered, LeasedTo, Open, Inv, TypeInv, StreamContext
<1>a. \A p \in Requests \ {q} : Run(p)' = Run(p) /\ request'[p].phase = request[p].phase
  BY DEF Run
<1>b. RequestContext(q)
  BY DEF GeneralInv
<1>2. RunsNamed'
  BY <1>0, <1>a, <1>b, RequestsAssumption DEF Typed, GeneralInv, RunsNamed, LeaseNamed, LeasedTo, RequestContext, Run
<1>3. ObjectsNamed'
  BY <1>0, <1>a, <1>b, RequestsAssumption DEF Typed, GeneralInv, ObjectsNamed, RequestContext, Run
<1>4. WorkspacesNamed'
  <2>1. ASSUME NEW w \in Requests, Made(w)' PROVE Made(w) \/ Begun(w)'
    BY <2>1, RequestsAssumption DEF Made, Begun, RequestContext
  <2>2. ASSUME NEW w \in Requests, Begun(w) PROVE Begun(w)'
    BY <2>2 DEF Begun, StreamContext, Inv
  <2>3. QED BY <2>1, <2>2 DEF GeneralInv, WorkspacesNamed
<1>5. CheckpointApplied'
  BY DEF GeneralInv, CheckpointApplied
<1>6. \A p \in Requests : ObjectApplied(p)'
  <2>1. (lifecycle[q].workspace = None /\ None \notin applied) \/ lifecycle'[q] = lifecycle[q]
    BY <1>b, RequestsAssumption DEF RequestContext, GeneralInv, WorkspacesNamed
  <2>2. ObjectApplied(q)'
    BY <2>1 DEF ObjectApplied, GeneralInv, Inv, TypeInv
  <2>3. \A p \in Requests \ {q} : ObjectApplied(p)'
    BY DEF ObjectApplied, GeneralInv
  <2>4. QED BY <2>2, <2>3
<1>7. StatusApplied'
  BY <1>a, <1>b, RequestsAssumption DEF GeneralInv, StatusApplied, RequestContext, Run
<1>8. ASSUME HandlerChanges(q) \/ StartChanges(q) PROVE LeaseNamed'
  <2>1. \A p \in Requests : Run(p)' = Run(p)
    BY <1>8 DEF Run
  <2>2. QED BY <1>8, <2>1 DEF GeneralInv, LeaseNamed, LeasedTo, Open
<1>9. ASSUME BeginChanges(q) PROVE LeaseNamed'
  BY <1>0, <1>9, <1>a, <1>b, RequestsAssumption DEF Typed, GeneralInv, LeaseNamed, RequestContext, Run, Open, LeasedTo
<1>10. ASSUME NEW run \in Requests, NEW verdict \in Verdicts, ResumeChanges(q, run, verdict)
       PROVE  LeaseNamed'
  <2>1. \A p \in Requests : LeasedTo(p)' => p = run
    BY <1>10 DEF LeasedTo, Open
  <2>2. Run(run) = run
    BY <1>10 DEF GeneralInv, LeaseNamed, LeasedTo, Open
  <2>3. run # q
    BY <1>10, <1>b, <2>2, RequestsAssumption DEF RequestContext
  <2>4. QED BY <1>a, <2>1, <2>2, <2>3 DEF LeaseNamed
<1>11. LeaseNamed'
  BY <1>8, <1>9, <1>10
<1> QED BY <1>1, <1>2, <1>3, <1>4, <1>5, <1>6, <1>7, <1>11 DEF GeneralInv

\* the threads,

\* What the actions of the thread have to show each.
WorkspaceSteps(q) ==
    /\ \/ producer'[q] \in {"streaming", "streamed"} /\ lifecycle'[q].workspace = None
       \/ /\ producer'[q] \notin {"streaming", "streamed"}
          /\ producer'[q] \in {"suspended", "approving", "retaining", "announcing"} =>
               lifecycle'[q].workspace # None
    /\ lifecycle'[q].hitl_retention # None =>
           lifecycle'[q].workspace = lifecycle'[q].hitl_retention.workspace
    /\ lifecycle[q].workspace # None => lifecycle'[q].workspace = lifecycle[q].workspace

CompletedStep(q) ==
    \A run \in Requests :
       status'[run] # None /\ status'[run].terminal = "completed" =>
           \/ status[run] # None /\ status[run].terminal = "completed"
           \/ run = Run(q) /\ lifecycle'[q].workspace \in applied'

GeneralStep(q) ==
    /\ \A run \in Requests : LeasedTo(run)' => LeasedTo(run)
    /\ WorkspaceSteps(q)
    /\ \A w \in Requests : Made(w)' => Made(w) \/ Begun(w)'
    /\ applied' \subseteq Requests /\ CheckpointApplied' /\ ObjectApplied(q)'
    /\ CompletedStep(q)

LEMMA ProducerGen ==
    ASSUME Inv, GeneralInv, NEW q \in Requests, ProducerChanges(q), GeneralStep(q)
    PROVE  GeneralInv'
<1>0. Typed
  BY TypedInv
<1> USE DEF ProducerChanges, OthersSame, GeneralStep, WorkspaceSteps, CompletedStep
<1>a. \A p \in Requests : Run(p)' = Run(p) /\ request'[p].phase = request[p].phase
  BY DEF Run
<1>1. ASSUME NEW p \in Requests \ {q} PROVE RequestContext(p)'
  <2>0. RequestContext(p) /\ StreamContext(p)
    BY DEF GeneralInv, Inv
  <2>1. /\ Kept(p)' <=> Kept(p)
        /\ "lease" \in lifecycle[p].released => ~LeasedTo(Run(p))'
    <3>1. "lease" \in lifecycle[p].released => Run(p) \in Requests
      BY <2>0 DEF RequestContext, StreamContext
    <3>2. QED BY <1>a, <2>0, <3>1 DEF RequestContext, Kept, Registered, LeasedTo, Open
  <2>2. QED BY <1>a, <2>0, <2>1 DEF RequestContext, Stopped, ProducerAlive
<1>1q. RequestContext(q)'
  <2>0. RequestContext(q) /\ StreamContext(q)
    BY DEF GeneralInv, Inv
  <2>1. lifecycle[q].released = {} /\ ~Kept(q)' /\ (Kept(q)' <=> Kept(q))
    BY <1>a, <2>0 DEF RequestContext, StreamContext, Kept, Registered, ProducerAlive
  <2>2. QED BY <1>a, <2>0, <2>1 DEF RequestContext, StreamContext, Stopped, ProducerAlive
<1>2. RunsNamed' /\ LeaseNamed' /\ ObjectsNamed'
  BY <1>a DEF GeneralInv, RunsNamed, LeaseNamed, ObjectsNamed
<1>4. WorkspacesNamed'
  BY DEF Begun, GeneralInv, WorkspacesNamed, ProducerAlive
<1>6. \A p \in Requests : ObjectApplied(p)'
  BY RequestsAssumption DEF GeneralInv, ObjectApplied
<1>7. StatusApplied'
  <2>1. ASSUME NEW p \in Requests, lifecycle[p].workspace \in applied
        PROVE  lifecycle'[p].workspace \in applied'
    BY <2>1, RequestsAssumption DEF GeneralInv, WorkspacesNamed
  <2>2. QED BY <1>a, <2>1 DEF GeneralInv, StatusApplied
<1> QED BY <1>1, <1>1q, <1>2, <1>4, <1>6, <1>7 DEF GeneralInv

\* The steps that change nothing but the locals of the thread, or what is reported.
QuietChanges(q) ==
    /\ UNCHANGED <<lifecycle, session, checkpoint, applied>>
    /\ workspaces' = workspaces \/ (producer[q] = "streaming" /\ workspaces' \subseteq workspaces)
    /\ \/ producer'[q] \in {"finishing", "dead"}
       \/ producer[q] \in {"starting", "streaming"} /\ producer'[q] = "streamed"
       \/ producer[q] = "retaining" /\ producer'[q] = "announcing"
    /\ request'[q].termination = "completed" => request[q].termination = "completed"
    /\ \A run \in Requests : status'[run] # None /\ status'[run].terminal = "completed" =>
         \/ status[run] # None /\ status[run].terminal = "completed"
         \/ run = Run(q) /\ producer[q] = "succeeded"

LEMMA QuietEffect ==
    ASSUME Inv, NEW q \in Requests,
           \/ ProducerStops(q) \/ LeaveGraphSuspended(q) \/ GraphRaises(q) \/ ReportOutcome(q)
           \/ MarkRetained(q) \/ AnnounceApproval(q) \/ RecoveryFails(q) \/ FinishProducer(q)
    PROVE  QuietChanges(q)
<1> USE DEF QuietChanges, Inv, TypeInv, Request, At, resourceVars, historyVars
<1>1. CASE \/ ProducerStops(q) \/ LeaveGraphSuspended(q) \/ MarkRetained(q) \/ AnnounceApproval(q)
           \/ RecoveryFails(q) \/ FinishProducer(q)
  BY <1>1 DEF ProducerStops, LeaveGraphSuspended, MarkRetained, AnnounceApproval, RecoveryFails, FinishProducer
<1>2. CASE GraphRaises(q)
  BY <1>2 DEF GraphRaises
<1>3. CASE ReportOutcome(q)
  <2>1. StreamContext(q) /\ Run(q) \in Requests
    BY <1>3 DEF ReportOutcome, StreamContext
  <2>2. QED BY <1>3, <2>1 DEF ReportOutcome, UpdateTerminal, Update, StatusSound
<1> QED BY <1>1, <1>2, <1>3

\* The graph stops at the approval or at its end.
GraphChanges(q) ==
    /\ UNCHANGED <<lifecycle, session, status>>
    /\ producer[q] = "streaming" /\ producer'[q] = "streamed"
    /\ request[q].graph \in GraphState /\ request'[q].termination = request[q].termination
    /\ checkpoint' # None /\ checkpoint'.workspace = request[q].graph.workspace
    /\ workspaces' \subseteq workspaces
    /\ applied' = applied \/ applied' = applied \cup {request[q].graph.workspace}
    /\ checkpoint'.shows = "success" => request[q].graph.workspace \in applied'
    /\ checkpoint'.shows = "interrupted" => applied' = applied /\ ~request[q].graph.resumed

LEMMA GraphEffect ==
    ASSUME Inv, NEW q \in Requests,
           \/ GraphSuspends(q) \/ GraphApplies(q)
           \/ \E stream_failed \in BOOLEAN : GraphFails(q, stream_failed)
    PROVE  GraphChanges(q)
<1>1. producer[q] = "streaming" /\ producer'[q] = "streamed" /\ request[q].graph \in GraphState
  BY DEF GraphSuspends, GraphApplies, GraphFails, GraphLeaves, At, Inv, TypeInv, StreamContext
<1>2. request[q].graph.workspace \in Requests
  BY <1>1 DEF GraphState
<1>3. \A shows \in {"interrupted", "success", "failed"} :
         [workspace |-> request[q].graph.workspace, shows |-> shows] # None
  BY <1>2, NoCheckpoint DEF Checkpoint
<1>4. QED BY <1>1, <1>3 DEF GraphChanges, GraphSuspends, GraphApplies, GraphFails, GraphLeaves,
          GraphRemovesWorkspace, Inv, TypeInv, Request, historyVars

LEMMA ProducerGeneral ==
    ASSUME Inv, GeneralInv, NEW q \in Requests, Producer(q)
    PROVE  GeneralStep(q)
<1>0. /\ RequestContext(q) /\ ObjectApplied(q) /\ StreamContext(q) /\ Typed
      /\ CheckpointApplied /\ WorkspacesNamed /\ lifecycle[q] \in Lifecycle
  BY TypedInv DEF GeneralInv, Inv, TypeInv
<1>a. ProducerChanges(q)
  BY ProducerEffect
<1> USE RequestsAssumption DEF GeneralStep, Inv, TypeInv
<1>1. CASE QuietChanges(q)
  <2> USE DEF QuietChanges, ProducerChanges, OthersSame
  <2>1. WorkspaceSteps(q)
    BY <1>0, <1>1, <1>a DEF WorkspaceSteps, RequestContext, ProducerAlive
  <2>2. \A w \in Requests : Made(w)' => Made(w) \/ Begun(w)'
    BY <1>1, <1>a DEF Made
  <2>3. applied' \subseteq Requests /\ CheckpointApplied' /\ ObjectApplied(q)'
    BY <1>0, <1>1, <1>a DEF WorkspacesNamed, CheckpointApplied, ObjectApplied
  <2>4. CompletedStep(q) /\ \A run \in Requests : LeasedTo(run)' => LeasedTo(run)
    BY <1>0, <1>1 DEF CompletedStep, ObjectApplied, LeasedTo, Open
  <2>5. QED BY <2>1, <2>2, <2>3, <2>4
<1>2. CASE GraphChanges(q)
  <2> USE DEF GraphChanges, ProducerChanges, OthersSame
  <2>1. WorkspaceSteps(q)
    BY <1>0, <1>2 DEF WorkspaceSteps, RequestContext, Lifecycle, Retention
  <2>2. \A w \in Requests : Made(w)' => Made(w) \/ Begun(w)'
    BY <1>2, <1>a DEF Made
  <2>3. applied' \subseteq Requests /\ CheckpointApplied' /\ ObjectApplied(q)'
    BY <1>0, <1>2, <1>a DEF WorkspacesNamed, CheckpointApplied, ObjectApplied, GraphState
  <2>4. CompletedStep(q) /\ \A run \in Requests : LeasedTo(run)' => LeasedTo(run)
    BY <1>0, <1>2 DEF CompletedStep, LeasedTo, Open
  <2>5. QED BY <2>1, <2>2, <2>3, <2>4
<1>3. CASE ResumeGraph(q) \/ BeginGraph(q)
  <2> USE DEF ResumeGraph, BeginGraph, At, Interrupted, resourceVars, historyVars
  <2>1. WorkspaceSteps(q)
    BY <1>0, <1>3 DEF WorkspaceSteps, RequestContext, Lifecycle, Retention
  <2>2. \A w \in Requests : Made(w)' => Made(w) \/ Begun(w)'
    <3>1. CASE ResumeGraph(q)
      BY <3>1 DEF Made, Begun, Checkpoint
    <3>2. CASE BeginGraph(q)
      BY <3>2 DEF Made, Begun, Checkpoint
    <3>3. QED BY <1>3, <3>1, <3>2
  <2>3. applied' \subseteq Requests /\ CheckpointApplied' /\ ObjectApplied(q)'
    BY <1>0, <1>3 DEF WorkspacesNamed, CheckpointApplied, ObjectApplied, Request
  <2>4. CompletedStep(q) /\ \A run \in Requests : LeasedTo(run)' => LeasedTo(run)
    BY <1>3 DEF CompletedStep, LeasedTo, Open
  <2>5. QED BY <2>1, <2>2, <2>3, <2>4
<1>4. CASE SeeSuspension(q) \/ SeeOutcome(q)
  <2> USE DEF SeeSuspension, SeeOutcome, SetWorkspace, Outcome, At, Interrupted, resourceVars, historyVars
  <2>1. WorkspaceSteps(q)
    BY <1>0, <1>4 DEF WorkspaceSteps, RequestContext, Lifecycle, Retention, Checkpoint
  <2>2. \A w \in Requests : Made(w)' => Made(w) \/ Begun(w)'
    <3>1. CASE SeeSuspension(q)
      BY <3>1 DEF Made, Checkpoint
    <3>2. CASE SeeOutcome(q)
      BY <3>2 DEF Made, Checkpoint
    <3>3. QED BY <1>4, <3>1, <3>2
  <2>3. applied' \subseteq Requests /\ CheckpointApplied' /\ ObjectApplied(q)'
    <3>1. CASE SeeSuspension(q)
      BY <1>0, <3>1 DEF WorkspacesNamed, RequestContext, CheckpointApplied, ObjectApplied, Request
    <3>2. CASE SeeOutcome(q)
      BY <1>0, <3>2 DEF WorkspacesNamed, RequestContext, CheckpointApplied, ObjectApplied, Request
    <3>3. QED BY <1>4, <3>1, <3>2
  <2>4. CompletedStep(q) /\ \A run \in Requests : LeasedTo(run)' => LeasedTo(run)
    BY <1>4 DEF CompletedStep, LeasedTo, Open
  <2>5. QED BY <2>1, <2>2, <2>3, <2>4
<1>5. CASE AskApproval(q) \/ RetainForHitl(q)
  <2> USE DEF AskApproval, BeginApproval, RetainForHitl, UpdateWaiting, Update, At, resourceVars, historyVars
  <2>1. WorkspaceSteps(q)
    BY <1>0, <1>5 DEF WorkspaceSteps, RequestContext, Lifecycle, Retention, Checkpoint
  <2>2. \A w \in Requests : Made(w)' => Made(w) \/ Begun(w)'
    <3>1. CASE AskApproval(q)
      BY <3>1 DEF Made, Checkpoint
    <3>2. CASE RetainForHitl(q)
      BY <3>2 DEF Made, Checkpoint
    <3>3. QED BY <1>5, <3>1, <3>2
  <2>3. applied' \subseteq Requests /\ CheckpointApplied' /\ ObjectApplied(q)'
    <3>1. CASE AskApproval(q)
      BY <1>0, <3>1 DEF WorkspacesNamed, CheckpointApplied, ObjectApplied, Request
    <3>2. CASE RetainForHitl(q)
      BY <1>0, <3>2 DEF WorkspacesNamed, CheckpointApplied, ObjectApplied, Request
    <3>3. QED BY <1>5, <3>1, <3>2
  <2>4. CompletedStep(q) /\ \A run \in Requests : LeasedTo(run)' => LeasedTo(run)
    <3>1. CASE AskApproval(q)
      BY <3>1 DEF CompletedStep, StatusSound, LeasedTo, Open
    <3>2. CASE RetainForHitl(q)
      BY <3>2 DEF CompletedStep, StatusSound, LeasedTo, Open
    <3>3. QED BY <1>5, <3>1, <3>2
  <2>5. QED BY <2>1, <2>2, <2>3, <2>4
<1> QED BY <1>1, <1>2, <1>3, <1>4, <1>5, QuietEffect, GraphEffect DEF Producer

\* the cleanups,

\* What the steps of the cleanup have to show each.
ReleaseStepOf(q) ==
    /\ \A run \in Requests : LeasedTo(run)' => LeasedTo(run)
    /\ \A run \in Requests : active_runs'[run] \in {active_runs[run], None}
    /\ RequestContext(q)'
    /\ \A w \in Requests : Made(w)' => Made(w)
    /\ CheckpointApplied' /\ ObjectApplied(q)'
    /\ lifecycle[q].workspace # None => lifecycle'[q].workspace = lifecycle[q].workspace
    /\ \A run \in Requests :
         status'[run] # None /\ status'[run].terminal = "completed" =>
             \/ status[run] # None /\ status[run].terminal = "completed"
             \/ run = Run(q) /\ lifecycle'[q].workspace \in applied

LEMMA CleanupGen ==
    ASSUME Inv, GeneralInv, NEW q \in Requests, CleanupChanges(q), ReleaseStepOf(q)
    PROVE  GeneralInv'
<1>0. Typed
  BY TypedInv
<1> USE DEF CleanupChanges, OthersSame, ReleaseStepOf, historyVars
<1>a. \A p \in Requests : Run(p)' = Run(p) /\ request'[p].phase = request[p].phase
  BY DEF Run
<1>1. ASSUME NEW p \in Requests \ {q} PROVE RequestContext(p)'
  <2>0. RequestContext(p) /\ StreamContext(p)
    BY DEF GeneralInv, Inv
  <2>1. /\ Kept(p)' => Kept(p)
        /\ "lease" \in lifecycle[p].released => ~LeasedTo(Run(p))'
    <3>1. "lease" \in lifecycle[p].released \/ lifecycle[p].cleanup = "done" => Run(p) \in Requests
      BY <2>0 DEF RequestContext, StreamContext
    <3>2. QED BY <1>a, <2>0, <3>1, RequestsAssumption DEF RequestContext, Kept, Registered, LeasedTo, Open
  <2>2. QED BY <1>a, <2>0, <2>1 DEF RequestContext, Stopped, ProducerAlive
<1>2. RunsNamed' /\ LeaseNamed' /\ ObjectsNamed'
  BY <1>a, RequestsAssumption DEF GeneralInv, RunsNamed, LeaseNamed, ObjectsNamed
<1>4. WorkspacesNamed'
  BY DEF Begun, GeneralInv, WorkspacesNamed
<1>6. \A p \in Requests : ObjectApplied(p)'
  BY RequestsAssumption DEF GeneralInv, ObjectApplied
<1>7. StatusApplied'
  <2>1. ASSUME NEW p \in Requests, lifecycle[p].workspace \in applied
        PROVE  lifecycle'[p].workspace \in applied'
    BY <2>1, RequestsAssumption DEF GeneralInv, WorkspacesNamed
  <2>2. QED BY <1>a, <2>1 DEF GeneralInv, StatusApplied
<1> QED BY <1>1, <1>2, <1>4, <1>6, <1>7 DEF GeneralInv


\* What all steps of the cleanup have in common.
ReleaseChanges(q) ==
    /\ \/ lifecycle'[q].workspace = lifecycle[q].workspace
       \/ /\ lifecycle[q].workspace = None /\ checkpoint # None
          /\ lifecycle'[q].workspace = checkpoint.workspace
    /\ workspaces' \subseteq workspaces /\ checkpoint' \in {None, checkpoint}
    /\ lifecycle'[q].reason \in {lifecycle[q].reason, "left"}
    /\ \A run \in Requests : active_runs'[run] \in {active_runs[run], None}
    /\ session' = session \/ session' = Unleased
    /\ \A run \in Requests :
         status'[run] # None /\ status'[run].terminal = "completed" =>
             \/ status[run] # None /\ status[run].terminal = "completed"
             \/ run = Run(q) /\ lifecycle[q].reason = "completed" /\ lifecycle'[q].workspace = lifecycle[q].workspace

LEMMA ReleaseEffect ==
    ASSUME Inv, NEW q \in Requests, CleanUp(q), CleanupChanges(q)
    PROVE  ReleaseChanges(q)
<1>0. lifecycle[q] \in Lifecycle /\ Run(q) \in Requests
  BY DEF Inv, TypeInv, CleanupChanges
<1> USE <1>0 DEF ReleaseChanges, resourceVars, Inv, TypeInv, Lifecycle
<1>1. CASE JoinProducer(q) \/ JoinDeferred(q) \/ DiscoveryRaises(q)
  BY <1>1 DEF JoinProducer, JoinDeferred, DiscoveryRaises
<1>2. CASE RevokeCredential(q, Run(q))
  BY <1>2, RevokeEffect DEF RevokeChanges, UpdateWaiting, Update, Discovered, StatusSound
<1>3. CASE DeleteCheckpoint(q) \/ ReleaseLease(q, Run(q)) \/ DeleteWorkspace(q)
  BY <1>3 DEF DeleteCheckpoint, ReleaseLease, FinishOwnedRun, DeleteWorkspace, Released, Raises
<1>4. CASE ReportCleanup(q, Run(q))
  BY <1>4 DEF ReportCleanup, Finished, NewLifecycle, Unregister, Update, StatusSound
<1> QED BY <1>1, <1>2, <1>3, <1>4 DEF CleanUp, CleanupProceeds

LEMMA ReleaseContext ==
    ASSUME Inv, NEW q \in Requests, RequestContext(q), CleanUp(q), CleanupChanges(q)
    PROVE  RequestContext(q)'
<1>0. lifecycle[q] \in Lifecycle /\ StreamContext(q)
  BY DEF Inv, TypeInv
<1> USE <1>0, RequestsAssumption DEF CleanupChanges, RequestContext, resourceVars, Inv, TypeInv, Run, Kept, Registered,
        LeasedTo, Open, Lifecycle, Stopped, ProducerAlive
<1>1. CASE JoinProducer(q) \/ JoinDeferred(q)
  BY <1>1 DEF JoinProducer, JoinDeferred
<1>2. CASE RevokeCredential(q, Run(q))
  <2>1. RevokeChanges(q)
    BY <1>2, RevokeEffect
  <2>2. QED BY <2>1 DEF RevokeChanges, Discovered, ValidRetention, Retention
<1>3. CASE DiscoveryRaises(q)
  BY <1>3 DEF DiscoveryRaises
<1>4. CASE DeleteCheckpoint(q) \/ DeleteWorkspace(q)
  BY <1>4 DEF DeleteCheckpoint, DeleteWorkspace, Released, Raises
<1>5. CASE ReleaseLease(q, Run(q))
  BY <1>5 DEF ReleaseLease, Released, FinishOwnedRun, Unleased
<1>6. CASE ReportCleanup(q, Run(q))
  BY <1>6 DEF ReportCleanup, Finished, NewLifecycle, Unregister
<1> QED BY <1>1, <1>2, <1>3, <1>4, <1>5, <1>6 DEF CleanUp, CleanupProceeds

LEMMA CleanupGeneral ==
    ASSUME Inv, GeneralInv, NEW q \in Requests, CleanUp(q), CleanupChanges(q)
    PROVE  ReleaseStepOf(q)
<1>0. /\ ReleaseChanges(q) /\ RequestContext(q)' /\ ObjectApplied(q) /\ CheckpointApplied /\ WorkspacesNamed
  BY ReleaseEffect, ReleaseContext DEF GeneralInv
<1> USE RequestsAssumption DEF ReleaseChanges, CleanupChanges, OthersSame, historyVars
<1>1. \A w \in Requests : Made(w)' => Made(w)
  BY <1>0 DEF Made, ProducerAlive
<1>2. CheckpointApplied' /\ ObjectApplied(q)'
  BY <1>0 DEF CheckpointApplied, ObjectApplied, WorkspacesNamed
<1>3. \A run \in Requests : LeasedTo(run)' => LeasedTo(run)
  BY <1>0 DEF LeasedTo, Open, Unleased
<1>4. QED BY <1>0, <1>1, <1>2, <1>3 DEF ReleaseStepOf, ObjectApplied

\* the consumers, the service as a whole and its environment.

LEMMA ConsumerGen ==
    ASSUME Inv, GeneralInv, NEW q \in Requests, ConsumerStep(q)
    PROVE  GeneralInv'
<1>0. Typed /\ RequestContext(q) /\ StreamContext(q) /\ ObjectApplied(q)
  BY TypedInv DEF GeneralInv, Inv
<1> USE DEF ConsumerStep, LeavingChanges, CallChanges, TimeOutChanges, OthersSame, StatusMoves,
            CleaningStarts, ObjectKept, historyVars
<1>a. \A p \in Requests : Run(p)' = Run(p)
  BY DEF Run
<1>b. request[q].phase \in {"serving", "leaving", "done"} /\ request'[q].phase \in {"serving", "leaving", "done"}
  BY <1>0 DEF StreamContext
<1>1. ASSUME NEW p \in Requests \ {q} PROVE RequestContext(p)'
  BY <1>a DEF GeneralInv, RequestContext, Stopped, ProducerAlive, Kept, Registered, LeasedTo, Open
<1>1q. RequestContext(q)'
  BY <1>0, <1>a DEF RequestContext, Stopped, ProducerAlive, Kept, Registered, LeasedTo, Open, StreamContext
<1>2. RunsNamed' /\ LeaseNamed'
  BY <1>a DEF GeneralInv, RunsNamed, LeaseNamed, LeasedTo, Open
<1>3. ObjectsNamed'
  BY <1>a, <1>b DEF GeneralInv, ObjectsNamed
<1>4. WorkspacesNamed'
  BY DEF GeneralInv, WorkspacesNamed, Made, Begun
<1>5. CheckpointApplied' /\ \A p \in Requests : ObjectApplied(p)'
  BY DEF GeneralInv, CheckpointApplied, ObjectApplied
<1>7. StatusApplied'
  BY <1>a DEF GeneralInv, StatusApplied
<1> QED BY <1>1, <1>1q, <1>2, <1>3, <1>4, <1>5, <1>7 DEF GeneralInv

\* The lease is kept or lost, records are kept or lost.
LEMMA OutsideGen ==
    ASSUME Inv, GeneralInv,
           UNCHANGED <<request, lifecycle, producer, active_runs, checkpoint, workspaces, applied, down>>,
           \A run \in Requests : LeasedTo(run)' => LeasedTo(run),
           \A run \in Requests : status'[run] \in {status[run], None}
    PROVE  GeneralInv'
<1>a. \A p \in Requests : Run(p)' = Run(p)
  BY DEF Run
<1>1. ASSUME NEW p \in Requests PROVE RequestContext(p)'
  <2>0. RequestContext(p) /\ StreamContext(p)
    BY DEF GeneralInv, Inv
  <2>1. /\ Kept(p)' <=> Kept(p)
        /\ "lease" \in lifecycle[p].released => ~LeasedTo(Run(p))'
    <3>1. "lease" \in lifecycle[p].released => Run(p) \in Requests
      BY <2>0 DEF RequestContext, StreamContext
    <3>2. QED BY <1>a, <2>0, <3>1 DEF RequestContext, Kept, Registered, LeasedTo, Open
  <2>2. QED BY <1>a, <2>0, <2>1 DEF RequestContext, Stopped, ProducerAlive
<1>2. RunsNamed' /\ LeaseNamed' /\ ObjectsNamed'
  BY <1>a DEF GeneralInv, RunsNamed, LeaseNamed, ObjectsNamed
<1>4. WorkspacesNamed'
  BY DEF GeneralInv, WorkspacesNamed, Made, Begun
<1>5. CheckpointApplied' /\ \A p \in Requests : ObjectApplied(p)'
  BY DEF GeneralInv, CheckpointApplied, ObjectApplied
<1>7. StatusApplied'
  BY <1>a DEF GeneralInv, StatusApplied
<1> QED BY <1>1, <1>2, <1>4, <1>5, <1>7 DEF GeneralInv

LEMMA EnvironmentGen ==
    ASSUME Inv, GeneralInv,
           EnvironmentChanges \/ \E verdict \in Verdicts : DecideChanges(verdict)
    PROVE  GeneralInv'
<1>1. CASE EnvironmentChanges
  BY <1>1, OutsideGen DEF EnvironmentChanges, historyVars, LeasedTo, Open
<1>2. ASSUME NEW verdict \in Verdicts, DecideChanges(verdict) PROVE GeneralInv'
  BY <1>2, OutsideGen DEF DecideChanges, LeasedTo, Open
<1> QED BY <1>1, <1>2

LEMMA ShutdownGen == ASSUME Inv, GeneralInv, ShutdownChanges PROVE GeneralInv'
<1> USE DEF ShutdownChanges, historyVars
<1>a. \A p \in Requests : Run(p)' = Run(p)
  BY DEF Run
<1>b. \A p \in Requests : lifecycle'[p].workspace = lifecycle[p].workspace
  BY DEF CleaningStarts, ObjectKept
<1>1. ASSUME NEW p \in Requests PROVE RequestContext(p)'
  <2>0. RequestContext(p) /\ StreamContext(p) /\ ~InProgress(p)
    BY DEF GeneralInv, Inv
  <2>k. Kept(p) => CleansAgain(p)
    BY <2>0 DEF Kept, Registered, CleansAgain, Repeats, StreamContext
  <2>1. CASE CleansAgain(p)
    <3>1. lifecycle[p].cleanup = "done" /\ request[p].phase = "done" /\ ~ProducerAlive(p)
      BY <2>0, <2>1 DEF CleansAgain, Repeats, StreamContext
    <3>2. ~Kept(p)'
      BY <2>1 DEF CleaningStarts, Kept, Registered
    <3>3. QED BY <1>a, <2>0, <2>1, <3>1, <3>2
             DEF RequestContext, StreamContext, Stopped, ProducerAlive, LeasedTo, Open, CleaningStarts, ObjectKept
  <2>2. CASE ~CleansAgain(p)
    <3>1. ~Kept(p)'
      BY <1>a, <2>2, <2>k DEF Kept, Registered
    <3>2. QED BY <1>a, <2>0, <2>2, <3>1
             DEF RequestContext, StreamContext, Stopped, ProducerAlive, LeasedTo, Open, InProgress, Phase, Inv, TypeInv, Request
  <2>3. QED BY <2>1, <2>2
<1>2. RunsNamed' /\ LeaseNamed' /\ ObjectsNamed'
  BY <1>a DEF GeneralInv, RunsNamed, LeaseNamed, LeasedTo, Open, ObjectsNamed
<1>4. WorkspacesNamed'
  BY <1>b DEF GeneralInv, WorkspacesNamed, Made, Begun
<1>5. CheckpointApplied' /\ \A p \in Requests : ObjectApplied(p)'
  BY <1>b DEF GeneralInv, CheckpointApplied, ObjectApplied
<1>7. StatusApplied'
  BY <1>a, <1>b DEF GeneralInv, StatusApplied
<1> QED BY <1>1, <1>2, <1>4, <1>5, <1>7 DEF GeneralInv

LEMMA GeneralNext == ASSUME Inv, GeneralInv, [ServiceNext]_svars PROVE GeneralInv'
<1>0. ServiceStep
  BY Steps
<1>3. ASSUME NEW q \in Requests, RequestStep(q) PROVE GeneralInv'
  BY <1>3, HandlerGen, ConsumerGen, ProducerGeneral, ProducerGen, CleanupGeneral, CleanupGen DEF RequestStep
<1> QED BY <1>0, <1>3, EnvironmentGen, ShutdownGen DEF ServiceStep

LEMMA GeneralInit == ServiceInit => GeneralInv
<1> SUFFICES ASSUME ServiceInit PROVE GeneralInv
  OBVIOUS
<1> USE RequestsAssumption DEF ServiceInit, LifecycleInit, SessionInit, StatusInit
<1>1. \A q \in Requests : RequestContext(q) /\ ObjectApplied(q)
  BY DEF RequestContext, ObjectApplied, NewRequest, NewLifecycle, Run, Stopped, ProducerAlive, Kept, Registered
<1>2. RunsNamed /\ LeaseNamed /\ ObjectsNamed
  BY DEF RunsNamed, LeaseNamed, ObjectsNamed, LeasedTo, Unleased, NewRequest, Run
<1>3. WorkspacesNamed
  BY DEF WorkspacesNamed, Made, NewLifecycle
<1>4. CheckpointApplied /\ StatusApplied
  BY DEF CheckpointApplied, StatusApplied
<1> QED BY <1>1, <1>2, <1>3, <1>4 DEF GeneralInv

\* Undisturbed, while nothing is overtaken and the service is up: the threads,

Alone ==
    /\ \A q \in Requests : Holds(q) /\ Open => LeasedTo(Run(q))
    /\ \A p, q \in Requests : Holds(p) /\ Holds(q) => p = q
    /\ \A q \in Requests : request[q].phase = "accepted" /\ Open => session.approval = None

Calm == Inv /\ GeneralInv /\ Alone /\ Undisturbed /\ overtaken = {} /\ ~down

\* Whoever works for a run works alone, and no run is kept beside it.
LEMMA AloneFacts ==
    ASSUME Calm, NEW q \in Requests, Holds(q)
    PROVE  /\ HolderContext(q) /\ RequestContext(q) /\ StreamContext(q)
           /\ \A p \in Requests \ {q} : ~Holds(p)
           /\ Open => LeasedTo(Run(q))
           /\ request[q].phase # "accepted" => \A p \in Requests : ~Kept(p)
BY DEF Calm, Alone, Undisturbed, KeptContext, GeneralInv, Inv

\* What the actions of the thread have to show each.
UndisturbedStep(q) ==
    /\ HolderContext(q)' /\ ApprovalContext'
    /\ Interrupted' => checkpoint'.workspace \notin applied'
    /\ GraphOwn(q)'

LEMMA ThreadHolds ==
    ASSUME Inv, NEW q \in Requests, ProducerAlive(q) PROVE Holds(q) /\ request[q].phase # "accepted"
BY DEF Inv, StreamContext, ProducerAlive, Holds

LEMMA ProducerUnd ==
    ASSUME Calm, NEW q \in Requests, ProducerChanges(q), UndisturbedStep(q)
    PROVE  Undisturbed'
<1> USE DEF ProducerChanges, OthersSame, UndisturbedStep
<1>0. /\ Holds(q) /\ request[q].phase # "accepted" /\ \A p \in Requests \ {q} : ~Holds(p)
      /\ \A p \in Requests : ~Kept(p)
  BY ThreadHolds, AloneFacts DEF Calm
<1>a. \A p \in Requests : Run(p)' = Run(p) /\ (Holds(p)' <=> Holds(p))
  BY DEF Run, Holds
<1>1. \A p \in Requests : Holds(p)' => HolderContext(p)'
  BY <1>0, <1>a
<1>2. \A p \in Requests : ~Kept(p)'
  BY <1>0, <1>a DEF Kept, Registered
<1>3. ASSUME NEW p \in Requests \ {q} PROVE GraphOwn(p)'
  <2>1. ~ProducerAlive(p)
    BY <1>0, ThreadHolds DEF Calm
  <2>2. QED BY <2>1 DEF GraphOwn, ProducerAlive
<1> QED BY <1>1, <1>2, <1>3 DEF Undisturbed

LEMMA ProducerUndisturbed ==
    ASSUME Calm, NEW q \in Requests, Producer(q), ProducerChanges(q)
    PROVE  Undisturbed'
<1>0. /\ Holds(q) /\ request[q].phase # "accepted" /\ HolderContext(q) /\ RequestContext(q) /\ StreamContext(q)
      /\ Inv /\ Typed /\ (Open => LeasedTo(Run(q))) /\ lifecycle[q] \in Lifecycle
      /\ ApprovalContext /\ (Interrupted => checkpoint.workspace \notin applied)
      /\ GraphOwn(q) /\ WorkspacesNamed
  BY ThreadHolds, AloneFacts, TypedInv DEF Calm, ProducerChanges, Undisturbed, GeneralInv, Inv, TypeInv
<1>r. lifecycle[q].workspace = None => lifecycle[q].hitl_retention = None
  BY <1>0, RequestsAssumption DEF RequestContext, Lifecycle, Retention
<1>w. /\ applied \subseteq Requests /\ (producer[q] = "starting" => q \notin applied)
      /\ Run(q)' = Run(q) /\ Holds(q)'
  BY <1>0 DEF WorkspacesNamed, Made, Begun, ProducerChanges, Run, Holds
<1> SUFFICES UndisturbedStep(q)
  BY ProducerUnd
<1> USE RequestsAssumption DEF UndisturbedStep, ProducerChanges, OthersSame
<1>1. CASE QuietChanges(q)
  <2> USE DEF QuietChanges
  <2>1. HolderContext(q)'
    BY <1>0, <1>r, <1>w, <1>1 DEF HolderContext, RequestContext, Apart, OwnThere, InterruptedIn, Interrupted, Run, Open
  <2>2. ApprovalContext'
    BY <1>0, <1>w, <1>1 DEF ApprovalContext, HolderContext, Open, Interrupted
  <2>3. QED BY <1>0, <1>1, <2>1, <2>2 DEF Interrupted, GraphOwn
<1>2. CASE GraphChanges(q)
  <2> USE DEF GraphChanges
  <2>1. HolderContext(q)'
    BY <1>0, <1>r, <1>w, <1>2 DEF HolderContext, RequestContext, Apart, OwnThere, InterruptedIn, Interrupted, Run, Open
  <2>2. ApprovalContext'
    BY <1>0, <1>w, <1>2 DEF ApprovalContext, HolderContext, Open, Interrupted
  <2>3. QED BY <1>0, <1>2, <2>1, <2>2 DEF Interrupted, GraphOwn
<1>3. CASE ResumeGraph(q) \/ BeginGraph(q)
  <2> USE DEF ResumeGraph, BeginGraph, At, resourceVars, historyVars
  <2>1. HolderContext(q)'
    BY <1>0, <1>r, <1>w, <1>3 DEF HolderContext, RequestContext, Apart, OwnThere, InterruptedIn, Interrupted,
       Run, Open, Inv, TypeInv
  <2>2. ApprovalContext'
    BY <1>0, <1>w, <1>3 DEF ApprovalContext, HolderContext, Open, Interrupted
  <2>3. Interrupted' => checkpoint'.workspace \notin applied'
    BY <1>0, <1>w, <1>3 DEF Interrupted
  <2>4. GraphOwn(q)'
    <3>1. CASE ResumeGraph(q)
      BY <1>0, <1>w, <3>1 DEF GraphOwn, HolderContext, OwnThere, Inv, TypeInv
    <3>2. CASE BeginGraph(q)
      BY <1>0, <1>w, <3>2 DEF GraphOwn, OwnThere, Inv, TypeInv
    <3>3. QED BY <1>3, <3>1, <3>2
  <2>5. QED BY <2>1, <2>2, <2>3, <2>4
<1>4. CASE SeeSuspension(q) \/ SeeOutcome(q)
  <2> USE DEF SeeSuspension, SeeOutcome, SetWorkspace, At, resourceVars, historyVars
  <2>1. HolderContext(q)'
    <3>1. CASE SeeSuspension(q)
      BY <1>0, <1>r, <1>w, <3>1 DEF HolderContext, RequestContext, Apart, OwnThere, InterruptedIn, Interrupted,
         Run, Open, Inv, TypeInv
    <3>2. CASE SeeOutcome(q)
      BY <1>0, <1>r, <1>w, <3>2 DEF HolderContext, RequestContext, Apart, OwnThere, InterruptedIn, Interrupted,
         Run, Open, Inv, TypeInv
    <3>3. QED BY <1>4, <3>1, <3>2
  <2>2. ApprovalContext'
    BY <1>0, <1>w, <1>4 DEF ApprovalContext, HolderContext, Open, Interrupted
  <2>3. QED BY <1>0, <1>4, <2>1, <2>2 DEF Interrupted, GraphOwn, Inv, TypeInv
<1>5. CASE AskApproval(q)
  <2>h. session'.approval = q /\ session'.active_run = Run(q) /\ session'.decision = "none" /\ Open
    <3>1. Open /\ session \in SessionRecord /\ session.active_run = Run(q)
      BY <1>0, <1>5 DEF AskApproval, BeginApproval, LeasedTo, Open, Inv, TypeInv, SessionSound
    <3>2. session.approval = None
      BY <1>0, <1>5, <3>1 DEF HolderContext, AskApproval, At
    <3>3. session' = [session EXCEPT !.approval = q, !.decision = "none"]
      BY <1>5, <3>2 DEF AskApproval, BeginApproval, Undecided
    <3>4. QED BY <3>1, <3>3 DEF SessionRecord
  <2>i. lifecycle[q].hitl_retention = None /\ InterruptedIn(lifecycle[q].workspace)
        /\ lifecycle[q].workspace # None
    <3>1. Open /\ session.approval = None /\ lifecycle[q] \in Lifecycle
          /\ InterruptedIn(lifecycle[q].workspace) /\ lifecycle[q].workspace # None
      BY <1>0, <1>5 DEF HolderContext, RequestContext, AskApproval, BeginApproval, LeasedTo, Open, At, Inv, TypeInv
    <3>2. lifecycle[q].cleanup \in {"none", "waiting", "deferred"}
      BY <1>0, <1>5 DEF StreamContext, ProducerAlive, AskApproval, At, Inv, TypeInv, Request, Phase
    <3>3. QED BY <1>0, <3>1, <3>2, RequestsAssumption DEF HolderContext, Lifecycle, Retention
  <2> USE DEF AskApproval, At, resourceVars, historyVars
  <2>1. HolderContext(q)'
    BY <1>0, <1>w, <1>5, <2>h, <2>i DEF HolderContext, Apart, OwnThere, InterruptedIn, Interrupted,
       Run, Open, Inv, TypeInv
  <2>2. ApprovalContext'
    <3>1. lifecycle[q].workspace \notin applied
      BY <1>0, <2>i DEF InterruptedIn
    <3>2. QED BY <1>5, <1>w, <2>h, <2>i, <3>1 DEF ApprovalContext, InterruptedIn, Interrupted
  <2>3. QED BY <1>0, <1>5, <2>1, <2>2 DEF Interrupted, GraphOwn, Inv, TypeInv
<1>6. CASE RetainForHitl(q)
  <2> USE DEF RetainForHitl, At, IsResumableApproval, resourceVars, historyVars
  <2>1. HolderContext(q)'
    BY <1>0, <1>w, <1>6 DEF HolderContext, Apart, OwnThere, InterruptedIn, Interrupted, Run, Open, Inv, TypeInv
  <2>2. ApprovalContext'
    BY <1>0, <1>w, <1>6 DEF ApprovalContext, HolderContext, Open, Interrupted, Inv, TypeInv
  <2>3. QED BY <1>0, <1>6, <2>1, <2>2 DEF Interrupted, GraphOwn, Inv, TypeInv
<1> QED BY <1>0, <1>1, <1>2, <1>3, <1>4, <1>5, <1>6, QuietEffect, GraphEffect DEF Producer

\* the cleanups,

\* What the steps of a cleanup that has still to give back the lease show each.
ReleaseUndisturbed(q) ==
    /\ Holds(q)' => HolderContext(q)'
    /\ Kept(q)' => KeptContext(q)'
    /\ ApprovalContext'
    /\ checkpoint' \in {checkpoint, None}
    /\ \A run \in Requests : active_runs'[run] \in {active_runs[run], None}

LEMMA CleanupUnd ==
    ASSUME Calm, NEW q \in Requests, Holds(q), CleanupChanges(q), ReleaseUndisturbed(q)
    PROVE  Undisturbed'
<1> USE DEF CleanupChanges, OthersSame, ReleaseUndisturbed, historyVars
<1>0. /\ request[q].phase # "accepted" /\ \A p \in Requests \ {q} : ~Holds(p)
      /\ \A p \in Requests : ~Kept(p)
  BY AloneFacts
<1>a. \A p \in Requests \ {q} : Run(p)' = Run(p) /\ (Holds(p)' <=> Holds(p))
  BY DEF Run, Holds
<1>1. \A p \in Requests : Holds(p)' => HolderContext(p)'
  BY <1>0, <1>a
<1>2. ASSUME NEW p \in Requests \ {q} PROVE ~Kept(p)'
  <2>1. lifecycle[p].cleanup = "done" => Run(p) \in Requests
    BY DEF Calm, Inv, StreamContext
  <2>2. QED BY <1>0, <1>a, <2>1, RequestsAssumption DEF Kept, Registered
<1>3. ASSUME NEW p \in Requests PROVE GraphOwn(p)'
  <2>1. ~ProducerAlive(p)
    BY <1>0, ThreadHolds DEF Calm
  <2>2. QED BY <2>1 DEF GraphOwn, ProducerAlive
<1>4. Interrupted' => checkpoint'.workspace \notin applied'
  BY DEF Interrupted, Calm, Undisturbed
<1> QED BY <1>1, <1>2, <1>3, <1>4 DEF Undisturbed

\* The cleanup moves on, holding the run.
LEMMA KeepsHoldUnd ==
    ASSUME Calm, NEW q \in Requests, CleanupChanges(q),
           JoinProducer(q) \/ JoinDeferred(q) \/ DiscoveryRaises(q) \/ DeleteCheckpoint(q)
    PROVE  Undisturbed'
<1> USE DEF JoinProducer, JoinDeferred, DiscoveryRaises, DeleteCheckpoint, Released, Raises
<1>0. Holds(q)
  BY DEF Holds
<1>1. /\ HolderContext(q) /\ RequestContext(q) /\ StreamContext(q) /\ Inv /\ ApprovalContext
  BY <1>0, AloneFacts DEF Calm, Undisturbed
<1> USE DEF CleanupChanges, OthersSame, resourceVars, historyVars
<1>2. HolderContext(q)'
  BY <1>1 DEF HolderContext, Apart, OwnThere, InterruptedIn, Interrupted, Inv, TypeInv, Lifecycle, Run, Open, ProducerAlive
<1>3. ApprovalContext'
  BY <1>0, <1>1 DEF ApprovalContext, HolderContext, Inv, TypeInv, Lifecycle, Run, Open, Interrupted, Holds
<1>4. ~Kept(q)'
  BY DEF Kept, Registered, Inv, TypeInv, Lifecycle, Calm
<1>5. ReleaseUndisturbed(q)
  BY <1>2, <1>3, <1>4 DEF ReleaseUndisturbed, Calm, Inv, TypeInv
<1> QED BY <1>0, <1>5, CleanupUnd

LEMMA RevokeUnd ==
    ASSUME Calm, NEW q \in Requests, CleanupChanges(q), RevokeChanges(q)
    PROVE  Undisturbed'
<1>0. Holds(q)
  BY DEF Holds, RevokeChanges
<1>1. /\ HolderContext(q) /\ RequestContext(q) /\ StreamContext(q) /\ Inv /\ ApprovalContext
      /\ Typed /\ Apart(q) /\ active_runs[Run(q)] = q /\ (Open => LeasedTo(Run(q)))
      /\ \A p \in Requests \ {q} : ~Holds(p)
  BY <1>0, AloneFacts, TypedInv DEF Calm, Undisturbed, CleanupChanges, HolderContext
<1> USE DEF CleanupChanges, OthersSame, historyVars
<1>a. \A p \in Requests : Run(p)' = Run(p)
  BY DEF Run
<1>b. lifecycle[q].workspace # None => lifecycle'[q].workspace = lifecycle[q].workspace
  BY DEF RevokeChanges, Discovered
<1>c. Apart(q)'
  BY <1>1, <1>a DEF Apart, RevokeChanges
<1>2. Holds(q)' => HolderContext(q)'
  <2>1. Holds(q)' => lifecycle'[q].cleanup = "checkpoint"
    BY DEF Holds, RevokeChanges
  <2>2. QED BY <2>1, <1>1, <1>a, <1>c DEF HolderContext, RevokeChanges, Open, ProducerAlive
<1>3. Kept(q)' => KeptContext(q)'
  <2> SUFFICES ASSUME Kept(q)' PROVE KeptContext(q)'
    OBVIOUS
  <2>1. ValidRetention(q, Discovered(q))
    BY DEF Kept, Registered, RevokeChanges
  <2>2. lifecycle[q].hitl_retention # None /\ lifecycle'[q].workspace = lifecycle[q].workspace
    BY <1>1, <2>1, <1>b, RequestsAssumption
       DEF ValidRetention, RequestContext, Inv, TypeInv, Lifecycle, Retention
  <2>3. InterruptedIn(lifecycle[q].workspace) /\ OwnThere(q, lifecycle[q].workspace)
        /\ (Open => session.approval = lifecycle[q].hitl_retention.approval)
    BY <1>1, <2>2 DEF HolderContext, RevokeChanges
  <2>4. \A p \in Requests : ~Holds(p)'
    BY <1>1, <1>a, <2>1 DEF Holds, RevokeChanges
  <2>5. status'[Run(q)] # None => status'[Run(q)].lifecycle = "waiting_for_hitl"
    BY <2>1, <1>1 DEF RevokeChanges, UpdateWaiting, Update, Inv, TypeInv, StatusSound
  <2>6. LeasedTo(Run(q))' <=> LeasedTo(Run(q))
    BY <1>a DEF LeasedTo, Open, RevokeChanges
  <2>7. QED BY <1>1, <1>a, <1>c, <2>2, <2>3, <2>4, <2>5, <2>6
           DEF KeptContext, RevokeChanges, InterruptedIn, Interrupted, OwnThere, Open
<1>4. ApprovalContext'
  <2>1. Holds(q)' \/ Kept(q)'
    BY <1>1, <1>a DEF Holds, Kept, Registered, RevokeChanges
  <2>2. QED BY <1>1, <1>a, <1>b, <2>1
           DEF ApprovalContext, HolderContext, RevokeChanges, Open, Interrupted
<1>5. ReleaseUndisturbed(q)
  BY <1>2, <1>3, <1>4 DEF ReleaseUndisturbed, RevokeChanges, Calm, Inv, TypeInv
<1> QED BY <1>0, <1>5, CleanupUnd

LEMMA ReleaseLeaseUnd ==
    ASSUME Calm, NEW q \in Requests, CleanupChanges(q), ReleaseLease(q, Run(q))
    PROVE  Undisturbed'
<1>0. Holds(q)
  BY DEF Holds, ReleaseLease
<1>1. /\ HolderContext(q) /\ RequestContext(q) /\ StreamContext(q) /\ Inv /\ ApprovalContext
      /\ (Open => LeasedTo(Run(q)))
  BY <1>0, AloneFacts DEF Calm, Undisturbed
<1> USE DEF CleanupChanges, ReleaseLease, Released, OthersSame, historyVars
<1>2. ~Holds(q)' /\ ~Kept(q)'
  BY <1>1 DEF Holds, Kept, Registered, Inv, TypeInv, Lifecycle
<1>3. ApprovalContext'
  <2>1. "lease" \notin lifecycle[q].released
    BY <1>1 DEF HolderContext, Apart
  <2>2. Open' => session' = Unleased
    BY <1>1, <2>1 DEF FinishOwnedRun, Open
  <2>3. QED BY <2>2 DEF ApprovalContext, Unleased
<1>5. ReleaseUndisturbed(q)
  BY <1>2, <1>3 DEF ReleaseUndisturbed, Calm, Inv, TypeInv
<1> QED BY <1>0, <1>5, CleanupUnd

\* The workspace is deleted, or the end reported, by a cleanup that holds the run
\* no more: no other request works for the same run.
LateChanges(q) ==
    /\ UNCHANGED <<session, checkpoint>>
    /\ "lease" \in lifecycle[q].released /\ "lease" \in lifecycle'[q].released
    /\ ~Holds(q) /\ ~Kept(q) /\ ~Holds(q)' /\ ~Kept(q)'
    /\ lifecycle'[q].workspace = lifecycle[q].workspace
    /\ \A w \in workspaces : w # lifecycle[q].workspace => w \in workspaces'
    /\ \A run \in Requests \ {Run(q)} : active_runs'[run] = active_runs[run] /\ status'[run] = status[run]
    /\ active_runs'[Run(q)] \in {active_runs[Run(q)], None}

LEMMA LateEffect ==
    ASSUME Calm, NEW q \in Requests, CleanupChanges(q), DeleteWorkspace(q) \/ ReportCleanup(q, Run(q))
    PROVE  LateChanges(q)
<1>1. RequestContext(q) /\ StreamContext(q) /\ Inv
  BY DEF Calm, GeneralInv, Inv
<1> USE DEF CleanupChanges, resourceVars, LateChanges, RequestContext, Inv, TypeInv, Lifecycle, Holds, Kept, Registered
<1>2. CASE DeleteWorkspace(q)
  BY <1>1, <1>2 DEF DeleteWorkspace, Released, Raises
<1>3. CASE ReportCleanup(q, Run(q))
  BY <1>1, <1>3 DEF ReportCleanup, Finished, NewLifecycle, Unregister, Update, Resource, StatusSound
<1> QED BY <1>1, <1>2, <1>3

LEMMA LateUnd ==
    ASSUME Calm, NEW q \in Requests, CleanupChanges(q), LateChanges(q)
    PROVE  Undisturbed'
<1> USE DEF CleanupChanges, LateChanges, OthersSame, historyVars
<1>a. \A p \in Requests : Run(p)' = Run(p)
  BY DEF Run
<1>b. \A p \in Requests : Holds(p)' <=> Holds(p)
  BY DEF Holds
<1>c. \A p \in Requests : Apart(p) => /\ Apart(p)' /\ Run(p) # Run(q)
                                      /\ \A w \in workspaces : w = Run(p) => w \in workspaces'
  BY <1>a DEF Apart
<1>1. ASSUME NEW p \in Requests, Holds(p)' PROVE HolderContext(p)'
  <2>1. HolderContext(p) /\ p # q /\ Apart(p) /\ Run(p) \in Requests
    BY <1>1, <1>b DEF Calm, Undisturbed, HolderContext, Inv, StreamContext, Holds
  <2>2. QED BY <2>1, <1>a, <1>c DEF HolderContext, OwnThere, InterruptedIn, Interrupted, Open
<1>2. ASSUME NEW p \in Requests, Kept(p)' PROVE KeptContext(p)'
  <2>0. p # q /\ Run(p) \in Requests
    BY <1>2, <1>a DEF Kept, Registered, Calm, Inv, StreamContext
  <2>1. KeptContext(p)
    BY <1>2, <1>a, <2>0, RequestsAssumption DEF Kept, Registered, Calm, Undisturbed
  <2>2. Apart(p)
    BY <2>1 DEF KeptContext
  <2>3. Taken(p) => Taken(p)'
    BY <1>a, <1>c, <2>2 DEF Taken
  <2>4. LeasedTo(Run(p))' <=> LeasedTo(Run(p))
    BY <1>a DEF LeasedTo, Open
  <2>5. \A x \in Requests : Holds(x)' => request'[x].phase = "accepted" /\ Run(x)' = Run(p)'
    BY <2>1, <1>a, <1>b DEF KeptContext
  <2>6. QED BY <2>0, <2>1, <2>2, <2>3, <2>4, <2>5, <1>a, <1>c
           DEF KeptContext, OwnThere, InterruptedIn, Interrupted, Open
<1>3. ApprovalContext'
  <2>1. ASSUME Open, session.approval # None
        PROVE  LET a == session.approval IN
               a \in Requests /\ a # q /\ (Holds(a)' \/ Kept(a)')
    <3>1. session.approval \in Requests
      BY <2>1, TypedInv DEF Typed, Calm
    <3>2. session.approval # q /\ (Holds(session.approval) \/ Kept(session.approval))
      BY <2>1 DEF Calm, Undisturbed, ApprovalContext
    <3>3. Kept(session.approval) => Kept(session.approval)'
      <4> SUFFICES ASSUME Kept(session.approval) PROVE Kept(session.approval)'
        OBVIOUS
      <4>1. Apart(session.approval) /\ Run(session.approval) \in Requests
        BY <3>1 DEF Calm, Undisturbed, KeptContext, Kept, Registered, Inv, StreamContext
      <4>2. QED BY <4>1, <3>1, <3>2, <1>a, <1>c DEF Kept, Registered
    <3>4. QED BY <1>b, <3>1, <3>2, <3>3
  <2>2. QED BY <2>1, <1>a DEF ApprovalContext, Calm, Undisturbed, Open, Interrupted
<1>4. Interrupted' => checkpoint'.workspace \notin applied'
  BY DEF Interrupted, Calm, Undisturbed
<1>5. ASSUME NEW p \in Requests PROVE GraphOwn(p)'
  <2>1. CASE ProducerAlive(p)
    <3>1. HolderContext(p) /\ p # q /\ GraphOwn(p)
      BY <2>1, ThreadHolds DEF Calm, Undisturbed
    <3>2. QED BY <3>1, <1>a, <1>c DEF HolderContext, GraphOwn, OwnThere
  <2>2. CASE ~ProducerAlive(p)
    BY <2>2 DEF GraphOwn, ProducerAlive
  <2>3. QED BY <2>1, <2>2
<1> QED BY <1>1, <1>2, <1>3, <1>4, <1>5 DEF Undisturbed

LEMMA CleanupUndisturbed ==
    ASSUME Calm, NEW q \in Requests, CleanUp(q), CleanupChanges(q)
    PROVE  Undisturbed'
<1>1. Inv
  BY DEF Calm
<1> QED BY <1>1, KeepsHoldUnd, RevokeEffect, RevokeUnd, ReleaseLeaseUnd,
     LateEffect, LateUnd DEF CleanUp, CleanupProceeds

\* the handlers, the consumers, the decisions and the environment.

LEMMA HandlerUnd ==
    ASSUME Calm, NEW q \in Requests, HandlerChanges(q)
    PROVE  Undisturbed'
<1> USE DEF HandlerChanges, OthersSame, historyVars
<1>a. \A p \in Requests : Run(p)' = Run(p) /\ request'[p].resume_value = request[p].resume_value
  BY DEF Run
<1>b. \A p \in Requests : /\ Holds(p)' => p # q /\ Holds(p) /\ request'[p].phase = request[p].phase
                          /\ Holds(p) /\ p # q => Holds(p)'
  BY DEF Holds, Calm, Inv, StreamContext
<1>c. \A p \in Requests : /\ Kept(p)' <=> Kept(p)
                          /\ Taken(p)' <=> Taken(p)
                          /\ Apart(p)' <=> Apart(p)
  BY <1>a DEF Kept, Registered, Taken, Apart
<1>1. ASSUME NEW p \in Requests, Holds(p)' PROVE HolderContext(p)'
  <2>1. HolderContext(p)
    BY <1>1, <1>b DEF Calm, Undisturbed
  <2>2. QED BY <1>1, <2>1, <1>a, <1>b, <1>c DEF HolderContext, OwnThere, InterruptedIn, Interrupted, Open
<1>2. ASSUME NEW p \in Requests, Kept(p)' PROVE KeptContext(p)'
  BY <1>2, <1>a, <1>b, <1>c DEF Calm, Undisturbed, KeptContext, OwnThere, InterruptedIn, Interrupted, Open, LeasedTo
<1>3. ApprovalContext'
  <2>1. Open /\ session.approval # None => session.approval \in Requests /\ ~(request[q].phase = "accepted")
    BY TypedInv DEF Typed, Calm, Alone
  <2>2. Open /\ session.approval # None /\ Holds(session.approval) => Holds(session.approval)'
    BY <2>1, <1>b DEF Holds, Calm, Inv, StreamContext
  <2>3. QED BY <2>1, <2>2, <1>a, <1>c DEF ApprovalContext, Calm, Undisturbed, Open, Interrupted
<1>4. (Interrupted' => checkpoint'.workspace \notin applied') /\ \A p \in Requests : GraphOwn(p)'
  BY <1>a DEF Interrupted, Calm, Undisturbed, GraphOwn, OwnThere
<1> QED BY <1>1, <1>2, <1>3, <1>4 DEF Undisturbed

LEMMA BeginUnd ==
    ASSUME Calm, NEW q \in Requests, BeginChanges(q)
    PROVE  Undisturbed'
<1> USE DEF BeginChanges, OthersSame, historyVars
<1>0. RequestContext(q) /\ StreamContext(q) /\ RunsNamed /\ WorkspacesNamed /\ Inv
  BY DEF Calm, GeneralInv, Inv
<1>1. \A p \in Requests : ~Holds(p)
  BY RequestsAssumption DEF Calm, Alone, Inv, StreamContext, Holds, LeasedTo
<1>2. \A p \in Requests : ~Kept(p)
  BY RequestsAssumption DEF Calm, Undisturbed, KeptContext, LeasedTo, Kept, Registered, Inv, StreamContext
<1>a. \A p \in Requests \ {q} : Run(p)' = Run(p) /\ ~Holds(p)'
  BY <1>1 DEF Run, Holds
<1>b. Run(q)' = q /\ Run(q) = None
  BY <1>0 DEF Run, RequestContext
<1>c. producer[q] = "none" /\ lifecycle[q].cleanup = "none" /\ lifecycle[q].workspace = None
      /\ lifecycle[q].hitl_retention = None /\ lifecycle[q].released = {} /\ request[q].resume_value = "none"
  BY <1>0, RequestsAssumption DEF RequestContext, StreamContext, Stopped, Inv, TypeInv, Lifecycle, Retention
<1>d. \A p \in Requests : ~Kept(p)'
  BY <1>a, <1>c, <1>2 DEF Kept, Registered
<1>3. Apart(q)'
  <2>1. \A p \in Requests : lifecycle[p].workspace # q
    BY <1>0, <1>c DEF WorkspacesNamed, Made, Begun
  <2>2. \A p \in Requests \ {q} : Run(p) # q
    BY <1>0, <1>b, RequestsAssumption DEF RunsNamed
  <2>3. QED BY <2>1, <2>2, <1>a, <1>b, <1>c DEF Apart
<1>4. HolderContext(q)'
  <2>1. \A p \in Requests : Run(p)' = Run(q)' => p = q
    BY <1>0, <1>a, <1>b, RequestsAssumption DEF RunsNamed
  <2>2. QED BY <2>1, <1>3, <1>c DEF HolderContext
<1>5. ApprovalContext'
  BY DEF ApprovalContext
<1>6. (Interrupted' => checkpoint'.workspace \notin applied') /\ \A p \in Requests : GraphOwn(p)'
  BY <1>a, <1>c DEF Interrupted, Calm, Undisturbed, GraphOwn, OwnThere
<1> QED BY <1>a, <1>d, <1>4, <1>5, <1>6 DEF Undisturbed

LEMMA ResumeUnd ==
    ASSUME Calm, NEW q \in Requests, NEW run \in Requests, NEW verdict \in Verdicts,
           ResumeChanges(q, run, verdict), overtaken' = {}
    PROVE  Undisturbed'
<1> USE DEF ResumeChanges, OthersSame
<1>0. RequestContext(q) /\ StreamContext(q) /\ Inv
  BY DEF Calm, GeneralInv, Inv
<1>1. \A p \in Requests : ~Holds(p)
  BY DEF Calm, Alone, Holds, LeasedTo, Overtakes, Open
<1> DEFINE a == session.approval
<1>2. /\ a \in Requests /\ Kept(a) /\ Run(a) = run /\ KeptContext(a)
      /\ checkpoint.workspace = lifecycle[a].workspace /\ Interrupted
      /\ session.decision = "approved" => checkpoint.workspace \in approved
  <2>1. a \in Requests
    BY TypedInv DEF Typed, Calm
  <2>2. Kept(a) /\ Run(a) = run /\ (session.decision = "approved" => lifecycle[a].workspace \in approved)
    BY <1>1, <2>1 DEF Calm, Undisturbed, ApprovalContext
  <2>3. QED BY <2>1, <2>2 DEF Calm, Undisturbed, KeptContext, InterruptedIn
<1> HIDE DEF a
<1>a. \A p \in Requests \ {q} : Run(p)' = Run(p) /\ ~Holds(p)'
  BY <1>1 DEF Run, Holds
<1>b. Run(q)' = run /\ Run(q) = None
  BY <1>0 DEF Run, RequestContext
<1>c. producer[q] = "none" /\ lifecycle[q].cleanup = "none" /\ lifecycle[q].workspace = None
      /\ lifecycle[q].hitl_retention = None /\ lifecycle[q].released = {}
  BY <1>0, RequestsAssumption DEF RequestContext, StreamContext, Stopped, Inv, TypeInv, Lifecycle, Retention
<1>d. \A p \in Requests : Kept(p)' => p # q /\ Kept(p)
  BY <1>a, <1>c DEF Kept, Registered
<1>3. \A p \in Requests : Apart(p) /\ Run(p) = run => Apart(p)'
  BY <1>a, <1>b, <1>c, RequestsAssumption DEF Apart
<1>4. HolderContext(q)'
  <2>1. Apart(q)'
    BY <1>2, <1>a, <1>b, <1>c, RequestsAssumption DEF Apart, KeptContext
  <2>2. Interrupted' /\ OwnThere(q, checkpoint.workspace)'
    BY <1>2, <1>b DEF KeptContext, OwnThere, Interrupted
  <2>3. QED BY <2>1, <2>2, <1>2, <1>c DEF HolderContext
<1>5. ASSUME NEW p \in Requests, Kept(p)' PROVE KeptContext(p)'
  <2>1. KeptContext(p) /\ Run(p)' = Run(p) /\ p # q
    BY <1>5, <1>a, <1>d DEF Calm, Undisturbed
  <2>2. Run(p) = run
    BY <2>1 DEF KeptContext, LeasedTo
  <2>3. Taken(p)'
    BY <2>1, <2>2, <1>b DEF Taken
  <2>4. \A x \in Requests : Holds(x)' => request'[x].phase = "accepted" /\ Run(x)' = Run(p)'
    BY <2>1, <2>2, <1>a, <1>b
  <2>5. QED BY <2>1, <2>2, <2>3, <2>4, <1>3 DEF KeptContext, InterruptedIn, Interrupted, OwnThere, LeasedTo, Open
<1>6. ApprovalContext'
  BY DEF ApprovalContext
<1>7. (Interrupted' => checkpoint'.workspace \notin applied') /\ \A p \in Requests : GraphOwn(p)'
  BY <1>a, <1>c DEF Interrupted, Calm, Undisturbed, GraphOwn, OwnThere
<1> QED BY <1>a, <1>4, <1>5, <1>6, <1>7 DEF Undisturbed

LEMMA StartUnd ==
    ASSUME Calm, NEW q \in Requests, StartChanges(q)
    PROVE  Undisturbed'
<1> USE DEF StartChanges, OthersSame, historyVars, NewLifecycle
<1>0. Holds(q)
  BY DEF Holds
<1>1. HolderContext(q) /\ (\A p \in Requests \ {q} : ~Holds(p)) /\ (Open => session.approval = None)
  BY <1>0, AloneFacts DEF Calm, Alone
<1>a. \A p \in Requests : Run(p)' = Run(p)
  BY DEF Run
<1>b. \A p \in Requests \ {q} : ~Holds(p)'
  BY <1>1 DEF Holds
<1>c. \A p \in Requests : ~Kept(p)'
  <2> SUFFICES ASSUME NEW p \in Requests, Kept(p)' PROVE FALSE
    OBVIOUS
  <2>1. p # q /\ Run(p) # Run(q) /\ Run(p) \in Requests
    BY <1>a, RequestsAssumption DEF Kept, Registered, Calm, Inv, StreamContext
  <2>2. Kept(p)
    BY <2>1, <1>a DEF Kept, Registered
  <2>3. QED BY <1>0, <2>1, <2>2 DEF Calm, Undisturbed, KeptContext
<1>2. HolderContext(q)'
  BY <1>1, <1>a, RequestsAssumption DEF HolderContext, Apart, OwnThere, Interrupted, Open
<1>3. ApprovalContext'
  BY <1>1 DEF ApprovalContext, Open
<1>4. (Interrupted' => checkpoint'.workspace \notin applied') /\ \A p \in Requests : GraphOwn(p)'
  BY <1>a DEF Interrupted, Calm, Undisturbed, GraphOwn, OwnThere
<1> QED BY <1>b, <1>c, <1>2, <1>3, <1>4 DEF Undisturbed

LEMMA ConsumerUnd ==
    ASSUME Calm, NEW q \in Requests, ConsumerStep(q)
    PROVE  Undisturbed'
<1>1. UNCHANGED <<producer, session, active_runs, checkpoint, workspaces, historyVars>>
  BY DEF ConsumerStep, LeavingChanges, CallChanges, TimeOutChanges, CleaningStarts
<1>2. /\ OthersSame(q) /\ Holds(q) /\ Holds(q)' /\ request[q].phase # "accepted" /\ request'[q].phase # "accepted"
      /\ lifecycle'[q].cleanup # "done" /\ request'[q].resume_value = request[q].resume_value
      /\ request'[q].run = request[q].run /\ request'[q].graph = request[q].graph
      /\ lifecycle[q].cleanup \in {"none", "waiting", "deferred", "releasing"}
      /\ lifecycle'[q].workspace = lifecycle[q].workspace
      /\ lifecycle'[q].hitl_retention = lifecycle[q].hitl_retention
      /\ lifecycle'[q].released = lifecycle[q].released
  BY DEF ConsumerStep, LeavingChanges, CallChanges, TimeOutChanges, CleaningStarts, ObjectKept, Holds,
         Calm, Inv, StreamContext
<1> USE <1>1, <1>2 DEF OthersSame, historyVars
<1>3. HolderContext(q) /\ (\A p \in Requests \ {q} : ~Holds(p)) /\ \A p \in Requests : ~Kept(p)
  BY AloneFacts
<1>a. \A p \in Requests : Run(p)' = Run(p)
  BY DEF Run
<1>b. (\A p \in Requests \ {q} : ~Holds(p)') /\ \A p \in Requests : ~Kept(p)'
  BY <1>3, <1>a DEF Holds, Kept, Registered
<1>4. HolderContext(q)'
  BY <1>3, <1>a DEF HolderContext, Apart, OwnThere, InterruptedIn, Interrupted, Open
<1>5. ApprovalContext'
  BY <1>3, <1>a DEF ApprovalContext, HolderContext, Interrupted, Open, Calm, Undisturbed
<1>6. (Interrupted' => checkpoint'.workspace \notin applied') /\ \A p \in Requests : GraphOwn(p)'
  BY <1>a DEF Interrupted, Calm, Undisturbed, GraphOwn, OwnThere
<1> QED BY <1>b, <1>4, <1>5, <1>6 DEF Undisturbed

LEMMA DecideUnd ==
    ASSUME Calm, NEW verdict \in Verdicts, DecideChanges(verdict)
    PROVE  Undisturbed'
<1> USE DEF DecideChanges
<1>a. \A p \in Requests : /\ Run(p)' = Run(p) /\ (Holds(p)' <=> Holds(p)) /\ (Kept(p)' <=> Kept(p))
                          /\ (Apart(p)' <=> Apart(p)) /\ (Taken(p)' <=> Taken(p))
  BY DEF Run, Holds, Kept, Registered, Apart, Taken
<1>1. ASSUME NEW p \in Requests, Holds(p)' PROVE HolderContext(p)'
  <2>1. HolderContext(p) /\ request[p].phase # "accepted"
    BY <1>1, <1>a DEF Calm, Undisturbed, Alone
  <2>2. producer[p] # "starting"
    BY <2>1 DEF HolderContext
  <2>3. QED BY <2>1, <2>2, <1>a DEF HolderContext, OwnThere, InterruptedIn, Interrupted
<1>2. ASSUME NEW p \in Requests, Kept(p)' PROVE KeptContext(p)'
  BY <1>2, <1>a DEF Calm, Undisturbed, KeptContext, OwnThere, InterruptedIn, Interrupted, Open, LeasedTo
<1>3. ApprovalContext'
  <2>1. session.approval \in Requests
    BY TypedInv DEF Typed, Calm
  <2>2. QED BY <2>1, <1>a DEF ApprovalContext, Calm, Undisturbed, Interrupted
<1>4. (Interrupted' => checkpoint'.workspace \notin applied') /\ \A p \in Requests : GraphOwn(p)'
  BY <1>a DEF Interrupted, Calm, Undisturbed, GraphOwn, OwnThere
<1> QED BY <1>1, <1>2, <1>3, <1>4 DEF Undisturbed

LEMMA EnvironmentUnd ==
    ASSUME Calm, EnvironmentChanges
    PROVE  Undisturbed'
<1> USE DEF EnvironmentChanges, historyVars
<1>a. \A p \in Requests : /\ Run(p)' = Run(p) /\ (Holds(p)' <=> Holds(p)) /\ (Kept(p)' <=> Kept(p))
                          /\ (Apart(p)' <=> Apart(p)) /\ (Taken(p)' <=> Taken(p))
  BY DEF Run, Holds, Kept, Registered, Apart, Taken
<1>1. ASSUME NEW p \in Requests, Holds(p)' PROVE HolderContext(p)'
  BY <1>1, <1>a DEF Calm, Undisturbed, HolderContext, OwnThere, InterruptedIn, Interrupted, Open
<1>2. ASSUME NEW p \in Requests, Kept(p)' PROVE KeptContext(p)'
  <2>1. Run(p) \in Requests /\ KeptContext(p)
    BY <1>2, <1>a DEF Kept, Registered, Calm, Undisturbed, Inv, StreamContext
  <2>2. QED BY <2>1, <1>a DEF KeptContext, OwnThere, InterruptedIn, Interrupted, Open, LeasedTo
<1>3. ApprovalContext'
  <2>1. Open /\ session.approval # None => session.approval \in Requests
    BY TypedInv DEF Typed, Calm
  <2>2. QED BY <2>1, <1>a DEF ApprovalContext, Calm, Undisturbed, Interrupted, Open
<1>4. (Interrupted' => checkpoint'.workspace \notin applied') /\ \A p \in Requests : GraphOwn(p)'
  BY <1>a DEF Interrupted, Calm, Undisturbed, GraphOwn, OwnThere
<1> QED BY <1>1, <1>2, <1>3, <1>4 DEF Undisturbed

\* Nothing makes good again what has gone wrong.
LEMMA StillCalm ==
    ASSUME Inv, OneHolder, GeneralInv, UndisturbedInv, ServiceStep, overtaken' = {}, ~down'
    PROVE  Calm
<1>1. overtaken = {} /\ ~down
  BY HistoryGrows DEF ShutdownChanges
<1> QED BY <1>1 DEF Calm, OneHolder, Alone, UndisturbedInv

LEMMA UndisturbedNext ==
    ASSUME Inv, OneHolder, GeneralInv, UndisturbedInv, [ServiceNext]_svars
    PROVE  UndisturbedInv'
<1> SUFFICES ASSUME overtaken' = {}, ~down' PROVE Undisturbed'
  BY DEF UndisturbedInv
<1>0. ServiceStep /\ Calm
  BY Steps, StillCalm
<1>1. ASSUME NEW q \in Requests, HandlerStep(q) PROVE Undisturbed'
  BY <1>0, <1>1, HandlerUnd, BeginUnd, StartUnd, ResumeUnd DEF HandlerStep
<1>2. ASSUME NEW q \in Requests, RequestStep(q) PROVE Undisturbed'
  BY <1>0, <1>1, <1>2, ConsumerUnd, ProducerUndisturbed, CleanupUndisturbed DEF RequestStep
<1>3. ~ShutdownChanges
  BY DEF ShutdownChanges
<1> QED BY <1>0, <1>2, <1>3, DecideUnd, EnvironmentUnd DEF ServiceStep

LEMMA UndisturbedInit == ServiceInit => UndisturbedInv
<1> SUFFICES ASSUME ServiceInit PROVE Undisturbed
  BY DEF UndisturbedInv
<1> USE RequestsAssumption DEF ServiceInit, LifecycleInit, SessionInit
<1>1. \A q \in Requests : ~Holds(q) /\ ~Kept(q) /\ GraphOwn(q)
  BY DEF Holds, Kept, Registered, GraphOwn, NewRequest, NewLifecycle
<1>2. ApprovalContext /\ ~Interrupted
  BY DEF ApprovalContext, Interrupted, Unleased
<1> QED BY <1>1, <1>2 DEF Undisturbed

\* ApprovedOnly: what is applied was approved, during a shutdown too.

\* Which steps of a thread put a change into the source, or begin to work on one.
LEMMA ProducerWorks ==
    ASSUME Inv, NEW q \in Requests, Producer(q)
    PROVE  \/ ResumeGraph(q) \/ BeginGraph(q) \/ GraphApplies(q)
           \/ applied' = applied /\ producer'[q] # "streaming"
<1> USE DEF Inv, TypeInv, At, resourceVars, historyVars
<1>1. CASE ProducerStops(q) \/ LeaveGraphSuspended(q) \/ ReportOutcome(q) \/ MarkRetained(q)
           \/ AnnounceApproval(q) \/ FinishProducer(q) \/ RecoveryFails(q)
  BY <1>1 DEF ProducerStops, LeaveGraphSuspended, ReportOutcome, MarkRetained, AnnounceApproval,
              FinishProducer, RecoveryFails
<1>2. CASE GraphSuspends(q) \/ GraphRaises(q) \/ \E stream_failed \in BOOLEAN : GraphFails(q, stream_failed)
  BY <1>2 DEF GraphSuspends, GraphRaises, GraphFails, GraphLeaves
<1>3. CASE SeeSuspension(q) \/ SeeOutcome(q) \/ AskApproval(q) \/ RetainForHitl(q)
  BY <1>3 DEF SeeSuspension, SeeOutcome, AskApproval, RetainForHitl
<1> QED BY <1>1, <1>2, <1>3 DEF Producer

LEMMA ProducerApproved ==
    ASSUME Inv, GeneralInv, overtaken = {}, ~down => Calm, ApprovedOnly,
           NEW q \in Requests, Producer(q), ProducerChanges(q)
    PROVE  applied' \subseteq approved' /\ \A p \in Requests : ApprovedWork(p)'
<1> USE DEF ProducerChanges, OthersSame
<1>0. applied \subseteq approved /\ (\A p \in Requests : ApprovedWork(p)) /\ Inv /\ StreamContext(q)
  BY DEF ApprovedOnly, ApprovedWork, Inv
<1>1. \A p \in Requests \ {q} : ApprovedWork(p)'
  BY <1>0 DEF ApprovedWork
<1>2. CASE ResumeGraph(q)
  <2>1. ~down
    BY <1>0, <1>2 DEF ResumeGraph, At, GeneralInv, RequestContext, StreamContext, Stopped
  <2>2. request[q].resume_value = "approved" => checkpoint.workspace \in approved
    BY <2>1, <1>2, ThreadHolds DEF Calm, Undisturbed, HolderContext, ResumeGraph, At
  <2>3. request'[q].graph.workspace = checkpoint.workspace /\ applied' = applied
    BY <1>0, <1>2 DEF ResumeGraph, Inv, TypeInv, historyVars
  <2>4. QED BY <1>0, <1>1, <2>2, <2>3 DEF ApprovedWork
<1>3. CASE BeginGraph(q)
  BY <1>0, <1>1, <1>3 DEF BeginGraph, ApprovedWork, Inv, TypeInv, historyVars
<1>4. CASE GraphApplies(q)
  <2>1. request[q].graph.workspace \in approved
    BY <1>0, <1>4 DEF ApprovedWork, GraphApplies, GraphLeaves, At
  <2>2. applied' \subseteq approved /\ producer'[q] # "streaming"
    BY <1>0, <1>4, <2>1 DEF GraphApplies, GraphLeaves, At, Inv, TypeInv
  <2>3. QED BY <1>1, <2>2 DEF ApprovedWork
<1>5. CASE applied' = applied /\ producer'[q] # "streaming"
  BY <1>0, <1>1, <1>5 DEF ApprovedWork
<1> QED BY <1>2, <1>3, <1>4, <1>5, ProducerWorks

\* While the user is asked nobody works.
LEMMA DecideApproved ==
    ASSUME Calm, ApprovedOnly, NEW verdict \in Verdicts, DecideChanges(verdict)
    PROVE  applied' \subseteq approved' /\ \A p \in Requests : ApprovedWork(p)'
<1> USE DEF DecideChanges
<1>1. applied \subseteq approved /\ lifecycle[session.approval].workspace \notin applied
  BY DEF ApprovedOnly, Calm, Undisturbed, ApprovalContext
<1>2. \A p \in Requests : producer[p] # "streaming"
  <2>1. \A p \in Requests : ProducerAlive(p) => HolderContext(p) /\ request[p].phase # "accepted"
    BY ThreadHolds DEF Calm, Undisturbed
  <2>2. QED BY <2>1 DEF HolderContext, ProducerAlive
<1> QED BY <1>1, <1>2 DEF ApprovedWork

LEMMA ApprovedNext ==
    ASSUME Inv, OneHolder, GeneralInv, UndisturbedInv, ApprovedOnly, [ServiceNext]_svars
    PROVE  ApprovedOnly'
<1> SUFFICES ASSUME overtaken' = {}
             PROVE  applied' \subseteq approved' /\ \A p \in Requests : ApprovedWork(p)'
  BY DEF ApprovedOnly, ApprovedWork
<1>0. ServiceStep
  BY Steps
<1>1. overtaken = {}
  BY <1>0, HistoryGrows
<1>2. (~down => Calm) /\ applied \subseteq approved /\ \A p \in Requests : ApprovedWork(p)
  BY <1>1 DEF Calm, OneHolder, Alone, UndisturbedInv, ApprovedOnly, ApprovedWork
<1>3. ASSUME NEW q \in Requests, HandlerStep(q)
      PROVE  applied' \subseteq approved' /\ \A p \in Requests : ApprovedWork(p)'
  <2>1. UNCHANGED <<applied, approved>> /\ OthersSame(q) /\ producer'[q] # "streaming"
    BY <1>3 DEF HandlerStep, HandlerChanges, BeginChanges, StartChanges, ResumeChanges, historyVars,
                Inv, StreamContext
  <2>2. QED BY <2>1, <1>2 DEF OthersSame, ApprovedWork
<1>4. ASSUME NEW q \in Requests, ConsumerStep(q) \/ CleanupChanges(q)
      PROVE  applied' \subseteq approved' /\ \A p \in Requests : ApprovedWork(p)'
  <2>1. CASE ConsumerStep(q)
    BY <2>1, <1>2 DEF ConsumerStep, LeavingChanges, CallChanges, TimeOutChanges, OthersSame, ApprovedWork, historyVars
  <2>2. CASE CleanupChanges(q)
    BY <2>2, <1>2 DEF CleanupChanges, OthersSame, ApprovedWork, ProducerAlive, historyVars
  <2>3. QED BY <1>4, <2>1, <2>2
<1>5. ASSUME NEW q \in Requests, RequestStep(q)
      PROVE  applied' \subseteq approved' /\ \A p \in Requests : ApprovedWork(p)'
  BY <1>1, <1>2, <1>3, <1>4, <1>5, ProducerApproved DEF RequestStep
<1>6. ASSUME NEW verdict \in Verdicts, DecideChanges(verdict)
      PROVE  applied' \subseteq approved' /\ \A p \in Requests : ApprovedWork(p)'
  <2>1. ~down
    BY <1>6 DEF DecideChanges
  <2>2. QED BY <2>1, <1>2, <1>6, DecideApproved
<1>7. CASE EnvironmentChanges \/ ShutdownChanges
  BY <1>2, <1>7 DEF EnvironmentChanges, ShutdownChanges, ApprovedWork, historyVars
<1> QED BY <1>0, <1>5, <1>6, <1>7 DEF ServiceStep

\* LeaseAnswered: somebody holds the run that the session is leased to, or is to come for it.

LEMMA HandlerAnswered ==
    ASSUME Inv, GeneralInv, LeaseAnswered, NEW q \in Requests, HandlerStep(q)
    PROVE  LeaseAnswered'
<1> USE DEF OthersSame, historyVars
<1>0. RequestContext(q) /\ StreamContext(q) /\ Inv /\ ObjectsNamed
  BY DEF GeneralInv, Inv
<1>a. ASSUME NEW run \in Requests, NEW x \in Requests, active_runs[run] = x, Holds(x) \/ Kept(x), x # q, OthersSame(q)
      PROVE  Holds(x)' \/ (Kept(x) /\ (active_runs'[run] = x => Kept(x)'))
  BY <1>a, <1>0 DEF Holds, Kept, Registered, Run, ObjectsNamed
<1>1. CASE HandlerChanges(q)
  <2>1. ASSUME NEW run \in Requests, Answered(run) PROVE Answered(run)'
    <3>1. CASE \E x \in Requests : Run(x) = run /\ request[x].phase \in {"accepted", "lost"}
      BY <1>1, <3>1 DEF HandlerChanges, Answered, Run
    <3>2. ASSUME NEW x \in Requests, active_runs[run] = x, Holds(x) \/ Kept(x) PROVE Answered(run)'
      <4>1. x # q
        BY <1>0, <1>1, <3>2 DEF HandlerChanges, ObjectsNamed
      <4>2. QED BY <4>1, <3>2, <1>a, <1>1 DEF HandlerChanges, Answered
    <3>3. QED BY <2>1, <3>1, <3>2 DEF Answered
  <2>2. QED BY <1>1, <2>1 DEF LeaseAnswered, LeasedTo, Open, HandlerChanges
<1>2. CASE BeginChanges(q)
  BY <1>2 DEF BeginChanges, LeaseAnswered, Answered, LeasedTo, Open, Run
<1>3. ASSUME NEW run \in Requests, NEW verdict \in Verdicts, ResumeChanges(q, run, verdict) PROVE LeaseAnswered'
  BY <1>3 DEF ResumeChanges, LeaseAnswered, Answered, LeasedTo, Open, Run
<1>4. CASE StartChanges(q)
  <2>1. ASSUME NEW run \in Requests, Answered(run) PROVE Answered(run)'
    <3>1. CASE run = Run(q)
      BY <1>4, <3>1 DEF StartChanges, Answered, Holds
    <3>2. CASE run # Run(q)
      <4>1. CASE \E x \in Requests : Run(x) = run /\ request[x].phase \in {"accepted", "lost"}
        BY <1>4, <3>2, <4>1 DEF StartChanges, Answered, Run
      <4>2. ASSUME NEW x \in Requests, active_runs[run] = x, Holds(x) \/ Kept(x) PROVE Answered(run)'
        <5>1. x # q
          BY <1>0, <3>2, <4>2 DEF ObjectsNamed
        <5>2. QED BY <5>1, <3>2, <4>2, <1>a, <1>4 DEF StartChanges, Answered
      <4>3. QED BY <2>1, <4>1, <4>2 DEF Answered
    <3>3. QED BY <3>1, <3>2
  <2>2. QED BY <1>4, <2>1 DEF LeaseAnswered, LeasedTo, Open, StartChanges
<1> QED BY <1>1, <1>2, <1>3, <1>4 DEF HandlerStep

\* Who has the run has it still.
LEMMA AnswerersKept ==
    ASSUME LeaseAnswered, active_runs' = active_runs,
           \A run \in Requests : LeasedTo(run)' => LeasedTo(run),
           \A x \in Requests : /\ Run(x)' = Run(x)
                               /\ request[x].phase \in {"accepted", "lost"} => request'[x].phase = request[x].phase
                               /\ Holds(x) \/ Kept(x) => Holds(x)' \/ Kept(x)'
    PROVE  LeaseAnswered'
BY DEF LeaseAnswered, Answered

LEMMA CleanupAnswered ==
    ASSUME Inv, GeneralInv, LeaseAnswered, NEW q \in Requests, CleanUp(q), CleanupChanges(q)
    PROVE  LeaseAnswered'
<1> USE DEF CleanupChanges, OthersSame
<1>0. /\ RequestContext(q) /\ StreamContext(q) /\ Inv /\ ObjectsNamed
      /\ \A run \in Requests : LeasedTo(run)' => LeasedTo(run)
  BY CleanupGeneral DEF GeneralInv, Inv, ReleaseStepOf
<1>a. \A x \in Requests : Run(x)' = Run(x) /\ request'[x].phase = request[x].phase
  BY DEF Run
<1>1. ASSUME NEW x \in Requests \ {q}, Holds(x) \/ Kept(x), NEW run \in Requests, active_runs[run] = x
      PROVE  active_runs'[run] = x /\ (Holds(x)' \/ Kept(x)')
  <2>0. active_runs' = active_runs \/ Unregister(q, Run(q))
    BY DEF CleanUp, CleanupProceeds, JoinProducer, JoinDeferred, RevokeCredential, DiscoveryRaises,
       DeleteCheckpoint, ReleaseLease, DeleteWorkspace, ReportCleanup
  <2>1. active_runs'[run] = x /\ Run(x) = run
    BY <1>0, <1>1, <2>0 DEF Unregister, ObjectsNamed, Inv, TypeInv
  <2>2. QED BY <2>1, <1>1, <1>a DEF Holds, Kept, Registered
<1>2. ASSUME NEW run \in Requests, LeasedTo(run)', active_runs[run] = q, Holds(q) \/ Kept(q)
      PROVE  active_runs'[run] = q /\ (Holds(q)' \/ Kept(q)')
  <2>0. Run(q) = run /\ LeasedTo(run)
    BY <1>0, <1>2 DEF ObjectsNamed
  <2>1. CASE JoinProducer(q) \/ JoinDeferred(q) \/ DiscoveryRaises(q) \/ DeleteCheckpoint(q)
    BY <2>1, <1>0, <1>2 DEF JoinProducer, JoinDeferred, DiscoveryRaises, DeleteCheckpoint, Released, Raises,
       Holds, Inv, TypeInv, Lifecycle
  <2>2. CASE RevokeCredential(q, Run(q))
    BY <2>0, <2>2, <1>0, <1>2, <1>a, RevokeEffect DEF RevokeChanges, Holds, Kept, Registered
  <2>3. CASE ReleaseLease(q, Run(q))
    <3>1. ~LeasedTo(run)'
      BY <1>0, <2>0, <2>3, RequestsAssumption DEF ReleaseLease, FinishOwnedRun, RequestContext, LeasedTo, Open, Unleased
    <3>2. QED BY <3>1, <1>2
  <2>4. CASE DeleteWorkspace(q) \/ ReportCleanup(q, Run(q))
    <3>1. ~Holds(q) /\ ~Kept(q)
      BY <1>0, <2>4 DEF DeleteWorkspace, ReportCleanup, Holds, Kept, Registered, StreamContext
    <3>2. QED BY <3>1, <1>2
  <2>5. QED BY <2>1, <2>2, <2>3, <2>4 DEF CleanUp, CleanupProceeds
<1>3. ASSUME NEW run \in Requests, LeasedTo(run)' PROVE Answered(run)'
  <2>1. Answered(run)
    BY <1>0, <1>3 DEF LeaseAnswered
  <2>2. CASE \E x \in Requests : Run(x) = run /\ request[x].phase \in {"accepted", "lost"}
    BY <2>2, <1>a DEF Answered
  <2>3. ASSUME NEW x \in Requests, active_runs[run] = x, Holds(x) \/ Kept(x) PROVE Answered(run)'
    BY <1>1, <1>2, <1>3, <2>3 DEF Answered
  <2>4. QED BY <2>1, <2>2, <2>3 DEF Answered
<1> QED BY <1>3 DEF LeaseAnswered

LEMMA AnsweredNext ==
    ASSUME Inv, GeneralInv, LeaseAnswered, [ServiceNext]_svars
    PROVE  LeaseAnswered'
<1>0. ServiceStep
  BY Steps
<1>1. ASSUME NEW q \in Requests, ConsumerStep(q) PROVE LeaseAnswered'
  <2> USE DEF OthersSame
  <2>1. /\ UNCHANGED <<session, active_runs>>
        /\ OthersSame(q) /\ request'[q].run = request[q].run /\ Holds(q)'
        /\ request[q].phase \notin {"accepted", "lost"}
    BY <1>1 DEF ConsumerStep, LeavingChanges, CallChanges, TimeOutChanges, CleaningStarts, Holds, Inv, StreamContext
  <2>2. QED BY <2>1, AnswerersKept DEF LeasedTo, Open, Run, Holds, Kept, Registered
<1>2. ASSUME NEW q \in Requests, Producer(q), ProducerChanges(q) PROVE LeaseAnswered'
  <2>1. \A run \in Requests : LeasedTo(run)' => LeasedTo(run)
    BY <1>2, ProducerGeneral DEF GeneralStep
  <2>2. \A x \in Requests : /\ Run(x)' = Run(x) /\ request'[x].phase = request[x].phase
                            /\ Holds(x) \/ Kept(x) => Holds(x)' \/ Kept(x)'
    BY <1>2 DEF ProducerChanges, OthersSame, Run, Holds, Kept, Registered
  <2>3. QED BY <2>1, <2>2, <1>2, AnswerersKept DEF ProducerChanges
<1>3. ASSUME NEW q \in Requests, RequestStep(q) PROVE LeaseAnswered'
  BY <1>1, <1>2, <1>3, HandlerAnswered, CleanupAnswered DEF RequestStep
<1>4. ASSUME NEW verdict \in Verdicts, DecideChanges(verdict) PROVE LeaseAnswered'
  BY <1>4, AnswerersKept DEF DecideChanges, LeasedTo, Open, Run, Holds, Kept, Registered
<1>5. CASE EnvironmentChanges
  BY <1>5, AnswerersKept DEF EnvironmentChanges, LeasedTo, Open, Run, Holds, Kept, Registered
<1>6. CASE ShutdownChanges
  <2>1. ASSUME NEW x \in Requests, Holds(x) \/ Kept(x) PROVE Holds(x)' \/ Kept(x)'
    <3>1. CASE CleansAgain(x)
      BY <3>1, <1>6 DEF ShutdownChanges, CleaningStarts, Holds
    <3>2. CASE ~CleansAgain(x)
      BY <3>2, <1>6, <2>1 DEF ShutdownChanges, Holds, Kept, Registered, Run
    <3>3. QED BY <3>1, <3>2
  <2>2. QED BY <2>1, <1>6, AnswerersKept DEF ShutdownChanges, LeasedTo, Open, Run
<1> QED BY <1>0, <1>3, <1>4, <1>5, <1>6 DEF ServiceStep

\* FaultsCounted: without a fault every deletion was done.

LEMMA HandlerFaults ==
    ASSUME Inv, GeneralInv, FaultsCounted, NEW q \in Requests, HandlerStep(q)
    PROVE  FaultsCounted'
<1>1. CASE HandlerChanges(q) \/ BeginChanges(q)
  BY <1>1 DEF HandlerChanges, BeginChanges, FaultsCounted, FaultFree, Open
<1>2. CASE StartChanges(q)
  BY <1>2 DEF StartChanges, OthersSame, NewLifecycle, FaultsCounted, FaultFree, Open
<1>3. ASSUME NEW run \in Requests, NEW verdict \in Verdicts, ResumeChanges(q, run, verdict) PROVE FaultsCounted'
  BY <1>3 DEF ResumeChanges, FaultsCounted, FaultFree, Open
<1> QED BY <1>1, <1>2, <1>3 DEF HandlerStep

LEMMA ConsumerFaults ==
    ASSUME Inv, GeneralInv, FaultsCounted, NEW q \in Requests, ConsumerStep(q)
    PROVE  FaultsCounted'
<1>0. RequestContext(q) /\ StreamContext(q)
  BY DEF GeneralInv, Inv
<1> USE DEF OthersSame, FaultsCounted, FaultFree, Open
<1>1. CASE LeavingChanges(q)
  BY <1>1 DEF LeavingChanges
<1>2. CASE CallChanges(q)
  BY <1>0, <1>2 DEF CallChanges, CleaningStarts, ObjectKept, RequestContext
<1>3. CASE TimeOutChanges(q)
  BY <1>3 DEF TimeOutChanges, ObjectKept
<1> QED BY <1>1, <1>2, <1>3 DEF ConsumerStep

\* A thread raises the count of the faults or leaves it, and never the session.
LEMMA ProducerCounts ==
    ASSUME Inv, NEW q \in Requests, Producer(q)
    PROVE  (faults' = faults \/ Fault) /\ (Open => Open')
<1> USE DEF resourceVars, Open
<1>1. CASE \/ ProducerStops(q) \/ LeaveGraphSuspended(q) \/ ReportOutcome(q) \/ MarkRetained(q)
           \/ AnnounceApproval(q) \/ FinishProducer(q) \/ RecoveryFails(q) \/ ResumeGraph(q)
  BY <1>1 DEF ProducerStops, LeaveGraphSuspended, ReportOutcome, MarkRetained, AnnounceApproval,
              FinishProducer, RecoveryFails, ResumeGraph
<1>2. CASE \/ GraphSuspends(q) \/ GraphRaises(q) \/ GraphApplies(q) \/ BeginGraph(q)
           \/ \E stream_failed \in BOOLEAN : GraphFails(q, stream_failed)
  BY <1>2 DEF GraphSuspends, GraphRaises, GraphApplies, GraphFails, GraphRemovesWorkspace, BeginGraph
<1>3. CASE SeeSuspension(q) \/ SeeOutcome(q) \/ RetainForHitl(q)
  BY <1>3 DEF SeeSuspension, SeeOutcome, RetainForHitl
<1>4. CASE AskApproval(q)
  <2>1. session \in SessionRecord
    BY <1>4 DEF AskApproval, BeginApproval, LeasedTo, Inv, TypeInv, SessionSound
  <2>2. session' \in SessionRecord
    BY <2>1, <1>4 DEF AskApproval, BeginApproval, SessionRecord
  <2>3. QED BY <2>2, <1>4, NoSession DEF AskApproval
<1> QED BY <1>1, <1>2, <1>3, <1>4 DEF Producer

LEMMA CleanupFaults ==
    ASSUME Inv, GeneralInv, FaultsCounted, NEW q \in Requests, CleanUp(q), CleanupChanges(q)
    PROVE  FaultsCounted'
<1>0. RequestContext(q) /\ Inv
  BY DEF GeneralInv
<1>1. /\ faults' = faults \/ Fault
      /\ faults' = faults /\ FaultFree(q) /\ Open => Open' /\ FaultFree(q)'
  <2> USE <1>0 DEF resourceVars, FaultFree, Open, Released, Raises, Inv, TypeInv, Lifecycle
  <2>1. CASE JoinProducer(q) \/ JoinDeferred(q)
    BY <2>1 DEF JoinProducer, JoinDeferred
  <2>2. CASE RevokeCredential(q, Run(q))
    BY <2>2, RevokeEffect DEF RevokeChanges
  <2>3. CASE DiscoveryRaises(q)
    BY <2>3 DEF DiscoveryRaises, Fault, FaultsCounted
  <2>4. CASE DeleteCheckpoint(q)
    BY <2>4 DEF DeleteCheckpoint, Fault, FaultsCounted
  <2>5. CASE ReleaseLease(q, Run(q))
    <3>1. Open => Open'
      BY <2>5, NoSession DEF ReleaseLease, FinishOwnedRun, Unleased, SessionRecord
    <3>2. QED BY <3>1, <2>5 DEF ReleaseLease
  <2>6. CASE DeleteWorkspace(q)
    BY <2>6 DEF DeleteWorkspace, Fault, FaultsCounted
  <2>7. CASE ReportCleanup(q, Run(q))
    BY <2>7 DEF ReportCleanup, Finished, NewLifecycle, Resource, RequestContext
  <2>8. QED BY <2>1, <2>2, <2>3, <2>4, <2>5, <2>6, <2>7 DEF CleanUp, CleanupProceeds
<1>2. \A p \in Requests \ {q} : FaultFree(p)' <=> FaultFree(p)
  BY DEF FaultFree, CleanupChanges, OthersSame
<1> QED BY <1>1, <1>2 DEF FaultsCounted, Fault

LEMMA FaultsNext ==
    ASSUME Inv, GeneralInv, FaultsCounted, [ServiceNext]_svars
    PROVE  FaultsCounted'
<1>0. ServiceStep
  BY Steps
<1>1. ASSUME NEW q \in Requests, Producer(q), ProducerChanges(q) PROVE FaultsCounted'
  <2>1. \A p \in Requests : FaultFree(p)' <=> FaultFree(p)
    BY <1>1 DEF ProducerChanges, OthersSame, FaultFree
  <2>2. QED BY <2>1, <1>1, ProducerCounts DEF FaultsCounted, Fault
<1>2. ASSUME NEW q \in Requests, RequestStep(q) PROVE FaultsCounted'
  BY <1>1, <1>2, HandlerFaults, ConsumerFaults, CleanupFaults DEF RequestStep
<1>3. ASSUME NEW verdict \in Verdicts, DecideChanges(verdict) PROVE FaultsCounted'
  BY <1>3 DEF DecideChanges, FaultsCounted, FaultFree
<1>4. CASE EnvironmentChanges
  BY <1>4 DEF EnvironmentChanges, FaultsCounted, FaultFree, Fault, Open
<1>5. CASE ShutdownChanges
  <2>1. ASSUME NEW p \in Requests, FaultFree(p) PROVE FaultFree(p)'
    <3>1. CASE CleansAgain(p)
      BY <3>1, <2>1, <1>5 DEF ShutdownChanges, CleaningStarts, ObjectKept, FaultFree, CleansAgain, Repeats
    <3>2. CASE ~CleansAgain(p)
      BY <3>2, <2>1, <1>5 DEF ShutdownChanges, FaultFree
    <3>3. QED BY <3>1, <3>2
  <2>2. QED BY <2>1, <1>5 DEF ShutdownChanges, FaultsCounted, Open
<1> QED BY <1>0, <1>2, <1>3, <1>4, <1>5 DEF ServiceStep

\* Owned: every workspace there is has an owner that finds it.

\* What holds as long as nothing was overtaken and, once the service is down,
\* nothing was missed.
Sound ==
    /\ Inv /\ GeneralInv /\ FaultsCounted /\ Owned
    /\ ~down => Calm
    /\ down => faults = 0

LEMMA SoundFacts ==
    ASSUME Sound
    PROVE  /\ Inv /\ Typed /\ RunsNamed /\ ObjectsNamed /\ WorkspacesNamed
           /\ \A q \in Requests : StreamContext(q) /\ RequestContext(q)
           /\ \A q \in Requests : down => FaultFree(q)
           /\ \A w \in workspaces : w \in Requests /\ Run(w) \in Requests /\ request[w].phase \in {"serving", "leaving", "done"}
<1>1. /\ Inv /\ Typed /\ RunsNamed /\ ObjectsNamed /\ WorkspacesNamed
      /\ \A q \in Requests : StreamContext(q) /\ RequestContext(q)
  BY TypedInv DEF Sound, GeneralInv, Inv
<1>2. \A q \in Requests : down => FaultFree(q)
  BY DEF Sound, FaultsCounted
<1>3. ASSUME NEW w \in workspaces
      PROVE w \in Requests /\ Run(w) \in Requests /\ request[w].phase \in {"serving", "leaving", "done"}
  <2>1. w \in Requests /\ producer[w] # "none"
    BY <1>1 DEF Typed, WorkspacesNamed, Made, Begun
  <2>2. QED BY <1>1, <2>1 DEF StreamContext
<1> QED BY <1>1, <1>2, <1>3

\* Whose work is found through the checkpoint.
Finds(q) ==
    /\ lifecycle[q].cleanup \in {"none", "waiting", "deferred", "releasing"}
    /\ lifecycle[q].workspace = None /\ "workspace" \notin lifecycle[q].released
    /\ request[q].phase \in {"serving", "leaving", "done"}

LEMMA FindsUnclean == ASSUME Sound, NEW q \in Requests, Finds(q) PROVE Unclean(q) \/ (~down /\ Holds(q))
<1>1. RequestContext(q) /\ (down => FaultFree(q))
  BY SoundFacts
<1>2. QED BY <1>1 DEF Finds, Unclean, Holds, RequestContext, FaultFree

LEMMA UncleanHolds == ASSUME NEW q \in Requests, Unclean(q) PROVE Holds(q)
BY DEF Unclean, Holds

LEMMA OneFinds ==
    ASSUME Sound, NEW q \in Requests, Unclean(q), NEW x \in Requests, Finds(x) PROVE x = q
<1>1. CASE Unclean(x)
  BY <1>1 DEF Sound, Owned
<1>2. CASE ~down /\ Holds(x)
  BY <1>2, UncleanHolds DEF Sound, Calm, Alone
<1> QED BY <1>1, <1>2, FindsUnclean

LEMMA ThreadUnclean == ASSUME Sound, NEW q \in Requests, ProducerAlive(q) PROVE Unclean(q)
<1>1. RequestContext(q) /\ StreamContext(q)
  BY SoundFacts
<1>2. QED BY <1>1 DEF RequestContext, StreamContext, Unclean, ProducerAlive

\* An owner that finds nothing through the checkpoint owns what it did.
LEMMA OwnsStill ==
    ASSUME NEW x \in Requests, NEW w \in Requests, Owns(x, w), lifecycle'[x] = lifecycle[x],
           request[x].phase \in {"serving", "leaving", "done"}, ~Finds(x) \/ checkpoint' = checkpoint
    PROVE  Owns(x, w)'
BY DEF Owns, Finds

\* The request that everything belongs to in a step.
LEMMA OwnedAlone ==
    ASSUME Sound, NEW q \in Requests, OthersSame(q), workspaces' \subseteq workspaces,
           \A w \in workspaces : Run(w)' = Run(w),
           \A w \in workspaces', x \in Requests \ {q} :
              active_runs[Run(w)] = x => active_runs'[Run(w)] = x,
           checkpoint' = checkpoint \/ Unclean(q),
           \A w \in workspaces' : active_runs[Run(w)] = q /\ Owns(q, w) =>
              active_runs'[Run(w)] = q /\ Owns(q, w)'
    PROVE  \A w \in workspaces' : \E x \in Requests : active_runs'[Run(w)'] = x /\ Owns(x, w)'
<1> SUFFICES ASSUME NEW w \in workspaces'
             PROVE  \E x \in Requests : active_runs'[Run(w)'] = x /\ Owns(x, w)'
  OBVIOUS
<1>1. PICK x \in Requests : active_runs[Run(w)] = x /\ Owns(x, w)
  BY DEF Sound, Owned
<1>2. w \in Requests /\ Run(w) \in Requests /\ ObjectsNamed
  BY SoundFacts
<1>3. request[x].phase \in {"serving", "leaving", "done"}
  BY <1>1, <1>2 DEF ObjectsNamed
<1>4. CASE x = q
  BY <1>1, <1>4
<1>5. CASE x # q
  <2>1. checkpoint' = checkpoint \/ ~Finds(x)
    BY <1>5, OneFinds
  <2>2. Owns(x, w)'
    BY <1>1, <1>2, <1>3, <1>5, <2>1, OwnsStill DEF OthersSame
  <2>3. QED BY <1>1, <1>5, <2>2
<1> QED BY <1>4, <1>5

OwnedWorkspaces == \A w \in workspaces : \E q \in Requests : active_runs[Run(w)] = q /\ Owns(q, w)

\* What a thread makes of the checkpoint and of what is known of its workspace.
WorkKept(q) ==
    /\ workspaces' \subseteq workspaces
    /\ \/ checkpoint' = checkpoint /\ lifecycle'[q].workspace = lifecycle[q].workspace
       \/ /\ checkpoint' = checkpoint /\ producer[q] = "streamed" /\ checkpoint # None
          /\ lifecycle'[q].workspace = checkpoint.workspace
       \/ /\ producer[q] = "streaming" /\ lifecycle'[q].workspace = lifecycle[q].workspace
          /\ checkpoint' # None /\ checkpoint'.workspace = request[q].graph.workspace

LEMMA ProducerWork ==
    ASSUME Inv, NEW q \in Requests, Producer(q) PROVE BeginGraph(q) \/ WorkKept(q)
<1> USE DEF WorkKept, Inv, TypeInv, At, resourceVars
<1>1. CASE \/ ProducerStops(q) \/ LeaveGraphSuspended(q) \/ ReportOutcome(q) \/ MarkRetained(q)
           \/ AnnounceApproval(q) \/ FinishProducer(q) \/ RecoveryFails(q) \/ ResumeGraph(q) \/ GraphRaises(q)
  BY <1>1 DEF ProducerStops, LeaveGraphSuspended, ReportOutcome, MarkRetained, AnnounceApproval,
              FinishProducer, RecoveryFails, ResumeGraph, GraphRaises
<1>2. CASE GraphSuspends(q) \/ GraphApplies(q) \/ \E stream_failed \in BOOLEAN : GraphFails(q, stream_failed)
  <2>1. StreamContext(q) /\ producer[q] = "streaming" /\ lifecycle' = lifecycle /\ workspaces' \subseteq workspaces
        /\ \E shows \in {"interrupted", "success", "failed"} :
              checkpoint' = [workspace |-> request[q].graph.workspace, shows |-> shows]
    BY <1>2 DEF GraphSuspends, GraphApplies, GraphFails, GraphRemovesWorkspace, GraphLeaves
  <2>2. request[q].graph.workspace \in Requests
    BY <2>1 DEF StreamContext, GraphState
  <2>3. checkpoint' \in Checkpoint /\ checkpoint'.workspace = request[q].graph.workspace
    BY <2>1, <2>2 DEF Checkpoint
  <2>4. QED BY <2>1, <2>3, NoCheckpoint
<1>3. CASE SeeSuspension(q) \/ SeeOutcome(q)
  BY <1>3 DEF SeeSuspension, SeeOutcome, SetWorkspace, Lifecycle
<1>4. CASE AskApproval(q) \/ RetainForHitl(q)
  BY <1>4 DEF AskApproval, RetainForHitl, Lifecycle
<1> QED BY <1>1, <1>2, <1>3, <1>4 DEF Producer

LEMMA WorkOwned ==
    ASSUME Sound, NEW q \in Requests, ProducerChanges(q), WorkKept(q)
    PROVE  OwnedWorkspaces'
<1> USE DEF ProducerChanges
<1>0. Unclean(q) /\ RequestContext(q) /\ StreamContext(q) /\ Typed /\ GraphHas(q)
  BY SoundFacts, ThreadUnclean DEF Sound, Owned
<1>1. \A w \in Requests : Run(w)' = Run(w)
  BY DEF OthersSame, Run
<1>2. ASSUME NEW w \in workspaces', Owns(q, w) PROVE Owns(q, w)'
  <2>1. CASE lifecycle'[q].workspace = lifecycle[q].workspace /\ checkpoint' = checkpoint
    BY <2>1, <1>2 DEF Owns
  <2>2. CASE /\ producer[q] = "streamed" /\ checkpoint # None
             /\ lifecycle'[q].workspace = checkpoint.workspace
    <3>1. lifecycle[q].cleanup \in {"none", "waiting", "deferred"} /\ lifecycle[q].workspace = None
      BY <2>2, <1>0 DEF StreamContext, RequestContext, ProducerAlive
    <3>2. w = checkpoint.workspace /\ w # None
      BY <3>1, <2>2, <1>0, <1>2, RequestsAssumption DEF Owns, Typed
    <3>3. QED BY <3>1, <3>2, <2>2, <1>2 DEF Owns
  <2>3. CASE /\ producer[q] = "streaming" /\ lifecycle'[q].workspace = lifecycle[q].workspace
             /\ checkpoint' # None /\ checkpoint'.workspace = request[q].graph.workspace
    BY <2>3, <1>0, <1>2 DEF Owns, GraphHas
  <2>4. QED BY <2>1, <2>2, <2>3 DEF WorkKept
<1>3. workspaces \subseteq Requests /\ workspaces' \subseteq workspaces
  BY <1>0 DEF Typed, WorkKept
<1>4. QED BY <1>0, <1>1, <1>2, <1>3, OwnedAlone DEF OwnedWorkspaces

LEMMA BeginGraphOwned ==
    ASSUME Sound, NEW q \in Requests, BeginGraph(q), ProducerChanges(q)
    PROVE  OwnedWorkspaces'
<1> USE DEF ProducerChanges, OthersSame
<1>0. /\ Unclean(q) /\ RequestContext(q) /\ StreamContext(q) /\ Typed /\ Inv /\ ObjectsNamed
      /\ ProducerAlive(q)
  BY SoundFacts, ThreadUnclean
<1>1. /\ lifecycle[q].cleanup = "none" /\ request[q].phase \in {"serving", "leaving"} /\ producer[q] = "starting"
      /\ lifecycle[q].workspace = None /\ lifecycle[q].released = {} /\ Run(q) \in Requests
  BY <1>0 DEF BeginGraph, At, Stopped, RequestContext, StreamContext
<1>2. ~down
  BY <1>0, <1>1 DEF RequestContext
<1>3. /\ active_runs[Run(q)] = q
      /\ \A p \in Requests : Run(p) = Run(q) => p = q
  <2>1. HolderContext(q)
    BY <1>1, <1>2 DEF Sound, Calm, Undisturbed, Holds
  <2>2. QED BY <1>1, <2>1 DEF HolderContext, BeginGraph
<1>4. checkpoint' # None /\ checkpoint'.workspace = q /\ workspaces' = workspaces \cup {q}
      /\ lifecycle' = lifecycle
  BY NoCheckpoint DEF BeginGraph, Checkpoint
<1>a. \A p \in Requests : Run(p)' = Run(p)
  BY DEF Run
<1>5. Owns(q, q)'
  BY <1>1, <1>4, RequestsAssumption DEF Owns
<1>6. ASSUME NEW w \in workspaces, w # q
      PROVE  \E x \in Requests : active_runs'[Run(w)'] = x /\ Owns(x, w)'
  <2>1. PICK x \in Requests : active_runs[Run(w)] = x /\ Owns(x, w)
    BY DEF Sound, Owned
  <2>2. w \in Requests /\ Run(w) \in Requests
    BY SoundFacts
  <2>3. request[x].phase \in {"serving", "leaving", "done"} /\ Run(x) = Run(w)
    BY <1>0, <2>1, <2>2 DEF ObjectsNamed
  <2>4. x # q
    BY <1>3, <1>6, <2>2, <2>3
  <2>5. ~Finds(x)
    BY <1>0, <2>4, OneFinds
  <2>6. QED BY <1>4, <1>a, <2>1, <2>2, <2>3, <2>5, OwnsStill
<1>7. QED BY <1>3, <1>4, <1>5, <1>6, <1>a DEF OwnedWorkspaces

LEMMA GraphKept ==
    ASSUME Sound, NEW q \in Requests, Producer(q), ProducerChanges(q)
    PROVE  \A p \in Requests : GraphHas(p)'
<1> USE DEF ProducerChanges, OthersSame
<1>1. ASSUME NEW p \in Requests \ {q} PROVE GraphHas(p)'
  <2>1. ~ProducerAlive(p)
    BY <1>1, ThreadUnclean DEF Sound, Owned
  <2>2. QED BY <2>1 DEF GraphHas, ProducerAlive
<1>0. Inv /\ StreamContext(q)
  BY SoundFacts
<1>2. ASSUME ResumeGraph(q) PROVE GraphHas(q)'
  BY <1>0, <1>2 DEF ResumeGraph, GraphHas, Interrupted, Inv, TypeInv, resourceVars
<1>3. ASSUME BeginGraph(q) PROVE GraphHas(q)'
  <2>1. checkpoint' # None /\ checkpoint'.workspace = q /\ request'[q].graph.workspace = q
    BY <1>0, <1>3, NoCheckpoint DEF BeginGraph, Checkpoint, Inv, TypeInv
  <2>2. QED BY <2>1 DEF GraphHas
<1>4. ASSUME producer'[q] # "streaming" PROVE GraphHas(q)'
  BY <1>4 DEF GraphHas
<1>5. ASSUME GraphApplies(q) PROVE GraphHas(q)'
  BY <1>0, <1>5 DEF GraphApplies, GraphLeaves, At, GraphHas, Inv, TypeInv
<1>6. GraphHas(q)'
  BY <1>0, <1>2, <1>3, <1>4, <1>5, ProducerWorks
<1> QED BY <1>1, <1>6

LEMMA HandlerOwned ==
    ASSUME Sound, NEW q \in Requests, HandlerStep(q), ~StartChanges(q)
    PROVE  OwnedWorkspaces'
<1>1. /\ UNCHANGED <<lifecycle, active_runs, checkpoint, workspaces>> /\ OthersSame(q)
      /\ request[q].phase \in {"new", "admitted", "beginning", "accepted"}
  BY DEF HandlerStep, HandlerChanges, BeginChanges, ResumeChanges
<1>2. \A w \in workspaces : Run(w)' = Run(w)
  BY <1>1, SoundFacts DEF OthersSame, Run
<1>3. QED BY <1>1, <1>2 DEF Sound, Owned, OwnedWorkspaces, Owns

\* The object of a resumed run takes over the workspace that was kept for it.
LEMMA StartOwned ==
    ASSUME Sound, NEW q \in Requests, StartChanges(q)
    PROVE  OwnedWorkspaces'
<1> USE DEF StartChanges
<1>0. ObjectsNamed /\ Typed /\ RequestContext(q) /\ StreamContext(q)
  BY SoundFacts
<1>1. Calm /\ HolderContext(q) /\ \A p \in Requests \ {q} : ~Holds(p)
  <2>1. ~down /\ Holds(q)
    BY <1>0 DEF RequestContext, Holds
  <2>2. QED BY <2>1, AloneFacts DEF Sound
<1>2. ASSUME NEW w \in workspaces
      PROVE  \E x \in Requests : active_runs'[Run(w)'] = x /\ Owns(x, w)'
  <2>1. PICK x \in Requests : active_runs[Run(w)] = x /\ Owns(x, w)
    BY DEF Sound, Owned
  <2>2. /\ w \in Requests /\ Run(w) \in Requests /\ Run(x) = Run(w) /\ RequestContext(x)
        /\ request[x].phase \in {"serving", "leaving", "done"} /\ x # q /\ w # q
    BY <1>0, <2>1, SoundFacts DEF ObjectsNamed
  <2>3. Run(w)' = Run(w) /\ lifecycle'[x] = lifecycle[x]
    BY <2>2 DEF OthersSame, Run
  <2>4. CASE Run(w) = Run(q)
    <3>1. ~Holds(x) /\ "lease" \notin lifecycle[x].released
      BY <1>1, <2>2, <2>4 DEF HolderContext, Apart
    <3>2. Kept(x) /\ w = lifecycle[x].workspace
      BY <2>1, <2>2, <3>1 DEF Holds, RequestContext, Kept, Registered, Owns
    <3>3. checkpoint # None /\ checkpoint.workspace = w
      BY <1>1, <3>2 DEF Calm, Undisturbed, KeptContext, InterruptedIn, Interrupted
    <3>4. Owns(q, w)'
      BY <3>3 DEF Owns, NewLifecycle
    <3>5. QED BY <2>3, <2>4, <3>4
  <2>5. CASE Run(w) # Run(q)
    <3>1. Owns(x, w)'
      BY <2>1, <2>2, <2>3, OwnsStill
    <3>2. QED BY <2>1, <2>2, <2>3, <2>5, <3>1
  <2>6. QED BY <2>4, <2>5
<1>3. QED BY <1>2 DEF OwnedWorkspaces

LEMMA ConsumerOwned ==
    ASSUME Sound, NEW q \in Requests, ConsumerStep(q)
    PROVE  OwnedWorkspaces'
<1>1. /\ UNCHANGED <<active_runs, checkpoint, workspaces>> /\ OthersSame(q)
      /\ request'[q].run = request[q].run
  BY DEF ConsumerStep, LeavingChanges, CallChanges, TimeOutChanges
<1>2. \A w \in workspaces : Run(w)' = Run(w)
  BY <1>1, SoundFacts DEF OthersSame, Run
<1>3. ASSUME NEW w \in workspaces, Owns(q, w) PROVE Owns(q, w)'
  BY <1>1, <1>3 DEF ConsumerStep, LeavingChanges, CallChanges, TimeOutChanges, CleaningStarts, ObjectKept, Owns
<1>4. QED BY <1>1, <1>2, <1>3, OwnedAlone DEF OwnedWorkspaces

\* Only a request that is to delete the checkpoint does.
LEMMA CleanupCheckpoint ==
    ASSUME NEW q \in Requests, CleanUp(q)
    PROVE  checkpoint' = checkpoint \/ Unclean(q)
BY DEF CleanUp, CleanupProceeds, JoinProducer, JoinDeferred, RevokeCredential, DiscoveryRaises,
       DeleteCheckpoint, ReleaseLease, DeleteWorkspace, ReportCleanup, Unclean, resourceVars

LEMMA CleanupOwned ==
    ASSUME Sound, NEW q \in Requests, CleanUp(q), CleanupChanges(q)
    PROVE  OwnedWorkspaces'
<1> USE DEF CleanupChanges
<1>0. RequestContext(q) /\ Inv
  BY SoundFacts
<1>a. lifecycle \in [Requests -> Lifecycle] /\ lifecycle[q] \in Lifecycle /\ workspaces \subseteq Requests
  BY <1>0 DEF Inv, TypeInv
<1>1. workspaces' \subseteq workspaces /\ \A w \in workspaces : Run(w)' = Run(w)
  <2>1. workspaces' \subseteq workspaces
    BY DEF CleanUp, CleanupProceeds, JoinProducer, JoinDeferred, RevokeCredential, DiscoveryRaises,
       DeleteCheckpoint, ReleaseLease, DeleteWorkspace, ReportCleanup, resourceVars
  <2>2. QED BY <2>1, SoundFacts DEF OthersSame, Run
<1>2. \A w \in workspaces', x \in Requests \ {q} :
         active_runs[Run(w)] = x => active_runs'[Run(w)] = x
  <2>1. active_runs' = active_runs \/ Unregister(q, Run(q))
    BY DEF CleanUp, CleanupProceeds, JoinProducer, JoinDeferred, RevokeCredential, DiscoveryRaises,
       DeleteCheckpoint, ReleaseLease, DeleteWorkspace, ReportCleanup
  <2>2. QED BY <1>0, <1>1, <2>1, SoundFacts DEF Unregister, Inv, TypeInv
<1>3. ASSUME NEW w \in workspaces', active_runs[Run(w)] = q, Owns(q, w)
      PROVE  active_runs'[Run(w)] = q /\ Owns(q, w)'
  <2> USE <1>a DEF Lifecycle
  <2>0. w \in Requests
    BY <1>1, SoundFacts
  <2>1. CASE JoinProducer(q) \/ JoinDeferred(q)
    BY <2>1, <1>3 DEF JoinProducer, JoinDeferred, Owns, resourceVars
  <2>2. CASE RevokeCredential(q, Run(q))
    <3>1. RevokeChanges(q)
      BY <2>2, <1>0, RevokeEffect
    <3>2. w = Discovered(q) /\ "workspace" \notin lifecycle[q].released
      BY <3>1, <1>3 DEF RevokeChanges, Owns, Discovered
    <3>3. QED BY <3>1, <3>2, <1>3 DEF RevokeChanges, Owns
  <2>3. CASE DiscoveryRaises(q)
    BY <2>3, <1>3 DEF DiscoveryRaises, Owns
  <2>4. CASE DeleteCheckpoint(q) \/ ReleaseLease(q, Run(q))
    BY <2>4, <1>3 DEF DeleteCheckpoint, ReleaseLease, Released, Raises, Owns
  <2>5. CASE DeleteWorkspace(q)
    <3>0. active_runs' = active_runs
      BY <2>5 DEF DeleteWorkspace
    <3>1. \/ w = lifecycle[q].workspace /\ "workspace" \notin lifecycle[q].released
          \/ "discovery" \in lifecycle[q].errors
      BY <2>5, <1>3 DEF DeleteWorkspace, Owns
    <3>2. CASE /\ Released(q, "workspace", "reporting")
               /\ workspaces' = IF "workspace" \in lifecycle[q].released THEN workspaces
                                ELSE workspaces \ {lifecycle[q].workspace}
      <4>1. lifecycle'[q].cleanup = "reporting" /\ lifecycle'[q].errors = lifecycle[q].errors
        BY <3>2 DEF Released
      <4>2. "discovery" \in lifecycle[q].errors
        BY <3>1, <3>2
      <4>3. QED BY <3>0, <4>1, <4>2, <1>3 DEF Owns
    <3>3. CASE Raises(q, "workspace", "reporting")
      <4>1. lifecycle'[q].cleanup = "reporting" /\ "workspace" \in lifecycle'[q].errors
        BY <3>3 DEF Raises
      <4>2. QED BY <3>0, <4>1, <1>3 DEF Owns
    <3>4. QED BY <2>5, <3>2, <3>3 DEF DeleteWorkspace
  <2>6. CASE ReportCleanup(q, Run(q))
    <3>1. lifecycle[q].errors \cap {"discovery", "workspace"} # {} /\ lifecycle[q].errors # {}
          /\ lifecycle[q].cleanup = "reporting"
      BY <2>6, <1>3 DEF ReportCleanup, Owns
    <3>2. lifecycle' = [lifecycle EXCEPT ![q] = [@ EXCEPT !.cleanup = "done"]] /\ active_runs' = active_runs
      BY <2>6, <3>1 DEF ReportCleanup
    <3>3. ~lifecycle[q].workspace_retained /\ ~lifecycle[q].cleanup_complete
      BY <3>1, <1>0 DEF RequestContext
    <3>4. QED BY <3>1, <3>2, <3>3, <1>3 DEF Owns
  <2>7. QED BY <2>1, <2>2, <2>3, <2>4, <2>5, <2>6 DEF CleanUp, CleanupProceeds
<1>4. QED BY <1>1, <1>2, <1>3, CleanupCheckpoint, OwnedAlone DEF OwnedWorkspaces

\* A shutdown that finds no cleanup failed.
LEMMA ShutdownOwned ==
    ASSUME Sound, ShutdownChanges, faults = 0
    PROVE  OwnedWorkspaces'
<1> USE DEF ShutdownChanges
<1>1. ASSUME NEW w \in workspaces, NEW x \in Requests, Owns(x, w) PROVE Owns(x, w)'
  <2>0. FaultFree(x) /\ w \in Requests
    BY SoundFacts DEF Sound, FaultsCounted
  <2>1. CASE CleansAgain(x)
    BY <2>0, <2>1, <1>1, RequestsAssumption DEF CleansAgain, Repeats, CleaningStarts, ObjectKept, FaultFree, Owns
  <2>2. CASE ~CleansAgain(x)
    BY <2>2, <1>1 DEF Owns
  <2>3. QED BY <2>1, <2>2
<1>2. QED BY <1>1 DEF Sound, Owned, OwnedWorkspaces, Run

\* Nothing makes good again what was overtaken or missed.
LEMMA StillSound ==
    ASSUME Inv, OneHolder, GeneralInv, UndisturbedInv, FaultsCounted, OwnedInv, [ServiceNext]_svars,
           overtaken' = {}, ~down' \/ faults' = 0
    PROVE  Sound /\ (down' => faults = 0)
<1>0. ServiceStep /\ faults \in Nat
  BY Steps DEF FaultsCounted
<1>1. overtaken = {} /\ (down => down')
  BY <1>0, HistoryGrows DEF ShutdownChanges
<1>2. faults' = faults \/ faults' = faults + 1
  <2>1. ASSUME NEW q \in Requests, HandlerStep(q) \/ ConsumerStep(q) PROVE faults' = faults
    BY <2>1 DEF HandlerStep, ConsumerStep, HandlerChanges, BeginChanges, StartChanges,
         ResumeChanges, LeavingChanges, CallChanges, TimeOutChanges
  <2>2. ASSUME NEW q \in Requests, CleanUp(q) PROVE faults' = faults \/ Fault
    BY <2>2 DEF CleanUp, CleanupProceeds, JoinProducer, JoinDeferred, RevokeCredential, DiscoveryRaises,
       DeleteCheckpoint, ReleaseLease, DeleteWorkspace, ReportCleanup, Raises, resourceVars
  <2>3. QED BY <1>0, <2>1, <2>2, ProducerCounts
           DEF ServiceStep, RequestStep, DecideChanges, EnvironmentChanges, ShutdownChanges, Fault
<1>3. down' => faults = 0
  BY <1>0, <1>2
<1>4. Owned /\ (~down => Calm)
  BY <1>1, <1>3 DEF OwnedInv, Calm, OneHolder, Alone, UndisturbedInv
<1> QED BY <1>1, <1>3, <1>4 DEF Sound

\* Once the service is down nobody begins to work.
LEMMA UncleanKept ==
    ASSUME Sound, ServiceStep, down, NEW p \in Requests, Unclean(p)'
    PROVE  Unclean(p)
<1>0. \A q \in Requests : RequestContext(q) /\ StreamContext(q) /\ Inv
  BY SoundFacts
<1>1. ASSUME NEW q \in Requests, HandlerStep(q) \/ ConsumerStep(q) PROVE Unclean(p)
  <2>1. TimeOutChanges(q)
    BY <1>0, <1>1 DEF RequestContext, HandlerStep, HandlerChanges, BeginChanges, ResumeChanges, StartChanges,
                      ConsumerStep, LeavingChanges, CallChanges
  <2>2. QED BY <2>1 DEF TimeOutChanges, OthersSame, ObjectKept, Unclean
<1>2. ASSUME NEW q \in Requests, ProducerChanges(q) PROVE Unclean(p)
  BY <1>2 DEF ProducerChanges, OthersSame, Unclean
<1>3. ASSUME NEW q \in Requests, CleanUp(q), CleanupChanges(q) PROVE Unclean(p)
  <2>1. CASE p # q
    BY <1>3, <2>1 DEF CleanupChanges, OthersSame, Unclean
  <2>2. CASE p = q
    <3> USE <1>0, <2>2 DEF Unclean, CleanupChanges, Inv, TypeInv
    <3>1. CASE JoinProducer(q) \/ JoinDeferred(q) \/ DiscoveryRaises(q)
      BY <1>3, <3>1 DEF JoinProducer, JoinDeferred, DiscoveryRaises, Lifecycle
    <3>2. CASE RevokeCredential(q, Run(q))
      BY <1>3, <3>2, RevokeEffect DEF RevokeChanges
    <3>3. CASE DeleteCheckpoint(q) \/ ReleaseLease(q, Run(q)) \/ DeleteWorkspace(q) \/ ReportCleanup(q, Run(q))
      <4>1. lifecycle'[q].cleanup \in {"lease", "workspace", "reporting", "done"}
        <5>1. CASE DeleteCheckpoint(q) \/ ReleaseLease(q, Run(q)) \/ DeleteWorkspace(q)
          BY <1>0, <5>1 DEF DeleteCheckpoint, ReleaseLease, DeleteWorkspace, Released, Raises, Inv, TypeInv, Lifecycle
        <5>2. CASE ReportCleanup(q, Run(q))
          BY <5>2 DEF ReportCleanup, Finished, NewLifecycle
        <5>3. QED BY <3>3, <5>1, <5>2
      <4>2. QED BY <1>3, <4>1
    <3>4. QED BY <1>3, <3>1, <3>2, <3>3 DEF CleanUp, CleanupProceeds
  <2>3. QED BY <2>1, <2>2
<1>4. ASSUME NEW verdict \in Verdicts, DecideChanges(verdict) PROVE Unclean(p)
  BY <1>4 DEF DecideChanges
<1>5. CASE EnvironmentChanges
  BY <1>5 DEF EnvironmentChanges, Unclean
<1> QED BY <1>0, <1>1, <1>2, <1>3, <1>4, <1>5 DEF ServiceStep, RequestStep, ShutdownChanges

\* A shutdown leaves one run at most to be cleaned up: the late one or the kept one.
LEMMA ShutdownUnclean ==
    ASSUME Sound, ShutdownChanges, faults = 0, NEW p \in Requests, NEW q \in Requests,
           Unclean(p)', Unclean(q)'
    PROVE  p = q
<1> USE DEF ShutdownChanges
<1>1. Calm /\ Open /\ ObjectsNamed /\ Typed
  BY SoundFacts DEF Sound, FaultsCounted
<1>2. ASSUME NEW x \in Requests, Unclean(x)'
      PROVE  Run(x) \in Requests /\ (Holds(x) \/ Kept(x)) /\ request[x].phase # "accepted"
  <2>0. FaultFree(x) /\ StreamContext(x) /\ ~InProgress(x)
    BY SoundFacts DEF Sound, FaultsCounted
  <2>1. CASE CleansAgain(x)
    <3>1. lifecycle[x].cleanup = "done" /\ lifecycle[x].workspace_retained
      BY <1>2, <2>0, <2>1 DEF CleansAgain, Repeats, CleaningStarts, ObjectKept, FaultFree, Unclean, InProgress
    <3>2. active_runs[Run(x)] = x /\ Run(x) \in Requests
      BY <1>1, <2>1 DEF CleansAgain, ObjectsNamed
    <3>3. QED BY <2>0, <3>1, <3>2 DEF Kept, Registered, InProgress
  <2>2. CASE ~CleansAgain(x)
    BY <1>2, <2>0, <2>2 DEF Unclean, InProgress, Holds, StreamContext
  <2>3. QED BY <2>1, <2>2
<1>3. \A x, y \in Requests : Kept(x) /\ Holds(y) => request[y].phase = "accepted"
  BY <1>1 DEF Calm, Undisturbed, KeptContext
<1>4. CASE Kept(p) /\ Kept(q)
  <2>1. LeasedTo(Run(p)) /\ LeasedTo(Run(q))
    BY <1>1, <1>4 DEF Calm, Undisturbed, KeptContext
  <2>2. QED BY <2>1, <1>4 DEF LeasedTo, Kept, Registered
<1>5. CASE Holds(p) /\ Holds(q)
  BY <1>1, <1>5 DEF Calm, Alone
<1> QED BY <1>2, <1>3, <1>4, <1>5

LEMMA OneUnclean ==
    ASSUME Sound, OneHolder', ServiceStep, overtaken' = {}, down' => faults = 0
    PROVE  \A p, q \in Requests : Unclean(p)' /\ Unclean(q)' => p = q
<1>1. CASE ~down'
  <2>1. \A p \in Requests : Unclean(p)' => Holds(p)'
    BY DEF Unclean, Holds
  <2>2. QED BY <1>1, <2>1 DEF OneHolder
<1>2. CASE down
  BY <1>2, UncleanKept DEF Sound, Owned
<1>3. CASE ~down /\ down'
  <2>1. ShutdownChanges
    BY <1>3, HistoryGrows
  <2>2. QED BY <1>3, <2>1, ShutdownUnclean
<1> QED BY <1>1, <1>2, <1>3

LEMMA CleanupGraphKept ==
    ASSUME Sound, NEW q \in Requests, CleanUp(q), CleanupChanges(q)
    PROVE  \A p \in Requests : GraphHas(p)'
<1> SUFFICES ASSUME NEW p \in Requests, producer[p] = "streaming" PROVE GraphHas(p)'
  BY DEF GraphHas, CleanupChanges
<1>1. p # q /\ Unclean(p)
  BY ThreadUnclean DEF CleanupChanges, ProducerAlive
<1>2. checkpoint' = checkpoint /\ GraphHas(p)
  BY <1>1, CleanupCheckpoint DEF Sound, Owned
<1>3. QED BY <1>1, <1>2 DEF CleanupChanges, OthersSame, GraphHas

LEMMA OwnedNext ==
    ASSUME Inv, OneHolder, GeneralInv, UndisturbedInv, FaultsCounted, OwnedInv, [ServiceNext]_svars
    PROVE  OwnedInv'
<1> SUFFICES ASSUME overtaken' = {}, ~down' \/ faults' = 0 PROVE Owned'
  BY DEF OwnedInv
<1>0. Sound /\ ServiceStep /\ OneHolder' /\ (down' => faults = 0)
  BY StillSound, Steps, NextHolder
<1>1. \A p, q \in Requests : Unclean(p)' /\ Unclean(q)' => p = q
  BY <1>0, OneUnclean
<1>2. ASSUME NEW q \in Requests, RequestStep(q)
      PROVE  OwnedWorkspaces' /\ \A p \in Requests : GraphHas(p)'
  <2>0. (\A p \in Requests : GraphHas(p)) /\ StreamContext(q)
    BY <1>0, SoundFacts DEF Sound, Owned
  <2>1. CASE HandlerStep(q)
    <3>1. \A p \in Requests : GraphHas(p)'
      BY <2>0, <2>1 DEF HandlerStep, HandlerChanges, BeginChanges, StartChanges, ResumeChanges, OthersSame, GraphHas
    <3>2. QED BY <1>0, <2>1, <3>1, HandlerOwned, StartOwned
  <2>2. CASE ConsumerStep(q)
    <3>1. \A p \in Requests : GraphHas(p)'
      BY <2>0, <2>2 DEF ConsumerStep, LeavingChanges, CallChanges, TimeOutChanges, OthersSame, GraphHas
    <3>2. QED BY <1>0, <2>2, <3>1, ConsumerOwned
  <2>3. CASE Producer(q) /\ ProducerChanges(q)
    BY <1>0, <2>3, ProducerWork, WorkOwned, BeginGraphOwned, GraphKept, SoundFacts
  <2>4. CASE CleanUp(q) /\ CleanupChanges(q)
    BY <1>0, <2>4, CleanupOwned, CleanupGraphKept
  <2>5. QED BY <1>2, <2>1, <2>2, <2>3, <2>4 DEF RequestStep
<1>3. ASSUME \/ \E verdict \in Verdicts : DecideChanges(verdict)
             \/ EnvironmentChanges
      PROVE  OwnedWorkspaces' /\ \A p \in Requests : GraphHas(p)'
  <2>1. UNCHANGED <<request, lifecycle, producer, active_runs, checkpoint, workspaces>>
    BY <1>3 DEF DecideChanges, EnvironmentChanges
  <2>2. QED BY <1>0, <2>1 DEF Sound, Owned, OwnedWorkspaces, Owns, GraphHas, Run
<1>4. ASSUME ShutdownChanges
      PROVE  OwnedWorkspaces' /\ \A p \in Requests : GraphHas(p)'
  BY <1>0, <1>4, ShutdownOwned DEF Sound, Owned, GraphHas, ShutdownChanges
<1>5. OwnedWorkspaces' /\ \A p \in Requests : GraphHas(p)'
  BY <1>0, <1>2, <1>3, <1>4 DEF ServiceStep
<1> QED BY <1>1, <1>5 DEF Owned, OwnedWorkspaces

LEMMA RestInit == ServiceInit => ApprovedOnly /\ LeaseAnswered /\ FaultsCounted /\ OwnedInv
<1> SUFFICES ASSUME ServiceInit PROVE ApprovedOnly /\ LeaseAnswered /\ FaultsCounted /\ OwnedInv
  OBVIOUS
<1> USE RequestsAssumption DEF ServiceInit, LifecycleInit, SessionInit
<1>1. ApprovedOnly
  BY DEF ApprovedOnly, ApprovedWork
<1>2. LeaseAnswered
  BY DEF LeaseAnswered, LeasedTo, Unleased
<1>3. FaultsCounted
  <2>1. Open
    BY NoSession DEF Open, Unleased, SessionRecord
  <2>2. QED BY <2>1 DEF FaultsCounted, FaultFree, NewLifecycle
<1>4. OwnedInv
  BY DEF OwnedInv, Owned, Unclean, GraphHas, NewRequest, NewLifecycle
<1> QED BY <1>1, <1>2, <1>3, <1>4

RunInv ==
    /\ Inv /\ OneHolder /\ GeneralInv /\ UndisturbedInv
    /\ ApprovedOnly /\ LeaseAnswered /\ FaultsCounted /\ OwnedInv

\* The inductive invariant of what a run leaves behind, for any number of requests and faults.
THEOREM RunInvariance == ServiceSpec => []RunInv
<1>1. ServiceInit => RunInv
  BY InitInv, GeneralInit, UndisturbedInit, RestInit DEF RunInv
<1>2. RunInv /\ [ServiceNext]_svars => RunInv'
  BY NextInv, NextHolder, GeneralNext, UndisturbedNext, ApprovedNext, AnsweredNext, FaultsNext, OwnedNext
     DEF RunInv
<1> QED BY <1>1, <1>2, PTL DEF ServiceSpec

\* A graph that works finds its own checkpoint, and one that works for its own run
\* finds its workspace there, unless a cleanup that gave up waiting was overtaken or
\* the service shut down (run_lifecycle.py, _release_owned_resources).
THEOREM GraphsKeepTheirCheckpoint == ServiceSpec => []ProducerOwnsRun
<1>1. RunInv => ProducerOwnsRun
  <2> SUFFICES ASSUME RunInv, overtaken = {}, ~down, NEW q \in Requests, producer[q] = "streaming"
               PROVE  /\ checkpoint # None /\ checkpoint.workspace = request[q].graph.workspace
                      /\ checkpoint.workspace = Run(q) => checkpoint.workspace \in workspaces
    BY DEF ProducerOwnsRun
  <2>1. GraphHas(q) /\ GraphOwn(q)
    BY DEF RunInv, OwnedInv, Owned, UndisturbedInv, Undisturbed
  <2>2. QED BY <2>1 DEF GraphHas, GraphOwn, OwnThere
<1> QED BY <1>1, RunInvariance, PTL

\* A run that waits for its approval keeps what its resumption needs: the interrupted
\* checkpoint, the workspace, the lease and the approval, and its status says so
\* (run_lifecycle.py, cleanup; app.py, produce_events).
THEOREM KeptRunResumable == ServiceSpec => []WaitingRunKept
<1>1. RunInv => WaitingRunKept
  <2> SUFFICES ASSUME RunInv, NEW q \in Requests, Waiting(q)
               PROVE  /\ Interrupted /\ checkpoint.workspace = lifecycle[q].workspace
                      /\ lifecycle[q].workspace \in workspaces
                      /\ Open => /\ LeasedTo(Run(q))
                                 /\ Taken(q) \/ session.approval = lifecycle[q].hitl_retention.approval
                      /\ status[Run(q)] # None => status[Run(q)].lifecycle = "waiting_for_hitl"
    BY DEF WaitingRunKept
  <2>1. Kept(q) /\ RequestContext(q) /\ overtaken = {}
    BY DEF Waiting, Kept, Registered, RunInv, GeneralInv
  <2>2. KeptContext(q)
    BY <2>1 DEF RequestContext, RunInv, UndisturbedInv, Undisturbed
  <2>3. QED BY <2>2 DEF KeptContext, InterruptedIn, OwnThere, Waiting
<1> QED BY <1>1, RunInvariance, PTL

\* Nothing is applied that was not approved, unless a resumption overtook a cleanup,
\* and no run is reported as completed whose change was not applied
\* (app.py, event_generator; run_status.py, update).
THEOREM ToldAsItIs == ServiceSpec => []ToldTruly
<1>1. RunInv => ToldTruly
  BY DEF RunInv, ApprovedOnly, GeneralInv, StatusApplied, ToldTruly
<1> QED BY <1>1, RunInvariance, PTL

\* A key, a lease or a workspace that is left has somebody who is still to give it
\* back, or a run that waits, a lost response or a failed deletion to account for it
\* (run_lifecycle.py, cleanup; app.py, refactor_code_stream).
THEOREM SomebodyAnswers == ServiceSpec => []NothingForgotten
<1>1. RunInv => NothingForgotten
  <2> SUFFICES ASSUME RunInv PROVE NothingForgotten
    OBVIOUS
  <2>0. /\ Inv /\ Typed /\ ObjectsNamed /\ LeaseAnswered /\ FaultsCounted /\ OwnedInv
        /\ \A q \in Requests : RequestContext(q) /\ StreamContext(q)
    BY TypedInv DEF RunInv, GeneralInv, Inv
  <2>1. \A q \in vault : Pending(q) \/ request[q].phase = "lost"
    BY <2>0 DEF Inv, TypeInv, StreamContext, Pending, InProgress
  <2>a. \A q \in Requests : Holds(q) => Pending(q)
    BY DEF Holds, Pending, InProgress
  <2>2. ASSUME Open, ~LeasedTo(None)
        PROVE  \E q \in Requests : LeasedTo(Run(q)) /\ (Pending(q) \/ Kept(q) \/ request[q].phase = "lost")
    <3>1. PICK run \in Requests : LeasedTo(run)
      BY <2>0, <2>2 DEF Typed, LeasedTo
    <3>2. CASE \E q \in Requests : Run(q) = run /\ request[q].phase \in {"accepted", "lost"}
      BY <3>1, <3>2 DEF Pending, InProgress
    <3>3. CASE \E q \in Requests : active_runs[run] = q /\ (Holds(q) \/ Kept(q))
      BY <3>1, <3>3, <2>0, <2>a DEF ObjectsNamed
    <3>4. QED BY <2>0, <3>1, <3>2, <3>3 DEF LeaseAnswered, Answered
  <2>3. ASSUME NEW w \in workspaces, overtaken = {}, ~(down /\ faults > 0)
        PROVE  \E q \in Requests : /\ Run(q) = Run(w)
                                   /\ Pending(q) \/ Failed(q) \/ (Kept(q) /\ ~down)
    <3>1. Owned
      BY <2>0, <2>3 DEF OwnedInv, FaultsCounted
    <3>2. PICK q \in Requests : active_runs[Run(w)] = q /\ Owns(q, w)
      BY <3>1 DEF Owned
    <3>3. Run(w) \in Requests
      <4>1. w \in Requests /\ producer[w] # "none"
        BY <2>0, <2>3 DEF Typed, RunInv, GeneralInv, WorkspacesNamed, Made, Begun
      <4>2. QED BY <2>0, <4>1 DEF StreamContext
    <3>4. Run(q) = Run(w) /\ request[q].phase \in {"serving", "leaving", "done"}
      BY <2>0, <3>2, <3>3 DEF ObjectsNamed
    <3>5. CASE lifecycle[q].cleanup # "done"
      BY <2>0, <3>4, <3>5 DEF RequestContext, StreamContext, Pending, InProgress
    <3>6. CASE lifecycle[q].cleanup = "done"
      BY <2>0, <3>2, <3>4, <3>6 DEF Owns, Failed, Kept, Registered, RequestContext
    <3>7. QED BY <3>4, <3>5, <3>6
  <2>4. QED BY <2>1, <2>2, <2>3 DEF NothingForgotten
<1> QED BY <1>1, RunInvariance, PTL
=============================================================================
