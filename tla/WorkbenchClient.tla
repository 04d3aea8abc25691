--------------------------- MODULE WorkbenchClient ---------------------------
(***************************************************************************)
(* The page of the workbench (frontend/src/App.vue and its composables):   *)
(* one backend session at a time, its WebSocket, the SSE stream of the      *)
(* request under way, the approval dialogue, and what is shown of a run.    *)
(* JavaScript runs to the next await: that is a step.  Answers, events and  *)
(* messages come in any order between the channels, in order on each.      *)
(*                                                                         *)
(* The backend is what the page can tell of it: StreamService is its model. *)
(* A request is named by its number, a run by the request that began it, a  *)
(* session by its number.                                                   *)
(***************************************************************************)
EXTENDS Naturals, Sequences

CONSTANTS MaxRequests, MaxSessions,     \* bounds: calls of sendStreamRequest,
                                        \* sessions created
          MaxClicks,                    \* bound: decisions on one approval
          ChannelsBreak,                \* whether fetches and the socket may fail
          None                          \* no session, request or run

ASSUME ClientAssumption ==
    /\ MaxRequests \in Nat /\ MaxSessions \in Nat /\ MaxClicks \in Nat
    /\ ChannelsBreak \in BOOLEAN
    /\ None \notin Nat

Request == 1 .. MaxRequests
Session == 1 .. MaxSessions
Page == 0                               \* a session started by the page itself

VARIABLES
    \* useBackendSession
    threadId, socket,   \* the session, and the one the open WebSocket is bound to
    opening,            \* newest start of a session: Page or the request that
                        \* awaits it, None when there is none under way
    \* useRefactorStream
    stream,             \* of each request: see Stream
    called,             \* requests so far
    current,            \* the request streamGeneration stands for, or None
    isRefactoring,
    \* App.vue, useApprovalFlow, useTaskDag, useRunLifecycle
    activeRunId,
    screen,             \* the runs whose plan, status and approval are shown
    isApprovalModalOpen,
    deciding,           \* run of the approval sent by HTTP and not yet answered
    refreshing,         \* run whose status is being read
    \* the backend
    sessions,           \* how many it has created
    runs,               \* of each run: see RunState
    wire,               \* the messages on their way to the WebSocket
    clicks              \* history: the decisions the user sent for each run

sessionVars == <<threadId, socket, opening>>
streamVars == <<stream, called, current, isRefactoring>>
viewVars == <<activeRunId, screen, isApprovalModalOpen, deciding, refreshing>>
backendVars == <<sessions, runs, wire, clicks>>
cvars == <<sessionVars, streamVars, viewVars, backendVars>>

\* The first turn, a question in the chat, or what a decision makes the page post.
Kind == {"initial", "chat", "resume"}

\* "ensuring": awaits the session; "open": the fetch and its reader; "aborted":
\* by the page; "closed": over for any other reason.
\* server: "none" before the POST arrives, "serving", "ended".
Stream == [stage : {"idle", "ensuring", "open", "closed", "aborted"},
           server : {"none", "serving", "ended"},
           kind : Kind,
           thread : Session \cup {None}, run : Request \cup {None},
           events : Seq({"refused", "run.started", "plan.created", "approval.waiting",
                         "run.ended", "done"})]
NewStream == [stage |-> "idle", server |-> "none", kind |-> "chat", thread |-> None,
              run |-> None, events |-> <<>>]

\* A run holds the lease of its session until it has ended.
RunState == [state : {"none", "running", "planned", "waiting", "decided", "applying", "ended"},
             thread : Session \cup {None}]

EmptyScreen == [plan |-> None, status |-> None, approval |-> None]

ClientInit ==
    /\ threadId = None /\ socket = None /\ opening = Page      \* onMounted
    /\ stream = [i \in Request |-> NewStream] /\ called = 0 /\ current = None
    /\ isRefactoring = FALSE
    /\ activeRunId = None /\ screen = EmptyScreen /\ isApprovalModalOpen = FALSE
    /\ deciding = None /\ refreshing = None
    /\ sessions = 0 /\ wire = <<>>
    /\ runs = [r \in Request |-> [state |-> "none", thread |-> None]]
    /\ clicks = [r \in Request |-> 0]
-----------------------------------------------------------------------------
(***************************************************************************)
(* useBackendSession.  A start supersedes the one before and closes the     *)
(* socket, whose handlers are taken away: nothing of it is handled any more.*)
(***************************************************************************)
SessionCreated ==
    /\ opening # None /\ sessions < MaxSessions
    /\ sessions' = sessions + 1
    /\ threadId' = sessions' /\ socket' = sessions' /\ opening' = None
    /\ UNCHANGED <<streamVars, viewVars, runs, wire, clicks>>

\* The error is shown; a request that waited for the session is given up.
SessionFails ==
    /\ ChannelsBreak /\ opening # None /\ opening' = None
    /\ stream' = [i \in Request |->
         IF i = opening THEN [stream[i] EXCEPT !.stage = "closed"] ELSE stream[i]]
    /\ UNCHANGED <<threadId, socket, called, current, isRefactoring, viewVars, backendVars>>

SocketCloses ==
    /\ ChannelsBreak /\ socket # None /\ socket' = None /\ wire' = <<>>
    /\ UNCHANGED <<threadId, opening, streamVars, viewVars, sessions, runs, clicks>>
-----------------------------------------------------------------------------
(***************************************************************************)
(* useRefactorStream.                                                       *)
(***************************************************************************)

\* sendStreamRequest up to the await of the session, which starts one if there
\* is none.
Call(kind) ==
    LET i == called + 1 IN
    /\ called < MaxRequests /\ called' = i
    /\ current' = i
    /\ stream' = [stream EXCEPT ![i].stage = "ensuring", ![i].kind = kind]
    /\ opening' = IF threadId = None THEN i ELSE opening

Aborted(streams) ==
    [i \in Request |-> IF streams[i].stage = "open" THEN [streams[i] EXCEPT !.stage = "aborted"]
                       ELSE streams[i]]

\* Mutant of ResetRunScope: the run that is followed is not forgotten.
ResetScreenOnly ==
    /\ UNCHANGED activeRunId
    /\ screen' = EmptyScreen /\ isApprovalModalOpen' = FALSE
    /\ deciding' = None /\ refreshing' = None

\* resetRunScopeState, but for the transport.
ResetRunScope ==
    /\ activeRunId' = None
    /\ screen' = EmptyScreen /\ isApprovalModalOpen' = FALSE
    /\ deciding' = None /\ refreshing' = None

\* A continuation that needs not wait runs before anything else of the page.
Continues(i) == stream[i].stage = "ensuring" /\ opening # i

\* That of the session: a newer call is the end of it, else it ends the fetch
\* before it and posts.  The session may be missing: another start has taken
\* the place of the one it waited for.
Proceed(i) ==
    /\ Continues(i)
    /\ IF current # i
       THEN /\ stream' = [stream EXCEPT ![i].stage = "closed"]
            /\ UNCHANGED <<isRefactoring, viewVars>>
       ELSE /\ stream' = [Aborted(stream) EXCEPT ![i].stage = "open", ![i].thread = threadId]
            /\ isRefactoring' = TRUE
            /\ IF stream[i].kind = "initial" THEN ResetRunScope ELSE UNCHANGED viewVars
    /\ UNCHANGED <<sessionVars, called, current, backendVars>>

IsCurrentRequest(i) == current = i /\ stream[i].thread = threadId

\* Mutant of Settle: isRefactoring is not reset.
SettleBusy(i) ==
    /\ stream' = [stream EXCEPT ![i].stage = "closed", ![i].events = <<>>]
    /\ refreshing' = IF threadId = None THEN refreshing ELSE activeRunId
    /\ UNCHANGED isRefactoring

\* The finally of a request that is still current: the page is usable again,
\* and the status of the run is read.
Settle(i) ==
    /\ stream' = [stream EXCEPT ![i].stage = "closed", ![i].events = <<>>]
    /\ isRefactoring' = FALSE
    /\ refreshing' = IF threadId = None THEN refreshing ELSE activeRunId

\* The shown run, for the events that are accepted.
Shown(event, run) ==
    CASE event = "plan.created"     -> [screen EXCEPT !.plan = run]
      [] event = "approval.waiting" -> [screen EXCEPT !.approval = run, !.status = run]
      [] OTHER                      -> [screen EXCEPT !.status = run]

\* Mutant of OfAnotherRun: the run of an event is not compared.
OfAnyRun(run) == FALSE

OfAnotherRun(run) == activeRunId # None /\ activeRunId # run

\* reader.read(): the events of another run are dropped, and run.started binds
\* the page to its run.
Read(i) ==
    LET event == Head(stream[i].events)  run == stream[i].run IN
    /\ stream[i].stage = "open" /\ stream[i].events # <<>>
    /\ IF ~IsCurrentRequest(i)
       THEN stream' = [stream EXCEPT ![i].stage = "closed"] /\ UNCHANGED <<isRefactoring, viewVars>>
       ELSE IF event \in {"refused", "done"}
       THEN Settle(i) /\ UNCHANGED <<activeRunId, screen, isApprovalModalOpen, deciding>>
       ELSE /\ stream' = [stream EXCEPT ![i].events = Tail(@)]
            /\ IF OfAnotherRun(run) THEN UNCHANGED viewVars
               ELSE /\ activeRunId' = IF event = "run.started" THEN run ELSE activeRunId
                    /\ screen' = Shown(event, run)
                    /\ isApprovalModalOpen' = (isApprovalModalOpen \/ event = "approval.waiting")
                    /\ UNCHANGED <<deciding, refreshing>>
            /\ UNCHANGED isRefactoring
    /\ UNCHANGED <<sessionVars, called, current, backendVars>>

\* The connection breaks: as a refused request.
ConnectionBreaks(i) ==
    /\ ChannelsBreak /\ stream[i].stage = "open" /\ IsCurrentRequest(i)
    /\ Settle(i)
    /\ UNCHANGED <<sessionVars, called, current, activeRunId, screen, isApprovalModalOpen,
                   deciding, backendVars>>
-----------------------------------------------------------------------------
(***************************************************************************)
(* The WebSocket: useBackendSession's filter, useApprovalFlow.               *)
(***************************************************************************)
Receive ==
    LET message == Head(wire) IN
    /\ socket # None /\ wire # <<>> /\ wire' = Tail(wire)
    /\ IF OfAnotherRun(message.run)
       THEN UNCHANGED <<sessionVars, streamVars, viewVars>>
       ELSE /\ activeRunId' = message.run
            /\ UNCHANGED <<deciding, refreshing, threadId, socket>>
            /\ CASE message.type = "chatroom_message" ->
                      UNCHANGED <<screen, isApprovalModalOpen, streamVars, opening>>
                 [] message.type = "approval_request" ->
                      /\ screen' = [screen EXCEPT !.approval = message.run]
                      /\ isApprovalModalOpen' = TRUE /\ UNCHANGED <<streamVars, opening>>
                 [] message.type = "approval_confirmed" ->
                      /\ isApprovalModalOpen' = FALSE /\ Call("resume")
                      /\ UNCHANGED <<screen, isRefactoring>>
    /\ UNCHANGED <<sessions, runs, clicks>>

\* decide: what a decision makes of the run, whose repetition is confirmed too.
Decided(r) == runs[r].state \in {"waiting", "decided"}
Decide(r) == runs' = IF Decided(r) THEN [runs EXCEPT ![r].state = "decided"] ELSE runs

\* Mutant of Click: what the WebSocket has sent is posted too.
ClickTwice ==
    LET r == screen.approval IN
    /\ isApprovalModalOpen /\ clicks[r] < MaxClicks
    /\ clicks' = [clicks EXCEPT ![r] = @ + 1]
    /\ Decide(r)
    /\ wire' = IF socket # None /\ Decided(r)
               THEN Append(wire, [type |-> "approval_confirmed", run |-> r]) ELSE wire
    /\ deciding' = (IF Decided(r) THEN r ELSE None)
    /\ UNCHANGED <<sessionVars, streamVars, activeRunId, screen, isApprovalModalOpen,
                   refreshing, sessions>>

\* approve or reject, by the WebSocket if it is open.  The dialogue stays open
\* until the answer is there.
Click ==
    LET r == screen.approval IN
    /\ isApprovalModalOpen /\ clicks[r] < MaxClicks
    /\ clicks' = [clicks EXCEPT ![r] = @ + 1]
    /\ Decide(r)
    /\ IF socket # None
       THEN /\ wire' = IF Decided(r) THEN Append(wire, [type |-> "approval_confirmed", run |-> r])
                       ELSE wire
            /\ UNCHANGED deciding
       ELSE deciding' = (IF Decided(r) THEN r ELSE None) /\ UNCHANGED wire
    /\ UNCHANGED <<sessionVars, streamVars, activeRunId, screen, isApprovalModalOpen,
                   refreshing, sessions>>

\* The answer to the decision sent by HTTP; a reset has made it void.
DecisionAnswered ==
    /\ deciding # None /\ deciding' = None
    /\ isApprovalModalOpen' = FALSE /\ Call("resume")
    /\ UNCHANGED <<threadId, socket, isRefactoring, activeRunId, screen, refreshing,
                   backendVars>>

\* refresh of useRunLifecycle, whose status may be gone.
StatusRead ==
    /\ refreshing # None /\ refreshing' = None
    /\ screen' \in {screen} \cup {[screen EXCEPT !.status = r] : r \in {refreshing} \cap {activeRunId}}
    /\ UNCHANGED <<sessionVars, streamVars, activeRunId, isApprovalModalOpen, deciding,
                   backendVars>>
-----------------------------------------------------------------------------
(***************************************************************************)
(* The user, whom the dialogue, while it is open, keeps from the page.        *)
(***************************************************************************)
SubmitInitial ==
    /\ ~isRefactoring /\ ~isApprovalModalOpen /\ Call("initial")
    /\ UNCHANGED <<threadId, socket, isRefactoring, viewVars, backendVars>>

\* The chat is open once a first turn was posted.
SendChatMessage ==
    /\ ~isRefactoring /\ ~isApprovalModalOpen
    /\ \E i \in Request : stream[i].stage # "idle" /\ stream[i].thread = threadId
    /\ Call("chat")
    /\ UNCHANGED <<threadId, socket, isRefactoring, viewVars, backendVars>>

\* Mutant of NewSession: the socket is not detached.
NewSessionKeepsSocket ==
    /\ sessions < MaxSessions /\ ~isApprovalModalOpen
    /\ ResetRunScope
    /\ current' = None /\ isRefactoring' = FALSE
    /\ stream' = Aborted(stream)
    /\ threadId' = None /\ opening' = Page
    /\ UNCHANGED <<socket, wire, called, sessions, runs, clicks>>

\* Mutant of NewSession: isRefactoring is left as it is.
NewSessionStaysBusy ==
    /\ sessions < MaxSessions /\ ~isApprovalModalOpen
    /\ ResetRunScope
    /\ current' = None /\ UNCHANGED isRefactoring
    /\ stream' = Aborted(stream)
    /\ threadId' = None /\ socket' = None /\ wire' = <<>> /\ opening' = Page
    /\ UNCHANGED <<called, sessions, runs, clicks>>

\* handleNewSession: everything of the run is reset, transport included.
NewSession ==
    /\ sessions < MaxSessions /\ ~isApprovalModalOpen
    /\ ResetRunScope
    /\ current' = None /\ isRefactoring' = FALSE
    /\ stream' = Aborted(stream)
    /\ threadId' = None /\ socket' = None /\ wire' = <<>> /\ opening' = Page
    /\ UNCHANGED <<called, sessions, runs, clicks>>
-----------------------------------------------------------------------------
(***************************************************************************)
(* The backend, as far as the page sees it.                                 *)
(***************************************************************************)
Holder(t) == {r \in Request : runs[r].thread = t /\ runs[r].state \notin {"none", "ended"}}

Tells(i, type) ==
    wire' = IF socket = stream[i].thread
            THEN Append(wire, [type |-> type, run |-> stream[i].run]) ELSE wire

\* A POST arrives, perhaps after its client has aborted it: a decided run is
\* resumed, a new one begins if no run holds the lease.
Serve(i) ==
    LET t == stream[i].thread
        decided == {r \in Holder(t) : runs[r].state = "decided"}
        run == IF decided # {} THEN CHOOSE r \in decided : TRUE ELSE i
    IN
    /\ stream[i].stage \in {"open", "closed", "aborted"} /\ stream[i].server = "none" /\ t # None
    /\ IF decided = {} /\ Holder(t) # {}
       THEN /\ stream' = [stream EXCEPT ![i].server = "ended", ![i].events = <<"refused">>]
            /\ UNCHANGED runs
       ELSE /\ stream' = [stream EXCEPT ![i].server = "serving", ![i].run = run,
                              ![i].events = <<"run.started">>]
            /\ runs' = [runs EXCEPT ![run] =
                         [state |-> IF decided = {} THEN "running" ELSE "applying", thread |-> t]]
    /\ UNCHANGED <<sessionVars, called, current, isRefactoring, viewVars, sessions, wire,
                   clicks>>

\* A request without a session, or one that is lost on its way.
Unserved(i) ==
    /\ stream[i].stage \in {"open", "closed", "aborted"} /\ stream[i].server = "none"
    /\ stream[i].thread = None
    /\ stream' = [stream EXCEPT ![i].server = "ended", ![i].events = <<"refused">>]
    /\ UNCHANGED <<sessionVars, called, current, isRefactoring, viewVars, backendVars>>

Serving(i) == stream[i].server = "serving" /\ stream[i].stage = "open"

\* The plan, and what an agent says of it in the chat.
TellPlan(i) ==
    /\ Serving(i) /\ runs[stream[i].run].state = "running"
    /\ runs' = [runs EXCEPT ![stream[i].run].state = "planned"]
    /\ stream' = [stream EXCEPT ![i].events = Append(@, "plan.created")]
    /\ Tells(i, "chatroom_message")
    /\ UNCHANGED <<sessionVars, called, current, isRefactoring, viewVars, sessions, clicks>>

AskApproval(i) ==
    /\ Serving(i) /\ runs[stream[i].run].state = "planned"
    /\ runs' = [runs EXCEPT ![stream[i].run].state = "waiting"]
    /\ stream' = [stream EXCEPT ![i].server = "ended",
                                ![i].events = @ \o <<"approval.waiting", "done">>]
    /\ Tells(i, "approval_request")
    /\ UNCHANGED <<sessionVars, called, current, isRefactoring, viewVars, sessions, clicks>>

EndRun(i) ==
    /\ Serving(i)
    /\ runs' = [runs EXCEPT ![stream[i].run].state = "ended"]
    /\ stream' = [stream EXCEPT ![i].server = "ended", ![i].events = @ \o <<"run.ended", "done">>]
    /\ UNCHANGED <<sessionVars, called, current, isRefactoring, viewVars, sessions, wire, clicks>>

\* The client is gone: the run is cancelled and cleaned up.
CancelRun(i) ==
    /\ stream[i].server = "serving" /\ stream[i].stage # "open"
    /\ runs' = [runs EXCEPT ![stream[i].run].state = "ended"]
    /\ stream' = [stream EXCEPT ![i].server = "ended", ![i].events = <<>>]
    /\ UNCHANGED <<sessionVars, called, current, isRefactoring, viewVars, sessions, wire, clicks>>

Backend(i) == Serve(i) \/ Unserved(i) \/ AskApproval(i) \/ EndRun(i) \/ CancelRun(i)

\* No request of the page is under way: it waits for the user.
Resting == (\A i \in Request : stream[i].stage \notin {"ensuring", "open"}) /\ UNCHANGED cvars

PageTask ==
    \/ SessionCreated \/ SessionFails \/ SocketCloses
    \/ Receive \/ Click \/ DecisionAnswered \/ StatusRead
    \/ SubmitInitial \/ SendChatMessage \/ NewSession
    \/ \E i \in Request : Read(i) \/ ConnectionBreaks(i)

ClientNext ==
    \/ (\A i \in Request : ~Continues(i)) /\ PageTask
    \/ \E i \in Request : Proceed(i) \/ TellPlan(i) \/ Backend(i)
    \/ Resting

\* The browser runs what is ready, and the backend ends every stream.
ClientSpec ==
    /\ ClientInit /\ [][ClientNext]_cvars
    /\ WF_cvars(SessionCreated \/ SessionFails)
    /\ \A i \in Request : WF_cvars(Proceed(i)) /\ WF_cvars(Read(i)) /\ WF_cvars(Backend(i))
-----------------------------------------------------------------------------
ClientTypeOK ==
    /\ threadId \in Session \cup {None} /\ socket \in {None, threadId}
    /\ opening \in {Page, None} \cup Request
    /\ stream \in [Request -> [stage : {"idle", "ensuring", "open", "closed", "aborted"},
                               server : {"none", "serving", "ended"}, kind : Kind,
                               thread : Session \cup {None}, run : Request \cup {None},
                               events : {stream[i].events : i \in Request}]]
    /\ current \in Request \cup {None} /\ activeRunId \in Request \cup {None}
    /\ runs \in [Request -> RunState]
    /\ socket = None => wire = <<>>

\* All that is shown is of one run, the one the page follows, and that is a run
\* of the session the page is bound to: nothing of a former session comes back,
\* and no answer, event or message mixes two runs on the screen.  Which run of
\* the session the page follows is another question, see AnswerShown.
ScreenOfOneRun ==
    /\ \A part \in DOMAIN screen : screen[part] \in {None, activeRunId}
    /\ activeRunId # None => threadId # None /\ runs[activeRunId].thread = threadId
    /\ deciding \in {None, activeRunId}

\* The page is busy only as long as a request of it is, and becomes usable.
BusyWithRequest == isRefactoring => current # None /\ stream[current].stage \in {"ensuring", "open"}
BecomesUsable == isRefactoring ~> ~isRefactoring

\* What the user has decided, once, is carried out: the page itself does not
\* abort the request it resumes the run with, unless for a new session.
DecisionCarriedOut ==
    \A i \in Request :
        stream[i].kind = "resume" /\ stream[i].stage = "aborted" =>
            stream[i].thread # threadId \/ \E r \in Request : clicks[r] > 1

\* AgentChatroom.vue: when a refactoring is done one can go on asking, and
\* architecture.md: late messages of an old run are ignored.  So the events the
\* page has yet to read are not of a run it does not follow.  They are after a
\* follow-up question, and when a late message of the former run comes between
\* a first turn and its run.started.
AnswerShown ==
    \A i \in Request :
        /\ stream[i].stage = "open" /\ IsCurrentRequest(i)
        /\ stream[i].events # <<>> /\ stream[i].run # None
        => ~OfAnotherRun(stream[i].run)
=============================================================================
