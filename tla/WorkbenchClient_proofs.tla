------------------------ MODULE WorkbenchClient_proofs ------------------------
(***************************************************************************)
(* The page of the workbench, for any number of requests, sessions and     *)
(* decisions: what it shows is of the run it follows, it is busy only with *)
(* a request of its own, and what is decided once is carried out.          *)
(***************************************************************************)
EXTENDS WorkbenchClient, TLAPS

Event == {"refused", "run.started", "plan.created", "approval.waiting", "run.ended", "done"}
Message == [type : {"chatroom_message", "approval_request", "approval_confirmed"}, run : Request]
Confirmation(r) == [type |-> "approval_confirmed", run |-> r]

TypeInv ==
    /\ threadId \in Session \cup {None} /\ socket \in {None, threadId}
    /\ opening \in {Page, None} \cup Request
    /\ stream \in [Request -> Stream] /\ called \in 0 .. MaxRequests
    /\ current \in Request \cup {None} /\ isRefactoring \in BOOLEAN
    /\ activeRunId \in Request \cup {None}
    /\ screen \in [plan : Request \cup {None}, status : Request \cup {None},
                   approval : Request \cup {None}]
    /\ isApprovalModalOpen \in BOOLEAN
    /\ deciding \in Request \cup {None} /\ refreshing \in Request \cup {None}
    /\ sessions \in 0 .. MaxSessions /\ runs \in [Request -> RunState]
    /\ wire \in Seq(Message) /\ clicks \in [Request -> Nat]

\* What the backend knows of a request and its run.
Begun(r) == runs[r].state # "none"
RunContext(i) ==
    /\ Begun(i) => stream[i].server # "none" /\ runs[i].thread # None
    /\ stream[i].run # None => Begun(stream[i].run) /\ runs[stream[i].run].thread = stream[i].thread
    /\ stream[i].server = "none" => stream[i].run = None /\ stream[i].events = <<>>
    /\ stream[i].server = "serving" => stream[i].run # None /\ stream[i].thread # None
    /\ stream[i].run = None => \A k \in DOMAIN stream[i].events : stream[i].events[k] = "refused"

\* What the page knows of a request of its own ...
RequestContext(i) ==
    /\ i > called => stream[i].stage = "idle" /\ current # i /\ opening # i
    /\ stream[i].stage \in {"idle", "ensuring"} => stream[i].server = "none"
    /\ stream[i].stage \in {"open", "aborted"} => stream[i].thread # None
    /\ stream[i].thread # None => stream[i].thread <= sessions

\* ... and of the one that is current.
AtWork(i) == stream[i].stage \in {"ensuring", "open"}
Unheard(i) ==       \* the page has read nothing of its run yet
    /\ stream[i].events # <<>> => Head(stream[i].events) \in {"run.started", "refused"}
    /\ stream[i].server = "serving" => stream[i].events # <<>>
CurrentContext(i) ==
    current = i =>
    /\ stream[i].stage = "ensuring" => opening = i \/ threadId # None
    /\ stream[i].stage = "open" => stream[i].thread = threadId /\ isRefactoring
    /\ stream[i].kind = "resume" /\ AtWork(i) => activeRunId # None
    /\ stream[i].stage = "open" /\ activeRunId = None => Unheard(i)

PageContext ==
    /\ opening # None => threadId = None
    /\ threadId # None => threadId <= sessions
    /\ isRefactoring => threadId # None
    /\ activeRunId # None => Begun(activeRunId)
    /\ isApprovalModalOpen => screen.approval # None
    /\ socket = None => wire = <<>>
    /\ \A k \in DOMAIN wire : Begun(wire[k].run) /\ runs[wire[k].run].thread = threadId

\* A decision sent once is confirmed once and then resumes its run.
Confirms(r) == {k \in DOMAIN wire : wire[k] = Confirmation(r)}
Resuming(r) ==
    activeRunId = r /\ \E i \in Request : current = i /\ stream[i].kind = "resume" /\ AtWork(i)
Once(r) ==
    /\ Confirms(r) # {} \/ deciding = r \/ Resuming(r) => clicks[r] # 0
    /\ clicks[r] = 1 =>
         /\ \A k, l \in Confirms(r) : k = l
         /\ Confirms(r) # {} => deciding # r /\ ~Resuming(r)
         /\ deciding = r => ~Resuming(r)

Twice == \E r \in Request : clicks[r] > 1
Superseded(i) ==
    stream[i].stage = "open" /\ stream[i].kind = "resume" /\ current # i =>
        stream[i].thread # threadId \/ Twice

ClientInv ==
    /\ TypeInv
    /\ \A i \in Request : RunContext(i) /\ RequestContext(i) /\ CurrentContext(i)
    /\ PageContext /\ ScreenOfOneRun /\ BusyWithRequest
    /\ \A r \in Request : Once(r) /\ Superseded(r)
    /\ DecisionCarriedOut
-----------------------------------------------------------------------------
LEMMA Named ==
    /\ None \notin Nat /\ None # Page
    /\ Request \subseteq Nat /\ None \notin Request /\ Page \notin Request
    /\ Session \subseteq Nat /\ None \notin Session
BY ClientAssumption DEF Request, Session, Page

LEMMA ClientInitInv == ClientInit => ClientInv
<1> SUFFICES ASSUME ClientInit PROVE ClientInv
  OBVIOUS
<1> USE Named DEF ClientInit, NewStream, EmptyScreen
<1>1. TypeInv
  <2>1. NewStream \in Stream
    BY DEF Stream, Kind
  <2>2. [state |-> "none", thread |-> None] \in RunState
    BY DEF RunState
  <2>3. called \in 0 .. MaxRequests /\ sessions \in 0 .. MaxSessions
    BY ClientAssumption
  <2>4. stream \in [Request -> Stream] /\ runs \in [Request -> RunState] /\ clicks \in [Request -> Nat]
    BY <2>1, <2>2
  <2>5. screen \in [plan : Request \cup {None}, status : Request \cup {None},
                    approval : Request \cup {None}]
    OBVIOUS
  <2>6. wire \in Seq(Message)
    OBVIOUS
  <2> QED BY <2>3, <2>4, <2>5, <2>6 DEF TypeInv
<1>2. ASSUME NEW i \in Request PROVE RunContext(i) /\ RequestContext(i) /\ CurrentContext(i)
  BY DEF RunContext, Begun, RequestContext, CurrentContext, Unheard
<1>3. PageContext /\ ScreenOfOneRun /\ BusyWithRequest
  BY DEF PageContext, ScreenOfOneRun, BusyWithRequest
<1>4. ASSUME NEW r \in Request PROVE Once(r) /\ Superseded(r)
  BY DEF Once, Superseded, Confirms, Resuming
<1>5. DecisionCarriedOut
  BY DEF DecisionCarriedOut
<1> QED BY <1>1, <1>2, <1>3, <1>4, <1>5 DEF ClientInv
-----------------------------------------------------------------------------
\* The messages on their way, when one is added or taken.
LEMMA Added ==
    ASSUME NEW S, NEW w \in Seq(S), NEW m \in S
    PROVE  /\ Append(w, m) \in Seq(S) /\ DOMAIN Append(w, m) = DOMAIN w \cup {Len(w) + 1}
           /\ Len(w) + 1 \notin DOMAIN w /\ Append(w, m)[Len(w) + 1] = m
           /\ \A k \in DOMAIN w : Append(w, m)[k] = w[k]
OBVIOUS

LEMMA Taken ==
    ASSUME NEW S, NEW w \in Seq(S), w # <<>>
    PROVE  /\ Tail(w) \in Seq(S) /\ Head(w) \in S /\ Head(w) = w[1] /\ 1 \in DOMAIN w
           /\ \A k \in DOMAIN Tail(w) : k + 1 \in DOMAIN w /\ Tail(w)[k] = w[k + 1] /\ k \in Nat \ {0}
OBVIOUS

\* No confirmation is added.
NoneAdded ==
    \A r \in Request : /\ Confirms(r)' # {} => Confirms(r) # {}
                       /\ (\A k, l \in Confirms(r) : k = l) => \A k, l \in Confirms(r)' : k = l

LEMMA WireKept ==
    ASSUME wire \in Seq(Message),
           \/ wire' = wire \/ wire' = <<>>
           \/ wire # <<>> /\ wire' = Tail(wire)
           \/ \E m \in Message : m.type # "approval_confirmed" /\ wire' = Append(wire, m)
    PROVE  NoneAdded
<1>1. CASE wire' = wire \/ wire' = <<>>
  BY <1>1 DEF NoneAdded, Confirms
<1>2. CASE wire # <<>> /\ wire' = Tail(wire)
  <2>1. \A r \in Request : \A k \in Confirms(r)' : k + 1 \in Confirms(r) /\ k \in Nat
    BY <1>2, Taken DEF Confirms, Confirmation
  <2>2. ASSUME NEW r \in Request, \A k, l \in Confirms(r) : k = l, NEW k \in Confirms(r)', NEW l \in Confirms(r)'
        PROVE  k = l
    <3>1. k + 1 = l + 1 /\ k \in Nat /\ l \in Nat
      BY <2>1, <2>2
    <3> QED BY <3>1
  <2> QED BY <2>1, <2>2 DEF NoneAdded
<1>3. ASSUME NEW m \in Message, m.type # "approval_confirmed", wire' = Append(wire, m)
      PROVE  NoneAdded
  <2>1. \A r \in Request : Confirms(r)' \subseteq Confirms(r)
    BY <1>3, Added DEF Confirms, Confirmation
  <2> QED BY <2>1 DEF NoneAdded
<1> QED BY <1>1, <1>2, <1>3

LEMMA OnceKept ==
    ASSUME NoneAdded, NEW r \in Request, Once(r), clicks'[r] = clicks[r],
           deciding' = r => deciding = r, Resuming(r)' => Resuming(r)
    PROVE  Once(r)'
BY DEF NoneAdded, Once
-----------------------------------------------------------------------------
\* The backend.
BackendChanges(i) ==
    /\ UNCHANGED <<sessionVars, called, current, isRefactoring, viewVars, sessions, clicks>>
    /\ stream' \in [Request -> Stream] /\ runs' \in [Request -> RunState]
    /\ \A j \in Request \ {i} : stream'[j] = stream[j]
    /\ stream'[i].stage = stream[i].stage /\ stream'[i].kind = stream[i].kind
    /\ stream'[i].thread = stream[i].thread
    /\ stream[i].stage \notin {"idle", "ensuring"} /\ stream'[i].server # "none"
    /\ \A r \in Request : Begun(r) => Begun(r)' /\ runs'[r].thread = runs[r].thread
    /\ \A r \in Request : Begun(r)' => Begun(r) \/ (r = i /\ runs'[r].thread # None)
    /\ stream'[i].run # None => /\ runs'[stream'[i].run].state # "none"
                              /\ runs'[stream'[i].run].thread = stream[i].thread
    /\ stream'[i].server = "serving" => stream'[i].run # None /\ stream[i].thread # None
    /\ stream'[i].run = None => \A k \in DOMAIN stream'[i].events : stream'[i].events[k] = "refused"
    /\ Unheard(i) => Unheard(i)'
    /\ \/ wire' = wire
       \/ /\ stream[i].run # None /\ socket = stream[i].thread /\ stream[i].thread # None
          /\ \E m \in Message : /\ m.type # "approval_confirmed" /\ m.run = stream[i].run
                                /\ wire' = Append(wire, m)

LEMMA FirstEvent ==
    ASSUME NEW s \in Seq(Event), NEW e \in Event, NEW f \in Event
    PROVE  /\ Append(s, e) \in Seq(Event) /\ Append(s, e) # <<>>
           /\ s \o <<e, f>> \in Seq(Event)
           /\ s # <<>> => Head(Append(s, e)) = Head(s) /\ Head(s \o <<e, f>>) = Head(s)
<1>1. /\ Append(s, e) \in Seq(Event) /\ Len(Append(s, e)) = Len(s) + 1
      /\ s # <<>> => Append(s, e)[1] = s[1]
  OBVIOUS
<1>2. <<e, f>> \in Seq(Event) /\ Len(<<e, f>>) = 2
  OBVIOUS
<1>3. /\ s \o <<e, f>> \in Seq(Event) /\ Len(s \o <<e, f>>) = Len(s) + 2
      /\ s # <<>> => (s \o <<e, f>>)[1] = s[1]
  BY <1>2
<1> QED BY <1>1, <1>3

\* What a step does to the record of one request.
StreamSet(i, stage, server, kind, thread, run, events) ==
    /\ stream' \in [Request -> Stream] /\ \A j \in Request \ {i} : stream'[j] = stream[j]
    /\ stream'[i].stage = stage /\ stream'[i].server = server /\ stream'[i].kind = kind
    /\ stream'[i].thread = thread /\ stream'[i].run = run /\ stream'[i].events = events

LEMMA StreamServed ==
    ASSUME stream \in [Request -> Stream], NEW i \in Request, NEW v \in {"serving", "ended"},
           NEW e \in Seq(Event), NEW run \in Request
    PROVE  LET s == stream[i] IN
           /\ stream' = [stream EXCEPT ![i].server = v, ![i].events = e] =>
                StreamSet(i, s.stage, v, s.kind, s.thread, s.run, e)
           /\ stream' = [stream EXCEPT ![i].server = v, ![i].run = run, ![i].events = e] =>
                StreamSet(i, s.stage, v, s.kind, s.thread, run, e)
           /\ stream' = [stream EXCEPT ![i].events = e] =>
                StreamSet(i, s.stage, s.server, s.kind, s.thread, s.run, e)
<1> DEFINE s == stream[i]
<1>0. s \in Stream
  OBVIOUS
<1>1. ASSUME stream' = [stream EXCEPT ![i].server = v, ![i].events = e]
      PROVE  StreamSet(i, s.stage, v, s.kind, s.thread, s.run, e)
  <2>1. stream'[i] = [s EXCEPT !.server = v, !.events = e] /\ \A j \in Request \ {i} : stream'[j] = stream[j]
    BY <1>1
  <2>2. stream'[i] \in Stream
    BY <1>0, <2>1 DEF Stream, Event
  <2>3. stream' \in [Request -> Stream]
    BY <1>1, <2>1, <2>2
  <2> QED BY <1>0, <2>1, <2>3 DEF StreamSet, Stream, Event
<1>2. ASSUME stream' = [stream EXCEPT ![i].server = v, ![i].run = run, ![i].events = e]
      PROVE  StreamSet(i, s.stage, v, s.kind, s.thread, run, e)
  <2>1. stream'[i] = [s EXCEPT !.server = v, !.run = run, !.events = e]
        /\ \A j \in Request \ {i} : stream'[j] = stream[j]
    BY <1>2
  <2>2. stream'[i] \in Stream
    BY <1>0, <2>1 DEF Stream, Event
  <2>3. stream' \in [Request -> Stream]
    BY <1>2, <2>1, <2>2
  <2> QED BY <1>0, <2>1, <2>3 DEF StreamSet, Stream, Event
<1>3. ASSUME stream' = [stream EXCEPT ![i].events = e]
      PROVE  StreamSet(i, s.stage, s.server, s.kind, s.thread, s.run, e)
  <2>1. stream'[i] = [s EXCEPT !.events = e] /\ \A j \in Request \ {i} : stream'[j] = stream[j]
    BY <1>3
  <2>2. stream'[i] \in Stream
    BY <1>0, <2>1 DEF Stream, Event
  <2>3. stream' \in [Request -> Stream]
    BY <1>3, <2>1, <2>2
  <2> QED BY <1>0, <2>1, <2>3 DEF StreamSet, Stream, Event
<1> QED BY <1>1, <1>2, <1>3

\* What a step does to one run.
RunSet(run, state, thread) ==
    /\ runs' \in [Request -> RunState] /\ \A r \in Request \ {run} : runs'[r] = runs[r]
    /\ runs'[run].state = state /\ runs'[run].thread = thread

LEMMA RunTold ==
    ASSUME runs \in [Request -> RunState], NEW run \in Request,
           NEW state \in {"planned", "waiting", "decided", "ended"},
           runs' = [runs EXCEPT ![run].state = state]
    PROVE  RunSet(run, state, runs[run].thread)
<1>1. runs[run] \in RunState
  OBVIOUS
<1>2. runs'[run] = [runs[run] EXCEPT !.state = state] /\ \A r \in Request \ {run} : runs'[r] = runs[r]
  OBVIOUS
<1>3. runs'[run] \in RunState /\ runs'[run].state = state /\ runs'[run].thread = runs[run].thread
  BY <1>1, <1>2 DEF RunState
<1> QED BY <1>2, <1>3 DEF RunSet

LEMMA BackendEffect ==
    ASSUME ClientInv, NEW i \in Request, TellPlan(i) \/ Backend(i)
    PROVE  BackendChanges(i)
<1> DEFINE s == stream[i]
<1>0. /\ TypeInv /\ RunContext(i) /\ RequestContext(i) /\ s \in Stream
      /\ stream \in [Request -> Stream] /\ runs \in [Request -> RunState]
      /\ s.run \in Request \cup {None} /\ s.thread \in Session \cup {None} /\ s.events \in Seq(Event)
  BY DEF ClientInv, TypeInv, Stream, Event
<1>10. <<"refused">> \in Seq(Event) /\ Head(<<"refused">>) = "refused" /\ <<"refused">> # <<>>
       /\ \A k \in DOMAIN <<"refused">> : <<"refused">>[k] = "refused"
  BY DEF Event
<1>1. CASE Serve(i)
  <2> DEFINE t == s.thread
             decided == {r \in Holder(t) : runs[r].state = "decided"}
             run == IF decided # {} THEN CHOOSE r \in decided : TRUE ELSE i
             new == [state |-> IF decided = {} THEN "running" ELSE "applying", thread |-> t]
  <2>1. /\ s.stage \in {"open", "closed", "aborted"} /\ s.server = "none" /\ t # None
        /\ UNCHANGED <<sessionVars, called, current, isRefactoring, viewVars, sessions, wire, clicks>>
    BY <1>1 DEF Serve
  <2>0. s.run = None /\ ~Begun(i)
    BY <1>0, <2>1 DEF RunContext
  <2>2. CASE decided = {} /\ Holder(t) # {}
    <3>1. stream' = [stream EXCEPT ![i].server = "ended", ![i].events = <<"refused">>] /\ runs' = runs
      BY <1>1, <2>2 DEF Serve
    <3>2. StreamSet(i, s.stage, "ended", s.kind, s.thread, s.run, <<"refused">>)
      BY <1>0, <1>10, <3>1, StreamServed
    <3>3. Unheard(i)'
      BY <1>10, <3>2 DEF Unheard, StreamSet
    <3> QED BY <1>0, <1>10, <2>0, <2>1, <3>1, <3>2, <3>3 DEF BackendChanges, Begun, StreamSet
  <2>3. CASE ~(decided = {} /\ Holder(t) # {})
    <3>1. /\ stream' = [stream EXCEPT ![i].server = "serving", ![i].run = run, ![i].events = <<"run.started">>]
          /\ runs' = [runs EXCEPT ![run] = new]
      BY <1>1, <2>3 DEF Serve
    <3>2. <<"run.started">> \in Seq(Event) /\ Head(<<"run.started">>) = "run.started" /\ <<"run.started">> # <<>>
      BY DEF Event
    <3>3. run \in Request /\ (run = i \/ (Begun(run) /\ runs[run].thread = t))
      BY DEF Holder, Begun
    <3>4. t \in Session /\ new \in RunState /\ new.state # "none" /\ new.thread = t
      BY <1>0, <2>1 DEF RunState
    <3> HIDE DEF run, new, decided
    <3>6. runs' \in [Request -> RunState] /\ runs'[run] = new /\ \A r \in Request \ {run} : runs'[r] = runs[r]
      BY <1>0, <3>1, <3>3, <3>4
    <3>7. StreamSet(i, s.stage, "serving", s.kind, s.thread, run, <<"run.started">>)
      BY <1>0, <3>1, <3>2, <3>3, StreamServed
    <3>8. Unheard(i)'
      BY <3>2, <3>7 DEF Unheard, StreamSet
    <3>9. /\ \A r \in Request : Begun(r) => Begun(r)' /\ runs'[r].thread = runs[r].thread
          /\ \A r \in Request : Begun(r)' => Begun(r) \/ (r = i /\ runs'[r].thread # None)
      BY <2>0, <2>1, <3>3, <3>4, <3>6 DEF Begun
    <3>10. run # None /\ runs'[run].state # "none" /\ runs'[run].thread = t
      BY <3>3, <3>4, <3>6, Named
    <3>11. /\ stream'[i].run = run /\ stream'[i].server = "serving" /\ stream'[i].stage = s.stage
           /\ stream'[i].kind = s.kind /\ stream'[i].thread = t /\ stream' \in [Request -> Stream]
           /\ \A j \in Request \ {i} : stream'[j] = stream[j]
      BY <3>7 DEF StreamSet
    <3> QED BY <2>1, <3>6, <3>8, <3>9, <3>10, <3>11 DEF BackendChanges, Begun
  <2> QED BY <2>2, <2>3
<1>2. CASE Unserved(i)
  <2>1. /\ stream' = [stream EXCEPT ![i].server = "ended", ![i].events = <<"refused">>]
        /\ s.stage \in {"open", "closed", "aborted"} /\ s.server = "none"
        /\ UNCHANGED <<sessionVars, called, current, isRefactoring, viewVars, sessions, runs, wire, clicks>>
    BY <1>2 DEF Unserved, backendVars
  <2>2. StreamSet(i, s.stage, "ended", s.kind, s.thread, s.run, <<"refused">>)
    BY <1>0, <1>10, <2>1, StreamServed
  <2>3. s.run = None
    BY <1>0, <2>1 DEF RunContext
  <2>4. Unheard(i)'
    BY <1>10, <2>2 DEF Unheard, StreamSet
  <2> QED BY <1>0, <1>10, <2>1, <2>2, <2>3, <2>4 DEF BackendChanges, Begun, StreamSet
<1>3. CASE TellPlan(i) \/ AskApproval(i) \/ EndRun(i) \/ CancelRun(i)
  <2> DEFINE run == s.run
  <2>1. s.server = "serving"
    BY <1>3 DEF TellPlan, AskApproval, EndRun, CancelRun, Serving
  <2>11. /\ run \in Request /\ run # None /\ Begun(run) /\ runs[run].thread = s.thread
         /\ s.thread # None /\ s.stage \notin {"idle", "ensuring"}
    BY <1>0, <2>1 DEF RunContext, RequestContext
  <2>2. PICK state \in {"planned", "waiting", "ended"} : runs' = [runs EXCEPT ![run].state = state]
    BY <1>3 DEF TellPlan, AskApproval, EndRun, CancelRun
  <2>3. RunSet(run, state, runs[run].thread)
    BY <1>0, <2>11, <2>2, RunTold
  <2>4. PICK v \in {"serving", "ended"}, e \in Seq(Event) :
           /\ StreamSet(i, s.stage, v, s.kind, s.thread, s.run, e)
           /\ v = "serving" => e # <<>>
           /\ s.events # <<>> /\ e # <<>> => Head(e) = Head(s.events)
    <3>1. CASE TellPlan(i)
      <4>1. /\ Append(s.events, "plan.created") \in Seq(Event) /\ Append(s.events, "plan.created") # <<>>
            /\ s.events # <<>> => Head(Append(s.events, "plan.created")) = Head(s.events)
        BY <1>0, FirstEvent DEF Event
      <4>2. stream' = [stream EXCEPT ![i].events = Append(s.events, "plan.created")]
        BY <1>0, <3>1 DEF TellPlan
      <4>3. StreamSet(i, s.stage, s.server, s.kind, s.thread, s.run, Append(s.events, "plan.created"))
        BY <1>0, <4>1, <4>2, StreamServed
      <4> QED BY <2>1, <4>1, <4>3
    <3>2. CASE AskApproval(i)
      <4> DEFINE e == s.events \o <<"approval.waiting", "done">>
      <4>1. e \in Seq(Event) /\ (s.events # <<>> => Head(e) = Head(s.events))
        BY <1>0, FirstEvent DEF Event
      <4>2. stream' = [stream EXCEPT ![i].server = "ended", ![i].events = e]
        BY <1>0, <3>2 DEF AskApproval
      <4> HIDE DEF e
      <4>3. StreamSet(i, s.stage, "ended", s.kind, s.thread, s.run, e)
        BY <1>0, <4>1, <4>2, StreamServed
      <4> QED BY <4>1, <4>3
    <3>3. CASE EndRun(i)
      <4> DEFINE e == s.events \o <<"run.ended", "done">>
      <4>1. e \in Seq(Event) /\ (s.events # <<>> => Head(e) = Head(s.events))
        BY <1>0, FirstEvent DEF Event
      <4>2. stream' = [stream EXCEPT ![i].server = "ended", ![i].events = e]
        BY <1>0, <3>3 DEF EndRun
      <4> HIDE DEF e
      <4>3. StreamSet(i, s.stage, "ended", s.kind, s.thread, s.run, e)
        BY <1>0, <4>1, <4>2, StreamServed
      <4> QED BY <4>1, <4>3
    <3>4. CASE CancelRun(i)
      <4>1. stream' = [stream EXCEPT ![i].server = "ended", ![i].events = <<>>] /\ <<>> \in Seq(Event)
        BY <3>4 DEF CancelRun
      <4>2. StreamSet(i, s.stage, "ended", s.kind, s.thread, s.run, <<>>)
        BY <1>0, <4>1, StreamServed
      <4> QED BY <4>1, <4>2
    <3> QED BY <1>3, <3>1, <3>2, <3>3, <3>4
  <2>5. Unheard(i) => Unheard(i)'
    BY <2>1, <2>4 DEF Unheard, StreamSet
  <2>6. \/ wire' = wire
        \/ /\ socket = s.thread
           /\ \E m \in Message : m.type # "approval_confirmed" /\ m.run = run /\ wire' = Append(wire, m)
    <3>1. /\ [type |-> "chatroom_message", run |-> run] \in Message
          /\ [type |-> "approval_request", run |-> run] \in Message
      BY <2>11 DEF Message
    <3>2. wire' \in {wire} \cup {Append(wire, m) : m \in
                {[type |-> "chatroom_message", run |-> run], [type |-> "approval_request", run |-> run]}}
          /\ (wire' = wire \/ socket = s.thread)
      BY <1>3 DEF TellPlan, AskApproval, EndRun, CancelRun, Tells
    <3> QED BY <3>1, <3>2
  <2>7. UNCHANGED <<sessionVars, called, current, isRefactoring, viewVars, sessions, clicks>>
    BY <1>3 DEF TellPlan, AskApproval, EndRun, CancelRun
  <2>8. /\ \A r \in Request : Begun(r) => Begun(r)' /\ runs'[r].thread = runs[r].thread
        /\ \A r \in Request : Begun(r)' => Begun(r)
    BY <2>11, <2>3 DEF RunSet, Begun
  <2>9. /\ stream'[i].run = run /\ stream'[i].server # "none" /\ stream'[i].stage = s.stage
        /\ stream'[i].kind = s.kind /\ stream'[i].thread = s.thread /\ stream' \in [Request -> Stream]
        /\ \A j \in Request \ {i} : stream'[j] = stream[j]
    BY <2>1, <2>4 DEF StreamSet
  <2>10. runs' \in [Request -> RunState] /\ runs'[run].state # "none" /\ runs'[run].thread = s.thread
    BY <2>11, <2>3 DEF RunSet
  <2> QED BY <2>11, <2>5, <2>6, <2>7, <2>8, <2>9, <2>10 DEF BackendChanges, Begun
<1> QED BY <1>1, <1>2, <1>3 DEF Backend

LEMMA BackendKeeps ==
    ASSUME ClientInv, NEW i \in Request, BackendChanges(i)
    PROVE  ClientInv'
<1> USE Named DEF ClientInv, BackendChanges, sessionVars, viewVars
<1>0. /\ TypeInv /\ wire \in Seq(Message) /\ (\A j \in Request : stream[j] \in Stream)
  BY DEF TypeInv
<1>00. \A k \in DOMAIN wire : wire[k] \in Message /\ wire[k].run \in Request
  <2>1. \A k \in DOMAIN wire : wire[k] \in Message
    BY <1>0
  <2> QED BY <2>1 DEF Message
<1>10. wire' \in Seq(Message)
  BY <1>0, Added
<1>1. TypeInv'
  BY <1>0, <1>10 DEF TypeInv
<1>2. ASSUME NEW j \in Request PROVE RunContext(j)'
  <2>1. stream[j].run \in Request \cup {None} /\ RunContext(j)
    BY <1>0 DEF Stream
  <2>2. CASE j = i
    BY <2>1, <2>2 DEF RunContext, Begun
  <2>3. CASE j # i
    <3>1. stream'[j] = stream[j] /\ (Begun(j)' => Begun(j) /\ runs'[j].thread = runs[j].thread)
      BY <2>3
    <3>2. stream[j].run # None => runs'[stream[j].run].state # "none" /\ runs'[stream[j].run].thread = stream[j].thread
      BY <2>1 DEF RunContext, Begun
    <3> QED BY <2>1, <3>1, <3>2 DEF RunContext, Begun
  <2> QED BY <2>2, <2>3
<1>3. ASSUME NEW j \in Request PROVE RequestContext(j)'
  BY DEF RequestContext
<1>4. ASSUME NEW j \in Request PROVE CurrentContext(j)'
  BY DEF CurrentContext, AtWork, Unheard
<1>5. PageContext'
  <2>1. socket = None => wire' = <<>>
    BY DEF PageContext
  <2>2. ASSUME NEW k \in DOMAIN wire
        PROVE  runs'[wire[k].run].state # "none" /\ runs'[wire[k].run].thread = threadId
    BY <1>00 DEF PageContext, Begun
  <2>3. ASSUME NEW m \in Message, m.run = stream[i].run, stream[i].run # None,
               socket = stream[i].thread, stream[i].thread # None
        PROVE  runs'[m.run].state # "none" /\ runs'[m.run].thread = threadId
    <3>1. m.run \in Request /\ socket = threadId
      BY <2>3 DEF Message, TypeInv
    <3>2. runs[m.run].state # "none" /\ runs[m.run].thread = threadId
      BY <2>3, <3>1 DEF RunContext, Begun
    <3> QED BY <3>1, <3>2 DEF Begun
  <2>4. ASSUME NEW k \in DOMAIN wire'
        PROVE  runs'[wire'[k].run].state # "none" /\ runs'[wire'[k].run].thread = threadId
    <3>1. CASE wire' = wire
      BY <2>2, <3>1
    <3>2. ASSUME NEW m \in Message, m.run = stream[i].run, stream[i].run # None,
                 socket = stream[i].thread, stream[i].thread # None, wire' = Append(wire, m)
          PROVE  runs'[wire'[k].run].state # "none" /\ runs'[wire'[k].run].thread = threadId
      <4>1. (k \in DOMAIN wire /\ wire'[k] = wire[k]) \/ wire'[k] = m
        BY <1>0, <3>2, Added
      <4>2. runs'[m.run].state # "none" /\ runs'[m.run].thread = threadId
        BY <2>3, <3>2
      <4> QED BY <2>2, <4>1, <4>2
    <3> QED BY <3>1, <3>2
  <2>5. activeRunId # None => Begun(activeRunId)'
    BY <1>0 DEF PageContext, TypeInv
  <2> QED BY <2>1, <2>4, <2>5 DEF PageContext, Begun
<1>6. ScreenOfOneRun' /\ BusyWithRequest'
  BY <1>0 DEF ScreenOfOneRun, BusyWithRequest, TypeInv, PageContext
<1>7. ASSUME NEW r \in Request PROVE Once(r)'
  <2>1. NoneAdded
    BY <1>0, WireKept
  <2> QED BY <2>1, OnceKept DEF Resuming, AtWork
<1>8. ASSUME NEW j \in Request PROVE Superseded(j)'
  BY DEF Superseded, Twice
<1>9. DecisionCarriedOut'
  BY DEF DecisionCarriedOut
<1> QED BY <1>1, <1>2, <1>3, <1>4, <1>5, <1>6, <1>7, <1>8, <1>9
-----------------------------------------------------------------------------
\* The session and its socket.
LEMMA SessionCreatedKeeps == ASSUME ClientInv, SessionCreated PROVE ClientInv'
<1> USE Named DEF ClientInv, SessionCreated, streamVars, viewVars
<1>0. /\ TypeInv /\ PageContext /\ \A j \in Request : stream[j] \in Stream
      /\ \A j \in Request : RequestContext(j) /\ CurrentContext(j)
  BY DEF TypeInv
<1>1. /\ threadId = None /\ ~isRefactoring /\ activeRunId = None /\ wire = <<>> /\ sessions \in Nat
      /\ sessions' = sessions + 1 /\ sessions' \in Session /\ sessions' \in 0 .. MaxSessions
  BY <1>0, ClientAssumption DEF PageContext, ScreenOfOneRun, TypeInv, Session
<1>2. \A j \in Request : stream[j].thread # None => stream[j].thread # sessions' /\ stream[j].thread <= sessions'
  <2>1. ASSUME NEW j \in Request, stream[j].thread # None PROVE stream[j].thread \in Nat /\ stream[j].thread <= sessions
    BY <1>0, <2>1 DEF Stream, RequestContext
  <2> QED BY <1>1, <2>1
<1>3. TypeInv'
  BY <1>0, <1>1 DEF TypeInv
<1>4. ASSUME NEW j \in Request PROVE RunContext(j)' /\ RequestContext(j)' /\ CurrentContext(j)'
  <2>1. RunContext(j)'
    BY DEF RunContext, Begun
  <2>2. RequestContext(j)'
    BY <1>0, <1>2 DEF RequestContext
  <2>3. CurrentContext(j)'
    BY <1>0, <1>1 DEF CurrentContext, AtWork, Unheard
  <2> QED BY <2>1, <2>2, <2>3
<1>5. PageContext' /\ ScreenOfOneRun' /\ BusyWithRequest'
  BY <1>0, <1>1 DEF PageContext, ScreenOfOneRun, BusyWithRequest
<1>6. ASSUME NEW j \in Request PROVE Once(j)' /\ Superseded(j)'
  <2>1. NoneAdded
    BY <1>0, WireKept DEF TypeInv
  <2>2. Once(j)'
    BY <2>1, OnceKept DEF Resuming, AtWork
  <2>3. Superseded(j)'
    BY <1>0, <1>2 DEF Superseded, RequestContext
  <2> QED BY <2>2, <2>3
<1>7. DecisionCarriedOut'
  BY <1>0, <1>2 DEF DecisionCarriedOut, RequestContext
<1> QED BY <1>3, <1>4, <1>5, <1>6, <1>7

LEMMA SessionFailsKeeps == ASSUME ClientInv, SessionFails PROVE ClientInv'
<1> USE Named DEF ClientInv, SessionFails, viewVars, backendVars
<1>0. /\ TypeInv /\ PageContext /\ \A j \in Request : stream[j] \in Stream
      /\ \A j \in Request : RequestContext(j) /\ CurrentContext(j)
  BY DEF TypeInv
<1>1. threadId = None /\ ~isRefactoring /\ activeRunId = None
  BY <1>0 DEF PageContext, ScreenOfOneRun
<1>2. /\ stream' \in [Request -> Stream]
      /\ \A j \in Request \ {opening} : stream'[j] = stream[j]
      /\ \A j \in Request : /\ stream'[j].server = stream[j].server /\ stream'[j].kind = stream[j].kind
                            /\ stream'[j].thread = stream[j].thread /\ stream'[j].run = stream[j].run
                            /\ stream'[j].events = stream[j].events
                            /\ j = opening => stream'[j].stage = "closed"
  <2>1. ASSUME NEW j \in Request
        PROVE  /\ [stream[j] EXCEPT !.stage = "closed"] \in Stream
               /\ stream'[j] = IF j = opening THEN [stream[j] EXCEPT !.stage = "closed"] ELSE stream[j]
    BY <1>0 DEF Stream
  <2> QED BY <1>0, <2>1 DEF Stream
<1>3. TypeInv'
  <2>1. opening' = None /\ UNCHANGED <<threadId, socket, called, current, isRefactoring, viewVars, backendVars>>
    OBVIOUS
  <2> HIDE DEF ClientInv, SessionFails
  <2> QED BY <1>0, <1>2, <2>1 DEF TypeInv
<1>4. ASSUME NEW j \in Request PROVE RunContext(j)' /\ RequestContext(j)' /\ CurrentContext(j)'
  <2>1. RunContext(j)'
    BY <1>2 DEF RunContext, Begun
  <2>2. RequestContext(j)'
    BY <1>0, <1>2 DEF RequestContext
  <2>3. CurrentContext(j)'
    BY <1>0, <1>1, <1>2 DEF CurrentContext, AtWork, Unheard
  <2> QED BY <2>1, <2>2, <2>3
<1>5. PageContext' /\ ScreenOfOneRun' /\ BusyWithRequest'
  BY <1>0, <1>1 DEF PageContext, ScreenOfOneRun, BusyWithRequest, Begun
<1>6. ASSUME NEW j \in Request PROVE Once(j)' /\ Superseded(j)'
  <2>1. NoneAdded
    BY <1>0, WireKept DEF TypeInv
  <2>2. Once(j)'
    BY <1>1, <2>1, OnceKept DEF Resuming, AtWork
  <2>3. Superseded(j)'
    BY <1>0, <1>2 DEF Superseded, Twice
  <2> QED BY <2>2, <2>3
<1>7. DecisionCarriedOut'
  BY <1>0, <1>2 DEF DecisionCarriedOut
<1> QED BY <1>3, <1>4, <1>5, <1>6, <1>7

LEMMA SocketClosesKeeps == ASSUME ClientInv, SocketCloses PROVE ClientInv'
<1> USE Named DEF ClientInv, SocketCloses, streamVars, viewVars
<1>3. TypeInv'
  BY DEF TypeInv
<1>4. ASSUME NEW j \in Request PROVE RunContext(j)' /\ RequestContext(j)' /\ CurrentContext(j)'
  BY DEF RunContext, Begun, RequestContext, CurrentContext, AtWork, Unheard
<1>5. PageContext' /\ ScreenOfOneRun' /\ BusyWithRequest'
  BY DEF PageContext, ScreenOfOneRun, BusyWithRequest, Begun
<1>6. ASSUME NEW j \in Request PROVE Once(j)' /\ Superseded(j)'
  <2>1. NoneAdded
    BY WireKept DEF TypeInv
  <2>2. Once(j)'
    BY <2>1, OnceKept DEF Resuming, AtWork
  <2> QED BY <2>2 DEF Superseded, Twice
<1>7. DecisionCarriedOut'
  BY DEF DecisionCarriedOut
<1> QED BY <1>3, <1>4, <1>5, <1>6, <1>7
-----------------------------------------------------------------------------
\* A call of sendStreamRequest, whoever makes it: only the user's second
\* decision supersedes a request that carries one out.
Requests ==
    /\ TypeInv /\ BusyWithRequest /\ DecisionCarriedOut
    /\ \A j \in Request : RunContext(j) /\ RequestContext(j) /\ CurrentContext(j) /\ Superseded(j)
    /\ opening # None => threadId = None

CallChanges(kind) ==
    /\ Call(kind) /\ kind \in Kind
    /\ UNCHANGED <<threadId, socket, isRefactoring, refreshing, sessions, runs, clicks>>
    /\ kind = "resume" => activeRunId' # None
    /\ activeRunId # None => activeRunId' # None
    /\ \A j \in Request :
          current = j /\ stream[j].stage = "open" /\ stream[j].kind = "resume" => Twice
    /\ activeRunId' \in Request \cup {None} /\ deciding' \in Request \cup {None}
    /\ screen' \in [plan : Request \cup {None}, status : Request \cup {None},
                    approval : Request \cup {None}]
    /\ isApprovalModalOpen' \in BOOLEAN /\ wire' \in Seq(Message)

LEMMA CallKeepsRequests ==
    ASSUME ClientInv, NEW kind, CallChanges(kind)
    PROVE  Requests'
<1> DEFINE i == called + 1
<1> USE Named DEF ClientInv, CallChanges
<1>0. /\ TypeInv /\ PageContext /\ (\A j \in Request : stream[j] \in Stream) /\ called \in Nat
      /\ stream \in [Request -> Stream] /\ opening \in {Page, None} \cup Request
      /\ \A j \in Request : RunContext(j) /\ RequestContext(j) /\ CurrentContext(j) /\ Superseded(j)
  <2>1. \A j \in Request : RunContext(j) /\ RequestContext(j) /\ CurrentContext(j) /\ Superseded(j)
    OBVIOUS
  <2>2. TypeInv /\ PageContext
    OBVIOUS
  <2> HIDE DEF ClientInv, CallChanges
  <2>3. called \in Nat
    BY <2>2, ClientAssumption DEF TypeInv
  <2> QED BY <2>1, <2>2, <2>3 DEF TypeInv
<1>1. /\ i \in Request /\ i \in 0 .. MaxRequests /\ i > called
      /\ current' = i /\ called' = i /\ opening' = IF threadId = None THEN i ELSE opening
      /\ stream' = [stream EXCEPT ![i].stage = "ensuring", ![i].kind = kind]
  BY <1>0, ClientAssumption DEF Call, Request
<1> HIDE DEF i
<1>2. /\ stream' \in [Request -> Stream] /\ \A j \in Request \ {i} : stream'[j] = stream[j]
      /\ stream'[i].stage = "ensuring" /\ stream'[i].server = stream[i].server
      /\ stream'[i].kind = kind /\ stream'[i].thread = stream[i].thread
      /\ stream'[i].run = stream[i].run /\ stream'[i].events = stream[i].events
  <2>1. /\ stream'[i] = [stream[i] EXCEPT !.stage = "ensuring", !.kind = kind]
        /\ \A j \in Request \ {i} : stream'[j] = stream[j]
    BY <1>0, <1>1
  <2>2. [stream[i] EXCEPT !.stage = "ensuring", !.kind = kind] \in Stream
    <3>1. stream[i] \in Stream /\ kind \in Kind
      BY <1>0, <1>1
    <3> HIDE DEF ClientInv, CallChanges
    <3> QED BY <3>1 DEF Stream
  <2>3. stream' \in [Request -> Stream]
    BY <1>0, <1>1, <2>1, <2>2
  <2> QED BY <1>0, <1>1, <2>1, <2>3 DEF Stream
<1>3. stream[i].stage = "idle" /\ stream[i].server = "none" /\ current # i
  BY <1>0, <1>1 DEF RequestContext
<1>4. TypeInv'
  BY <1>0, <1>1, <1>2 DEF TypeInv
<1>5. ASSUME NEW j \in Request PROVE RunContext(j)'
  <2>1. RunContext(j) /\ UNCHANGED runs
    BY <1>0
  <2> HIDE DEF ClientInv, CallChanges
  <2>2. CASE j = i
    BY <1>2, <2>1, <2>2 DEF RunContext, Begun
  <2>3. CASE j # i
    BY <1>2, <2>1, <2>3 DEF RunContext, Begun
  <2> QED BY <2>2, <2>3
<1>6. ASSUME NEW j \in Request PROVE RequestContext(j)'
  <2>1. j > i => j > called
    BY <1>0, <1>1 DEF Request, i
  <2> QED BY <1>0, <1>1, <1>2, <1>3, <2>1 DEF RequestContext
<1>7. ASSUME NEW j \in Request PROVE CurrentContext(j)'
  BY <1>1, <1>2 DEF CurrentContext, AtWork
<1>8. ASSUME NEW j \in Request PROVE Superseded(j)'
  BY <1>0, <1>1, <1>2 DEF Superseded, Twice
<1>9. DecisionCarriedOut' /\ BusyWithRequest'
  BY <1>1, <1>2 DEF DecisionCarriedOut, BusyWithRequest
<1>10. opening' # None => threadId' = None
  BY <1>0, <1>1 DEF PageContext
<1> QED BY <1>4, <1>5, <1>6, <1>7, <1>8, <1>9, <1>10 DEF Requests

\* A step of other parts of the page.
LEMMA RequestsKept ==
    ASSUME ClientInv, TypeInv',
           UNCHANGED <<sessionVars, streamVars, activeRunId, sessions, runs, clicks>>
    PROVE  Requests'
<1> USE DEF sessionVars, streamVars
<1>1. ASSUME NEW j \in Request PROVE RunContext(j)' /\ RequestContext(j)'
  <2>1. RunContext(j) /\ RequestContext(j)
    BY DEF ClientInv
  <2> QED BY <2>1 DEF RunContext, Begun, RequestContext
<1>2. ASSUME NEW j \in Request PROVE CurrentContext(j)' /\ Superseded(j)'
  <2>1. CurrentContext(j) /\ Superseded(j)
    BY DEF ClientInv
  <2> QED BY <2>1 DEF CurrentContext, AtWork, Unheard, Superseded, Twice
<1>3. BusyWithRequest' /\ DecisionCarriedOut'
  BY DEF ClientInv, BusyWithRequest, DecisionCarriedOut
<1>4. opening' # None => threadId' = None
  BY DEF ClientInv, PageContext
<1> QED BY <1>1, <1>2, <1>3, <1>4 DEF Requests

\* What the invariant says beside.
View ==
    /\ threadId # None => threadId <= sessions
    /\ isRefactoring => threadId # None
    /\ activeRunId # None => Begun(activeRunId)
    /\ isApprovalModalOpen => screen.approval # None
    /\ socket = None => wire = <<>>
    /\ \A k \in DOMAIN wire : Begun(wire[k].run) /\ runs[wire[k].run].thread = threadId
    /\ ScreenOfOneRun

LEMMA AskKeeps ==
    ASSUME ClientInv, SubmitInitial \/ SendChatMessage
    PROVE  ClientInv'
<1> USE Named DEF ClientInv
<1>0. PICK kind \in {"initial", "chat"} : Call(kind)
  BY DEF SubmitInitial, SendChatMessage
<1>1. ~isRefactoring /\ UNCHANGED <<threadId, socket, isRefactoring, viewVars, backendVars>>
  BY DEF SubmitInitial, SendChatMessage
<1> USE DEF viewVars, backendVars
<1>2. \A j \in Request : current = j => stream[j].stage # "open"
  BY <1>1 DEF CurrentContext
<1>3. CallChanges(kind)
  BY <1>0, <1>1, <1>2 DEF CallChanges, Kind, TypeInv
<1>4. Requests'
  BY <1>3, CallKeepsRequests
<1>5. View'
  BY <1>1 DEF View, PageContext, ScreenOfOneRun, Begun
<1>6. ASSUME NEW r \in Request PROVE Once(r)'
  <2>1. NoneAdded
    BY <1>1, WireKept DEF TypeInv
  <2>2. ~Resuming(r)'
    <3>1. called + 1 \in Request /\ current' = called + 1 /\ stream'[called + 1].kind = kind
      BY <1>0, ClientAssumption DEF Call, Request, TypeInv, Stream
    <3> QED BY <3>1 DEF Resuming
  <2> QED BY <1>1, <2>1, <2>2, OnceKept
<1> QED BY <1>4, <1>5, <1>6 DEF Requests, View, PageContext
-----------------------------------------------------------------------------
\* The messages and the decision.
LEMMA CallEffect ==
    ASSUME TypeInv, NEW kind, Call(kind)
    PROVE  /\ current' = called + 1 /\ called + 1 \in Request
           /\ stream'[called + 1].kind = kind /\ stream'[called + 1].stage = "ensuring"
<1>1. called + 1 \in Request /\ stream[called + 1] \in Stream
  BY ClientAssumption DEF Call, Request, TypeInv
<1>2. stream'[called + 1] = [stream[called + 1] EXCEPT !.stage = "ensuring", !.kind = kind]
  BY <1>1 DEF Call, TypeInv
<1> QED BY <1>1, <1>2 DEF Call, Stream

LEMMA DecisionAnsweredKeeps == ASSUME ClientInv, DecisionAnswered PROVE ClientInv'
<1> USE Named DEF ClientInv, backendVars
<1>0. /\ TypeInv /\ View /\ Call("resume") /\ deciding # None /\ deciding' = None /\ isApprovalModalOpen' = FALSE
      /\ UNCHANGED <<threadId, socket, isRefactoring, activeRunId, screen, refreshing, backendVars>>
  BY DEF DecisionAnswered, View, PageContext
<1>9. wire' \in Seq(Message)
  BY <1>0 DEF TypeInv
<1>1. deciding \in Request /\ activeRunId = deciding
  BY <1>0 DEF View, ScreenOfOneRun, TypeInv
<1>2. \A j \in Request : current = j /\ stream[j].stage = "open" /\ stream[j].kind = "resume" => Twice
  <2>1. ASSUME NEW j \in Request, current = j, stream[j].stage = "open", stream[j].kind = "resume"
        PROVE  clicks[deciding] > 1
    <3>1. Resuming(deciding) /\ Once(deciding)
      BY <1>1, <2>1 DEF Resuming, AtWork
    <3>2. clicks[deciding] # 0 /\ clicks[deciding] # 1 /\ clicks[deciding] \in Nat
      BY <1>0, <1>1, <3>1 DEF Once, TypeInv
    <3> QED BY <3>2
  <2> QED BY <1>1, <2>1 DEF Twice
<1>3. CallChanges("resume")
  BY <1>0, <1>1, <1>2, <1>9 DEF CallChanges, Kind, TypeInv
<1>4. Requests'
  BY <1>3, CallKeepsRequests
<1>5. View'
  BY <1>0, <1>1 DEF View, ScreenOfOneRun, Begun
<1>6. ASSUME NEW r \in Request PROVE Once(r)'
  <2>1. NoneAdded /\ Once(r)
    BY <1>0, WireKept DEF TypeInv
  <2>2. CASE r # deciding
    BY <1>0, <1>1, <2>1, <2>2, OnceKept DEF Resuming
  <2>3. CASE r = deciding
    BY <1>0, <2>1, <2>3 DEF Once, NoneAdded
  <2> QED BY <2>2, <2>3
<1> QED BY <1>4, <1>5, <1>6 DEF Requests, View, PageContext

LEMMA ReceiveKeeps == ASSUME ClientInv, Receive PROVE ClientInv'
<1> DEFINE m == Head(wire)
<1>9. PICK r : r = m.run
  OBVIOUS
<1> USE <1>9, Named DEF ClientInv, sessionVars, streamVars, viewVars
<1>0. TypeInv /\ View /\ Requests /\ wire \in Seq(Message)
  BY DEF View, PageContext, Requests, TypeInv
<1>1. /\ socket # None /\ wire # <<>> /\ wire' = Tail(wire) /\ wire' \in Seq(Message)
      /\ m \in Message /\ r \in Request /\ m = wire[1] /\ 1 \in DOMAIN wire
      /\ UNCHANGED <<sessions, runs, clicks>>
  <2>1. socket # None /\ wire # <<>> /\ wire' = Tail(wire) /\ UNCHANGED <<sessions, runs, clicks>>
    BY DEF Receive
  <2>2. m \in Message /\ m = wire[1] /\ 1 \in DOMAIN wire /\ wire' \in Seq(Message)
    BY <1>0, <2>1, Taken
  <2> QED BY <2>1, <2>2 DEF Message
<1>2. NoneAdded
  BY <1>0, <1>1, WireKept
<1>3. \A k \in DOMAIN wire' : runs'[wire'[k].run].state # "none" /\ runs'[wire'[k].run].thread = threadId
  <2>1. \A k \in DOMAIN wire' : k + 1 \in DOMAIN wire /\ wire'[k] = wire[k + 1]
    BY <1>0, <1>1, Taken
  <2> QED BY <1>0, <1>1, <2>1 DEF View, Begun
<1>4. /\ Begun(r) /\ runs[r].thread = threadId /\ threadId # None
  BY <1>0, <1>1 DEF View, TypeInv
<1>5. CASE OfAnotherRun(r)
  <2>1. UNCHANGED <<sessionVars, streamVars, viewVars>>
    BY <1>5 DEF Receive
  <2>2. Requests'
    <3>1. TypeInv'
      <4>1. /\ UNCHANGED <<threadId, socket, opening, stream, called, current, isRefactoring, activeRunId,
                           screen, isApprovalModalOpen, deciding, refreshing, sessions, runs, clicks>>
            /\ wire' \in Seq(Message)
        BY <1>1, <2>1
      <4> HIDE Named DEF ClientInv, sessionVars, streamVars, viewVars
      <4> QED BY <1>0, <4>1 DEF TypeInv
    <3> HIDE DEF sessionVars, streamVars
    <3> QED BY <1>1, <2>1, <3>1, RequestsKept DEF viewVars
  <2>3. View'
    BY <1>0, <1>1, <1>3, <2>1 DEF View, ScreenOfOneRun, Begun
  <2>4. \A q \in Request : Once(q)'
    BY <1>1, <1>2, <2>1, OnceKept DEF Resuming, AtWork
  <2> QED BY <2>2, <2>3, <2>4 DEF Requests, View, PageContext
<1>6. CASE ~OfAnotherRun(r)
  <2>1. /\ activeRunId' = r /\ activeRunId \in {None, r}
        /\ UNCHANGED <<deciding, refreshing, threadId, socket>>
    BY <1>6 DEF Receive, OfAnotherRun
  <2>2. screen' \in {screen, [screen EXCEPT !.approval = r]} /\ (isApprovalModalOpen' =>
            (isApprovalModalOpen /\ screen' = screen) \/ screen' = [screen EXCEPT !.approval = r])
        /\ isApprovalModalOpen' \in BOOLEAN
    BY <1>0, <1>1, <1>6 DEF Receive, Message, TypeInv
  <2>3. View'
    <3>1. /\ screen'.plan \in {None, r} /\ screen'.status \in {None, r} /\ screen'.approval \in {None, r}
          /\ DOMAIN screen' = {"plan", "status", "approval"} /\ deciding \in {None, r}
          /\ isApprovalModalOpen' => screen'.approval # None
      <4>1. /\ screen.plan \in {None, r} /\ screen.status \in {None, r} /\ screen.approval \in {None, r}
            /\ screen \in [plan : Request \cup {None}, status : Request \cup {None},
                           approval : Request \cup {None}]
            /\ deciding \in {None, r}
        BY <1>0, <2>1 DEF View, ScreenOfOneRun, TypeInv
      <4> QED BY <1>0, <1>1, <2>2, <4>1 DEF View
    <3>2. ScreenOfOneRun'
      BY <1>1, <1>4, <2>1, <3>1 DEF ScreenOfOneRun
    <3>3. UNCHANGED isRefactoring
      BY <1>1, <1>6 DEF Receive, Message
    <3> QED BY <1>0, <1>1, <1>3, <1>4, <2>1, <3>1, <3>2, <3>3 DEF View, Begun
  <2>4. screen' \in [plan : Request \cup {None}, status : Request \cup {None},
                     approval : Request \cup {None}]
    BY <1>0, <1>1, <2>2 DEF TypeInv
  <2>5. CASE m.type # "approval_confirmed"
    <3>1. UNCHANGED <<streamVars, opening>>
      BY <1>1, <1>6, <2>5 DEF Receive, Message
    <3>2. TypeInv'
      BY <1>0, <1>1, <2>1, <2>2, <2>4, <3>1 DEF TypeInv
    <3>3. \A j \in Request : CurrentContext(j)'
      BY <1>1, <2>1, <3>1 DEF CurrentContext, AtWork
    <3>4. Requests'
      BY <1>0, <1>1, <2>1, <3>1, <3>2, <3>3 DEF Requests, BusyWithRequest, DecisionCarriedOut, RunContext, Begun,
            RequestContext, Superseded, Twice
    <3>5. ASSUME NEW q \in Request PROVE Once(q)'
      <4>1. Resuming(q)' => Resuming(q)
        BY <2>1, <3>1 DEF Resuming, CurrentContext, AtWork
      <4> QED BY <1>1, <1>2, <2>1, <4>1, OnceKept
    <3> QED BY <2>3, <3>4, <3>5 DEF Requests, View, PageContext
  <2>6. CASE m.type = "approval_confirmed"
    <3>1. Call("resume") /\ UNCHANGED isRefactoring
      BY <1>6, <2>6 DEF Receive
    <3>2. m = Confirmation(r) /\ 1 \in Confirms(r)
      BY <1>1, <2>6 DEF Confirms, Confirmation, Message
    <3>3. Once(r) /\ clicks[r] \in Nat /\ clicks[r] # 0
      <4>1. Once(r) /\ clicks[r] \in Nat
        BY <1>0, <1>1 DEF TypeInv
      <4> QED BY <3>2, <4>1 DEF Once
    <3>4. \A j \in Request : current = j /\ stream[j].stage = "open" /\ stream[j].kind = "resume" => Twice
      <4>1. ASSUME NEW j \in Request, current = j, stream[j].stage = "open", stream[j].kind = "resume"
            PROVE  clicks[r] > 1
        <5>1. activeRunId = r
          BY <2>1, <4>1 DEF CurrentContext, AtWork
        <5>2. Resuming(r)
          BY <4>1, <5>1 DEF Resuming, AtWork
        <5>3. clicks[r] # 1
          BY <3>2, <3>3, <5>2 DEF Once
        <5> QED BY <3>3, <5>3
      <4> QED BY <1>1, <4>1 DEF Twice
    <3>5. CallChanges("resume")
      BY <1>0, <1>1, <2>1, <2>2, <2>4, <3>1, <3>4 DEF CallChanges, Kind, TypeInv
    <3>6. Requests'
      BY <3>5, CallKeepsRequests
    <3>7. ASSUME NEW q \in Request PROVE Once(q)'
      <4>1. CASE q # r
        <5>1. ~Resuming(q)'
          BY <2>1, <4>1 DEF Resuming
        <5> QED BY <1>1, <1>2, <2>1, <5>1, OnceKept
      <4>2. CASE q = r
        <5>1. clicks[r] = 1 => Confirms(r)' = {}
          <6>1. ASSUME clicks[r] = 1, NEW k \in Confirms(r)' PROVE FALSE
            <7>1. k \in DOMAIN wire' /\ wire'[k] = Confirmation(r)
              BY <6>1 DEF Confirms, Confirmation
            <7>2. k + 1 \in DOMAIN wire /\ wire[k + 1] = Confirmation(r) /\ k \in Nat \ {0}
              BY <1>0, <1>1, <7>1, Taken
            <7>3. k + 1 \in Confirms(r)
              BY <7>2 DEF Confirms
            <7>4. k + 1 = 1
              BY <3>2, <3>3, <6>1, <7>3 DEF Once
            <7> QED BY <7>2, <7>4
          <6> QED BY <6>1
        <5>2. clicks[r] = 1 => deciding # r
          BY <3>2, <3>3 DEF Once
        <5> QED BY <1>1, <2>1, <3>3, <4>2, <5>1, <5>2 DEF Once
      <4> QED BY <4>1, <4>2
    <3> QED BY <2>3, <3>6, <3>7 DEF Requests, View, PageContext
  <2> QED BY <2>5, <2>6
<1> QED BY <1>5, <1>6

LEMMA Clicked ==
    ASSUME NEW f \in [Request -> Nat], NEW r \in Request, NEW g, g = [f EXCEPT ![r] = @ + 1]
    PROVE  /\ g \in [Request -> Nat] /\ g[r] = f[r] + 1 /\ f[r] \in Nat
           /\ \A q \in Request \ {r} : g[q] = f[q]
OBVIOUS

LEMMA ClickKeeps == ASSUME ClientInv, Click PROVE ClientInv'
<1>9. PICK r : r = screen.approval
  OBVIOUS
<1> USE <1>9, Named DEF ClientInv, sessionVars, streamVars
<1>0. TypeInv /\ View /\ Requests /\ wire \in Seq(Message)
  BY DEF View, PageContext, Requests, TypeInv
<1>1. /\ isApprovalModalOpen /\ clicks' = [clicks EXCEPT ![r] = @ + 1] /\ Decide(r)
      /\ UNCHANGED <<sessionVars, streamVars, activeRunId, screen, isApprovalModalOpen, refreshing, sessions>>
      /\ \/ /\ socket # None /\ wire' \in {wire, Append(wire, Confirmation(r))} /\ UNCHANGED deciding
         \/ socket = None /\ deciding' \in {None, r} /\ wire' = wire
  BY DEF Click, Confirmation
<1>2. r \in Request /\ activeRunId = r /\ threadId # None /\ Begun(r) /\ runs[r].thread = threadId
  <2>1. r \in Request \cup {None} /\ r # None
    BY <1>0, <1>1 DEF View, TypeInv
  <2>2. r \in {None, activeRunId}
    BY <1>0 DEF View, ScreenOfOneRun, TypeInv
  <2> QED BY <1>0, <2>1, <2>2 DEF View, ScreenOfOneRun
<1>3. /\ runs' \in [Request -> RunState]
      /\ \A q \in Request : runs'[q].thread = runs[q].thread /\ (Begun(q)' <=> Begun(q))
  <2>1. CASE runs' = runs
    BY <1>0, <2>1 DEF TypeInv, Begun
  <2>2. CASE Decided(r) /\ runs' = [runs EXCEPT ![r].state = "decided"]
    <3>1. RunSet(r, "decided", runs[r].thread)
      BY <1>0, <1>2, <2>2, RunTold DEF TypeInv
    <3> QED BY <1>2, <2>2, <3>1 DEF RunSet, Begun
  <2> QED BY <1>1, <2>1, <2>2 DEF Decide
<1>4. /\ clicks' \in [Request -> Nat] /\ clicks'[r] = clicks[r] + 1 /\ clicks[r] \in Nat
      /\ \A q \in Request \ {r} : clicks'[q] = clicks[q]
  <2>1. clicks \in [Request -> Nat]
    BY <1>0 DEF TypeInv
  <2>2. clicks' = [clicks EXCEPT ![r] = @ + 1] /\ r \in Request
    BY <1>1, <1>2
  <2> HIDE <1>9, Named DEF ClientInv
  <2> QED BY <2>1, <2>2, Clicked
<1>5. Twice => Twice'
  <2>1. ASSUME NEW q \in Request, clicks[q] > 1 PROVE clicks'[q] > 1
    BY <1>4, <2>1
  <2> QED BY <2>1 DEF Twice
<1>6. Confirmation(r) \in Message /\ wire' \in Seq(Message)
  <2>1. Confirmation(r) \in Message
    BY <1>2 DEF Confirmation, Message
  <2> QED BY <1>0, <1>1, <2>1, Added
<1>7. TypeInv'
  <2>1. deciding' \in Request \cup {None}
    BY <1>0, <1>1, <1>2 DEF TypeInv
  <2>2. UNCHANGED <<threadId, socket, opening, stream, called, current, isRefactoring, activeRunId, screen,
                    isApprovalModalOpen, refreshing, sessions>>
    BY <1>1
  <2> HIDE <1>9, Named DEF ClientInv, sessionVars, streamVars
  <2>3. /\ threadId' \in Session \cup {None} /\ socket' \in {None, threadId'}
        /\ opening' \in {Page, None} \cup Request
        /\ stream' \in [Request -> Stream] /\ called' \in 0 .. MaxRequests
        /\ current' \in Request \cup {None} /\ isRefactoring' \in BOOLEAN
        /\ activeRunId' \in Request \cup {None}
        /\ isApprovalModalOpen' \in BOOLEAN
        /\ refreshing' \in Request \cup {None} /\ sessions' \in 0 .. MaxSessions
    BY <1>0, <2>2 DEF TypeInv
  <2>4. screen' \in [plan : Request \cup {None}, status : Request \cup {None},
                     approval : Request \cup {None}]
    BY <1>0, <2>2 DEF TypeInv
  <2> QED BY <1>3, <1>4, <1>6, <2>1, <2>3, <2>4 DEF TypeInv
<1>8. Requests'
  <2>1. \A j \in Request : RunContext(j)'
    <3>1. \A j \in Request : stream[j].run \in Request \cup {None}
      BY <1>0 DEF TypeInv, Stream
    <3> QED BY <1>0, <1>1, <1>3, <3>1 DEF Requests, RunContext, Begun
  <2>2. \A j \in Request : RequestContext(j)' /\ CurrentContext(j)' /\ Superseded(j)'
    BY <1>0, <1>1, <1>5 DEF Requests, RequestContext, CurrentContext, AtWork, Unheard, Superseded
  <2>3. BusyWithRequest' /\ DecisionCarriedOut'
    BY <1>0, <1>1, <1>5 DEF Requests, BusyWithRequest, DecisionCarriedOut, Twice
  <2> QED BY <1>0, <1>1, <1>7, <2>1, <2>2, <2>3 DEF Requests
<1>10. \A k \in DOMAIN wire' : (k \in DOMAIN wire /\ wire'[k] = wire[k])
                              \/ (socket # None /\ k = Len(wire) + 1 /\ k \notin DOMAIN wire /\ wire'[k] = Confirmation(r))
  BY <1>0, <1>1, <1>6, Added
<1>11. View'
  <2>1. \A k \in DOMAIN wire' : Begun(wire'[k].run) /\ runs[wire'[k].run].thread = threadId /\ wire'[k].run \in Request
    <3>1. \A k \in DOMAIN wire : wire[k] \in Message /\ Begun(wire[k].run) /\ runs[wire[k].run].thread = threadId
      BY <1>0 DEF View
    <3> QED BY <1>2, <1>10, <3>1 DEF Confirmation, Message
  <2>2. socket' = None => wire' = <<>>
    BY <1>0, <1>1 DEF View
  <2>3. ScreenOfOneRun'
    BY <1>0, <1>1, <1>2, <1>3 DEF View, ScreenOfOneRun, TypeInv
  <2>4. activeRunId' # None => Begun(activeRunId)'
    BY <1>0, <1>1, <1>3 DEF View, TypeInv
  <2> QED BY <1>0, <1>1, <1>3, <2>1, <2>2, <2>3, <2>4 DEF View, Begun
<1>12. ASSUME NEW q \in Request PROVE Once(q)'
  <2>1. Resuming(q)' <=> Resuming(q)
    BY <1>1 DEF Resuming, AtWork
  <2>2. Once(q)
    OBVIOUS
  <2>3. CASE q # r
    <3>1. Confirms(q)' = Confirms(q)
      <4>1. \A k \in DOMAIN wire : k \in DOMAIN wire' /\ wire'[k] = wire[k]
        BY <1>0, <1>1, <1>6, Added
      <4> QED BY <1>10, <2>3, <4>1 DEF Confirms, Confirmation
    <3>2. deciding' = q => deciding = q
      BY <1>1, <2>3
    <3> QED BY <1>4, <2>1, <2>2, <2>3, <3>1, <3>2 DEF Once
  <2>4. CASE q = r
    <3>1. clicks'[q] # 0
      BY <1>4, <2>4
    <3>2. ASSUME clicks'[q] = 1
          PROVE  /\ \A k, l \in Confirms(q)' : k = l
                 /\ Confirms(q)' # {} => deciding' # q /\ ~Resuming(q)'
                 /\ deciding' = q => ~Resuming(q)'
      <4>1. clicks[q] = 0
        BY <1>4, <2>4, <3>2
      <4>2. Confirms(q) = {} /\ deciding # q /\ ~Resuming(q)
        BY <2>2, <4>1 DEF Once
      <4>3. \A k \in Confirms(q)' : k = Len(wire) + 1 /\ socket # None
        BY <1>10, <2>4, <4>2 DEF Confirms
      <4> QED BY <1>1, <2>1, <4>2, <4>3
    <3> QED BY <3>1, <3>2 DEF Once
  <2> QED BY <2>3, <2>4
<1> QED BY <1>8, <1>11, <1>12 DEF Requests, View, PageContext

LEMMA StatusReadKeeps == ASSUME ClientInv, StatusRead PROVE ClientInv'
<1> USE Named DEF ClientInv, sessionVars, streamVars, backendVars
<1>0. /\ TypeInv /\ View /\ Requests /\ wire \in Seq(Message)
      /\ refreshing' = None
      /\ UNCHANGED <<sessionVars, streamVars, activeRunId, isApprovalModalOpen, deciding, backendVars>>
  BY DEF View, PageContext, Requests, TypeInv, StatusRead
<1>1. screen' = screen \/ (activeRunId # None /\ screen' = [screen EXCEPT !.status = activeRunId])
  BY DEF StatusRead
<1>2. /\ screen' \in [plan : Request \cup {None}, status : Request \cup {None},
                      approval : Request \cup {None}]
      /\ screen'.plan = screen.plan /\ screen'.approval = screen.approval
      /\ screen'.status \in {screen.status, activeRunId}
  BY <1>0, <1>1 DEF TypeInv
<1>3. TypeInv'
  BY <1>0, <1>2 DEF TypeInv
<1>4. Requests'
  <2>1. UNCHANGED <<sessionVars, streamVars, activeRunId, sessions, runs, clicks>>
    BY <1>0
  <2> HIDE DEF ClientInv, sessionVars, streamVars
  <2> QED BY <1>3, <2>1, RequestsKept
<1>5. ScreenOfOneRun'
  BY <1>0, <1>2 DEF View, ScreenOfOneRun, TypeInv
<1>6. View'
  BY <1>0, <1>2, <1>5 DEF View, Begun
<1>7. ASSUME NEW r \in Request PROVE Once(r)'
  <2>1. NoneAdded
    BY <1>0, WireKept
  <2> QED BY <1>0, <2>1, OnceKept DEF Resuming, AtWork
<1> QED BY <1>4, <1>6, <1>7 DEF Requests, View, PageContext

LEMMA AbortedStreams ==
    ASSUME TypeInv
    PROVE  /\ Aborted(stream) \in [Request -> Stream]
           /\ \A j \in Request :
                LET a == Aborted(stream)[j] IN
                /\ a.stage = (IF stream[j].stage = "open" THEN "aborted" ELSE stream[j].stage)
                /\ a.server = stream[j].server /\ a.kind = stream[j].kind /\ a.thread = stream[j].thread
                /\ a.run = stream[j].run /\ a.events = stream[j].events
<1>1. ASSUME NEW j \in Request
      PROVE  /\ stream[j] \in Stream /\ [stream[j] EXCEPT !.stage = "aborted"] \in Stream
             /\ Aborted(stream)[j] = IF stream[j].stage = "open" THEN [stream[j] EXCEPT !.stage = "aborted"]
                                     ELSE stream[j]
  <2>1. stream[j] \in Stream
    BY DEF TypeInv
  <2>2. [stream[j] EXCEPT !.stage = "aborted"] \in Stream
    BY <2>1 DEF Stream
  <2> QED BY <2>1, <2>2 DEF Aborted
<1> QED BY <1>1 DEF Aborted, Stream

LEMMA NewSessionKeeps == ASSUME ClientInv, NewSession PROVE ClientInv'
<1> USE Named DEF ClientInv
<1>0. /\ TypeInv /\ View /\ Requests /\ wire \in Seq(Message)
      /\ stream' = Aborted(stream) /\ opening' = Page /\ wire' = <<>>
      /\ current' = None /\ isRefactoring' = FALSE /\ threadId' = None /\ socket' = None
      /\ activeRunId' = None /\ screen' = EmptyScreen /\ isApprovalModalOpen' = FALSE
      /\ deciding' = None /\ refreshing' = None /\ UNCHANGED <<called, sessions, runs, clicks>>
  BY DEF View, PageContext, Requests, TypeInv, NewSession, ResetRunScope
<1>1. /\ stream' \in [Request -> Stream]
      /\ \A j \in Request :
                /\ stream'[j].stage = (IF stream[j].stage = "open" THEN "aborted" ELSE stream[j].stage)
                /\ stream'[j].server = stream[j].server /\ stream'[j].kind = stream[j].kind
                /\ stream'[j].thread = stream[j].thread
                /\ stream'[j].run = stream[j].run /\ stream'[j].events = stream[j].events
  BY <1>0, AbortedStreams
<1>2. TypeInv'
  <2>1. EmptyScreen \in [plan : Request \cup {None}, status : Request \cup {None},
                         approval : Request \cup {None}]
    BY DEF EmptyScreen
  <2>2. opening' \in {Page, None} \cup Request /\ socket' \in {None, threadId'} /\ wire' \in Seq(Message)
    BY <1>0
  <2>3. screen' \in [plan : Request \cup {None}, status : Request \cup {None},
                     approval : Request \cup {None}]
    BY <1>0, <2>1
  <2>4. /\ sessions' \in 0 .. MaxSessions /\ runs' \in [Request -> RunState]
        /\ clicks' \in [Request -> Nat] /\ called' \in 0 .. MaxRequests
    BY <1>0 DEF TypeInv
  <2> HIDE DEF ClientInv
  <2> QED BY <1>0, <1>1, <2>2, <2>3, <2>4 DEF TypeInv
<1>3. \A j \in Request : RunContext(j)' /\ RequestContext(j)' /\ CurrentContext(j)' /\ Superseded(j)'
  <2>1. \A j \in Request : RunContext(j)'
    BY <1>0, <1>1 DEF Requests, RunContext, Begun
  <2>2. ASSUME NEW j \in Request PROVE RequestContext(j)'
    <3>1. RequestContext(j)
      BY <1>0 DEF Requests
    <3> HIDE DEF ClientInv
    <3> QED BY <1>0, <1>1, <3>1 DEF RequestContext
  <2>3. \A j \in Request : CurrentContext(j)'
    BY <1>0 DEF CurrentContext
  <2>4. \A j \in Request : stream'[j].stage # "open"
    BY <1>1
  <2>5. \A j \in Request : Superseded(j)'
    BY <2>4 DEF Superseded
  <2> QED BY <2>1, <2>2, <2>3, <2>5
<1>4. BusyWithRequest' /\ DecisionCarriedOut'
  BY <1>0, <1>1 DEF Requests, RequestContext, BusyWithRequest, DecisionCarriedOut
<1>5. View'
  BY <1>0 DEF View, ScreenOfOneRun, EmptyScreen
<1>6. ASSUME NEW r \in Request PROVE Once(r)'
  <2>1. NoneAdded
    BY <1>0, WireKept
  <2> QED BY <1>0, <2>1, OnceKept DEF Resuming
<1> QED BY <1>0, <1>2, <1>3, <1>4, <1>5, <1>6 DEF Requests, View, PageContext
-----------------------------------------------------------------------------
\* The continuation of a request, which aborts the one before it.
LEMMA ProceedKeeps == ASSUME ClientInv, NEW i \in Request, Proceed(i) PROVE ClientInv'
<1> USE Named DEF ClientInv, sessionVars, backendVars
<1>0. /\ TypeInv /\ View /\ Requests /\ wire \in Seq(Message) /\ stream \in [Request -> Stream]
      /\ stream[i] \in Stream /\ stream[i].stage = "ensuring" /\ opening # i
      /\ UNCHANGED <<sessionVars, called, current, backendVars>>
  BY DEF View, PageContext, Requests, TypeInv, Proceed, Continues
<1>1. NoneAdded
  BY <1>0, WireKept
<1>2. CASE current # i
  <2>1. stream' = [stream EXCEPT ![i].stage = "closed"] /\ UNCHANGED <<isRefactoring, viewVars>>
    BY <1>2 DEF Proceed
  <2>2. /\ stream' \in [Request -> Stream] /\ \A j \in Request \ {i} : stream'[j] = stream[j]
        /\ stream'[i].stage = "closed" /\ stream'[i].server = stream[i].server
        /\ stream'[i].kind = stream[i].kind /\ stream'[i].thread = stream[i].thread
        /\ stream'[i].run = stream[i].run /\ stream'[i].events = stream[i].events
    <3>1. /\ stream'[i] = [stream[i] EXCEPT !.stage = "closed"]
          /\ \A j \in Request \ {i} : stream'[j] = stream[j]
      BY <1>0, <2>1
    <3>2. [stream[i] EXCEPT !.stage = "closed"] \in Stream
      BY <1>0 DEF Stream
    <3>3. stream' \in [Request -> Stream]
      BY <1>0, <2>1, <3>1, <3>2
    <3> QED BY <1>0, <3>1, <3>3 DEF Stream
  <2>3. TypeInv'
    <3>1. /\ UNCHANGED <<threadId, socket, opening, called, current, isRefactoring, activeRunId, screen,
                       isApprovalModalOpen, deciding, refreshing, sessions, runs, wire, clicks>>
          /\ stream' \in [Request -> Stream]
      BY <1>0, <2>1, <2>2 DEF viewVars
    <3> HIDE DEF ClientInv
    <3> QED BY <1>0, <3>1 DEF TypeInv
  <2>4. \A j \in Request : RunContext(j)' /\ RequestContext(j)' /\ CurrentContext(j)' /\ Superseded(j)'
    <3>1. \A j \in Request : RunContext(j)'
      BY <1>0, <2>2 DEF Requests, RunContext, Begun
    <3>2. \A j \in Request : RequestContext(j)'
      BY <1>0, <2>2 DEF Requests, RequestContext
    <3>3. \A j \in Request : CurrentContext(j)' /\ Superseded(j)'
      BY <1>0, <1>2, <2>1, <2>2 DEF Requests, CurrentContext, AtWork, Unheard, Superseded, Twice, viewVars
    <3> QED BY <3>1, <3>2, <3>3
  <2>5. BusyWithRequest' /\ DecisionCarriedOut'
    BY <1>0, <1>2, <2>1, <2>2 DEF Requests, BusyWithRequest, DecisionCarriedOut
  <2>6. View'
    BY <1>0, <2>1 DEF View, ScreenOfOneRun, Begun, viewVars
  <2>7. ASSUME NEW r \in Request PROVE Once(r)'
    <3>1. Resuming(r)' => Resuming(r)
      BY <1>0, <1>2, <2>1, <2>2 DEF Resuming, AtWork, viewVars
    <3> QED BY <1>0, <1>1, <2>1, <3>1, OnceKept DEF viewVars
  <2> QED BY <1>0, <2>3, <2>4, <2>5, <2>6, <2>7 DEF Requests, View, PageContext
<1>3. CASE current = i
  <2>1. /\ stream' = [Aborted(stream) EXCEPT ![i].stage = "open", ![i].thread = threadId]
        /\ isRefactoring' = TRUE
        /\ IF stream[i].kind = "initial" THEN ResetRunScope ELSE UNCHANGED viewVars
    BY <1>3 DEF Proceed
  <2>2. threadId \in Session /\ threadId <= sessions
    BY <1>0, <1>3 DEF Requests, CurrentContext, View, TypeInv
  <2>3. /\ stream' \in [Request -> Stream]
        /\ \A j \in Request \ {i} :
              /\ stream'[j].stage = (IF stream[j].stage = "open" THEN "aborted" ELSE stream[j].stage)
              /\ stream'[j].thread = stream[j].thread
        /\ \A j \in Request :
              /\ stream'[j].server = stream[j].server /\ stream'[j].kind = stream[j].kind
              /\ stream'[j].run = stream[j].run /\ stream'[j].events = stream[j].events
        /\ stream'[i].stage = "open" /\ stream'[i].thread = threadId
    <3> DEFINE a == Aborted(stream)
    <3>1. a \in [Request -> Stream] /\ a[i] \in Stream
      BY <1>0, AbortedStreams
    <3>2. stream' = [a EXCEPT ![i].stage = "open", ![i].thread = threadId]
      BY <2>1
    <3>5. /\ a[i].server = stream[i].server /\ a[i].kind = stream[i].kind
          /\ a[i].run = stream[i].run /\ a[i].events = stream[i].events
      BY <1>0, AbortedStreams
    <3>6. \A j \in Request : /\ a[j].stage = (IF stream[j].stage = "open" THEN "aborted" ELSE stream[j].stage)
                             /\ a[j].server = stream[j].server /\ a[j].kind = stream[j].kind
                             /\ a[j].thread = stream[j].thread
                             /\ a[j].run = stream[j].run /\ a[j].events = stream[j].events
      BY <1>0, AbortedStreams
    <3> HIDE DEF a
    <3>3. /\ stream'[i] = [a[i] EXCEPT !.stage = "open", !.thread = threadId]
          /\ \A j \in Request \ {i} : stream'[j] = a[j]
      BY <3>1, <3>2
    <3>4. stream'[i] \in Stream
      BY <2>2, <3>1, <3>3 DEF Stream
    <3>7. stream' \in [Request -> Stream]
      BY <3>1, <3>2, <3>3, <3>4
    <3>8. /\ stream'[i].stage = "open" /\ stream'[i].thread = threadId /\ stream'[i].server = a[i].server
          /\ stream'[i].kind = a[i].kind /\ stream'[i].run = a[i].run /\ stream'[i].events = a[i].events
      BY <3>1, <3>3 DEF Stream
    <3>9. \A j \in Request \ {i} :
              /\ stream'[j].stage = (IF stream[j].stage = "open" THEN "aborted" ELSE stream[j].stage)
              /\ stream'[j].thread = stream[j].thread
              /\ stream'[j].server = stream[j].server /\ stream'[j].kind = stream[j].kind
              /\ stream'[j].run = stream[j].run /\ stream'[j].events = stream[j].events
      BY <3>3, <3>6
    <3> QED BY <3>5, <3>7, <3>8, <3>9
  <2>4. /\ activeRunId' \in {None, activeRunId} /\ (activeRunId' = None \/ UNCHANGED viewVars)
        /\ deciding' \in {None, deciding} /\ (activeRunId' = None \/ deciding' = deciding)
        /\ activeRunId' # activeRunId => stream[i].kind = "initial"
        /\ screen' \in {screen, EmptyScreen} /\ isApprovalModalOpen' \in {FALSE, isApprovalModalOpen}
        /\ (screen' = EmptyScreen /\ isApprovalModalOpen' = FALSE /\ deciding' = None) \/ UNCHANGED viewVars
        /\ refreshing' \in {None, refreshing}
    BY <2>1 DEF ResetRunScope, viewVars
  <2>5. TypeInv'
    <3>1. EmptyScreen \in [plan : Request \cup {None}, status : Request \cup {None},
                           approval : Request \cup {None}]
      BY DEF EmptyScreen
    <3>2. /\ screen' \in [plan : Request \cup {None}, status : Request \cup {None},
                           approval : Request \cup {None}]
          /\ activeRunId' \in Request \cup {None} /\ deciding' \in Request \cup {None}
          /\ refreshing' \in Request \cup {None} /\ isApprovalModalOpen' \in BOOLEAN
      BY <1>0, <2>4, <3>1 DEF TypeInv
    <3> QED BY <1>0, <2>1, <2>3, <3>2 DEF TypeInv
  <2>6. stream[i].server = "none" /\ stream[i].run = None /\ stream[i].events = <<>> /\ ~Begun(i)
    BY <1>0 DEF Requests, RequestContext, RunContext
  <2>7. \A j \in Request : RunContext(j)' /\ RequestContext(j)' /\ CurrentContext(j)' /\ Superseded(j)'
    <3>1. ASSUME NEW j \in Request PROVE RunContext(j)'
      <4>1. CASE j = i
        BY <1>0, <2>3, <2>6, <4>1 DEF RunContext, Begun
      <4>2. CASE j # i
        <5>1. RunContext(j) /\ stream[j] \in Stream
          BY <1>0 DEF Requests
        <5> QED BY <1>0, <2>3, <4>2, <5>1 DEF RunContext, Begun
      <4> QED BY <4>1, <4>2
    <3>2. ASSUME NEW j \in Request PROVE RequestContext(j)'
      <4>1. RequestContext(j)
        BY <1>0 DEF Requests
      <4> QED BY <1>0, <2>2, <2>3, <4>1 DEF RequestContext
    <3>3. ASSUME NEW j \in Request PROVE CurrentContext(j)'
      <4>1. CASE j = i
        <5>1. stream[i].kind = "resume" => activeRunId # None
          BY <1>0, <1>3 DEF Requests, CurrentContext, AtWork
        <5>2. stream'[i].kind = "resume" => activeRunId' # None
          BY <2>3, <2>4, <5>1
        <5>3. Unheard(i)'
          BY <2>3, <2>6 DEF Unheard
        <5> QED BY <1>0, <2>1, <2>3, <4>1, <5>2, <5>3 DEF CurrentContext
      <4> QED BY <1>0, <1>3, <4>1 DEF CurrentContext
    <3>4. ASSUME NEW j \in Request PROVE Superseded(j)'
      BY <1>0, <1>3, <2>3 DEF Superseded
    <3> QED BY <3>1, <3>2, <3>3, <3>4
  <2>8. BusyWithRequest'
    BY <1>0, <1>3, <2>3 DEF BusyWithRequest
  <2>9. DecisionCarriedOut'
    <3>1. ASSUME NEW j \in Request, stream'[j].kind = "resume", stream'[j].stage = "aborted"
          PROVE  stream'[j].thread # threadId \/ Twice
      <4>1. j # i
        BY <2>3, <3>1
      <4>2. stream'[j].thread = stream[j].thread /\ stream[j].kind = "resume"
            /\ stream[j].stage \in {"open", "aborted"}
        BY <2>3, <3>1, <4>1
      <4>3. CASE stream[j].stage = "open"
        BY <1>0, <1>3, <4>1, <4>2, <4>3 DEF Requests, Superseded
      <4>4. CASE stream[j].stage = "aborted"
        BY <1>0, <4>2, <4>4 DEF Requests, DecisionCarriedOut, Twice
      <4> QED BY <4>2, <4>3, <4>4
    <3> QED BY <1>0, <3>1 DEF DecisionCarriedOut, Twice
  <2>10. View'
    <3>1. CASE UNCHANGED viewVars
      BY <1>0, <2>2, <3>1 DEF View, ScreenOfOneRun, Begun, viewVars
    <3>2. CASE activeRunId' = None /\ screen' = EmptyScreen /\ isApprovalModalOpen' = FALSE /\ deciding' = None
      BY <1>0, <2>2, <3>2 DEF View, ScreenOfOneRun, Begun, EmptyScreen
    <3> QED BY <2>4, <3>1, <3>2
  <2>11. ASSUME NEW r \in Request PROVE Once(r)'
    <3>1. Resuming(r)' => Resuming(r)
      BY <1>0, <1>3, <2>3, <2>4 DEF Resuming, AtWork
    <3>2. deciding' = r => deciding = r
      BY <2>4
    <3> QED BY <1>0, <1>1, <3>1, <3>2, OnceKept
  <2> QED BY <1>0, <2>5, <2>7, <2>8, <2>9, <2>10, <2>11 DEF Requests, View, PageContext
<1> QED BY <1>2, <1>3
-----------------------------------------------------------------------------
\* The reader.  What it does to its request, once it is over or not.
ReadChanges(i, stage, events) ==
    /\ UNCHANGED <<sessionVars, called, current, backendVars>>
    /\ stream' \in [Request -> Stream] /\ \A j \in Request \ {i} : stream'[j] = stream[j]
    /\ stream'[i].stage = stage /\ stream'[i].server = stream[i].server
    /\ stream'[i].kind = stream[i].kind /\ stream'[i].thread = stream[i].thread
    /\ stream'[i].run = stream[i].run /\ stream'[i].events = events

LEMMA StreamRead ==
    ASSUME stream \in [Request -> Stream], NEW i \in Request, NEW e \in Seq(Event),
           UNCHANGED <<sessionVars, called, current, backendVars>>
    PROVE  /\ stream' = [stream EXCEPT ![i].stage = "closed"] =>
                ReadChanges(i, "closed", stream[i].events)
           /\ stream' = [stream EXCEPT ![i].stage = "closed", ![i].events = e] =>
                ReadChanges(i, "closed", e)
           /\ stream' = [stream EXCEPT ![i].events = e] =>
                ReadChanges(i, stream[i].stage, e)
<1> DEFINE s == stream[i]
<1>0. s \in Stream
  OBVIOUS
<1>1. ASSUME stream' = [stream EXCEPT ![i].stage = "closed"]
      PROVE  ReadChanges(i, "closed", s.events)
  <2>1. stream'[i] = [s EXCEPT !.stage = "closed"] /\ \A j \in Request \ {i} : stream'[j] = stream[j]
    BY <1>1
  <2>2. stream'[i] \in Stream
    BY <1>0, <2>1 DEF Stream
  <2>3. stream' \in [Request -> Stream]
    BY <1>1, <2>1, <2>2
  <2> QED BY <1>0, <2>1, <2>3 DEF ReadChanges, Stream
<1>2. ASSUME stream' = [stream EXCEPT ![i].stage = "closed", ![i].events = e]
      PROVE  ReadChanges(i, "closed", e)
  <2>1. stream'[i] = [s EXCEPT !.stage = "closed", !.events = e] /\ \A j \in Request \ {i} : stream'[j] = stream[j]
    BY <1>2
  <2>2. stream'[i] \in Stream
    BY <1>0, <2>1 DEF Stream, Event
  <2>3. stream' \in [Request -> Stream]
    BY <1>2, <2>1, <2>2
  <2> QED BY <1>0, <2>1, <2>3 DEF ReadChanges, Stream
<1>3. ASSUME stream' = [stream EXCEPT ![i].events = e]
      PROVE  ReadChanges(i, s.stage, e)
  <2>1. stream'[i] = [s EXCEPT !.events = e] /\ \A j \in Request \ {i} : stream'[j] = stream[j]
    BY <1>3
  <2>2. stream'[i] \in Stream
    BY <1>0, <2>1 DEF Stream, Event
  <2>3. stream' \in [Request -> Stream]
    BY <1>3, <2>1, <2>2
  <2> QED BY <1>0, <2>1, <2>3 DEF ReadChanges, Stream
<1> QED BY <1>1, <1>2, <1>3

\* A request that is closed: the page shows what it has shown.
LEMMA ClosedKeeps ==
    ASSUME ClientInv, NEW i \in Request, NEW e, ReadChanges(i, "closed", e),
           stream[i].stage = "open",
           \A k \in DOMAIN e : k \in DOMAIN stream[i].events /\ e[k] = stream[i].events[k],
           e = stream[i].events \/ e = <<>>,
           \/ current # i /\ isRefactoring' = isRefactoring
           \/ current = i /\ isRefactoring' = FALSE,
           refreshing' \in Request \cup {None},
           UNCHANGED <<activeRunId, screen, isApprovalModalOpen, deciding>>
    PROVE  ClientInv'
<1> USE Named DEF ClientInv, ReadChanges, sessionVars, backendVars
<1>0. /\ TypeInv /\ View /\ Requests /\ wire \in Seq(Message) /\ isRefactoring' \in BOOLEAN
      /\ isRefactoring' => isRefactoring /\ current # i
  <2>1. TypeInv /\ View /\ Requests /\ wire \in Seq(Message) /\ isRefactoring \in BOOLEAN
    BY DEF View, PageContext, Requests, TypeInv
  <2> HIDE DEF ClientInv, ReadChanges
  <2>2. isRefactoring' \in BOOLEAN
    BY <2>1, Zenon
  <2>3. isRefactoring' => isRefactoring /\ current # i
    BY <2>1
  <2> QED BY <2>1, <2>2, <2>3
<1>1. TypeInv'
  <2>1. /\ UNCHANGED <<threadId, socket, opening, called, current, activeRunId, screen,
                       isApprovalModalOpen, deciding, sessions, runs, wire, clicks>>
        /\ stream' \in [Request -> Stream] /\ refreshing' \in Request \cup {None}
    OBVIOUS
  <2> HIDE DEF ClientInv, ReadChanges
  <2> QED BY <1>0, <2>1 DEF TypeInv
<1>2. \A j \in Request : RunContext(j)' /\ RequestContext(j)' /\ CurrentContext(j)' /\ Superseded(j)'
  <2>1. ASSUME NEW j \in Request PROVE RunContext(j)'
    <3>1. RunContext(j)
      OBVIOUS
    <3>2. CASE j # i
      BY <3>1, <3>2 DEF RunContext, Begun
    <3>3. CASE j = i
      <4>1. stream[i].events = <<>> => e = <<>>
        OBVIOUS
      <4> QED BY <3>1, <3>3, <4>1 DEF RunContext, Begun
    <3> QED BY <3>2, <3>3
  <2>2. ASSUME NEW j \in Request PROVE RequestContext(j)'
    <3>1. RequestContext(j)
      OBVIOUS
    <3> QED BY <3>1 DEF RequestContext
  <2>3. ASSUME NEW j \in Request PROVE CurrentContext(j)' /\ Superseded(j)'
    <3>1. CurrentContext(j) /\ Superseded(j)
      OBVIOUS
    <3>2. CASE j = i
      BY <3>2 DEF CurrentContext, AtWork, Superseded
    <3>3. CASE j # i
      <4>1. current = j => isRefactoring' = isRefactoring
        BY <3>3
      <4> QED BY <3>1, <3>3, <4>1 DEF CurrentContext, AtWork, Unheard, Superseded, Twice
    <3> QED BY <3>2, <3>3
  <2> QED BY <2>1, <2>2, <2>3
<1>3. BusyWithRequest' /\ DecisionCarriedOut'
  <2>1. BusyWithRequest /\ DecisionCarriedOut
    OBVIOUS
  <2>2. BusyWithRequest'
    <3>1. current \in Request \cup {None}
      BY <1>0 DEF TypeInv
    <3> QED BY <1>0, <2>1, <3>1 DEF BusyWithRequest
  <2>3. DecisionCarriedOut'
    BY <1>0, <2>1 DEF DecisionCarriedOut
  <2> QED BY <2>2, <2>3
<1>4. View'
  BY <1>0 DEF View, ScreenOfOneRun, Begun
<1>5. ASSUME NEW r \in Request PROVE Once(r)'
  <2>1. Resuming(r)' => Resuming(r)
    BY DEF Resuming, AtWork
  <2>2. NoneAdded
    BY <1>0, WireKept
  <2> QED BY <2>1, <2>2, OnceKept
<1> QED BY <1>0, <1>1, <1>2, <1>3, <1>4, <1>5 DEF Requests, View, PageContext

LEMMA SettleKeeps ==
    ASSUME ClientInv, NEW i \in Request, stream[i].stage = "open", current = i, Settle(i),
           UNCHANGED <<sessionVars, called, current, activeRunId, screen, isApprovalModalOpen,
                       deciding, backendVars>>
    PROVE  ClientInv'
<1>1. stream \in [Request -> Stream] /\ <<>> \in Seq(Event)
  BY DEF ClientInv, TypeInv
<1>2. ReadChanges(i, "closed", <<>>)
  BY <1>1, StreamRead DEF Settle
<1>3. refreshing' \in Request \cup {None} /\ isRefactoring' = FALSE
  BY DEF Settle, ClientInv, TypeInv
<1>4. \A k \in DOMAIN <<>> : k \in DOMAIN stream[i].events /\ <<>>[k] = stream[i].events[k]
  OBVIOUS
<1> QED BY <1>2, <1>3, <1>4, ClosedKeeps

LEMMA ConnectionBreaksKeeps ==
    ASSUME ClientInv, NEW i \in Request, ConnectionBreaks(i)
    PROVE  ClientInv'
BY SettleKeeps DEF ConnectionBreaks, IsCurrentRequest

LEMMA TailRead ==
    ASSUME NEW e \in Seq(Event), e # <<>>
    PROVE  /\ Tail(e) \in Seq(Event) /\ Head(e) \in Event /\ Head(e) = e[1] /\ 1 \in DOMAIN e
           /\ \A k \in DOMAIN Tail(e) : k + 1 \in DOMAIN e /\ Tail(e)[k] = e[k + 1]
OBVIOUS

LEMMA ReadKeeps == ASSUME ClientInv, NEW i \in Request, Read(i) PROVE ClientInv'
<1>9. PICK run : run = stream[i].run
  OBVIOUS
<1>8. PICK event : event = Head(stream[i].events)
  OBVIOUS
<1> USE Named DEF ClientInv
<1>0. /\ TypeInv /\ View /\ Requests /\ wire \in Seq(Message) /\ stream \in [Request -> Stream]
      /\ stream[i] \in Stream /\ stream[i].stage = "open" /\ stream[i].events # <<>>
      /\ stream[i].events \in Seq(Event) /\ refreshing \in Request \cup {None}
      /\ UNCHANGED <<sessionVars, called, current, backendVars>>
  <2>1. stream[i].stage = "open" /\ stream[i].events # <<>> /\ UNCHANGED <<sessionVars, called, current, backendVars>>
    BY DEF Read
  <2>2. TypeInv /\ View /\ Requests
    BY DEF View, PageContext, Requests
  <2>3. stream[i] \in Stream
    BY DEF TypeInv
  <2> QED BY <2>1, <2>2, <2>3 DEF TypeInv, Stream, Event
<1>1. event \in Event /\ Tail(stream[i].events) \in Seq(Event) /\ stream[i].events[1] = event
      /\ 1 \in DOMAIN stream[i].events
  BY <1>0, <1>8, TailRead
<1>2. CASE ~IsCurrentRequest(i)
  <2>1. stream' = [stream EXCEPT ![i].stage = "closed"] /\ UNCHANGED <<isRefactoring, viewVars>>
    BY <1>2 DEF Read
  <2>2. current # i
    BY <1>0, <1>2 DEF Requests, CurrentContext, IsCurrentRequest
  <2>3. ReadChanges(i, "closed", stream[i].events)
    BY <1>0, <2>1, StreamRead
  <2>4. /\ UNCHANGED <<activeRunId, screen, isApprovalModalOpen, deciding>>
        /\ refreshing' \in Request \cup {None} /\ isRefactoring' = isRefactoring
    BY <1>0, <2>1 DEF viewVars
  <2> HIDE DEF ClientInv
  <2> QED BY <1>0, <2>2, <2>3, <2>4, ClosedKeeps
<1>3. CASE IsCurrentRequest(i) /\ event \in {"refused", "done"}
  <2>1. /\ Settle(i) /\ current = i
        /\ UNCHANGED <<activeRunId, screen, isApprovalModalOpen, deciding>>
    BY <1>3, <1>8 DEF Read, IsCurrentRequest
  <2> HIDE DEF ClientInv
  <2> QED BY <1>0, <2>1, SettleKeeps
<1>4. CASE IsCurrentRequest(i) /\ event \notin {"refused", "done"}
  <2> DEFINE e == Tail(stream[i].events)
  <2>1. /\ stream' = [stream EXCEPT ![i].events = e] /\ isRefactoring' = isRefactoring
        /\ current = i /\ stream[i].thread = threadId
    <3>1. stream' = [stream EXCEPT ![i].events = Tail(@)] /\ isRefactoring' = isRefactoring
      BY <1>4, <1>8 DEF Read
    <3> QED BY <1>0, <1>4, <3>1 DEF IsCurrentRequest
  <2>2. ReadChanges(i, "open", e)
    BY <1>0, <1>1, <2>1, StreamRead
  <2>3. /\ run \in Request /\ Begun(run) /\ runs[run].thread = threadId /\ threadId # None
    <3>1. run # None
      BY <1>0, <1>1, <1>4, <1>9 DEF Requests, RunContext
    <3>2. run \in Request \cup {None}
      BY <1>0, <1>9 DEF Stream
    <3>3. stream[i].thread # None
      BY <1>0 DEF Requests, RequestContext
    <3> QED BY <1>0, <1>9, <2>1, <3>1, <3>2, <3>3 DEF Requests, RunContext
  <2>4. \/ UNCHANGED viewVars /\ activeRunId # None
        \/ /\ activeRunId \in {None, run} /\ activeRunId' = run /\ UNCHANGED <<deciding, refreshing>>
           /\ screen' = Shown(event, run)
           /\ isApprovalModalOpen' = (isApprovalModalOpen \/ event = "approval.waiting")
    <3>1. CASE OfAnotherRun(run)
      BY <1>4, <1>8, <1>9, <3>1 DEF Read, OfAnotherRun
    <3>2. CASE ~OfAnotherRun(run)
      <4>1. /\ activeRunId' = IF event = "run.started" THEN run ELSE activeRunId
            /\ screen' = Shown(event, run) /\ UNCHANGED <<deciding, refreshing>>
            /\ isApprovalModalOpen' = (isApprovalModalOpen \/ event = "approval.waiting")
        BY <1>4, <1>8, <1>9, <3>2 DEF Read
      <4>2. activeRunId = None => event = "run.started"
        BY <1>0, <1>4, <1>8, <2>1 DEF Requests, CurrentContext, Unheard
      <4> QED BY <3>2, <4>1, <4>2 DEF OfAnotherRun
    <3> QED BY <3>1, <3>2
  <2>5. View' /\ activeRunId' # None /\ (activeRunId # None => activeRunId' = activeRunId)
        /\ screen' \in [plan : Request \cup {None}, status : Request \cup {None},
                        approval : Request \cup {None}]
        /\ activeRunId' \in Request /\ isApprovalModalOpen' \in BOOLEAN
    <3>1. CASE UNCHANGED viewVars /\ activeRunId # None
      BY <1>0, <2>1, <3>1 DEF View, ScreenOfOneRun, Begun, viewVars, sessionVars, backendVars, TypeInv
    <3>2. CASE /\ activeRunId \in {None, run} /\ activeRunId' = run /\ UNCHANGED <<deciding, refreshing>>
               /\ screen' = Shown(event, run)
               /\ isApprovalModalOpen' = (isApprovalModalOpen \/ event = "approval.waiting")
      <4>1. /\ screen.plan \in {None, run} /\ screen.status \in {None, run} /\ screen.approval \in {None, run}
            /\ screen \in [plan : Request \cup {None}, status : Request \cup {None},
                           approval : Request \cup {None}]
            /\ deciding \in {None, run}
        BY <1>0, <3>2 DEF View, ScreenOfOneRun, TypeInv
      <4>2. /\ screen'.plan \in {None, run} /\ screen'.status \in {None, run} /\ screen'.approval \in {None, run}
            /\ screen' \in [plan : Request \cup {None}, status : Request \cup {None},
                            approval : Request \cup {None}]
            /\ screen.approval # None \/ event = "approval.waiting" => screen'.approval # None
        BY <1>0, <2>3, <3>2, <4>1 DEF Shown
      <4>3. ScreenOfOneRun'
        BY <1>0, <2>3, <3>2, <4>1, <4>2 DEF ScreenOfOneRun, sessionVars, backendVars
      <4>4. isApprovalModalOpen' => screen'.approval # None
        BY <1>0, <3>2, <4>2 DEF View
      <4> QED BY <1>0, <2>1, <2>3, <3>2, <4>2, <4>3, <4>4 DEF View, Begun, sessionVars, backendVars
    <3> QED BY <2>4, <3>1, <3>2
  <2>6. TypeInv'
    <3>1. /\ UNCHANGED <<threadId, socket, opening, called, current, isRefactoring,
                         deciding, refreshing, sessions, runs, wire, clicks>>
          /\ stream' \in [Request -> Stream]
      BY <1>0, <2>1, <2>2, <2>4 DEF ReadChanges, viewVars, sessionVars, backendVars
    <3> HIDE DEF ClientInv
    <3> QED BY <1>0, <2>5, <3>1 DEF TypeInv
  <2>7. \A k \in DOMAIN e : k + 1 \in DOMAIN stream[i].events /\ e[k] = stream[i].events[k + 1]
    BY <1>0, TailRead
  <2> HIDE DEF e
  <2>8. \A j \in Request : RunContext(j)' /\ RequestContext(j)' /\ CurrentContext(j)' /\ Superseded(j)'
    <3>1. ASSUME NEW j \in Request PROVE RunContext(j)'
      <4>1. RunContext(j)
        OBVIOUS
      <4>2. CASE j # i
        BY <2>2, <4>1, <4>2 DEF ReadChanges, RunContext, Begun, backendVars
      <4>3. CASE j = i
        <5>1. stream[i].run # None /\ stream[i].server # "none"
          BY <1>0, <1>9, <2>3 DEF Requests, RunContext
        <5> QED BY <2>2, <4>1, <4>3, <5>1 DEF ReadChanges, RunContext, Begun, backendVars
      <4> QED BY <4>2, <4>3
    <3>2. ASSUME NEW j \in Request PROVE RequestContext(j)'
      <4>1. RequestContext(j)
        OBVIOUS
      <4> QED BY <1>0, <2>2, <4>1 DEF ReadChanges, RequestContext, sessionVars, backendVars
    <3>3. ASSUME NEW j \in Request PROVE CurrentContext(j)' /\ Superseded(j)'
      <4>1. CurrentContext(j) /\ Superseded(j)
        OBVIOUS
      <4> QED BY <1>0, <2>1, <2>2, <2>5, <4>1 DEF ReadChanges, CurrentContext, Superseded, AtWork, Twice,
             sessionVars, backendVars
    <3> QED BY <3>1, <3>2, <3>3
  <2>9. BusyWithRequest' /\ DecisionCarriedOut'
    <3>1. BusyWithRequest'
      BY <1>0, <2>1, <2>2 DEF ReadChanges, BusyWithRequest
    <3>2. DecisionCarriedOut'
      <4>1. DecisionCarriedOut
        OBVIOUS
      <4> QED BY <1>0, <2>2, <4>1 DEF ReadChanges, DecisionCarriedOut, sessionVars, backendVars
    <3> QED BY <3>1, <3>2
  <2>10. ASSUME NEW r \in Request PROVE Once(r)'
    <3>1. Resuming(r)' => Resuming(r)
      <4>1. ASSUME NEW j \in Request, activeRunId' = r, current' = j, stream'[j].kind = "resume",
                   stream'[j].stage \in {"ensuring", "open"}
            PROVE  activeRunId = r /\ current = j /\ stream[j].kind = "resume" /\ AtWork(j)
        <5>1. j = i /\ stream[j].kind = "resume"
          BY <2>1, <2>2, <4>1 DEF ReadChanges
        <5>2. activeRunId # None
          BY <1>0, <2>1, <5>1 DEF CurrentContext, AtWork
        <5> QED BY <1>0, <2>1, <2>5, <4>1, <5>1, <5>2 DEF AtWork
      <4> QED BY <4>1 DEF Resuming, AtWork
    <3>2. NoneAdded
      BY <1>0, WireKept DEF backendVars
    <3>3. deciding' = r => deciding = r
      BY <2>4 DEF viewVars
    <3> QED BY <1>0, <3>1, <3>2, <3>3, OnceKept DEF backendVars
  <2>11. opening' # None => threadId' = None
    BY <1>0 DEF Requests, sessionVars
  <2> QED BY <2>5, <2>6, <2>8, <2>9, <2>10, <2>11 DEF View, PageContext
<1> QED BY <1>2, <1>3, <1>4
-----------------------------------------------------------------------------
LEMMA RestingKeeps == ASSUME ClientInv, UNCHANGED cvars PROVE ClientInv'
<1> USE DEF cvars, sessionVars, streamVars, viewVars, backendVars
<1>1. TypeInv' /\ PageContext' /\ ScreenOfOneRun' /\ BusyWithRequest' /\ DecisionCarriedOut'
  BY DEF ClientInv, TypeInv, PageContext, ScreenOfOneRun, BusyWithRequest, DecisionCarriedOut, Begun
<1>2. \A j \in Request : RunContext(j)' /\ RequestContext(j)' /\ CurrentContext(j)'
  BY DEF ClientInv, RunContext, Begun, RequestContext, CurrentContext, AtWork, Unheard
<1>3. \A r \in Request : Once(r)' /\ Superseded(r)'
  BY DEF ClientInv, Once, Confirms, Resuming, AtWork, Superseded, Twice
<1> QED BY <1>1, <1>2, <1>3 DEF ClientInv

LEMMA NextKeeps == ASSUME ClientInv, [ClientNext]_cvars PROVE ClientInv'
<1>1. CASE PageTask
  BY <1>1, SessionCreatedKeeps, SessionFailsKeeps, SocketClosesKeeps, ReceiveKeeps, ClickKeeps,
     DecisionAnsweredKeeps, StatusReadKeeps, AskKeeps, NewSessionKeeps, ReadKeeps,
     ConnectionBreaksKeeps DEF PageTask
<1>2. ASSUME NEW i \in Request, Proceed(i) \/ TellPlan(i) \/ Backend(i) PROVE ClientInv'
  BY <1>2, ProceedKeeps, BackendEffect, BackendKeeps
<1>3. CASE UNCHANGED cvars
  BY <1>3, RestingKeeps
<1> QED BY <1>1, <1>2, <1>3 DEF ClientNext, Resting

\* Whatever the order of clicks, answers, events and messages, the page keeps
\* ClientInv: what it knows of its requests and of the run it follows is true of
\* them, and a decision sent once is confirmed at most once.
\* useBackendSession.ts, useRefactorStream.ts, useApprovalFlow.ts, App.vue.
THEOREM ClientInvariance == ClientSpec => []ClientInv
<1>1. ClientInit => ClientInv
  BY ClientInitInv
<1>2. ClientInv /\ [ClientNext]_cvars => ClientInv'
  BY NextKeeps
<1> QED BY <1>1, <1>2, PTL DEF ClientSpec

\* The state of the page and of its requests is of its types, and no message is
\* on its way to a closed WebSocket.
THEOREM ClientTypeCorrect == ClientSpec => []ClientTypeOK
<1>1. ClientInv => ClientTypeOK
  <2>1. ASSUME TypeInv PROVE
          stream \in [Request -> [stage : {"idle", "ensuring", "open", "closed", "aborted"},
                               server : {"none", "serving", "ended"}, kind : Kind,
                               thread : Session \cup {None}, run : Request \cup {None},
                               events : {stream[i].events : i \in Request}]]
    BY <2>1 DEF TypeInv, Stream
  <2> QED BY <2>1 DEF ClientInv, TypeInv, PageContext, ClientTypeOK
<1> QED BY <1>1, ClientInvariance, PTL

\* What the page shows is all of the run it follows, a run of the session it is
\* bound to: nothing of a former session comes back, and no two runs share the
\* screen (matchesRun and isCurrentRequest of useRefactorStream.ts, the filter of
\* useBackendSession.ts, resetRunScopeState of App.vue).  It does not say that
\* the page follows the latest run, see AnswerShown.
THEOREM ShownRunIsFollowed == ClientSpec => []ScreenOfOneRun
<1>1. ClientInv => ScreenOfOneRun
  BY DEF ClientInv
<1> QED BY <1>1, ClientInvariance, PTL

\* isRefactoring is set only while the current request is under way (the
\* finally of sendStreamRequest and invalidate, useRefactorStream.ts).
THEOREM BusyOnlyWithRequest == ClientSpec => []BusyWithRequest
<1>1. ClientInv => BusyWithRequest
  BY DEF ClientInv
<1> QED BY <1>1, ClientInvariance, PTL

\* A decision that was sent once is carried out: the page aborts the request
\* that resumes the run only for a new session (useApprovalFlow.ts, the abort of
\* sendStreamRequest).
THEOREM OneDecisionCarriedOut == ClientSpec => []DecisionCarriedOut
<1>1. ClientInv => DecisionCarriedOut
  BY DEF ClientInv
<1> QED BY <1>1, ClientInvariance, PTL
=============================================================================
