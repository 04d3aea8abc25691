--------------------------- MODULE SessionRegistry ---------------------------
(***************************************************************************)
(* The record of one session in the SessionRegistry                        *)
(* (backend/session_registry.py): who holds the run lease, which approval  *)
(* is pending and how it was decided.  Every method holds the registry's   *)
(* lock, so it is one step.  Tokens are left out: a call with a wrong one   *)
(* raises before it changes anything.                                      *)
(*                                                                         *)
(* A run is named by the request that began it, an approval by the request *)
(* whose stream asked for it: both identifiers are drawn at random there.  *)
(***************************************************************************)
EXTENDS Naturals

CONSTANTS Requests,     \* the requests of the session, in the order they come
          None          \* no run, no approval, no request

ASSUME RequestsAssumption == Requests \subseteq Nat /\ None \notin Requests

VARIABLE session        \* the record, or None once it is pruned

Verdicts == {"approved", "rejected"}
SessionRecord == [active_run : Requests \cup {None},
                  approval : Requests \cup {None},
                  decision : Verdicts \cup {"none"}]

\* None is no record of a session.
ASSUME NoSession == None \notin SessionRecord

Unleased == [active_run |-> None, approval |-> None, decision |-> "none"]

SessionInit == session = Unleased

Open == session # None
LeasedTo(run) == Open /\ session.active_run = run
Undecided == session.approval # None /\ session.decision = "none"
Decided == session.approval # None /\ session.decision # "none"

\* Mutant of BeginRun: the lease is taken over.
TakeOverRun(run) ==
    /\ Open /\ session.approval # run
    /\ session' = [session EXCEPT !.active_run = run]

BeginRun(run) ==
    /\ LeasedTo(None)
    /\ session' = [session EXCEPT !.active_run = run]

\* Mutant of FinishOwnedRun: the approval outlives the lease.
FinishKeepingApproval(run) ==
    session' = IF LeasedTo(run) THEN [session EXCEPT !.active_run = None] ELSE session

FinishOwnedRun(run) == session' = IF LeasedTo(run) THEN Unleased ELSE session

IsResumableApproval(run, approval) ==
    /\ LeasedTo(run) /\ session.approval # None
    /\ session.approval = approval /\ session.decision = "none"

\* An approval that is pending is asked for again; fresh names a new one.
BeginApproval(run, fresh) ==
    /\ LeasedTo(run)
    /\ session' = IF Undecided THEN session
                  ELSE [session EXCEPT !.approval = fresh, !.decision = "none"]

\* A decision that is repeated changes nothing, another one is refused.
Decide(approval, verdict) ==
    /\ Open /\ session.approval = approval /\ session.decision = "none"
    /\ session' = [session EXCEPT !.decision = verdict]

ConsumeDecision(run, verdict) ==
    /\ Open /\ Decided
    /\ session.active_run = run /\ session.decision = verdict
    /\ session' = [session EXCEPT !.approval = None, !.decision = "none"]

\* _prune_expired: four hours without a call that requires the session.
ExpireSession == Open /\ session' = None
-----------------------------------------------------------------------------
\* A decision is about a pending approval, and an approval about the run that
\* holds the lease.
SessionTypeOK ==
    session # None =>
        /\ session \in SessionRecord
        /\ session.decision # "none" => session.approval # None
        /\ session.approval # None => session.active_run # None
=============================================================================
