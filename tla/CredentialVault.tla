--------------------------- MODULE CredentialVault ---------------------------
(***************************************************************************)
(* The keys of the models, held in memory while they are used              *)
(* (backend/agent/credentials.py).  Each request that brings a key has an   *)
(* entry of its own, named by the request.                                 *)
(***************************************************************************)
EXTENDS SessionRegistry     \* its Requests

VARIABLE vault          \* the requests whose entry is there

VaultInit == vault = {}
Store(request) == vault' = vault \cup {request}

\* Mutant of Revoke: the entry waits for its time-out.
RevokeLazily(request) == UNCHANGED vault

Revoke(request) == vault' = vault \ {request}

\* _purge_expired: an hour after it was stored.
PurgeCredential(request) == request \in vault /\ vault' = vault \ {request}
=============================================================================
