-------------------------- MODULE MCWorkbenchClient --------------------------
(* Instances of WorkbenchClient for TLC. *)
EXTENDS WorkbenchClient
=============================================================================
