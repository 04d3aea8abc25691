--------------------------- MODULE MCStreamService ---------------------------
(* Instances of StreamService for TLC. *)
EXTENDS StreamService
=============================================================================
