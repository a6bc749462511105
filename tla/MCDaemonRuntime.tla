--------------------------- MODULE MCDaemonRuntime ---------------------------
(* Small instances of DaemonRuntime for TLC. *)
EXTENDS DaemonRuntime
=============================================================================
