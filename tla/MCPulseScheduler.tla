-------------------------- MODULE MCPulseScheduler --------------------------
(* A small instance of PulseScheduler for TLC. *)
EXTENDS PulseScheduler
=============================================================================
