-------------------------- MODULE MCBootstrapCapture --------------------------
(* A small instance of BootstrapCapture for TLC. *)
EXTENDS BootstrapCapture
=============================================================================
