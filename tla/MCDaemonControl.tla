--------------------------- MODULE MCDaemonControl ---------------------------
(* Small instances of DaemonControl for TLC. *)
EXTENDS DaemonControl, TLC

\* Launches, commands and directories are interchangeable.
ControlSymmetry == Permutations(Launch) \cup Permutations(Cli) \cup Permutations(Dir)
=============================================================================
