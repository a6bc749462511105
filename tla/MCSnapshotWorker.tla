-------------------------- MODULE MCSnapshotWorker --------------------------
(* Small instances of SnapshotWorker for TLC. *)
EXTENDS SnapshotWorker
=============================================================================
