--------------------------- MODULE MCEnergyWorkers ---------------------------
(* Small instances of EnergyWorkers for TLC. *)
EXTENDS EnergyWorkers, TLC

\* Leases, workers and choices are interchangeable.
Symmetry == Permutations(Lease) \cup Permutations(Worker) \cup Permutations(Choice)
=============================================================================
