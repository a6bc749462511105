---------------------------- MODULE MCEventLedger ----------------------------
(* Small instances of EventLedger for TLC. *)
EXTENDS EventLedger, TLC

\* Engines and event IDs are interchangeable.
LedgerSymmetry == Permutations(Engine) \cup Permutations(EventId)
=============================================================================
