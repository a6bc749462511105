-------------------------- MODULE MCBridgeDelivery --------------------------
(* Small instance of BridgeDelivery for TLC. *)
EXTENDS BridgeDelivery, TLC

\* Instances and connections are interchangeable.
Symmetry == Permutations(Instance) \cup Permutations(Conn)
=============================================================================
