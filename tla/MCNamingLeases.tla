---------------------------- MODULE MCNamingLeases ----------------------------
(* Small instances of NamingLeases for TLC. *)
EXTENDS NamingLeases, TLC

CONSTANTS b1, b2, w1, w2, n1, n2, m1

\* Two processes with the profile of one brain; n1 and n2 are the same name in
\* another spelling.
OneBrain == w1 :> b1 @@ w2 :> b1
Spelling == n1 :> n1 @@ n2 :> n1 @@ m1 :> m1

Symmetry == Permutations(Lease) \cup Permutations(Worker)
=============================================================================
