------------------------------- MODULE MCLive -------------------------------
(* Small instances of Live for TLC. *)
EXTENDS Live, TLC

CONSTANTS u1, p1

OneOwner == [p \in {p1} |-> u1]

Symmetry == Permutations(Streams) \cup Permutations(Requests)
=============================================================================
