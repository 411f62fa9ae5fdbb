--------------------------- MODULE MCGraphRegistry ---------------------------
(* Instances of GraphRegistry for TLC. *)
EXTENDS GraphRegistry, TLC

CONSTANTS c1, c2, n1, n2, d1, d2, d3, i1, t1, t2, good, bad

MCSymmetry == Permutations(Descriptors) \cup Permutations(Contents)
                \cup Permutations(Conns)
=============================================================================
