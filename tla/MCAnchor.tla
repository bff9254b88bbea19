------------------------------ MODULE MCAnchor ------------------------------
(* Two runs at a time, four commands in all, two events of others.         *)
EXTENDS Anchor, TLC
CONSTANTS p1, p2
Symmetry == Permutations(Procs)
=============================================================================
