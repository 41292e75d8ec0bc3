------------------------ MODULE MCReferenceAllocator ------------------------
(* TLC instance of ReferenceAllocator: one connection more than there are  *)
(* references, so that the counter wraps and the set fills.                *)
EXTENDS ReferenceAllocator, TLC

Symmetry == Permutations(Conns)
=============================================================================
