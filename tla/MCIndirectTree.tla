--------------------------- MODULE MCIndirectTree ---------------------------
(* A tree with one direct pointer and two pointers in an indirect block.   *)
EXTENDS IndirectTree, TLC

CONSTANTS p1, p2

Symmetric == Permutations(Process)

=============================================================================
