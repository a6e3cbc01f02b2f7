------------------------------ MODULE MCNamei ------------------------------
(***************************************************************************)
(* TLC instance of Namei: the root and three more inodes, two names to a   *)
(* directory.  A directory may have two subdirectories at most (LinkMax),  *)
(* and a count that is decremented below 0 becomes LinkSpace - 1.          *)
(***************************************************************************)
EXTENDS Mount, TLC
CONSTANTS x, y

Symmetric == Permutations(Name)
=============================================================================
