----------------------------- MODULE MCCharDev -----------------------------
(***************************************************************************)
(* TLC instance of CharDev: the second of two devices may fail while the   *)
(* first one is live.                                                      *)
(***************************************************************************)
EXTENDS CharDev, TLC
CONSTANTS p1, p2

Symmetric == Permutations(Process)
=============================================================================
