------------------------------ MODULE MCBakery ------------------------------
(***************************************************************************)
(* TLC instance of Bakery: two threads that enter twice, so that one comes *)
(* back while the other still looks at its old number.  Threads are        *)
(* compared by number in the code (tid > i): there is no symmetry to use.  *)
(***************************************************************************)
EXTENDS BakeryProofs
=============================================================================
