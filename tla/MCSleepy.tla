------------------------------ MODULE MCSleepy ------------------------------
(***************************************************************************)
(* TLC instances of Sleepy: two writers and a reader share three calls, so *)
(* that a read, a timeout and a second write meet in every order.  A       *)
(* second is two jiffies.                                                  *)
(***************************************************************************)
EXTENDS Sleepy
CONSTANTS w1, w2, r1

MCSeconds == {-1, 0, 1}
=============================================================================
