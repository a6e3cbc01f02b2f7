------------------------- MODULE MCProducerConsumer -------------------------
(***************************************************************************)
(* TLC instance of ProducerConsumer: two producers and two consumers on a  *)
(* ring of two elements, which is full, empty and wrapped around within    *)
(* three items.                                                            *)
(***************************************************************************)
EXTENDS ProducerConsumer
CONSTANTS p1, p2, c1, c2
=============================================================================
