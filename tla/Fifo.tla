--------------------------------- MODULE Fifo ---------------------------------
(***************************************************************************)
(* What the queue of problem_6.c and problem_7.c promises: a bounded FIFO  *)
(* of the numbers 0, 1, 2, ... in the order in which they are produced.    *)
(***************************************************************************)
EXTENDS Naturals, Sequences

CONSTANT Capacity

VARIABLES
  items,        (* what is in the queue, first out first                   *)
  produced      (* how many items went in so far                           *)

Init == items = <<>> /\ produced = 0

Enqueue ==
  /\ Len(items) < Capacity
  /\ items' = Append(items, produced)
  /\ produced' = produced + 1

Dequeue ==
  /\ items # <<>>
  /\ items' = Tail(items)
  /\ UNCHANGED produced

Next == Enqueue \/ Dequeue

Spec == Init /\ [][Next]_<<items, produced>>

=============================================================================
