----------------------------- MODULE MCSpinLocks -----------------------------
(***************************************************************************)
(* TLC instances of SpinLocks, with ints of two bits, so that both         *)
(* counters overflow again and again.  MCSpinLocks.cfg runs the plain and  *)
(* the fair lock with three threads and problem_5.c with one;              *)
(* MCSpinLocksReset.cfg runs problem_5.c with two.                         *)
(***************************************************************************)
EXTENDS SpinLocks
CONSTANTS t1, t2, t3

MCPrograms ==
  { [build |-> "spin", crew |-> {t1, t2, t3}],
    [build |-> "fair", crew |-> {t1, t2, t3}],
    [build |-> "reset", crew |-> {t1}] }

MCReset == { [build |-> "reset", crew |-> {t1, t2}] }
=============================================================================
