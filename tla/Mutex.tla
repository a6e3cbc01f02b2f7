-------------------------------- MODULE Mutex --------------------------------
(***************************************************************************)
(* What every lock of hw3 promises its callers: a thread that asks for the *)
(* lock waits, is served while no other thread holds it, and keeps it      *)
(* until it gives it back.  The locks of this project implement Spec, and  *)
(* those that promise service to everyone implement FairSpec.              *)
(***************************************************************************)
CONSTANT Thread

VARIABLE stage     (* stage[t]: "idle", "trying" or "held"                  *)

Init == stage = [t \in Thread |-> "idle"]

Request(t) ==
  /\ stage[t] = "idle"
  /\ stage' = [stage EXCEPT ![t] = "trying"]

Acquire(t) ==
  /\ stage[t] = "trying"
  /\ \A u \in Thread : stage[u] # "held"
  /\ stage' = [stage EXCEPT ![t] = "held"]

(* A try that succeeds without a wait.                                     *)
TakeAtOnce(t) ==
  /\ stage[t] = "idle"
  /\ \A u \in Thread : stage[u] # "held"
  /\ stage' = [stage EXCEPT ![t] = "held"]

Release(t) ==
  /\ stage[t] = "held"
  /\ stage' = [stage EXCEPT ![t] = "idle"]

Next == \E t \in Thread : Request(t) \/ Acquire(t) \/ TakeAtOnce(t) \/ Release(t)

Spec == Init /\ [][Next]_stage

(* Every thread that tries is served, if holders give the lock back.       *)
Fairness ==
  \A t \in Thread : SF_stage(Acquire(t)) /\ WF_stage(Release(t))

FairSpec == Spec /\ Fairness

=============================================================================
