-------------------------- MODULE ProducerConsumer --------------------------
(***************************************************************************)
(* hw3/submit/problem_7.c: producers and consumers on a ring of SIZE ints, *)
(* the queue of problem_6.c, under the lock the build selects (FENCE,      *)
(* SPIN_LOCK, FAIR_SPIN_LOCK or MUTEX).                                    *)
(*                                                                         *)
(* The lock is the abstract one, Mutex, which Bakery and SpinLocks         *)
(* implement; what is done under it is a step per statement.               *)
(***************************************************************************)
EXTENDS Integers, Sequences, FiniteSets, FiniteSetsExt

CONSTANTS
  Producer,     (* threads in produce()                                    *)
  Consumer,     (* threads in consume()                                    *)
  SIZE,         (* 32 in the code: the elements of value                   *)
  MaxItems      (* bound: items produced before main sets is_stop          *)

ASSUME ThreadsAssumption ==
  IsFiniteSet(Producer) /\ IsFiniteSet(Consumer) /\ Producer \cap Consumer = {}
ASSUME SizeAssumption == SIZE \in Nat \ {0}
ASSUME MaxItemsAssumption == MaxItems \in Nat

Thread == Producer \cup Consumer

VARIABLES
  value, head, tail,   (* the queue; head = tail = -1 when it is empty     *)
  enque_v,      (* the next number to enqueue                              *)
  deque_v,      (* the number the assert of deq() expects next             *)
  stage,        (* the lock, see Mutex                                     *)
  pc,           (* where a thread is in enq, deq, produce and consume      *)
  v,            (* the local v of consume()                                *)
  cnt,          (* items of each thread                                    *)
  is_stop,      (* set by main after sleep(second)                         *)
  main          (* where main is: sleep(), pthread_join, after free()      *)

queue == <<value, head, tail>>
vars == <<queue, enque_v, deque_v, stage, pc, v, cnt, is_stop, main>>

Lock == INSTANCE Mutex

EnqLabel == {"is_full", "set_head", "move_tail", "write", "increase"}
DeqLabel == {"is_empty", "read", "assert", "advance"}
Label == {"call", "lock"} \cup EnqLabel \cup DeqLabel
         \cup {"unlock", "unlock_fail", "count", "loop", "exit", "aborted"}

Goto(t, label) == pc' = [pc EXCEPT ![t] = label]

(* The position after p in the ring.                                       *)
After(p) == (p + 1) % SIZE

-----------------------------------------------------------------------------

(* create_queue() and main() up to the creation of the threads.            *)
Init ==
  /\ value = [p \in 0 .. SIZE - 1 |-> 0]
  /\ head = -1
  /\ tail = -1
  /\ enque_v = 0
  /\ deque_v = 0
  /\ Lock!Init
  /\ pc = [t \in Thread |-> "call"]
  /\ v = [c \in Consumer |-> 0]
  /\ cnt = [t \in Thread |-> 0]
  /\ is_stop = FALSE
  /\ main = "sleep"

(* Lock: ask, and go on when it is had.                                    *)
CallLock(t) ==
  /\ pc[t] = "call"
  /\ Lock!Request(t)
  /\ Goto(t, "lock")
  /\ UNCHANGED <<queue, enque_v, deque_v, v, cnt, is_stop, main>>

GetLock(t) ==
  /\ pc[t] = "lock"
  /\ Lock!Acquire(t)
  /\ Goto(t, IF t \in Producer THEN "is_full" ELSE "is_empty")
  /\ UNCHANGED <<queue, enque_v, deque_v, v, cnt, is_stop, main>>

-----------------------------------------------------------------------------
(* enq(&enque_v, queue)                                                    *)

(* Variant: the ring looks full one element early, and never when it is.   *)
IsFullOffByOne(t) ==
  /\ pc[t] = "is_full"
  /\ Goto(t, IF head = tail + 1 THEN "unlock_fail" ELSE "set_head")
  /\ UNCHANGED <<queue, enque_v, deque_v, stage, v, cnt, is_stop, main>>

(* if (is_full(q)) { unlock; return 0; }                                   *)
IsFull(t) ==
  /\ pc[t] = "is_full"
  /\ Goto(t, IF head = After(tail) THEN "unlock_fail" ELSE "set_head")
  /\ UNCHANGED <<queue, enque_v, deque_v, stage, v, cnt, is_stop, main>>

(* if (q->tail == -1) q->head = 0                                          *)
SetHead(t) ==
  /\ pc[t] = "set_head"
  /\ head' = IF tail = -1 THEN 0 ELSE head
  /\ Goto(t, "move_tail")
  /\ UNCHANGED <<value, tail, enque_v, deque_v, stage, v, cnt, is_stop, main>>

(* q->tail = (q->tail+1) % 32                                              *)
MoveTail(t) ==
  /\ pc[t] = "move_tail"
  /\ tail' = After(tail)
  /\ Goto(t, "write")
  /\ UNCHANGED <<value, head, enque_v, deque_v, stage, v, cnt, is_stop, main>>

(* q->value[q->tail] = *v                                                  *)
Write(t) ==
  /\ pc[t] = "write"
  /\ value' = [value EXCEPT ![tail] = enque_v]
  /\ Goto(t, "increase")
  /\ UNCHANGED <<head, tail, enque_v, deque_v, stage, v, cnt, is_stop, main>>

(* ( *v )++                                                                *)
Increase(t) ==
  /\ pc[t] = "increase"
  /\ enque_v' = enque_v + 1
  /\ Goto(t, "unlock")
  /\ UNCHANGED <<queue, deque_v, stage, v, cnt, is_stop, main>>

-----------------------------------------------------------------------------
(* deq(&v, queue)                                                          *)

(* if (is_empty(q)) { unlock; return 0; }                                  *)
IsEmpty(t) ==
  /\ pc[t] = "is_empty"
  /\ Goto(t, IF head = -1 THEN "unlock_fail" ELSE "read")
  /\ UNCHANGED <<queue, enque_v, deque_v, stage, v, cnt, is_stop, main>>

(* *v = q->value[q->head]                                                  *)
Read(t) ==
  /\ pc[t] = "read"
  /\ v' = [v EXCEPT ![t] = value[head]]
  /\ Goto(t, "assert")
  /\ UNCHANGED <<queue, enque_v, deque_v, stage, cnt, is_stop, main>>

(* assert( *v == deque_v++); a failed assert ends the program.             *)
AssertOrder(t) ==
  /\ pc[t] = "assert"
  /\ deque_v' = deque_v + 1
  /\ Goto(t, IF v[t] = deque_v THEN "advance" ELSE "aborted")
  /\ UNCHANGED <<queue, enque_v, stage, v, cnt, is_stop, main>>

(* Variant: dequeuing the last element does not reset the queue.           *)
AdvanceNoReset(t) ==
  /\ pc[t] = "advance"
  /\ head' = After(head)
  /\ Goto(t, "unlock")
  /\ UNCHANGED <<value, tail, enque_v, deque_v, stage, v, cnt, is_stop, main>>

(* The last element resets head and tail, another one moves head on.       *)
Advance(t) ==
  /\ pc[t] = "advance"
  /\ IF tail = head
     THEN head' = -1 /\ tail' = -1
     ELSE head' = After(head) /\ UNCHANGED tail
  /\ Goto(t, "unlock")
  /\ UNCHANGED <<value, enque_v, deque_v, stage, v, cnt, is_stop, main>>

-----------------------------------------------------------------------------
(* unlock, and the loops of produce() and consume()                        *)

(* Variant: the early return of a full or an empty queue keeps the lock.   *)
UnlockForgotten(t) ==
  /\ pc[t] \in {"unlock", "unlock_fail"}
  /\ IF pc[t] = "unlock" THEN Lock!Release(t) ELSE UNCHANGED stage
  /\ Goto(t, IF pc[t] = "unlock" THEN "count" ELSE "loop")
  /\ UNCHANGED <<queue, enque_v, deque_v, v, cnt, is_stop, main>>

Unlock(t) ==
  /\ pc[t] \in {"unlock", "unlock_fail"}
  /\ Lock!Release(t)
  /\ Goto(t, IF pc[t] = "unlock" THEN "count" ELSE "loop")
  /\ UNCHANGED <<queue, enque_v, deque_v, v, cnt, is_stop, main>>

(* cnt[data->tid]++                                                        *)
Count(t) ==
  /\ pc[t] = "count"
  /\ cnt' = [cnt EXCEPT ![t] = @ + 1]
  /\ Goto(t, "loop")
  /\ UNCHANGED <<queue, enque_v, deque_v, stage, v, is_stop, main>>

(* if (is_stop) pthread_exit.  Bound: past MaxItems a producer stays here  *)
(* until main sets is_stop.                                                *)
Loop(t) ==
  /\ pc[t] = "loop"
  /\ \/ is_stop /\ Goto(t, "exit")
     \/ /\ ~ is_stop
        /\ t \in Producer => enque_v < MaxItems
        /\ Goto(t, "call")
  /\ UNCHANGED <<queue, enque_v, deque_v, stage, v, cnt, is_stop, main>>

-----------------------------------------------------------------------------
(* main() after sleep(second)                                              *)

Stop ==
  /\ main = "sleep"
  /\ is_stop' = TRUE
  /\ main' = "join"
  /\ UNCHANGED <<queue, enque_v, deque_v, stage, pc, v, cnt>>

JoinAndFree ==
  /\ main = "join"
  /\ \A t \in Thread : pc[t] = "exit"
  /\ main' = "freed"
  /\ UNCHANGED <<queue, enque_v, deque_v, stage, pc, v, cnt, is_stop>>

Terminated ==
  /\ main = "freed"
  /\ UNCHANGED vars

Enq(t) == IsFull(t) \/ SetHead(t) \/ MoveTail(t) \/ Write(t) \/ Increase(t)
Deq(t) == IsEmpty(t) \/ Read(t) \/ AssertOrder(t) \/ Advance(t)

ThreadStep(t) ==
  CallLock(t) \/ GetLock(t) \/ Enq(t) \/ Deq(t) \/ Unlock(t) \/ Count(t) \/ Loop(t)

Next ==
  \/ \E t \in Thread : ThreadStep(t)
  \/ Stop \/ JoinAndFree \/ Terminated

Spec == Init /\ [][Next]_vars

(* Preemptive scheduling; nothing more of the lock than that it is free    *)
(* when its holder gives it back, so that this holds for every build.      *)
Fairness ==
  /\ \A t \in Thread : WF_vars(ThreadStep(t))
  /\ WF_vars(Stop) /\ WF_vars(JoinAndFree)

FairSpec == Spec /\ Fairness

-----------------------------------------------------------------------------
(* Properties                                                              *)

(* Types: head and tail stay inside the ring.                              *)
TypeOK ==
  /\ value \in [0 .. SIZE - 1 -> Nat]
  /\ head \in -1 .. SIZE - 1
  /\ tail \in -1 .. SIZE - 1
  /\ enque_v \in Nat
  /\ deque_v \in Nat
  /\ stage \in [Thread -> {"idle", "trying", "held"}]
  /\ pc \in [Thread -> Label]
  /\ v \in [Consumer -> Nat]
  /\ cnt \in [Thread -> Nat]
  /\ is_stop \in BOOLEAN
  /\ main \in {"sleep", "join", "freed"}

(* The items between head and tail, once around at most.                   *)
Contents ==
  IF head = -1 \/ tail = -1 THEN <<>>
  ELSE [n \in 1 .. ((tail - head) % SIZE) + 1 |-> value[(head + n - 1) % SIZE]]

(* What the queue holds for its callers: an item is in when enque_v counts *)
(* it, and out when head has left it.                                      *)
items ==
  IF \E t \in Producer : pc[t] \in {"write", "increase"}
  THEN SubSeq(Contents, 1, Len(Contents) - 1)
  ELSE Contents

Queue == INSTANCE Fifo WITH Capacity <- SIZE, produced <- enque_v

(* The ring under the lock is a bounded FIFO: no item is lost, overwritten *)
(* or delivered twice, and full and empty are told apart although the ring *)
(* uses all its elements.                                                  *)
ImplementsFifo == Queue!Spec

(* The assert of deq(): numbers come out in the order 0, 1, 2, ...         *)
NoAssertFails == \A t \in Thread : pc[t] # "aborted"

(* The counters main sums up after the joins: each item that went in or    *)
(* out is counted once, but for the threads between unlock and cnt++, and  *)
(* produced and consumed differ by what is left in the queue.              *)
Counted(T) == MapThenSumSet(LAMBDA t : cnt[t], T)
Uncounted(T) == {t \in T : pc[t] \in {"unlock", "count"}}
Accounting ==
  /\ enque_v = Counted(Producer) + Cardinality(Uncounted(Producer))
  /\ enque_v - Len(items) = Counted(Consumer) + Cardinality(Uncounted(Consumer))

(* The program ends: after is_stop no thread is left waiting for the lock, *)
(* for room or for an item, and main frees the queue.                      *)
Termination == <>(main = "freed")

=============================================================================
