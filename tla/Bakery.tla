------------------------------- MODULE Bakery -------------------------------
(***************************************************************************)
(* hw3/submit/problem_3.c: Lamport's bakery lock between N pthreads, with  *)
(* two mfences, on the x86 memory model (TSO).                             *)
(*                                                                         *)
(* Every shared access of the C code is a step of its own, as every array  *)
(* is volatile: in particular max() loads arr[i] once to compare it and a  *)
(* second time to keep it, and the second while of lock() loads ticket[i]  *)
(* up to three times.  A store goes to the storing thread's FIFO buffer    *)
(* sb[t] and reaches memory when the processor drains it; a load takes the *)
(* thread's own newest buffered value first; mfence waits for the buffer   *)
(* to be empty.  Steps that touch only locals are merged with the shared   *)
(* access that follows them.                                               *)
(*                                                                         *)
(* ahead is a history variable: it records who was already waiting when a  *)
(* thread began to pick its number, and no guard reads it.                 *)
(***************************************************************************)
EXTENDS Integers, Sequences, TSO

CONSTANTS
  N,            (* n_thread, the first argument of the program             *)
  MaxEntries    (* bound: entries of one thread before main sets is_stop   *)

ASSUME NAssumption == N \in Nat \ {0}
ASSUME MaxEntriesAssumption == MaxEntries \in Nat \ {0}

Thread == 0 .. N-1

VARIABLES
  choosing,     (* memory: choosing[t], 1 while t picks a number           *)
  ticket,       (* memory: ticket[t], 0 for none                           *)
  in_cs,        (* memory: the counter the critical section asserts on     *)
  is_stop,      (* memory: set by main after sleep(second)                 *)
  sb,           (* sb[t]: stores of t that memory has not seen yet         *)
  pc,           (* where t is in get_in_line, lock, max and unlock         *)
  m,            (* the local max of max()                                  *)
  i,            (* the local i of max() and of lock()                      *)
  k,            (* value the next assert(in_cs == k) expects               *)
  cnt,          (* the local cnt of get_in_line                            *)
  main,         (* where main is: sleep(), pthread_join, after free()      *)
  ahead         (* history: threads waiting since before t's first load    *)

memory == <<choosing, ticket, in_cs>>
locals == <<m, i, k, cnt>>
vars == <<choosing, ticket, in_cs, is_stop, sb, pc, m, i, k, cnt, main, ahead>>

(* Labels, in program order; "aborted" is a failed assert.  A thread in    *)
(* the doorway has its first mfence behind it and its second ahead.        *)
DoorwayLabel == {"max_compare", "max_keep", "drawn"}
WaitLabel == {"wait_choosing", "wait_nonzero", "wait_greater", "wait_equal"}
CSLabel == {"assert", "increment", "clear", "unlock"}
Label == {"start", "max_first"} \cup DoorwayLabel \cup WaitLabel \cup CSLabel
         \cup {"loop", "exit", "aborted"}

-----------------------------------------------------------------------------
(* Memory accesses                                                         *)

(* What t loads from a location of which memory holds mem.                 *)
Seen(t, var, mem) == Load(sb[t], var, mem)

StoreSet == [var : {"choosing"}, val : {0, 1}] \cup [var : {"ticket", "in_cs"}, val : Nat]

Store(t, var, val) == sb' = [sb EXCEPT ![t] = Append(@, StoreEntry(var, val))]

(* Variant: the instruction is forgotten, as in problem_1.c.               *)
MFenceAbsent(t) == TRUE

(* asm volatile ("mfence")                                                 *)
MFence(t) == sb[t] = <<>>

(* choosing[j] and ticket[j] as t loads them: only j stores to them.       *)
SeenTicket(t, j) == IF j = t THEN Seen(t, "ticket", ticket[j]) ELSE ticket[j]

(* The oldest buffered store of t reaches memory.                          *)
Drain(t) ==
  /\ sb[t] # <<>>
  /\ LET s == Head(sb[t]) IN
       /\ choosing' = IF s.var = "choosing" THEN [choosing EXCEPT ![t] = s.val] ELSE choosing
       /\ ticket' = IF s.var = "ticket" THEN [ticket EXCEPT ![t] = s.val] ELSE ticket
       /\ in_cs' = IF s.var = "in_cs" THEN s.val ELSE in_cs
       /\ ahead' = IF s = StoreEntry("ticket", 0)
                   THEN [j \in Thread |-> ahead[j] \ {t}] ELSE ahead
  /\ sb' = [sb EXCEPT ![t] = Tail(@)]
  /\ UNCHANGED <<is_stop, pc, locals, main>>

-----------------------------------------------------------------------------
(* main() up to the creation of the threads                                *)

Init ==
  /\ choosing = [t \in Thread |-> 0]
  /\ ticket = [t \in Thread |-> 0]
  /\ in_cs = 0
  /\ is_stop = FALSE
  /\ sb = [t \in Thread |-> <<>>]
  /\ pc = [t \in Thread |-> "start"]
  /\ m = [t \in Thread |-> 0]
  /\ i = [t \in Thread |-> 0]
  /\ k = [t \in Thread |-> 0]
  /\ cnt = [t \in Thread |-> 0]
  /\ main = "sleep"
  /\ ahead = [t \in Thread |-> {}]

(* Threads that hold a number in memory and have left the doorway.         *)
Waiting == {t \in Thread : pc[t] \notin DoorwayLabel /\ ticket[t] # 0}

(* Variant: the doorway is not announced.                                  *)
StartUnannounced(t) ==
  /\ pc[t] = "start"
  /\ pc' = [pc EXCEPT ![t] = "max_first"]
  /\ UNCHANGED <<memory, is_stop, sb, locals, main, ahead>>

(* lock(): choosing[tid] = 1                                               *)
StartChoosing(t) ==
  /\ pc[t] = "start"
  /\ Store(t, "choosing", 1)
  /\ pc' = [pc EXCEPT ![t] = "max_first"]
  /\ UNCHANGED <<memory, is_stop, locals, main, ahead>>

(* The first mfence, then max = arr[0].                                    *)
MaxFirst(t) ==
  /\ pc[t] = "max_first"
  /\ MFence(t)
  /\ m' = [m EXCEPT ![t] = SeenTicket(t, 0)]
  /\ i' = [i EXCEPT ![t] = 1]
  /\ ahead' = [ahead EXCEPT ![t] = Waiting \ {t}]
  /\ pc' = [pc EXCEPT ![t] = "max_compare"]
  /\ UNCHANGED <<memory, is_stop, sb, k, cnt, main>>

(* if (arr[i] > max)                                                       *)
MaxCompare(t) ==
  /\ pc[t] = "max_compare"
  /\ i[t] < N
  /\ IF SeenTicket(t, i[t]) > m[t]
     THEN /\ pc' = [pc EXCEPT ![t] = "max_keep"]
          /\ UNCHANGED i
     ELSE /\ i' = [i EXCEPT ![t] = @ + 1]
          /\ UNCHANGED pc
  /\ UNCHANGED <<memory, is_stop, sb, m, k, cnt, main, ahead>>

(* max = arr[i], a second load                                             *)
MaxKeep(t) ==
  /\ pc[t] = "max_keep"
  /\ m' = [m EXCEPT ![t] = SeenTicket(t, i[t])]
  /\ i' = [i EXCEPT ![t] = @ + 1]
  /\ pc' = [pc EXCEPT ![t] = "max_compare"]
  /\ UNCHANGED <<memory, is_stop, sb, k, cnt, main, ahead>>

(* Variant: the loop of max() ends one element early.                      *)
DrawTicketEarly(t) ==
  /\ pc[t] = "max_compare"
  /\ i[t] >= N - 1
  /\ Store(t, "ticket", m[t] + 1)
  /\ pc' = [pc EXCEPT ![t] = "drawn"]
  /\ UNCHANGED <<memory, is_stop, locals, main, ahead>>

(* ticket[tid] = max(ticket)+1                                             *)
DrawTicket(t) ==
  /\ pc[t] = "max_compare"
  /\ i[t] = N
  /\ Store(t, "ticket", m[t] + 1)
  /\ pc' = [pc EXCEPT ![t] = "drawn"]
  /\ UNCHANGED <<memory, is_stop, locals, main, ahead>>

(* The next i of the for loop of lock(), which skips tid.                  *)
NextOther(t, j) == IF j = t THEN j + 1 ELSE j

(* Go on to customer j, or into the critical section after the last one.   *)
Turn(t, j) ==
  /\ i' = [i EXCEPT ![t] = j]
  /\ pc' = [pc EXCEPT ![t] = IF j = N THEN "assert" ELSE "wait_choosing"]

(* Variant: choosing[tid] = 0 is forgotten.                                *)
KeepChoosing(t) ==
  /\ pc[t] = "drawn"
  /\ MFence(t)
  /\ k' = [k EXCEPT ![t] = 0]
  /\ Turn(t, NextOther(t, 0))
  /\ UNCHANGED <<memory, is_stop, sb, m, cnt, main, ahead>>

(* The second mfence, choosing[tid] = 0, and the start of the for loop.    *)
StopChoosing(t) ==
  /\ pc[t] = "drawn"
  /\ MFence(t)
  /\ Store(t, "choosing", 0)
  /\ k' = [k EXCEPT ![t] = 0]
  /\ Turn(t, NextOther(t, 0))
  /\ UNCHANGED <<memory, is_stop, m, cnt, main, ahead>>

(* while (choosing[i]==1) {}                                               *)
WaitChoosing(t) ==
  /\ pc[t] = "wait_choosing"
  /\ choosing[i[t]] # 1
  /\ pc' = [pc EXCEPT ![t] = "wait_nonzero"]
  /\ UNCHANGED <<memory, is_stop, sb, locals, main, ahead>>

(* The second while: ticket[i] != 0                                        *)
WaitNonZero(t) ==
  /\ pc[t] = "wait_nonzero"
  /\ IF SeenTicket(t, i[t]) = 0
     THEN Turn(t, NextOther(t, i[t] + 1))
     ELSE /\ pc' = [pc EXCEPT ![t] = "wait_greater"]
          /\ UNCHANGED i
  /\ UNCHANGED <<memory, is_stop, sb, m, k, cnt, main, ahead>>

(* ... ticket[tid] > ticket[i]: spin, or go on to the tie break            *)
WaitGreater(t) ==
  /\ pc[t] = "wait_greater"
  /\ pc' = [pc EXCEPT ![t] = IF SeenTicket(t, t) > SeenTicket(t, i[t])
                             THEN "wait_nonzero" ELSE "wait_equal"]
  /\ UNCHANGED <<memory, is_stop, sb, locals, main, ahead>>

(* Variant: the tie between equal tickets is not broken.                   *)
WaitEqualNoTieBreak(t) ==
  /\ pc[t] = "wait_equal"
  /\ IF SeenTicket(t, t) = SeenTicket(t, i[t])
     THEN /\ pc' = [pc EXCEPT ![t] = "wait_nonzero"]
          /\ UNCHANGED i
     ELSE Turn(t, NextOther(t, i[t] + 1))
  /\ UNCHANGED <<memory, is_stop, sb, m, k, cnt, main, ahead>>

(* ... ticket[tid] == ticket[i] && tid > i                                 *)
WaitEqual(t) ==
  /\ pc[t] = "wait_equal"
  /\ IF SeenTicket(t, t) = SeenTicket(t, i[t]) /\ t > i[t]
     THEN /\ pc' = [pc EXCEPT ![t] = "wait_nonzero"]
          /\ UNCHANGED i
     ELSE Turn(t, NextOther(t, i[t] + 1))
  /\ UNCHANGED <<memory, is_stop, sb, m, k, cnt, main, ahead>>

(* get_in_line(): assert(in_cs==k); a failed assert ends the thread.       *)
AssertInCS(t) ==
  /\ pc[t] = "assert"
  /\ pc' = [pc EXCEPT ![t] = IF Seen(t, "in_cs", in_cs) # k[t] THEN "aborted"
                             ELSE IF k[t] = 3 THEN "clear" ELSE "increment"]
  /\ UNCHANGED <<memory, is_stop, sb, locals, main, ahead>>

(* in_cs++: a load of its own, then a buffered store                       *)
Increment(t) ==
  /\ pc[t] = "increment"
  /\ Store(t, "in_cs", Seen(t, "in_cs", in_cs) + 1)
  /\ k' = [k EXCEPT ![t] = @ + 1]
  /\ pc' = [pc EXCEPT ![t] = "assert"]
  /\ UNCHANGED <<memory, is_stop, m, i, cnt, main, ahead>>

(* Variant: the ticket is erased before in_cs is cleared.                  *)
ClearAfterErase(t) ==
  /\ pc[t] = "clear"
  /\ sb' = [sb EXCEPT ![t] = @ \o <<StoreEntry("ticket", 0), StoreEntry("in_cs", 0)>>]
  /\ pc' = [pc EXCEPT ![t] = "unlock"]
  /\ UNCHANGED <<memory, is_stop, locals, main, ahead>>

(* in_cs = 0                                                               *)
ClearInCS(t) ==
  /\ pc[t] = "clear"
  /\ Store(t, "in_cs", 0)
  /\ pc' = [pc EXCEPT ![t] = "unlock"]
  /\ UNCHANGED <<memory, is_stop, locals, main, ahead>>

(* unlock(): ticket[tid] = 0, then cnt++                                   *)
Unlock(t) ==
  /\ pc[t] = "unlock"
  /\ Store(t, "ticket", 0)
  /\ cnt' = [cnt EXCEPT ![t] = @ + 1]
  /\ pc' = [pc EXCEPT ![t] = "loop"]
  /\ UNCHANGED <<memory, is_stop, m, i, k, main, ahead>>

(* if (is_stop) pthread_exit.  Bound: with cnt = MaxEntries a thread stays *)
(* here until main sets is_stop.                                           *)
Loop(t) ==
  /\ pc[t] = "loop"
  /\ \/ /\ is_stop
        /\ pc' = [pc EXCEPT ![t] = "exit"]
     \/ /\ ~ is_stop
        /\ cnt[t] < MaxEntries
        /\ pc' = [pc EXCEPT ![t] = "start"]
  /\ UNCHANGED <<memory, is_stop, sb, locals, main, ahead>>

-----------------------------------------------------------------------------
(* main() after sleep(second)                                              *)

Stop ==
  /\ main = "sleep"
  /\ is_stop' = TRUE
  /\ main' = "join"
  /\ UNCHANGED <<memory, sb, pc, locals, ahead>>

(* pthread_join returns for a thread once its stores are in memory; then   *)
(* the arrays are freed.                                                   *)
JoinAndFree ==
  /\ main = "join"
  /\ \A t \in Thread : pc[t] = "exit" /\ sb[t] = <<>>
  /\ main' = "freed"
  /\ UNCHANGED <<memory, is_stop, sb, pc, locals, ahead>>

Terminated ==
  /\ main = "freed"
  /\ UNCHANGED vars

ThreadStep(t) ==
  \/ StartChoosing(t) \/ MaxFirst(t) \/ MaxCompare(t) \/ MaxKeep(t)
  \/ DrawTicket(t) \/ StopChoosing(t)
  \/ WaitChoosing(t) \/ WaitNonZero(t) \/ WaitGreater(t) \/ WaitEqual(t)
  \/ AssertInCS(t) \/ Increment(t) \/ ClearInCS(t) \/ Unlock(t) \/ Loop(t)

Next ==
  \/ \E t \in Thread : ThreadStep(t) \/ Drain(t)
  \/ Stop \/ JoinAndFree \/ Terminated

Spec == Init /\ [][Next]_vars

(* The scheduler is preemptive and fair to every thread, a processor       *)
(* drains its buffer, sleep(second) returns.                               *)
Fairness ==
  /\ \A t \in Thread : WF_vars(ThreadStep(t)) /\ WF_vars(Drain(t))
  /\ WF_vars(Stop) /\ WF_vars(JoinAndFree)

FairSpec == Spec /\ Fairness

-----------------------------------------------------------------------------
(* Properties                                                              *)

(* Types: tickets are naturals, a buffer holds stores of its own thread,   *)
(* and the indices stay inside the arrays.                                 *)
TypeOK ==
  /\ choosing \in [Thread -> {0, 1}]
  /\ ticket \in [Thread -> Nat]
  /\ in_cs \in Nat
  /\ is_stop \in BOOLEAN
  /\ sb \in [Thread -> Seq(StoreSet)]
  /\ pc \in [Thread -> Label]
  /\ m \in [Thread -> Nat]
  /\ i \in [Thread -> 0 .. N]
  /\ k \in [Thread -> 0 .. 3]
  /\ cnt \in [Thread -> 0 .. MaxEntries]
  /\ main \in {"sleep", "join", "freed"}
  /\ ahead \in [Thread -> SUBSET Thread]

InCS(t) == pc[t] \in CSLabel \cup {"aborted"}

(* The lock is held from the last check until memory shows ticket[t] = 0.  *)
Held(t) == InCS(t) \/ \E p \in 1 .. Len(sb[t]) : sb[t][p] = StoreEntry("ticket", 0)

(* lock() and unlock() exclude: no two threads hold the lock, a thread     *)
(* whose stores of the critical section are still buffered included.       *)
MutualExclusion == \A t, u \in Thread : Held(t) /\ Held(u) => t = u

(* The asserts of get_in_line() hold: what a thread loads from in_cs is    *)
(* what it stored last, or the 0 the thread before it left.                *)
NoAssertFails == \A t \in Thread : pc[t] # "aborted"

(* max() never returns less than a number that was in memory when it made  *)
(* its first load and is still being waited with, although it loads an     *)
(* element a second time after the comparison that chose it.               *)
MaxCoversWaiting ==
  \A t \in Thread :
    pc[t] = "max_compare" /\ i[t] = N => \A u \in ahead[t] : ticket[u] <= m[t]

(* First come, first served: nobody enters before a thread that was        *)
(* waiting with a number when it began to pick its own.                    *)
FirstComeFirstServed == \A t \in Thread : InCS(t) => ahead[t] = {}

(* Where t is, as the callers of the lock see it.                          *)
stage == [t \in Thread |->
            IF Held(t) THEN "held"
            ELSE IF pc[t] \in DoorwayLabel \cup WaitLabel THEN "trying"
            ELSE "idle"]

Lock == INSTANCE Mutex

(* The bakery lock implements the abstract mutex, service of every thread  *)
(* that has passed its first mfence included.                              *)
ImplementsMutex == Lock!FairSpec

(* The program ends: once is_stop is set every thread leaves get_in_line,  *)
(* those still spinning in lock() included, and main frees the arrays.     *)
Termination == <>(main = "freed")

=============================================================================
