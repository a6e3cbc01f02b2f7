------------------------------ MODULE SpinLocks ------------------------------
(***************************************************************************)
(* The spin locks of hw3 on the x86 memory model, each under get_in_line() *)
(* of its program:                                                         *)
(*   "spin"   problem_4.c, and problem_7.c with -DSPIN_LOCK: cmpxchg on    *)
(*            one word, given back with a plain store;                     *)
(*   "fair"   problem_7.c with -DFAIR_SPIN_LOCK: two counters that xadd    *)
(*            increments and that wrap around;                             *)
(*   "reset"  problem_5.c: the same counters, set to 0 when an increment   *)
(*            finds them negative.                                         *)
(* A program is one of them; build says which.  A locked instruction waits *)
(* for the buffer of its thread and then works on memory in one step.      *)
(*                                                                         *)
(* line is a history variable: the threads whose turn is out, in the order *)
(* in which they took it.                                                  *)
(***************************************************************************)
EXTENDS Integers, Sequences, FiniteSets, TSO

CONSTANTS
  Thread,       (* the threads there may be                                *)
  Programs,     (* the programs to look at: [build, crew], crew being the  *)
                (* threads that main creates                               *)
  IntMax        (* INT_MAX; an int goes from -IntMax-1 to IntMax           *)

ASSUME ProgramsAssumption ==
  Programs \subseteq [build : {"spin", "fair", "reset"}, crew : SUBSET Thread]
ASSUME IntMaxAssumption == IntMax \in Nat
(* No more threads than values of an int.                                  *)
ASSUME ThreadAssumption == IsFiniteSet(Thread) /\ Cardinality(Thread) <= 2 * IntMax + 2

VARIABLES
  build,        (* which program runs; never changes                       *)
  mem,          (* memory: in_cs and the fields of the lock                *)
  is_stop,      (* memory: set by main after sleep(second)                 *)
  sb,           (* sb[t]: stores of t that memory has not seen yet         *)
  pc,           (* where t is in get_in_line, spin_lock and spin_unlock    *)
  my_turn,      (* the local of spin_lock()                                *)
  k,            (* value the next assert(in_cs == k) expects               *)
  main,         (* where main is: sleep(), pthread_join, after free()      *)
  line          (* history: turns out, first served first                  *)

vars == <<build, mem, is_stop, sb, pc, my_turn, k, main, line>>

Location == {"in_cs", "lock", "waiting", "serving"}
CSLabel == {"assert", "increment", "clear", "unlock"}
Label == {"start", "overflowed", "wait"} \cup CSLabel
         \cup {"served_overflow", "loop", "exit", "aborted"}

Int32 == -IntMax - 1 .. IntMax
Succ(v) == IF v = IntMax THEN -IntMax - 1 ELSE v + 1

-----------------------------------------------------------------------------
(* Memory accesses                                                         *)

Seen(t, var) == Load(sb[t], var, mem[var])

Store(t, var, val) == sb' = [sb EXCEPT ![t] = Append(@, StoreEntry(var, val))]

(* A lock prefix: the processor has emptied the buffer of t.               *)
Locked(t) == sb[t] = <<>>

Drain(t) ==
  /\ sb[t] # <<>>
  /\ mem' = [mem EXCEPT ![Head(sb[t]).var] = Head(sb[t]).val]
  /\ sb' = [sb EXCEPT ![t] = Tail(@)]
  /\ UNCHANGED <<build, is_stop, pc, my_turn, k, main, line>>

Goto(t, label) == pc' = [pc EXCEPT ![t] = label]

Enter(t) == Goto(t, "assert") /\ k' = [k EXCEPT ![t] = 0]

-----------------------------------------------------------------------------

Init ==
  /\ \E p \in Programs :
       /\ build = p.build
       /\ pc = [t \in Thread |-> IF t \in p.crew THEN "start" ELSE "exit"]
  /\ mem = [l \in Location |-> 0]
  /\ is_stop = FALSE
  /\ sb = [t \in Thread |-> <<>>]
  /\ my_turn = [t \in Thread |-> 0]
  /\ k = [t \in Thread |-> 0]
  /\ main = "sleep"
  /\ line = <<>>

(* Variant: the word is loaded, compared and stored without a lock prefix. *)
CmpXchgUnlocked(t) ==
  /\ build = "spin"
  /\ pc[t] = "start"
  /\ Seen(t, "lock") = 0
  /\ Store(t, "lock", 1)
  /\ Enter(t)
  /\ UNCHANGED <<build, mem, is_stop, my_turn, main, line>>

(* spin_lock(), "spin": the cmpxchg that finds 0 and stores 1.  One that   *)
(* finds 1 changes nothing and the loop tries again.                       *)
CmpXchg(t) ==
  /\ build = "spin"
  /\ pc[t] = "start"
  /\ Locked(t)
  /\ mem["lock"] = 0
  /\ mem' = [mem EXCEPT !["lock"] = 1]
  /\ Enter(t)
  /\ UNCHANGED <<build, is_stop, sb, my_turn, main, line>>

(* spin_lock(), "fair" and "reset": my_turn = atomic_xadd(&s->waiting)     *)
TakeTurn(t) ==
  /\ build # "spin"
  /\ pc[t] = "start"
  /\ Locked(t)
  /\ mem' = [mem EXCEPT !["waiting"] = Succ(@)]
  /\ my_turn' = [my_turn EXCEPT ![t] = mem["waiting"]]
  /\ line' = Append(line, t)
  /\ Goto(t, IF build = "reset" /\ mem["waiting"] < 0 THEN "overflowed" ELSE "wait")
  /\ UNCHANGED <<build, is_stop, sb, k, main>>

(* "reset": if (my_turn < 0) s->waiting = 0                                *)
ResetWaiting(t) ==
  /\ pc[t] = "overflowed"
  /\ Store(t, "waiting", 0)
  /\ Goto(t, "wait")
  /\ UNCHANGED <<build, mem, is_stop, my_turn, k, main, line>>

(* Variant: a turn that has gone by is taken for one's own.                *)
WaitTurnPassed(t) ==
  /\ pc[t] = "wait"
  /\ my_turn[t] <= Seen(t, "serving")
  /\ Enter(t)
  /\ UNCHANGED <<build, mem, is_stop, sb, my_turn, main, line>>

(* while (my_turn != s->serving) {}                                        *)
WaitTurn(t) ==
  /\ pc[t] = "wait"
  /\ my_turn[t] = Seen(t, "serving")
  /\ Enter(t)
  /\ UNCHANGED <<build, mem, is_stop, sb, my_turn, main, line>>

-----------------------------------------------------------------------------
(* The critical section of get_in_line()                                   *)

(* assert(in_cs==k); a failed assert ends the program.                     *)
AssertInCS(t) ==
  /\ pc[t] = "assert"
  /\ Goto(t, IF Seen(t, "in_cs") # k[t] THEN "aborted"
             ELSE IF k[t] = 3 THEN "clear" ELSE "increment")
  /\ UNCHANGED <<build, mem, is_stop, sb, my_turn, k, main, line>>

(* in_cs++                                                                 *)
Increment(t) ==
  /\ pc[t] = "increment"
  /\ Store(t, "in_cs", Seen(t, "in_cs") + 1)
  /\ k' = [k EXCEPT ![t] = @ + 1]
  /\ Goto(t, "assert")
  /\ UNCHANGED <<build, mem, is_stop, my_turn, main, line>>

(* in_cs = 0                                                               *)
ClearInCS(t) ==
  /\ pc[t] = "clear"
  /\ Store(t, "in_cs", 0)
  /\ Goto(t, "unlock")
  /\ UNCHANGED <<build, mem, is_stop, my_turn, k, main, line>>

-----------------------------------------------------------------------------
(* spin_unlock() and the end of the loop                                   *)

(* Variant: the word is freed at once, past the buffered stores.           *)
UnlockStoreUnordered(t) ==
  /\ build = "spin"
  /\ pc[t] = "unlock"
  /\ mem' = [mem EXCEPT !["lock"] = 0]
  /\ Goto(t, "loop")
  /\ UNCHANGED <<build, is_stop, sb, my_turn, k, main, line>>

(* "spin": s->lock = 0                                                     *)
UnlockStore(t) ==
  /\ build = "spin"
  /\ pc[t] = "unlock"
  /\ Store(t, "lock", 0)
  /\ Goto(t, "loop")
  /\ UNCHANGED <<build, mem, is_stop, my_turn, k, main, line>>

LeaveLine(t) ==
  \E p \in 1 .. Len(line) :
    /\ line[p] = t
    /\ line' = SubSeq(line, 1, p - 1) \o SubSeq(line, p + 1, Len(line))

(* "fair" and "reset": atomic_xadd(&s->serving)                            *)
Serve(t) ==
  /\ build # "spin"
  /\ pc[t] = "unlock"
  /\ Locked(t)
  /\ mem' = [mem EXCEPT !["serving"] = Succ(@)]
  /\ LeaveLine(t)
  /\ Goto(t, IF build = "reset" /\ mem["serving"] < 0 THEN "served_overflow" ELSE "loop")
  /\ UNCHANGED <<build, is_stop, sb, my_turn, k, main>>

(* "reset": s->serving = 0                                                 *)
ResetServing(t) ==
  /\ pc[t] = "served_overflow"
  /\ Store(t, "serving", 0)
  /\ Goto(t, "loop")
  /\ UNCHANGED <<build, mem, is_stop, my_turn, k, main, line>>

(* Variant: is_stop is never looked at.                                    *)
LoopForever(t) ==
  /\ pc[t] = "loop"
  /\ Goto(t, "start")
  /\ UNCHANGED <<build, mem, is_stop, sb, my_turn, k, main, line>>

(* if (is_stop) pthread_exit                                               *)
Loop(t) ==
  /\ pc[t] = "loop"
  /\ Goto(t, IF is_stop THEN "exit" ELSE "start")
  /\ UNCHANGED <<build, mem, is_stop, sb, my_turn, k, main, line>>

-----------------------------------------------------------------------------
(* main() after sleep(second)                                              *)

Stop ==
  /\ main = "sleep"
  /\ is_stop' = TRUE
  /\ main' = "join"
  /\ UNCHANGED <<build, mem, sb, pc, my_turn, k, line>>

JoinAndFree ==
  /\ main = "join"
  /\ \A t \in Thread : pc[t] = "exit" /\ sb[t] = <<>>
  /\ main' = "freed"
  /\ UNCHANGED <<build, mem, is_stop, sb, pc, my_turn, k, line>>

Terminated ==
  /\ main = "freed"
  /\ UNCHANGED vars

ThreadStep(t) ==
  \/ CmpXchg(t) \/ TakeTurn(t) \/ ResetWaiting(t) \/ WaitTurn(t)
  \/ AssertInCS(t) \/ Increment(t) \/ ClearInCS(t)
  \/ UnlockStore(t) \/ Serve(t) \/ ResetServing(t) \/ Loop(t)

Next ==
  \/ \E t \in Thread : ThreadStep(t) \/ Drain(t)
  \/ Stop \/ JoinAndFree \/ Terminated

Spec == Init /\ [][Next]_vars

(* The scheduler is preemptive and fair to every thread, a processor       *)
(* drains its buffer, sleep(second) returns.                               *)
Fairness ==
  /\ \A t \in Thread : WF_vars(ThreadStep(t)) /\ WF_vars(Drain(t))
  /\ WF_vars(Stop) /\ WF_vars(JoinAndFree)

FairSpec == Spec /\ Fairness

-----------------------------------------------------------------------------
(* Properties                                                              *)

(* Types: the counters keep the width of an int, in_cs never passes 3.     *)
TypeOK ==
  /\ \E p \in Programs : build = p.build
  /\ mem \in [Location -> Int32 \cup 0 .. 3]
  /\ mem["in_cs"] \in 0 .. 3 /\ mem["lock"] \in 0 .. 1
  /\ mem["waiting"] \in Int32 /\ mem["serving"] \in Int32
  /\ is_stop \in BOOLEAN
  /\ sb \in [Thread -> Seq([var : Location, val : 0 .. 3])]
  /\ pc \in [Thread -> Label]
  /\ my_turn \in [Thread -> Int32]
  /\ k \in [Thread -> 0 .. 3]
  /\ main \in {"sleep", "join", "freed"}
  /\ line \in Seq(Thread)

InCS(t) == pc[t] \in CSLabel \cup {"aborted"}

(* "spin": the lock is held until memory shows the 0 of spin_unlock().     *)
Held(t) == InCS(t) \/ \E p \in 1 .. Len(sb[t]) : sb[t][p] = StoreEntry("lock", 0)

(* The asserts of get_in_line() hold.                                      *)
NoAssertFails == \A t \in Thread : pc[t] # "aborted"

(* The counters of the fair lock stay in step, across the overflow too:    *)
(* serving is the turn of the first in line, each next one has the         *)
(* successor, and waiting is the turn after the last.                      *)
TurnsInLine ==
  build = "fair" =>
    \A p \in 0 .. Len(line) :
      (IF p = Len(line) THEN mem["waiting"] ELSE my_turn[line[p + 1]])
        = IF p = 0 THEN mem["serving"] ELSE Succ(my_turn[line[p]])

(* The fair lock serves in the order of the xadds on waiting.              *)
ServedInOrder ==
  build = "fair" => \A t \in Thread : InCS(t) => line[1] = t

(* Where t is, as the callers of the lock see it.                          *)
stage == [t \in Thread |->
            IF Held(t) THEN "held"
            ELSE IF pc[t] \in {"overflowed", "wait"} THEN "trying"
            ELSE "idle"]

Lock == INSTANCE Mutex

(* Both locks implement the abstract mutex: no two threads hold it, the    *)
(* stores of a critical section that are still buffered included.          *)
ImplementsMutex == Lock!Spec

(* The program ends: once is_stop is set every thread gets the lock it     *)
(* still spins for, leaves get_in_line, and main frees the arrays.         *)
Termination == <>(main = "freed")

=============================================================================
