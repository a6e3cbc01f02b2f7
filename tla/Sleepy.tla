------------------------------- MODULE Sleepy -------------------------------
(***************************************************************************)
(* hw4/sleepy.c: one /dev/sleepy device.  A write of n seconds sleeps for  *)
(* that long; a read wakes the sleeping writers, who return the time left. *)
(*                                                                         *)
(* sleepy_mutex is held around the accesses to data and flag, but not      *)
(* while a writer sleeps: the condition of the wait is loaded without it.  *)
(* wait_event_interruptible_timeout is the macro of Linux 3.2, the kernel  *)
(* the module is built for: check, then a loop of prepare_to_wait, check,  *)
(* signal_pending and schedule_timeout, then finish_wait.  The entry of a  *)
(* writer leaves the queue when it is woken or by finish_wait.             *)
(*                                                                         *)
(* Time is a Tick of jiffies that may come between any two steps.  roused  *)
(* is a history variable: the writers that a read found asleep and that    *)
(* have not returned since.                                                *)
(***************************************************************************)
EXTENDS Integers, FiniteSets

CONSTANTS
  Writer, Reader,   (* processes with the device open                      *)
  Seconds,          (* the values that are written, negative ones included *)
  HZ,               (* jiffies per second                                  *)
  Nobody,           (* not a process                                       *)
  MaxCalls,         (* bound: calls of all processes together              *)
  MaxElapsed        (* bound: jiffies a call counts, the last one standing *)
                    (* for all beyond                                      *)

Process == Writer \cup Reader

ASSUME ProcessAssumption ==
  Writer \cap Reader = {} /\ Nobody \notin Process
ASSUME TimeAssumption ==
  /\ Seconds \subseteq Int
  /\ HZ \in Nat \ {0}
  /\ MaxCalls \in Nat
  /\ MaxElapsed \in Nat
  /\ \A n \in Seconds : n * HZ <= MaxElapsed

VARIABLES
  data,         (* dev->data, the number written last                      *)
  flag,         (* dev->flag, the wake up condition                        *)
  owner,        (* the holder of dev->sleepy_mutex, or Nobody              *)
  wait_queue,   (* dev->wait_queue                                         *)
  pc,           (* where a process is in sleepy_read and sleepy_write      *)
  arg,          (* the number in the user's buffer                         *)
  write_val,    (* the local of sleepy_write                               *)
  left,         (* __ret: jiffies of the timeout left, negative for        *)
                (* -ERESTARTSYS                                            *)
  elapsed,      (* jiffies from sleep = jiffies to woken_up = jiffies      *)
  signalled,    (* processes with a signal pending                         *)
  calls,        (* calls so far                                            *)
  roused        (* history, see above                                      *)

device == <<data, flag, owner, wait_queue>>
locals == <<arg, write_val, left, elapsed>>
vars == <<device, pc, locals, signalled, calls, roused>>

(* wait: in the macro; asleep in schedule_timeout at "sleep".              *)
WaitLabel == {"prepare", "condition", "sleep", "finish"}
Label == {"user", "lock", "copy", "value", "first_condition"} \cup WaitLabel
         \cup {"relock", "clear", "active", "raise", "wake", "copy_out", "unlock"}

Goto(p, label) == pc' = [pc EXCEPT ![p] = label]

-----------------------------------------------------------------------------

(* sleepy_construct_device()                                               *)
Init ==
  /\ data = 0
  /\ flag = 0
  /\ owner = Nobody
  /\ wait_queue = {}
  /\ pc = [p \in Process |-> "user"]
  /\ arg = [w \in Writer |-> 0]
  /\ write_val = [w \in Writer |-> 0]
  /\ left = [w \in Writer |-> 0]
  /\ elapsed = [w \in Writer |-> 0]
  /\ signalled = {}
  /\ calls = 0
  /\ roused = {}

-----------------------------------------------------------------------------
(* What both handlers do                                                   *)

(* mutex_lock_killable: a fatal signal ends the wait with -EINTR.          *)
LockKillable(p) ==
  /\ pc[p] = "lock"
  /\ \/ /\ owner = Nobody
        /\ owner' = p
        /\ Goto(p, IF p \in Writer THEN "copy" ELSE "active")
        /\ UNCHANGED signalled
     \/ /\ owner # Nobody
        /\ p \in signalled
        /\ Goto(p, "user")
        /\ signalled' = signalled \ {p}
        /\ UNCHANGED owner
  /\ UNCHANGED <<data, flag, wait_queue, locals, calls, roused>>

(* ret: mutex_unlock and return.  The locals are gone (0 stands for that), *)
(* and the signal is handled on the way out.                               *)
Unlock(p) ==
  /\ pc[p] = "unlock"
  /\ owner' = Nobody
  /\ signalled' = signalled \ {p}
  /\ roused' = roused \ {p}
  /\ Goto(p, "user")
  /\ IF p \in Writer
     THEN /\ arg' = [arg EXCEPT ![p] = 0]
          /\ write_val' = [write_val EXCEPT ![p] = 0]
          /\ left' = [left EXCEPT ![p] = 0]
          /\ elapsed' = [elapsed EXCEPT ![p] = 0]
     ELSE UNCHANGED locals
  /\ UNCHANGED <<data, flag, wait_queue, calls>>

-----------------------------------------------------------------------------
(* sleepy_write()                                                          *)

(* A write of four bytes.  One of another size returns -EINVAL at once.    *)
CallWrite(w) ==
  /\ pc[w] = "user"
  /\ calls < MaxCalls
  /\ calls' = calls + 1
  /\ \E n \in Seconds : arg' = [arg EXCEPT ![w] = n]
  /\ Goto(w, "lock")
  /\ UNCHANGED <<device, write_val, left, elapsed, signalled, roused>>

(* copy_from_user into dev->data, or -EFAULT                               *)
CopyFromUser(w) ==
  /\ pc[w] = "copy"
  /\ \/ /\ data' = arg[w]
        /\ Goto(w, "value")
     \/ /\ Goto(w, "unlock")
        /\ UNCHANGED data
  /\ UNCHANGED <<flag, owner, wait_queue, locals, signalled, calls, roused>>

(* Variant: the number is loaded after the unlock.                         *)
UnlockThenValue(w) ==
  /\ pc[w] = "value"
  /\ IF owner = w
     THEN owner' = Nobody /\ UNCHANGED <<pc, write_val, left, elapsed>>
     ELSE /\ write_val' = [write_val EXCEPT ![w] = data]
          /\ left' = [left EXCEPT ![w] = data * HZ]
          /\ elapsed' = [elapsed EXCEPT ![w] = 0]
          /\ Goto(w, "first_condition")
          /\ UNCHANGED owner
  /\ UNCHANGED <<data, flag, wait_queue, arg, signalled, calls, roused>>

(* write_val = *dev->data; a negative one returns 0; otherwise             *)
(* sleep = jiffies and the mutex is released.                              *)
Value(w) ==
  /\ pc[w] = "value"
  /\ write_val' = [write_val EXCEPT ![w] = data]
  /\ IF data < 0
     THEN /\ Goto(w, "unlock")
          /\ UNCHANGED <<owner, left, elapsed>>
     ELSE /\ left' = [left EXCEPT ![w] = data * HZ]
          /\ elapsed' = [elapsed EXCEPT ![w] = 0]
          /\ owner' = Nobody
          /\ Goto(w, "first_condition")
  /\ UNCHANGED <<data, flag, wait_queue, arg, signalled, calls, roused>>

(* wait_event_interruptible_timeout: dev->flag != 0 at once                *)
FirstCondition(w) ==
  /\ pc[w] = "first_condition"
  /\ Goto(w, IF flag # 0 THEN "relock" ELSE "prepare")
  /\ UNCHANGED <<device, locals, signalled, calls, roused>>

(* prepare_to_wait                                                         *)
PrepareToWait(w) ==
  /\ pc[w] = "prepare"
  /\ wait_queue' = wait_queue \cup {w}
  /\ Goto(w, "condition")
  /\ UNCHANGED <<data, flag, owner, locals, signalled, calls, roused>>

(* dev->flag != 0, signal_pending, or to sleep                             *)
Condition(w) ==
  /\ pc[w] = "condition"
  /\ IF flag = 0 /\ w \in signalled
     THEN left' = [left EXCEPT ![w] = -1]
     ELSE UNCHANGED left
  /\ Goto(w, IF flag # 0 \/ w \in signalled THEN "finish" ELSE "sleep")
  /\ UNCHANGED <<device, arg, write_val, elapsed, signalled, calls, roused>>

(* schedule_timeout returns: woken, the timer has run, or a signal came.   *)
(* With time left the loop goes round.                                     *)
WakeUp(w) ==
  /\ pc[w] = "sleep"
  /\ w \notin wait_queue \/ left[w] = 0 \/ w \in signalled
  /\ Goto(w, IF left[w] = 0 THEN "finish" ELSE "prepare")
  /\ UNCHANGED <<device, locals, signalled, calls, roused>>

(* finish_wait, then woken_up = jiffies                                    *)
FinishWait(w) ==
  /\ pc[w] = "finish"
  /\ wait_queue' = wait_queue \ {w}
  /\ Goto(w, "relock")
  /\ UNCHANGED <<data, flag, owner, locals, signalled, calls, roused>>

(* mutex_lock, whatever the signals                                        *)
Relock(w) ==
  /\ pc[w] = "relock"
  /\ owner = Nobody
  /\ owner' = w
  /\ Goto(w, "clear")
  /\ UNCHANGED <<data, flag, wait_queue, locals, signalled, calls, roused>>

(* Variant: only a writer that was woken by a read resets the flag.        *)
ClearIfInterrupted(w) ==
  /\ pc[w] = "clear"
  /\ flag' = IF left[w] # 0 THEN 0 ELSE flag
  /\ Goto(w, "unlock")
  /\ UNCHANGED <<data, owner, wait_queue, locals, signalled, calls, roused>>

(* dev->flag = 0, and the return value                                     *)
ClearFlag(w) ==
  /\ pc[w] = "clear"
  /\ flag' = 0
  /\ Goto(w, "unlock")
  /\ UNCHANGED <<data, owner, wait_queue, locals, signalled, calls, roused>>

-----------------------------------------------------------------------------
(* sleepy_read()                                                           *)

CallRead(r) ==
  /\ pc[r] = "user"
  /\ calls < MaxCalls
  /\ calls' = calls + 1
  /\ Goto(r, "lock")
  /\ UNCHANGED <<device, locals, signalled, roused>>

(* waitqueue_active() == 0: return                                         *)
QueueActive(r) ==
  /\ pc[r] = "active"
  /\ Goto(r, IF wait_queue = {} THEN "unlock" ELSE "raise")
  /\ UNCHANGED <<device, locals, signalled, calls, roused>>

(* dev->flag = 1                                                           *)
RaiseFlag(r) ==
  /\ pc[r] = "raise"
  /\ flag' = 1
  /\ Goto(r, "wake")
  /\ UNCHANGED <<data, owner, wait_queue, locals, signalled, calls, roused>>

(* Variant: one sleeper is woken, as with exclusive waiters.               *)
WakeOne(r) ==
  /\ pc[r] = "wake"
  /\ \E w \in Writer : wait_queue' = wait_queue \ {w}
  /\ roused' = roused \cup {w \in wait_queue : pc[w] = "sleep"}
  /\ Goto(r, "copy_out")
  /\ UNCHANGED <<data, flag, owner, locals, signalled, calls>>

(* wake_up_interruptible                                                   *)
WakeQueue(r) ==
  /\ pc[r] = "wake"
  /\ wait_queue' = {}
  /\ roused' = roused \cup {w \in wait_queue : pc[w] = "sleep"}
  /\ Goto(r, "copy_out")
  /\ UNCHANGED <<data, flag, owner, locals, signalled, calls>>

(* Variant: an error of copy_to_user returns without the unlock.           *)
CopyToUserReturns(r) ==
  /\ pc[r] = "copy_out"
  /\ \E label \in {"unlock", "user"} : Goto(r, label)
  /\ UNCHANGED <<device, locals, signalled, calls, roused>>

(* copy_to_user, or -EFAULT                                                *)
CopyToUser(r) ==
  /\ pc[r] = "copy_out"
  /\ Goto(r, "unlock")
  /\ UNCHANGED <<device, locals, signalled, calls, roused>>

-----------------------------------------------------------------------------
(* The kernel                                                              *)

(* A writer counts jiffies until it has loaded woken_up.                   *)
Counting(w) == pc[w] \in {"first_condition"} \cup WaitLabel

Tick ==
  /\ \E w \in Writer : Counting(w)
  /\ elapsed' = [w \in Writer |->
                   IF Counting(w) /\ elapsed[w] < MaxElapsed THEN elapsed[w] + 1 ELSE elapsed[w]]
  /\ left' = [w \in Writer |->
                IF pc[w] = "sleep" /\ left[w] > 0 THEN left[w] - 1 ELSE left[w]]
  /\ UNCHANGED <<device, pc, arg, write_val, signalled, calls, roused>>

(* A signal is looked at in two places, so it may as well arrive there: in *)
(* the wait for the mutex, where only a fatal one counts, and in the sleep. *)
Signal(p) ==
  /\ pc[p] \in {"lock", "condition", "sleep"}
  /\ p \notin signalled
  /\ signalled' = signalled \cup {p}
  /\ UNCHANGED <<device, pc, locals, calls, roused>>

WriteStep(w) ==
  \/ CopyFromUser(w) \/ Value(w) \/ FirstCondition(w) \/ PrepareToWait(w)
  \/ Condition(w) \/ WakeUp(w) \/ FinishWait(w) \/ Relock(w) \/ ClearFlag(w)

ReadStep(r) == QueueActive(r) \/ RaiseFlag(r) \/ WakeQueue(r) \/ CopyToUser(r)

Step(p) ==
  \/ LockKillable(p) \/ Unlock(p)
  \/ p \in Writer /\ WriteStep(p)
  \/ p \in Reader /\ ReadStep(p)

AllReturned ==
  /\ \A p \in Process : pc[p] = "user"
  /\ calls = MaxCalls
  /\ UNCHANGED vars

Next ==
  \/ \E p \in Process : Step(p) \/ Signal(p)
  \/ \E w \in Writer : CallWrite(w)
  \/ \E r \in Reader : CallRead(r)
  \/ Tick
  \/ AllReturned

Spec == Init /\ [][Next]_vars

(* Every process is scheduled and jiffies advance; nobody has to call.     *)
Fairness == WF_vars(Tick) /\ \A p \in Process : WF_vars(Step(p))

FairSpec == Spec /\ Fairness

-----------------------------------------------------------------------------
(* Properties                                                              *)

(* Types.                                                                  *)
TypeOK ==
  /\ data \in Seconds \cup {0}
  /\ flag \in {0, 1}
  /\ owner \in Process \cup {Nobody}
  /\ wait_queue \subseteq Writer
  /\ pc \in [Process -> Label]
  /\ arg \in [Writer -> Seconds \cup {0}]
  /\ write_val \in [Writer -> Seconds \cup {0}]
  /\ left \in [Writer -> -1 .. MaxElapsed]
  /\ elapsed \in [Writer -> 0 .. MaxElapsed]
  /\ signalled \subseteq Process
  /\ calls \in 0 .. MaxCalls
  /\ roused \subseteq Writer

(* Whoever is between a lock and an unlock has the mutex, alone, and each  *)
(* return has given it back: on every error path too.                      *)
Locked(p) ==
  pc[p] \in {"copy", "value", "clear", "active", "raise", "wake", "copy_out", "unlock"}
MutexDiscipline == \A p \in Process : owner = p <=> Locked(p)

(* The flag does not outlive the writers it was raised for: as long as it  *)
(* is 1 some writer is on its way to reset it, so that a write that comes  *)
(* after the others have returned sleeps.  A reader decides on a queue     *)
(* that writers leave without the mutex, and writers that time out reset   *)
(* the flag as well.                                                       *)
FlagHasResetter ==
  flag = 1 => \E w \in Writer : pc[w] \in WaitLabel \cup {"relock", "clear"}

(* No wakeup is lost: while the flag is up nobody stays asleep in the      *)
(* queue, but for the moment between a reader's flag = 1 and its wake_up.  *)
NoLostWakeup ==
  flag = 1 /\ (\E w \in wait_queue : pc[w] = "sleep") => \E r \in Reader : pc[r] = "wake"

(* A writer sleeps for what it wrote, whatever other writers store in      *)
(* dev->data meanwhile.                                                    *)
SleepsForItsNumber ==
  \A w \in Writer : Counting(w) => write_val[w] = arg[w]

(* sleepy.c:105, "wake up all sleeping processes": a writer that a read    *)
(* found asleep does not go back to sleep.                                 *)
NoneSleepsOn == \A w \in roused : pc[w] = "sleep" => w \notin wait_queue

(* Every call returns: a sleeping writer does by its timeout at the        *)
(* latest, and the mutex is free again and again.                          *)
CallsReturn == \A p \in Process : pc[p] # "user" ~> pc[p] = "user"

=============================================================================
