---------------------------- MODULE SleepyProofs ----------------------------
(***************************************************************************)
(* For any number of writers and readers, any numbers that are written and *)
(* any number of calls: sleepy_mutex is given back on each path, no wakeup *)
(* is lost, the flag does not outlive the writers it was raised for, and a *)
(* writer sleeps for its own number.                                       *)
(***************************************************************************)
EXTENDS Sleepy, TLAPS

(* Who is in the wait queue is in the macro.                               *)
QueueWaits == \A w \in wait_queue : pc[w] \in WaitLabel

(* When a reader raises the flag, one of the writers it has seen in the    *)
(* queue is there, or waits for the mutex that the reader holds.           *)
RaisedForSomeone ==
  \A r \in Reader : pc[r] = "raise" => \E w \in Writer : pc[w] \in WaitLabel \cup {"relock"}

(* From copy_from_user() to the load of the local, dev->data is what this  *)
(* writer has stored.                                                      *)
NumberInData == \A w \in Writer : pc[w] = "value" => data = arg[w]

(* The inductive invariant.                                                *)
IInv ==
  /\ TypeOK
  /\ MutexDiscipline
  /\ QueueWaits
  /\ RaisedForSomeone
  /\ NumberInData
  /\ FlagHasResetter
  /\ NoLostWakeup
  /\ SleepsForItsNumber

-----------------------------------------------------------------------------
(* Both handlers                                                           *)

LEMMA LockKillableStep ==
  ASSUME IInv, NEW p \in Process, LockKillable(p)
  PROVE  IInv'
<1> USE DEF LockKillable, IInv, Process, Goto, device, locals
<1>1. TypeOK'
  BY ProcessAssumption, TimeAssumption DEF TypeOK, Label, WaitLabel
<1>2. MutexDiscipline'
  BY ProcessAssumption DEF MutexDiscipline, Locked, TypeOK
<1>3. QueueWaits'
  BY ProcessAssumption DEF QueueWaits, WaitLabel, TypeOK
<1>4. RaisedForSomeone' /\ FlagHasResetter'
  BY ProcessAssumption
     DEF RaisedForSomeone, FlagHasResetter, QueueWaits, MutexDiscipline, Locked, WaitLabel, TypeOK
<1>5. NoLostWakeup'
  BY ProcessAssumption DEF NoLostWakeup, TypeOK
<1>6. NumberInData' /\ SleepsForItsNumber'
  BY ProcessAssumption
     DEF NumberInData, SleepsForItsNumber, MutexDiscipline, Locked, Counting, WaitLabel, TypeOK
<1> QED
  BY <1>1, <1>2, <1>3, <1>4, <1>5, <1>6

LEMMA UnlockStep ==
  ASSUME IInv, NEW p \in Process, Unlock(p)
  PROVE  IInv'
<1> USE DEF Unlock, IInv, Process, Goto, device, locals
<1>1. TypeOK'
  BY ProcessAssumption, TimeAssumption DEF TypeOK, Label, WaitLabel
<1>2. MutexDiscipline'
  BY ProcessAssumption DEF MutexDiscipline, Locked, TypeOK
<1>3. QueueWaits'
  BY ProcessAssumption DEF QueueWaits, WaitLabel, TypeOK
<1>4. RaisedForSomeone' /\ FlagHasResetter'
  BY ProcessAssumption
     DEF RaisedForSomeone, FlagHasResetter, QueueWaits, MutexDiscipline, Locked, WaitLabel, TypeOK
<1>5. NoLostWakeup'
  BY ProcessAssumption DEF NoLostWakeup, TypeOK
<1>6. NumberInData' /\ SleepsForItsNumber'
  BY ProcessAssumption
     DEF NumberInData, SleepsForItsNumber, MutexDiscipline, Locked, Counting, WaitLabel, TypeOK
<1> QED
  BY <1>1, <1>2, <1>3, <1>4, <1>5, <1>6

-----------------------------------------------------------------------------
(* sleepy_write()                                                          *)

LEMMA CallWriteStep ==
  ASSUME IInv, NEW w \in Writer, CallWrite(w)
  PROVE  IInv'
<1> USE DEF CallWrite, IInv, Process, Goto, device, locals
<1>1. TypeOK'
  BY ProcessAssumption, TimeAssumption DEF TypeOK, Label, WaitLabel
<1>2. MutexDiscipline'
  BY ProcessAssumption DEF MutexDiscipline, Locked, TypeOK
<1>3. QueueWaits'
  BY ProcessAssumption DEF QueueWaits, WaitLabel, TypeOK
<1>4. RaisedForSomeone' /\ FlagHasResetter'
  BY ProcessAssumption
     DEF RaisedForSomeone, FlagHasResetter, QueueWaits, MutexDiscipline, Locked, WaitLabel, TypeOK
<1>5. NoLostWakeup'
  BY ProcessAssumption DEF NoLostWakeup, TypeOK
<1>6. NumberInData' /\ SleepsForItsNumber'
  BY ProcessAssumption
     DEF NumberInData, SleepsForItsNumber, MutexDiscipline, Locked, Counting, WaitLabel, TypeOK
<1> QED
  BY <1>1, <1>2, <1>3, <1>4, <1>5, <1>6

LEMMA CopyFromUserStep ==
  ASSUME IInv, NEW w \in Writer, CopyFromUser(w)
  PROVE  IInv'
<1> USE DEF CopyFromUser, IInv, Process, Goto, device, locals
<1>1. TypeOK'
  BY ProcessAssumption, TimeAssumption DEF TypeOK, Label, WaitLabel
<1>2. MutexDiscipline'
  BY ProcessAssumption DEF MutexDiscipline, Locked, TypeOK
<1>3. QueueWaits'
  BY ProcessAssumption DEF QueueWaits, WaitLabel, TypeOK
<1>4. RaisedForSomeone' /\ FlagHasResetter'
  BY ProcessAssumption
     DEF RaisedForSomeone, FlagHasResetter, QueueWaits, MutexDiscipline, Locked, WaitLabel, TypeOK
<1>5. NoLostWakeup'
  BY ProcessAssumption DEF NoLostWakeup, TypeOK
<1>6. NumberInData' /\ SleepsForItsNumber'
  BY ProcessAssumption
     DEF NumberInData, SleepsForItsNumber, MutexDiscipline, Locked, Counting, WaitLabel, TypeOK
<1> QED
  BY <1>1, <1>2, <1>3, <1>4, <1>5, <1>6

LEMMA ValueStep ==
  ASSUME IInv, NEW w \in Writer, Value(w)
  PROVE  IInv'
<1> USE DEF Value, IInv, Process, Goto, device, locals
<1>1. TypeOK'
  BY ProcessAssumption, TimeAssumption DEF TypeOK, Label, WaitLabel
<1>2. MutexDiscipline'
  BY ProcessAssumption DEF MutexDiscipline, Locked, TypeOK
<1>3. QueueWaits'
  BY ProcessAssumption DEF QueueWaits, WaitLabel, TypeOK
<1>4. RaisedForSomeone' /\ FlagHasResetter'
  BY ProcessAssumption
     DEF RaisedForSomeone, FlagHasResetter, QueueWaits, MutexDiscipline, Locked, WaitLabel, TypeOK
<1>5. NoLostWakeup'
  BY ProcessAssumption DEF NoLostWakeup, TypeOK
<1>6. NumberInData' /\ SleepsForItsNumber'
  BY ProcessAssumption
     DEF NumberInData, SleepsForItsNumber, MutexDiscipline, Locked, Counting, WaitLabel, TypeOK
<1> QED
  BY <1>1, <1>2, <1>3, <1>4, <1>5, <1>6

LEMMA FirstConditionStep ==
  ASSUME IInv, NEW w \in Writer, FirstCondition(w)
  PROVE  IInv'
<1> USE DEF FirstCondition, IInv, Process, Goto, device, locals
<1>1. TypeOK'
  BY ProcessAssumption, TimeAssumption DEF TypeOK, Label, WaitLabel
<1>2. MutexDiscipline'
  BY ProcessAssumption DEF MutexDiscipline, Locked, TypeOK
<1>3. QueueWaits'
  BY ProcessAssumption DEF QueueWaits, WaitLabel, TypeOK
<1>4. RaisedForSomeone' /\ FlagHasResetter'
  BY ProcessAssumption
     DEF RaisedForSomeone, FlagHasResetter, QueueWaits, MutexDiscipline, Locked, WaitLabel, TypeOK
<1>5. NoLostWakeup'
  BY ProcessAssumption DEF NoLostWakeup, TypeOK
<1>6. NumberInData' /\ SleepsForItsNumber'
  BY ProcessAssumption
     DEF NumberInData, SleepsForItsNumber, MutexDiscipline, Locked, Counting, WaitLabel, TypeOK
<1> QED
  BY <1>1, <1>2, <1>3, <1>4, <1>5, <1>6

LEMMA PrepareToWaitStep ==
  ASSUME IInv, NEW w \in Writer, PrepareToWait(w)
  PROVE  IInv'
<1> USE DEF PrepareToWait, IInv, Process, Goto, device, locals
<1>1. TypeOK'
  BY ProcessAssumption, TimeAssumption DEF TypeOK, Label, WaitLabel
<1>2. MutexDiscipline'
  BY ProcessAssumption DEF MutexDiscipline, Locked, TypeOK
<1>3. QueueWaits'
  BY ProcessAssumption DEF QueueWaits, WaitLabel, TypeOK
<1>4. RaisedForSomeone' /\ FlagHasResetter'
  BY ProcessAssumption
     DEF RaisedForSomeone, FlagHasResetter, QueueWaits, MutexDiscipline, Locked, WaitLabel, TypeOK
<1>5. NoLostWakeup'
  BY ProcessAssumption DEF NoLostWakeup, TypeOK
<1>6. NumberInData' /\ SleepsForItsNumber'
  BY ProcessAssumption
     DEF NumberInData, SleepsForItsNumber, MutexDiscipline, Locked, Counting, WaitLabel, TypeOK
<1> QED
  BY <1>1, <1>2, <1>3, <1>4, <1>5, <1>6

LEMMA ConditionStep ==
  ASSUME IInv, NEW w \in Writer, Condition(w)
  PROVE  IInv'
<1> USE DEF Condition, IInv, Process, Goto, device, locals
<1>1. TypeOK'
  BY ProcessAssumption, TimeAssumption DEF TypeOK, Label, WaitLabel
<1>2. MutexDiscipline'
  BY ProcessAssumption DEF MutexDiscipline, Locked, TypeOK
<1>3. QueueWaits'
  BY ProcessAssumption DEF QueueWaits, WaitLabel, TypeOK
<1>4. RaisedForSomeone' /\ FlagHasResetter'
  BY ProcessAssumption
     DEF RaisedForSomeone, FlagHasResetter, QueueWaits, MutexDiscipline, Locked, WaitLabel, TypeOK
<1>5. NoLostWakeup'
  BY ProcessAssumption DEF NoLostWakeup, TypeOK
<1>6. NumberInData' /\ SleepsForItsNumber'
  BY ProcessAssumption
     DEF NumberInData, SleepsForItsNumber, MutexDiscipline, Locked, Counting, WaitLabel, TypeOK
<1> QED
  BY <1>1, <1>2, <1>3, <1>4, <1>5, <1>6

LEMMA WakeUpStep ==
  ASSUME IInv, NEW w \in Writer, WakeUp(w)
  PROVE  IInv'
<1> USE DEF WakeUp, IInv, Process, Goto, device, locals
<1>1. TypeOK'
  BY ProcessAssumption, TimeAssumption DEF TypeOK, Label, WaitLabel
<1>2. MutexDiscipline'
  BY ProcessAssumption DEF MutexDiscipline, Locked, TypeOK
<1>3. QueueWaits'
  BY ProcessAssumption DEF QueueWaits, WaitLabel, TypeOK
<1>4. RaisedForSomeone' /\ FlagHasResetter'
  BY ProcessAssumption
     DEF RaisedForSomeone, FlagHasResetter, QueueWaits, MutexDiscipline, Locked, WaitLabel, TypeOK
<1>5. NoLostWakeup'
  BY ProcessAssumption DEF NoLostWakeup, TypeOK
<1>6. NumberInData' /\ SleepsForItsNumber'
  BY ProcessAssumption
     DEF NumberInData, SleepsForItsNumber, MutexDiscipline, Locked, Counting, WaitLabel, TypeOK
<1> QED
  BY <1>1, <1>2, <1>3, <1>4, <1>5, <1>6

LEMMA FinishWaitStep ==
  ASSUME IInv, NEW w \in Writer, FinishWait(w)
  PROVE  IInv'
<1> USE DEF FinishWait, IInv, Process, Goto, device, locals
<1>1. TypeOK'
  BY ProcessAssumption, TimeAssumption DEF TypeOK, Label, WaitLabel
<1>2. MutexDiscipline'
  BY ProcessAssumption DEF MutexDiscipline, Locked, TypeOK
<1>3. QueueWaits'
  BY ProcessAssumption DEF QueueWaits, WaitLabel, TypeOK
<1>4. RaisedForSomeone' /\ FlagHasResetter'
  BY ProcessAssumption
     DEF RaisedForSomeone, FlagHasResetter, QueueWaits, MutexDiscipline, Locked, WaitLabel, TypeOK
<1>5. NoLostWakeup'
  BY ProcessAssumption DEF NoLostWakeup, TypeOK
<1>6. NumberInData' /\ SleepsForItsNumber'
  BY ProcessAssumption
     DEF NumberInData, SleepsForItsNumber, MutexDiscipline, Locked, Counting, WaitLabel, TypeOK
<1> QED
  BY <1>1, <1>2, <1>3, <1>4, <1>5, <1>6

LEMMA RelockStep ==
  ASSUME IInv, NEW w \in Writer, Relock(w)
  PROVE  IInv'
<1> USE DEF Relock, IInv, Process, Goto, device, locals
<1>1. TypeOK'
  BY ProcessAssumption, TimeAssumption DEF TypeOK, Label, WaitLabel
<1>2. MutexDiscipline'
  BY ProcessAssumption DEF MutexDiscipline, Locked, TypeOK
<1>3. QueueWaits'
  BY ProcessAssumption DEF QueueWaits, WaitLabel, TypeOK
<1>4. RaisedForSomeone' /\ FlagHasResetter'
  BY ProcessAssumption
     DEF RaisedForSomeone, FlagHasResetter, QueueWaits, MutexDiscipline, Locked, WaitLabel, TypeOK
<1>5. NoLostWakeup'
  BY ProcessAssumption DEF NoLostWakeup, TypeOK
<1>6. NumberInData' /\ SleepsForItsNumber'
  BY ProcessAssumption
     DEF NumberInData, SleepsForItsNumber, MutexDiscipline, Locked, Counting, WaitLabel, TypeOK
<1> QED
  BY <1>1, <1>2, <1>3, <1>4, <1>5, <1>6

LEMMA ClearFlagStep ==
  ASSUME IInv, NEW w \in Writer, ClearFlag(w)
  PROVE  IInv'
<1> USE DEF ClearFlag, IInv, Process, Goto, device, locals
<1>1. TypeOK'
  BY ProcessAssumption, TimeAssumption DEF TypeOK, Label, WaitLabel
<1>2. MutexDiscipline'
  BY ProcessAssumption DEF MutexDiscipline, Locked, TypeOK
<1>3. QueueWaits'
  BY ProcessAssumption DEF QueueWaits, WaitLabel, TypeOK
<1>4. RaisedForSomeone' /\ FlagHasResetter'
  BY ProcessAssumption
     DEF RaisedForSomeone, FlagHasResetter, QueueWaits, MutexDiscipline, Locked, WaitLabel, TypeOK
<1>5. NoLostWakeup'
  BY ProcessAssumption DEF NoLostWakeup, TypeOK
<1>6. NumberInData' /\ SleepsForItsNumber'
  BY ProcessAssumption
     DEF NumberInData, SleepsForItsNumber, MutexDiscipline, Locked, Counting, WaitLabel, TypeOK
<1> QED
  BY <1>1, <1>2, <1>3, <1>4, <1>5, <1>6

-----------------------------------------------------------------------------
(* sleepy_read()                                                           *)

LEMMA CallReadStep ==
  ASSUME IInv, NEW r \in Reader, CallRead(r)
  PROVE  IInv'
<1> USE DEF CallRead, IInv, Process, Goto, device, locals
<1>1. TypeOK'
  BY ProcessAssumption, TimeAssumption DEF TypeOK, Label, WaitLabel
<1>2. MutexDiscipline'
  BY ProcessAssumption DEF MutexDiscipline, Locked, TypeOK
<1>3. QueueWaits'
  BY ProcessAssumption DEF QueueWaits, WaitLabel, TypeOK
<1>4. RaisedForSomeone' /\ FlagHasResetter'
  BY ProcessAssumption
     DEF RaisedForSomeone, FlagHasResetter, QueueWaits, MutexDiscipline, Locked, WaitLabel, TypeOK
<1>5. NoLostWakeup'
  BY ProcessAssumption DEF NoLostWakeup, TypeOK
<1>6. NumberInData' /\ SleepsForItsNumber'
  BY ProcessAssumption
     DEF NumberInData, SleepsForItsNumber, MutexDiscipline, Locked, Counting, WaitLabel, TypeOK
<1> QED
  BY <1>1, <1>2, <1>3, <1>4, <1>5, <1>6

LEMMA QueueActiveStep ==
  ASSUME IInv, NEW r \in Reader, QueueActive(r)
  PROVE  IInv'
<1> USE DEF QueueActive, IInv, Process, Goto, device, locals
<1>1. TypeOK'
  BY ProcessAssumption, TimeAssumption DEF TypeOK, Label, WaitLabel
<1>2. MutexDiscipline'
  BY ProcessAssumption DEF MutexDiscipline, Locked, TypeOK
<1>3. QueueWaits'
  BY ProcessAssumption DEF QueueWaits, WaitLabel, TypeOK
<1>4. RaisedForSomeone' /\ FlagHasResetter'
  BY ProcessAssumption
     DEF RaisedForSomeone, FlagHasResetter, QueueWaits, MutexDiscipline, Locked, WaitLabel, TypeOK
<1>5. NoLostWakeup'
  BY ProcessAssumption DEF NoLostWakeup, TypeOK
<1>6. NumberInData' /\ SleepsForItsNumber'
  BY ProcessAssumption
     DEF NumberInData, SleepsForItsNumber, MutexDiscipline, Locked, Counting, WaitLabel, TypeOK
<1> QED
  BY <1>1, <1>2, <1>3, <1>4, <1>5, <1>6

LEMMA RaiseFlagStep ==
  ASSUME IInv, NEW r \in Reader, RaiseFlag(r)
  PROVE  IInv'
<1> USE DEF RaiseFlag, IInv, Process, Goto, device, locals
<1>1. TypeOK'
  BY ProcessAssumption, TimeAssumption DEF TypeOK, Label, WaitLabel
<1>2. MutexDiscipline'
  BY ProcessAssumption DEF MutexDiscipline, Locked, TypeOK
<1>3. QueueWaits'
  BY ProcessAssumption DEF QueueWaits, WaitLabel, TypeOK
<1>4. RaisedForSomeone' /\ FlagHasResetter'
  BY ProcessAssumption
     DEF RaisedForSomeone, FlagHasResetter, QueueWaits, MutexDiscipline, Locked, WaitLabel, TypeOK
<1>5. NoLostWakeup'
  BY ProcessAssumption DEF NoLostWakeup, TypeOK
<1>6. NumberInData' /\ SleepsForItsNumber'
  BY ProcessAssumption
     DEF NumberInData, SleepsForItsNumber, MutexDiscipline, Locked, Counting, WaitLabel, TypeOK
<1> QED
  BY <1>1, <1>2, <1>3, <1>4, <1>5, <1>6

LEMMA WakeQueueStep ==
  ASSUME IInv, NEW r \in Reader, WakeQueue(r)
  PROVE  IInv'
<1> USE DEF WakeQueue, IInv, Process, Goto, device, locals
<1>1. TypeOK'
  BY ProcessAssumption, TimeAssumption DEF TypeOK, Label, WaitLabel
<1>2. MutexDiscipline'
  BY ProcessAssumption DEF MutexDiscipline, Locked, TypeOK
<1>3. QueueWaits'
  BY ProcessAssumption DEF QueueWaits, WaitLabel, TypeOK
<1>4. RaisedForSomeone' /\ FlagHasResetter'
  BY ProcessAssumption
     DEF RaisedForSomeone, FlagHasResetter, QueueWaits, MutexDiscipline, Locked, WaitLabel, TypeOK
<1>5. NoLostWakeup'
  BY ProcessAssumption DEF NoLostWakeup, TypeOK
<1>6. NumberInData' /\ SleepsForItsNumber'
  BY ProcessAssumption
     DEF NumberInData, SleepsForItsNumber, MutexDiscipline, Locked, Counting, WaitLabel, TypeOK
<1> QED
  BY <1>1, <1>2, <1>3, <1>4, <1>5, <1>6

LEMMA CopyToUserStep ==
  ASSUME IInv, NEW r \in Reader, CopyToUser(r)
  PROVE  IInv'
<1> USE DEF CopyToUser, IInv, Process, Goto, device, locals
<1>1. TypeOK'
  BY ProcessAssumption, TimeAssumption DEF TypeOK, Label, WaitLabel
<1>2. MutexDiscipline'
  BY ProcessAssumption DEF MutexDiscipline, Locked, TypeOK
<1>3. QueueWaits'
  BY ProcessAssumption DEF QueueWaits, WaitLabel, TypeOK
<1>4. RaisedForSomeone' /\ FlagHasResetter'
  BY ProcessAssumption
     DEF RaisedForSomeone, FlagHasResetter, QueueWaits, MutexDiscipline, Locked, WaitLabel, TypeOK
<1>5. NoLostWakeup'
  BY ProcessAssumption DEF NoLostWakeup, TypeOK
<1>6. NumberInData' /\ SleepsForItsNumber'
  BY ProcessAssumption
     DEF NumberInData, SleepsForItsNumber, MutexDiscipline, Locked, Counting, WaitLabel, TypeOK
<1> QED
  BY <1>1, <1>2, <1>3, <1>4, <1>5, <1>6

-----------------------------------------------------------------------------
(* The kernel                                                              *)

LEMMA TickStep ==
  ASSUME IInv, Tick
  PROVE  IInv'
<1> USE DEF Tick, IInv, Process, Goto, device, locals
<1>1. TypeOK'
  BY ProcessAssumption, TimeAssumption DEF TypeOK, Label, WaitLabel
<1>2. NumberInData' /\ SleepsForItsNumber'
  BY ProcessAssumption
     DEF NumberInData, SleepsForItsNumber, MutexDiscipline, Locked, Counting, WaitLabel, TypeOK
<1>3. MutexDiscipline' /\ QueueWaits' /\ RaisedForSomeone' /\ FlagHasResetter' /\ NoLostWakeup'
  BY DEF MutexDiscipline, QueueWaits, RaisedForSomeone, FlagHasResetter, NoLostWakeup, Locked, Counting, TypeOK
<1> QED
  BY <1>1, <1>2, <1>3

LEMMA SignalStep ==
  ASSUME IInv, NEW p \in Process, Signal(p)
  PROVE  IInv'
<1> USE DEF Signal, IInv, Process, Goto, device, locals
<1>1. TypeOK'
  BY ProcessAssumption, TimeAssumption DEF TypeOK, Label, WaitLabel
<1>2. MutexDiscipline' /\ QueueWaits' /\ RaisedForSomeone' /\ FlagHasResetter' /\ NoLostWakeup' /\ NumberInData' /\ SleepsForItsNumber'
  BY DEF MutexDiscipline, QueueWaits, RaisedForSomeone, FlagHasResetter, NoLostWakeup, NumberInData, SleepsForItsNumber, Locked, Counting, TypeOK
<1> QED
  BY <1>1, <1>2

-----------------------------------------------------------------------------
(* The theorems                                                            *)

LEMMA InitInv == Init => IInv
<1> SUFFICES ASSUME Init PROVE IInv
  OBVIOUS
<1>1. TypeOK
  BY TimeAssumption DEF Init, TypeOK, Label
<1>2. MutexDiscipline
  BY ProcessAssumption DEF Init, MutexDiscipline, Locked
<1>3. QueueWaits /\ RaisedForSomeone /\ FlagHasResetter /\ NoLostWakeup
  BY DEF Init, Process, QueueWaits, RaisedForSomeone, FlagHasResetter, NoLostWakeup
<1>4. NumberInData /\ SleepsForItsNumber
  BY DEF Init, Process, NumberInData, SleepsForItsNumber, Counting, WaitLabel
<1> QED
  BY <1>1, <1>2, <1>3, <1>4 DEF IInv

LEMMA NextInv == IInv /\ [Next]_vars => IInv'
<1> SUFFICES ASSUME IInv, [Next]_vars PROVE IInv'
  OBVIOUS
<1>1. CASE UNCHANGED vars
  BY <1>1 DEF vars, device, locals, IInv, TypeOK, MutexDiscipline, Locked, QueueWaits,
     RaisedForSomeone, NumberInData, FlagHasResetter, NoLostWakeup, SleepsForItsNumber,
     Counting
<1>2. ASSUME NEW w \in Writer, WriteStep(w) PROVE IInv'
  BY <1>2, CopyFromUserStep, ValueStep, FirstConditionStep, PrepareToWaitStep,
     ConditionStep, WakeUpStep, FinishWaitStep, RelockStep, ClearFlagStep DEF WriteStep
<1>3. ASSUME NEW r \in Reader, ReadStep(r) PROVE IInv'
  BY <1>3, QueueActiveStep, RaiseFlagStep, WakeQueueStep, CopyToUserStep DEF ReadStep
<1>4. ASSUME NEW p \in Process, Step(p) PROVE IInv'
  BY <1>2, <1>3, <1>4, LockKillableStep, UnlockStep DEF Step
<1>5. CASE AllReturned
  BY <1>1, <1>5 DEF AllReturned
<1> QED
  BY <1>1, <1>4, <1>5, SignalStep, CallWriteStep, CallReadStep, TickStep DEF Next

(* The invariant holds in every reachable state of sleepy_read() and       *)
(* sleepy_write(), with time-outs, signals and failing copies.             *)
THEOREM Inductive == Spec => []IInv
BY InitInv, NextInv, PTL DEF Spec

(* Each variable keeps its type: time that is left never passes what was   *)
(* written.                                                                *)
THEOREM TypeCorrect == Spec => []TypeOK
<1>1. IInv => TypeOK
  BY DEF IInv
<1> QED
  BY <1>1, Inductive, PTL

(* sleepy_mutex is held by a process exactly between its lock and its      *)
(* unlock, also when a copy fails or the lock is interrupted: two          *)
(* processes are never between them at a time.                             *)
THEOREM MutexDisciplineHolds == Spec => []MutexDiscipline
<1>1. IInv => MutexDiscipline
  BY DEF IInv
<1> QED
  BY <1>1, Inductive, PTL

(* No read's wake_up_interruptible() misses a writer that goes to sleep    *)
(* while the flag is up, for any number of writers and readers.            *)
THEOREM NoLostWakeupHolds == Spec => []NoLostWakeup
<1>1. IInv => NoLostWakeup
  BY DEF IInv
<1> QED
  BY <1>1, Inductive, PTL

(* The flag that a read raises is reset by a writer that is still in       *)
(* sleepy_write(): no later write finds it raised by accident for ever.    *)
THEOREM FlagHasResetterHolds == Spec => []FlagHasResetter
<1>1. IInv => FlagHasResetter
  BY DEF IInv
<1> QED
  BY <1>1, Inductive, PTL

(* The time a writer sleeps is the number it wrote, although all writers   *)
(* pass theirs through dev->data.                                          *)
THEOREM SleepsForItsNumberHolds == Spec => []SleepsForItsNumber
<1>1. IInv => SleepsForItsNumber
  BY DEF IInv
<1> QED
  BY <1>1, Inductive, PTL

=============================================================================
