--------------------------------- MODULE TSO ---------------------------------
(***************************************************************************)
(* The x86 memory model as the lock programs of hw3 rely on it: the stores *)
(* of a thread wait in a FIFO buffer of its processor, oldest first, until *)
(* memory takes them, and a load of the same thread finds the newest one.  *)
(* A fence or a locked instruction waits for the buffer to be empty.       *)
(***************************************************************************)
LOCAL INSTANCE Naturals
LOCAL INSTANCE Sequences

(* A store of val to the location var.                                     *)
StoreEntry(var, val) == [var |-> var, val |-> val]

(* Where the buffer buf holds stores to var.                               *)
Pending(buf, var) == {p \in 1 .. Len(buf) : buf[p].var = var}

(* What a thread with the buffer buf loads from var, if memory holds mem.  *)
Load(buf, var, mem) ==
  IF Pending(buf, var) = {} THEN mem
  ELSE buf[CHOOSE p \in Pending(buf, var) : \A q \in Pending(buf, var) : q <= p].val

=============================================================================
