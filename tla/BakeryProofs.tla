---------------------------- MODULE BakeryProofs ----------------------------
(***************************************************************************)
(* The inductive invariant of Bakery, and the theorems that follow from    *)
(* it for every number of threads and every number of entries.             *)
(*                                                                         *)
(* Between its second mfence and the first one of its next round a thread  *)
(* issues the same seven stores in the same order.  So its buffer is known *)
(* from how many it has issued (its label) and how many memory has         *)
(* received, and memory is known from the latter.                          *)
(***************************************************************************)
EXTENDS Bakery, TLAPS, SequenceTheorems

-----------------------------------------------------------------------------
(* Loads through the store buffer                                          *)

(* A thread whose buffer holds no store to var loads from memory.          *)
LEMMA LoadMemory ==
  ASSUME NEW buf, NEW var, NEW old, Pending(buf, var) = {}
  PROVE  Load(buf, var, old) = old
BY DEF Load

(* A thread whose newest buffered store is to var loads that one.          *)
LEMMA LoadNewest ==
  ASSUME NEW S, NEW buf \in Seq(S), NEW var, NEW old,
         buf # <<>>, buf[Len(buf)].var = var
  PROVE  Load(buf, var, old) = buf[Len(buf)].val
<1>. DEFINE n == Len(buf)
            P == Pending(buf, var)
<1>1. n \in Nat /\ n > 0
  BY EmptySeq
<1>2. n \in P /\ \A q \in P : q <= n
  BY <1>1 DEF Pending
<1>3. P \subseteq Int
  BY DEF Pending
<1>4. (CHOOSE p \in P : \A q \in P : q <= p) = n
  <2>. DEFINE c == CHOOSE p \in P : \A q \in P : q <= p
  <2>1. c \in P /\ \A q \in P : q <= c
    BY <1>2
  <2>2. c \in Int /\ c <= n /\ n <= c
    BY <1>2, <1>3, <2>1
  <2>3. c = n
    <3>. HIDE DEF c
    <3>. QED  BY <1>1, <2>2
  <2>. QED  BY <2>3
<1>. QED  BY <1>2, <1>4 DEF Load

-----------------------------------------------------------------------------
(* The stores of a round                                                   *)

(* The stores of one round, from choosing[tid] = 0 to the next             *)
(* choosing[tid] = 1; those of the doorway come after.                     *)
Stores ==
  << StoreEntry("choosing", 0),
     StoreEntry("in_cs", 1), StoreEntry("in_cs", 2), StoreEntry("in_cs", 3),
     StoreEntry("in_cs", 0), StoreEntry("ticket", 0), StoreEntry("choosing", 1) >>

(* How many of them t has issued, and how many are in memory.              *)
Issued(t) ==
  CASE pc[t] \in WaitLabel -> 1
    [] pc[t] \in {"assert", "increment", "aborted"} -> 1 + k[t]
    [] pc[t] = "clear" -> 4
    [] pc[t] = "unlock" -> 5
    [] pc[t] \in {"loop", "exit", "start"} -> 6
    [] OTHER -> 7

Drained(t) == Issued(t) - Len(sb[t])

Doorway(t) == pc[t] \in DoorwayLabel

LocalInv(t) ==
  /\ pc[t] \in WaitLabel => i[t] < N /\ i[t] # t /\ k[t] = 0
  /\ pc[t] = "max_compare" => i[t] > 0
  /\ pc[t] = "max_keep" => i[t] > 0 /\ i[t] < N
  /\ pc[t] = "increment" => k[t] < 3
  /\ pc[t] = "clear" => k[t] = 3
  /\ pc[t] \notin {"loop", "exit"} => cnt[t] < MaxEntries

BufferInv(t) ==
  /\ pc[t] \in {"max_compare", "max_keep"} =>
       /\ sb[t] = <<>>
       /\ choosing[t] = 1
       /\ ticket[t] = 0
  /\ pc[t] = "drawn" =>
       /\ choosing[t] = 1
       /\ \/ sb[t] = <<>> /\ ticket[t] = m[t] + 1
          \/ sb[t] = <<StoreEntry("ticket", m[t] + 1)>> /\ ticket[t] = 0
  /\ ~ Doorway(t) =>
       /\ Len(sb[t]) <= Issued(t)
       /\ \A p \in 1 .. Len(sb[t]) : sb[t][p] = Stores[Drained(t) + p]
       /\ choosing[t] = IF Drained(t) \in 1 .. 6 THEN 0 ELSE 1
       /\ ticket[t] = 0 <=> Drained(t) >= 6

(* in_cs in memory is what the thread inside has drained.                  *)
Inside(t) == ~ Doorway(t) /\ Drained(t) \in 2 .. 4
CounterInv ==
  /\ \A t \in Thread : Inside(t) => in_cs = Drained(t) - 1
  /\ (\A t \in Thread : ~ Inside(t)) => in_cs = 0
  /\ NoAssertFails

(* t has seen choosing[j] = 0, and t has passed j for good.                *)
PassedChoosing(t, j) ==
  \/ Held(t)
  \/ pc[t] \in WaitLabel /\ j < i[t]
  \/ pc[t] \in WaitLabel \ {"wait_choosing"} /\ j = i[t]
Passed(t, j) ==
  \/ Held(t)
  \/ pc[t] \in WaitLabel /\ j < i[t]

Before(t, j) == ticket[t] < ticket[j] \/ (ticket[t] = ticket[j] /\ t < j)

(* Those ahead of j keep their number, and j draws a larger one.           *)
AheadInv(j) ==
  /\ \A u \in ahead[j] : u # j /\ ticket[u] # 0 /\ ~ Doorway(u)
  /\ pc[j] = "max_compare" => \A u \in ahead[j] : u < i[j] => ticket[u] <= m[j]
  /\ pc[j] = "max_keep" => \A u \in ahead[j] : u < i[j] => ticket[u] < ticket[i[j]]
  /\ pc[j] = "drawn" => \A u \in ahead[j] : ticket[u] <= m[j]
  /\ pc[j] \in WaitLabel => \A u \in ahead[j] : ticket[u] < ticket[j]
  /\ ~ Doorway(j) /\ pc[j] \notin WaitLabel => ahead[j] = {}

PassInv(t, j) ==
  /\ PassedChoosing(t, j) /\ Doorway(j) => t \in ahead[j]
  /\ Passed(t, j) /\ ~ Doorway(j) /\ ticket[j] # 0 => Before(t, j)
  /\ pc[t] = "wait_equal" /\ i[t] = j /\ ~ Doorway(j) /\ ticket[j] # 0
       => ticket[t] <= ticket[j]

(* What a thread knows of itself: types, counters, its buffer.             *)
LowInv == TypeOK /\ \A t \in Thread : LocalInv(t) /\ BufferInv(t)

(* The inductive invariant.                                                *)
IInv ==
  /\ LowInv
  /\ \A t \in Thread : AheadInv(t)
  /\ \A t, j \in Thread : t # j => PassInv(t, j)
  /\ CounterInv

-----------------------------------------------------------------------------
(* What the invariant says of one state                                    *)

(* The numbers of stores issued and drained outside the doorway.           *)
LEMMA Counts ==
  ASSUME LowInv, NEW t \in Thread, ~ Doorway(t)
  PROVE  /\ sb[t] \in Seq(StoreSet)
         /\ Len(sb[t]) \in Nat
         /\ Issued(t) \in 1 .. 7
         /\ Drained(t) \in 0 .. Issued(t)
<1>1. sb[t] \in Seq(StoreSet) /\ k[t] \in 0 .. 3
  BY DEF LowInv, TypeOK
<1>2. Len(sb[t]) \in Nat
  BY <1>1
<1>3. Issued(t) \in 1 .. 7
  BY <1>1 DEF Issued, WaitLabel
<1>4. Len(sb[t]) <= Issued(t)
  BY DEF LowInv, BufferInv
<1>. QED  BY <1>1, <1>2, <1>3, <1>4 DEF Drained

(* In terms of memory: the lock is held outside the doorway and the wait,  *)
(* as long as memory shows a ticket.                                       *)
HeldInMemory ==
  \A t \in Thread :
    Held(t) <=> ~ Doorway(t) /\ pc[t] \notin WaitLabel /\ ticket[t] # 0

LEMMA HeldIsInMemory == LowInv => HeldInMemory
<1>. SUFFICES ASSUME LowInv, NEW t \in Thread
              PROVE  Held(t) <=> ~ Doorway(t) /\ pc[t] \notin WaitLabel /\ ticket[t] # 0
  BY DEF HeldInMemory
<1>1. CASE pc[t] \in {"max_compare", "max_keep"}
  <2>1. sb[t] = <<>>
    BY <1>1 DEF LowInv, BufferInv
  <2>2. Len(sb[t]) = 0
    BY <2>1
  <2>. QED  BY <1>1, <2>2 DEF Held, InCS, CSLabel, Doorway, DoorwayLabel
<1>2. CASE pc[t] = "drawn"
  <2>1. \/ sb[t] = <<>>
        \/ sb[t] = <<StoreEntry("ticket", m[t] + 1)>>
    BY <1>2 DEF LowInv, BufferInv
  <2>2. m[t] \in Nat
    BY DEF LowInv, TypeOK
  <2>3. StoreEntry("ticket", m[t] + 1) # StoreEntry("ticket", 0)
    BY <2>2 DEF StoreEntry
  <2>4. ~ \E p \in 1 .. Len(sb[t]) : sb[t][p] = StoreEntry("ticket", 0)
    BY <2>1, <2>3
  <2>. QED  BY <1>2, <2>4 DEF Held, InCS, CSLabel, Doorway, DoorwayLabel
<1>3. CASE ~ Doorway(t)
  <2>1. /\ Len(sb[t]) \in Nat
        /\ Issued(t) \in 1 .. 7
        /\ Drained(t) \in 0 .. Issued(t)
        /\ Len(sb[t]) = Issued(t) - Drained(t)
    BY <1>3, Counts DEF Drained
  <2>2. /\ \A p \in 1 .. Len(sb[t]) : sb[t][p] = Stores[Drained(t) + p]
        /\ ticket[t] = 0 <=> Drained(t) >= 6
    BY <1>3 DEF LowInv, BufferInv
  <2>3. \A n \in 1 .. 7 : Stores[n] = StoreEntry("ticket", 0) <=> n = 6
    BY DEF Stores, StoreEntry
  <2>4. (\E p \in 1 .. Len(sb[t]) : sb[t][p] = StoreEntry("ticket", 0))
        <=> Drained(t) < 6 /\ Issued(t) >= 6
    <3>1. ASSUME NEW p \in 1 .. Len(sb[t]), sb[t][p] = StoreEntry("ticket", 0)
          PROVE  Drained(t) < 6 /\ Issued(t) >= 6
      <4>1. Drained(t) + p \in 1 .. 7
        BY <2>1
      <4>. QED  BY <2>1, <2>2, <2>3, <3>1, <4>1
    <3>2. ASSUME Drained(t) < 6, Issued(t) >= 6
          PROVE  sb[t][6 - Drained(t)] = StoreEntry("ticket", 0)
                 /\ 6 - Drained(t) \in 1 .. Len(sb[t])
      <4>1. 6 - Drained(t) \in 1 .. Len(sb[t]) /\ Drained(t) + (6 - Drained(t)) = 6
        BY <2>1, <3>2
      <4>. QED  BY <2>2, <2>3, <4>1
    <3>. QED  BY <3>1, <3>2
  <2>5. /\ pc[t] \in WaitLabel => Issued(t) = 1
        /\ InCS(t) => Issued(t) < 6
        /\ pc[t] \notin WaitLabel /\ ~ InCS(t) => Issued(t) >= 6
        /\ InCS(t) => pc[t] \notin WaitLabel
    <3>1. k[t] \in 0 .. 3 /\ pc[t] \in Label
      BY DEF LowInv, TypeOK
    <3>. QED
      BY <1>3, <3>1 DEF Issued, InCS, CSLabel, WaitLabel, Label, Doorway, DoorwayLabel
  <2>. QED  BY <1>3, <2>1, <2>2, <2>4, <2>5 DEF Held
<1>. QED  BY <1>1, <1>2, <1>3 DEF Doorway, DoorwayLabel

(* A waiting or serving thread has its ticket in memory.                   *)
LEMMA TicketShown ==
  ASSUME LowInv, NEW t \in Thread, pc[t] \in WaitLabel \/ InCS(t)
  PROVE  ticket[t] # 0 /\ ~ Doorway(t)
<1>1. ~ Doorway(t)
  BY DEF Doorway, DoorwayLabel, WaitLabel, InCS, CSLabel
<1>2. Issued(t) < 6
  <2>1. k[t] \in 0 .. 3
    BY DEF LowInv, TypeOK
  <2>. QED  BY <2>1 DEF Issued, WaitLabel, InCS, CSLabel
<1>3. Drained(t) < 6
  BY <1>1, <1>2, Counts
<1>4. ticket[t] = 0 <=> Drained(t) >= 6
  BY <1>1 DEF LowInv, BufferInv
<1>. QED  BY <1>1, <1>3, <1>4, Counts

(* Two holders would each be before the other.                             *)
LEMMA Exclusion == IInv => MutualExclusion
<1>. SUFFICES ASSUME IInv, NEW t \in Thread, NEW u \in Thread, Held(t), Held(u), t # u
              PROVE  FALSE
  BY DEF MutualExclusion
<1>1. ~ Doorway(t) /\ ticket[t] # 0 /\ ~ Doorway(u) /\ ticket[u] # 0
  BY HeldIsInMemory DEF HeldInMemory, IInv
<1>2. Before(t, u) /\ Before(u, t)
  BY <1>1 DEF IInv, PassInv, Passed
<1>3. ticket[t] \in Nat /\ ticket[u] \in Nat /\ t \in Int /\ u \in Int
  BY DEF IInv, LowInv, TypeOK, Thread
<1>. QED  BY <1>2, <1>3 DEF Before

(* Only a holder has stores of the critical section in memory.             *)
LEMMA InsideHolds ==
  ASSUME LowInv, NEW t \in Thread, Inside(t)
  PROVE  Held(t)
<1>1. ~ Doorway(t) /\ Drained(t) \in 2 .. 4
  BY DEF Inside
<1>2. ticket[t] # 0
  BY <1>1 DEF LowInv, BufferInv
<1>3. pc[t] \notin WaitLabel
  <2>1. pc[t] \in WaitLabel => Issued(t) = 1
    BY DEF Issued, WaitLabel
  <2>. QED  BY <1>1, <2>1, Counts
<1>. QED  BY <1>1, <1>2, <1>3, HeldIsInMemory DEF HeldInMemory

(* A thread in the critical section loads from in_cs what it counts.       *)
LEMMA SeenInCS ==
  ASSUME IInv, NEW t \in Thread, pc[t] \in {"assert", "increment"}
  PROVE  Seen(t, "in_cs", in_cs) = k[t]
<1>1. LowInv /\ ~ Doorway(t) /\ Held(t)
  BY DEF IInv, Doorway, DoorwayLabel, Held, InCS, CSLabel
<1>2. /\ sb[t] \in Seq(StoreSet)
      /\ Len(sb[t]) \in Nat
      /\ Drained(t) \in 0 .. Issued(t)
      /\ k[t] \in 0 .. 3
      /\ Issued(t) = 1 + k[t]
      /\ \A p \in 1 .. Len(sb[t]) : sb[t][p] = Stores[Drained(t) + p]
      /\ Drained(t) + Len(sb[t]) = Issued(t)
  <2>1. Issued(t) = 1 + k[t]
    BY DEF Issued, WaitLabel
  <2>2. k[t] \in 0 .. 3
    BY <1>1 DEF LowInv, TypeOK
  <2>3. Drained(t) + Len(sb[t]) = Issued(t)
    BY <1>1, <2>1, <2>2, Counts DEF Drained
  <2>. QED  BY <1>1, <2>1, <2>2, <2>3, Counts DEF LowInv, BufferInv
<1>3. CASE k[t] = 0
  <2>1. Pending(sb[t], "in_cs") = {}
    <3>1. ASSUME NEW p \in 1 .. Len(sb[t]) PROVE sb[t][p].var = "choosing"
      <4>1. Drained(t) + p = 1
        BY <1>2, <1>3
      <4>. QED  BY <1>2, <4>1 DEF Stores, StoreEntry
    <3>. QED  BY <3>1 DEF Pending
  <2>2. ASSUME NEW u \in Thread PROVE ~ Inside(u)
    <3>1. CASE u = t
      BY <1>2, <1>3, <3>1 DEF Inside
    <3>2. CASE u # t
      BY <1>1, <3>2, InsideHolds, Exclusion DEF MutualExclusion
    <3>. QED  BY <3>1, <3>2
  <2>3. in_cs = 0
    BY <2>2 DEF IInv, CounterInv
  <2>. QED  BY <1>3, <2>1, <2>3, LoadMemory DEF Seen
<1>4. CASE k[t] > 0 /\ sb[t] = <<>>
  <2>1. Drained(t) = 1 + k[t]
    BY <1>2, <1>4
  <2>2. Inside(t)
    BY <1>1, <1>2, <1>4, <2>1 DEF Inside
  <2>3. in_cs = k[t]
    BY <1>2, <2>1, <2>2 DEF IInv, CounterInv
  <2>4. Pending(sb[t], "in_cs") = {}
    BY <1>4 DEF Pending
  <2>. QED  BY <2>3, <2>4, LoadMemory DEF Seen
<1>5. CASE k[t] > 0 /\ sb[t] # <<>>
  <2>1. Len(sb[t]) \in 1 .. Len(sb[t]) /\ Drained(t) + Len(sb[t]) = 1 + k[t]
    BY <1>2, <1>5, EmptySeq
  <2>2. sb[t][Len(sb[t])] = Stores[1 + k[t]]
    BY <1>2, <2>1
  <2>3. Stores[1 + k[t]] = StoreEntry("in_cs", k[t])
    <3>1. k[t] \in {1, 2, 3}
      BY <1>2, <1>5
    <3>. QED  BY <3>1 DEF Stores
  <2>4. sb[t][Len(sb[t])].var = "in_cs" /\ sb[t][Len(sb[t])].val = k[t]
    BY <2>2, <2>3 DEF StoreEntry
  <2>. QED  BY <1>2, <1>5, <2>4, LoadNewest DEF Seen
<1>. QED  BY <1>2, <1>3, <1>4, <1>5

(* In the scan and in the wait a thread loads its own ticket from memory.  *)
LEMMA SeenOwnTicket ==
  ASSUME LowInv, NEW t \in Thread,
         sb[t] = <<>> \/ pc[t] \in WaitLabel
  PROVE  Seen(t, "ticket", ticket[t]) = ticket[t]
<1>1. CASE sb[t] = <<>>
  BY <1>1, LoadMemory DEF Pending, Seen
<1>2. CASE pc[t] \in WaitLabel
  <2>1. ~ Doorway(t) /\ Issued(t) = 1
    BY <1>2 DEF Doorway, DoorwayLabel, WaitLabel, Issued
  <2>2. ASSUME NEW p \in 1 .. Len(sb[t]) PROVE sb[t][p].var = "choosing"
    <3>1. Drained(t) + p = 1
      BY <2>1, Counts DEF Drained
    <3>2. sb[t][p] = Stores[Drained(t) + p]
      BY <2>1 DEF LowInv, BufferInv
    <3>. QED  BY <3>1, <3>2 DEF Stores, StoreEntry
  <2>3. Pending(sb[t], "ticket") = {}
    BY <2>2 DEF Pending
  <2>. QED  BY <2>3, LoadMemory DEF Seen
<1>. QED  BY <1>1, <1>2

(* In the scan and in the wait every ticket is loaded from memory.         *)
LEMMA SeenTickets ==
  ASSUME LowInv, NEW t \in Thread, NEW j \in Thread,
         sb[t] = <<>> \/ pc[t] \in WaitLabel \cup {"max_compare", "max_keep"}
  PROVE  SeenTicket(t, j) = ticket[j]
<1>1. sb[t] = <<>> \/ pc[t] \in WaitLabel
  BY DEF LowInv, BufferInv
<1>. QED  BY <1>1, SeenOwnTicket DEF SeenTicket

-----------------------------------------------------------------------------
(* Types and counters in a step                                            *)

LEMMA StoreType ==
  ASSUME TypeOK, NEW t \in Thread, NEW var, NEW val,
         StoreEntry(var, val) \in StoreSet, Store(t, var, val)
  PROVE  sb' \in [Thread -> Seq(StoreSet)]
BY DEF TypeOK, Store

(* The stores the code issues are typed.                                   *)
LEMMA EntryTypes ==
  /\ StoreEntry("choosing", 0) \in StoreSet /\ StoreEntry("choosing", 1) \in StoreSet
  /\ \A n \in Nat : StoreEntry("ticket", n) \in StoreSet /\ StoreEntry("in_cs", n) \in StoreSet
BY DEF StoreEntry, StoreSet

LEMMA TurnType ==
  ASSUME TypeOK, NEW t \in Thread, NEW j \in 0 .. N - 1, Turn(t, NextOther(t, j))
  PROVE  i' \in [Thread -> 0 .. N] /\ pc' \in [Thread -> Label]
<1>1. NextOther(t, j) \in 0 .. N
  BY NAssumption DEF NextOther, Thread
<1>. QED  BY <1>1 DEF Turn, TypeOK, Label, WaitLabel, CSLabel

LEMMA DrainType ==
  ASSUME TypeOK, NEW t \in Thread, Drain(t)
  PROVE  TypeOK'
<1>1. /\ sb[t] \in Seq(StoreSet)
      /\ sb[t] # <<>>
  BY DEF TypeOK, Drain
<1>2. Head(sb[t]) \in StoreSet /\ Tail(sb[t]) \in Seq(StoreSet)
  BY <1>1
<1>. QED  BY <1>2 DEF TypeOK, Drain, locals, StoreSet

(* Types are preserved.                                                    *)
LEMMA TypeStep == IInv /\ [Next]_vars => TypeOK'
<1>. SUFFICES ASSUME IInv, [Next]_vars PROVE TypeOK'
  OBVIOUS
<1>. USE NAssumption, MaxEntriesAssumption
<1>0. LowInv /\ TypeOK /\ (\A t \in Thread : LocalInv(t))
  BY DEF IInv, LowInv
<1>1. ASSUME NEW t \in Thread, StartChoosing(t) PROVE TypeOK'
  <2>1. sb' \in [Thread -> Seq(StoreSet)]
    BY <1>0, <1>1, StoreType, EntryTypes DEF StartChoosing
  <2>. QED  BY <1>0, <1>1, <2>1 DEF StartChoosing, TypeOK, Label, memory, locals
<1>2. ASSUME NEW t \in Thread, MaxFirst(t) PROVE TypeOK'
  <2>1. 0 \in Thread /\ SeenTicket(t, 0) = ticket[0]
    BY <1>0, <1>2, SeenTickets DEF MaxFirst, MFence, Thread
  <2>2. Waiting \in SUBSET Thread
    BY DEF Waiting
  <2>3. ticket[0] \in Nat
    BY <1>0, <2>1 DEF TypeOK
  <2>. QED  BY <1>0, <1>2, <2>1, <2>2, <2>3 DEF MaxFirst, TypeOK, Label, DoorwayLabel, memory
<1>3. ASSUME NEW t \in Thread, MaxCompare(t) PROVE TypeOK'
  <2>1. i[t] + 1 \in 0 .. N
    BY <1>0, <1>3 DEF MaxCompare, TypeOK
  <2>2. i' \in [Thread -> 0 .. N] /\ pc' \in [Thread -> Label]
    BY <1>0, <1>3, <2>1 DEF MaxCompare, TypeOK, Label, DoorwayLabel
  <2>. QED  BY <1>0, <1>3, <2>2 DEF MaxCompare, TypeOK, memory
<1>4. ASSUME NEW t \in Thread, MaxKeep(t) PROVE TypeOK'
  <2>0. LocalInv(t) /\ i[t] \in 0 .. N
    BY <1>0 DEF TypeOK
  <2>1. i[t] \in Thread /\ i[t] + 1 \in 0 .. N
    BY <1>4, <2>0 DEF MaxKeep, LocalInv, Thread
  <2>2. SeenTicket(t, i[t]) = ticket[i[t]] /\ ticket[i[t]] \in Nat
    BY <1>0, <1>4, <2>1, SeenTickets DEF MaxKeep, TypeOK
  <2>. QED  BY <1>0, <1>4, <2>1, <2>2 DEF MaxKeep, TypeOK, Label, DoorwayLabel, memory
<1>5. ASSUME NEW t \in Thread, DrawTicket(t) PROVE TypeOK'
  <2>1. m[t] + 1 \in Nat
    BY <1>0 DEF TypeOK
  <2>2. sb' \in [Thread -> Seq(StoreSet)]
    BY <1>0, <1>5, <2>1, StoreType, EntryTypes DEF DrawTicket
  <2>. QED  BY <1>0, <1>5, <2>2 DEF DrawTicket, TypeOK, Label, DoorwayLabel, memory, locals
<1>6. ASSUME NEW t \in Thread, StopChoosing(t) PROVE TypeOK'
  <2>1. sb' \in [Thread -> Seq(StoreSet)]
    BY <1>0, <1>6, StoreType, EntryTypes DEF StopChoosing
  <2>2. i' \in [Thread -> 0 .. N] /\ pc' \in [Thread -> Label]
    BY <1>0, <1>6, TurnType DEF StopChoosing
  <2>3. k' \in [Thread -> 0 .. 3]
    BY <1>0, <1>6 DEF StopChoosing, TypeOK
  <2>4. UNCHANGED <<choosing, ticket, in_cs, is_stop, m, cnt, main, ahead>>
    BY <1>6 DEF StopChoosing, memory
  <2>. QED  BY <1>0, <2>1, <2>2, <2>3, <2>4 DEF TypeOK
<1>7. ASSUME NEW t \in Thread, WaitChoosing(t) PROVE TypeOK'
  BY <1>0, <1>7 DEF WaitChoosing, TypeOK, Label, WaitLabel, memory, locals
<1>8. ASSUME NEW t \in Thread, WaitNonZero(t) PROVE TypeOK'
  <2>1. i' \in [Thread -> 0 .. N] /\ pc' \in [Thread -> Label]
    <3>1. CASE Turn(t, NextOther(t, i[t] + 1))
      <4>0. LocalInv(t) /\ i[t] \in 0 .. N
        BY <1>0 DEF TypeOK
      <4>1. i[t] + 1 \in 0 .. N /\ NextOther(t, i[t] + 1) \in 0 .. N
        BY <1>8, <4>0 DEF WaitNonZero, LocalInv, WaitLabel, NextOther, Thread
      <4>. QED  BY <1>0, <3>1, <4>1 DEF Turn, TypeOK, Label, WaitLabel, CSLabel
    <3>2. CASE pc' = [pc EXCEPT ![t] = "wait_greater"] /\ UNCHANGED i
      BY <1>0, <3>2 DEF TypeOK, Label, WaitLabel
    <3>. QED  BY <1>8, <3>1, <3>2 DEF WaitNonZero
  <2>. QED  BY <1>0, <1>8, <2>1 DEF WaitNonZero, TypeOK, memory
<1>9. ASSUME NEW t \in Thread, WaitGreater(t) PROVE TypeOK'
  BY <1>0, <1>9 DEF WaitGreater, TypeOK, Label, WaitLabel, memory, locals
<1>10. ASSUME NEW t \in Thread, WaitEqual(t) PROVE TypeOK'
  <2>1. i' \in [Thread -> 0 .. N] /\ pc' \in [Thread -> Label]
    <3>1. CASE Turn(t, NextOther(t, i[t] + 1))
      <4>0. LocalInv(t) /\ i[t] \in 0 .. N
        BY <1>0 DEF TypeOK
      <4>1. i[t] + 1 \in 0 .. N /\ NextOther(t, i[t] + 1) \in 0 .. N
        BY <1>10, <4>0 DEF WaitEqual, LocalInv, WaitLabel, NextOther, Thread
      <4>. QED  BY <1>0, <3>1, <4>1 DEF Turn, TypeOK, Label, WaitLabel, CSLabel
    <3>2. CASE pc' = [pc EXCEPT ![t] = "wait_nonzero"] /\ UNCHANGED i
      BY <1>0, <3>2 DEF TypeOK, Label, WaitLabel
    <3>. QED  BY <1>10, <3>1, <3>2 DEF WaitEqual
  <2>. QED  BY <1>0, <1>10, <2>1 DEF WaitEqual, TypeOK, memory
<1>11. ASSUME NEW t \in Thread, AssertInCS(t) PROVE TypeOK'
  BY <1>0, <1>11 DEF AssertInCS, TypeOK, Label, CSLabel, memory, locals
<1>12. ASSUME NEW t \in Thread, Increment(t) PROVE TypeOK'
  <2>0. LocalInv(t) /\ k[t] \in 0 .. 3 /\ pc[t] = "increment"
    BY <1>0, <1>12 DEF TypeOK, Increment
  <2>1. Seen(t, "in_cs", in_cs) = k[t] /\ k[t] + 1 \in Nat /\ k[t] + 1 \in 0 .. 3
    BY <2>0, SeenInCS DEF LocalInv
  <2>2. sb' \in [Thread -> Seq(StoreSet)]
    BY <1>0, <1>12, <2>1, StoreType, EntryTypes DEF Increment
  <2>. QED  BY <1>0, <1>12, <2>1, <2>2 DEF Increment, TypeOK, Label, CSLabel, memory
<1>13. ASSUME NEW t \in Thread, ClearInCS(t) PROVE TypeOK'
  <2>1. sb' \in [Thread -> Seq(StoreSet)]
    BY <1>0, <1>13, StoreType, EntryTypes DEF ClearInCS
  <2>. QED  BY <1>0, <1>13, <2>1 DEF ClearInCS, TypeOK, Label, CSLabel, memory, locals
<1>14. ASSUME NEW t \in Thread, Unlock(t) PROVE TypeOK'
  <2>1. sb' \in [Thread -> Seq(StoreSet)]
    BY <1>0, <1>14, StoreType, EntryTypes DEF Unlock
  <2>0. LocalInv(t) /\ cnt[t] \in 0 .. MaxEntries /\ pc[t] = "unlock"
    BY <1>0, <1>14 DEF TypeOK, Unlock
  <2>2. cnt[t] + 1 \in 0 .. MaxEntries
    BY <2>0 DEF LocalInv
  <2>. QED  BY <1>0, <1>14, <2>1, <2>2 DEF Unlock, TypeOK, Label, memory
<1>15. ASSUME NEW t \in Thread, Loop(t) PROVE TypeOK'
  BY <1>0, <1>15 DEF Loop, TypeOK, Label, memory, locals
<1>16. ASSUME NEW t \in Thread, Drain(t) PROVE TypeOK'
  BY <1>0, <1>16, DrainType
<1>17. CASE Stop
  BY <1>0, <1>17 DEF Stop, TypeOK, memory, locals
<1>18. CASE JoinAndFree
  BY <1>0, <1>18 DEF JoinAndFree, TypeOK, memory, locals
<1>19. CASE UNCHANGED vars
  BY <1>0, <1>19 DEF vars, TypeOK
<1>. QED
  BY <1>1, <1>2, <1>3, <1>4, <1>5, <1>6, <1>7, <1>8, <1>9, <1>10, <1>11, <1>12, <1>13,
     <1>14, <1>15, <1>16, <1>17, <1>18, <1>19 DEF Next, ThreadStep, Terminated

(* A step of t leaves the other threads where they are.                    *)
Still(u) ==
  /\ pc'[u] = pc[u] /\ m'[u] = m[u] /\ i'[u] = i[u] /\ k'[u] = k[u] /\ cnt'[u] = cnt[u]

LEMMA OthersStill ==
  ASSUME TypeOK, NEW t \in Thread, ThreadStep(t), NEW u \in Thread, u # t
  PROVE  Still(u) /\ sb'[u] = sb[u] /\ ahead'[u] = ahead[u]
<1>. USE DEF Still, TypeOK, memory, locals, Store, Turn
<1>1. CASE StartChoosing(t) \/ MaxFirst(t) \/ MaxCompare(t) \/ MaxKeep(t) \/ DrawTicket(t)
  BY <1>1 DEF StartChoosing, MaxFirst, MaxCompare, MaxKeep, DrawTicket
<1>2. CASE StopChoosing(t) \/ WaitChoosing(t) \/ WaitNonZero(t)
  BY <1>2 DEF StopChoosing, WaitChoosing, WaitNonZero
<1>3. CASE WaitGreater(t) \/ WaitEqual(t) \/ AssertInCS(t)
  BY <1>3 DEF WaitGreater, WaitEqual, AssertInCS
<1>4. CASE Increment(t) \/ ClearInCS(t) \/ Unlock(t) \/ Loop(t)
  BY <1>4 DEF Increment, ClearInCS, Unlock, Loop
<1>. QED  BY <1>1, <1>2, <1>3, <1>4 DEF ThreadStep

LEMMA MemoryStill ==
  ASSUME NEW t \in Thread, ThreadStep(t)
  PROVE  UNCHANGED <<choosing, ticket, in_cs, is_stop, main>>
BY DEF ThreadStep, StartChoosing, MaxFirst, MaxCompare, MaxKeep, DrawTicket, StopChoosing,
       WaitChoosing, WaitNonZero, WaitGreater, WaitEqual, AssertInCS, Increment, ClearInCS,
       Unlock, Loop, memory

(* Where the wait goes on: NextOther never yields t itself.                *)
LEMMA TurnLocal ==
  ASSUME TypeOK, NEW t \in Thread, NEW j \in 0 .. N,
         Turn(t, NextOther(t, j)), NextOther(t, j) <= N, k'[t] = 0, cnt'[t] < MaxEntries
  PROVE  LocalInv(t)'
<1>1. t \in 0 .. N - 1 /\ NextOther(t, j) \in 0 .. N /\ NextOther(t, j) # t
  BY NAssumption DEF NextOther, Thread
<1>2. i'[t] = NextOther(t, j) /\ pc'[t] = IF NextOther(t, j) = N THEN "assert" ELSE "wait_choosing"
  BY DEF Turn, TypeOK
<1>. QED  BY <1>1, <1>2, NAssumption DEF LocalInv, WaitLabel

(* Counters are preserved.                                                 *)
LEMMA LocalStep == IInv /\ [Next]_vars => \A u \in Thread : LocalInv(u)'
<1>. SUFFICES ASSUME IInv, [Next]_vars, NEW u \in Thread PROVE LocalInv(u)'
  OBVIOUS
<1>. USE NAssumption, MaxEntriesAssumption
<1>0. LowInv /\ TypeOK /\ LocalInv(u)
  BY DEF IInv, LowInv
<1>1. ASSUME NEW t \in Thread, ThreadStep(t), t # u PROVE LocalInv(u)'
  <2>1. Still(u)
    BY <1>0, <1>1, OthersStill
  <2>. QED  BY <1>0, <2>1 DEF Still, LocalInv
<1>2. ASSUME ThreadStep(u) PROVE LocalInv(u)'
  <2>0. /\ i[u] \in 0 .. N /\ k[u] \in 0 .. 3 /\ cnt[u] \in 0 .. MaxEntries
        /\ u \in 0 .. N - 1
    BY <1>0 DEF TypeOK, Thread
  <2>1. CASE StartChoosing(u)
    <3>1. pc[u] = "start" /\ pc'[u] = "max_first" /\ cnt'[u] = cnt[u]
      BY <1>0, <2>1 DEF StartChoosing, TypeOK, locals
    <3>. QED  BY <1>0, <3>1 DEF LocalInv, WaitLabel
  <2>2. CASE MaxFirst(u)
    <3>1. pc[u] = "max_first" /\ pc'[u] = "max_compare" /\ i'[u] = 1 /\ cnt'[u] = cnt[u]
      BY <1>0, <2>2 DEF MaxFirst, TypeOK
    <3>. QED  BY <1>0, <3>1 DEF LocalInv, WaitLabel
  <2>3. CASE MaxCompare(u)
    <3>1. /\ pc[u] = "max_compare" /\ cnt'[u] = cnt[u] /\ i[u] < N
          /\ \/ pc'[u] = "max_keep" /\ i'[u] = i[u]
             \/ pc'[u] = "max_compare" /\ i'[u] = i[u] + 1
      BY <1>0, <2>3 DEF MaxCompare, TypeOK
    <3>. QED  BY <1>0, <2>0, <3>1 DEF LocalInv, WaitLabel
  <2>4. CASE MaxKeep(u)
    <3>1. /\ pc[u] = "max_keep" /\ cnt'[u] = cnt[u]
          /\ pc'[u] = "max_compare" /\ i'[u] = i[u] + 1
      BY <1>0, <2>4 DEF MaxKeep, TypeOK
    <3>. QED  BY <1>0, <2>0, <3>1 DEF LocalInv, WaitLabel
  <2>5. CASE DrawTicket(u)
    <3>1. pc[u] = "max_compare" /\ cnt'[u] = cnt[u] /\ pc'[u] = "drawn"
      BY <1>0, <2>5 DEF DrawTicket, TypeOK, locals
    <3>. QED  BY <1>0, <2>0, <3>1 DEF LocalInv, WaitLabel
  <2>6. CASE StopChoosing(u)
    <3>1. pc[u] = "drawn" /\ cnt'[u] = cnt[u] /\ k'[u] = 0 /\ Turn(u, NextOther(u, 0))
      BY <1>0, <2>6 DEF StopChoosing, TypeOK
    <3>2. NextOther(u, 0) <= N /\ cnt[u] < MaxEntries
      BY <1>0, <2>0, <3>1 DEF NextOther, LocalInv
    <3>. QED  BY <1>0, <3>1, <3>2, TurnLocal
  <2>7. CASE WaitChoosing(u) \/ WaitGreater(u)
    <3>1. /\ pc[u] \in WaitLabel /\ pc'[u] \in WaitLabel
          /\ i'[u] = i[u] /\ k'[u] = k[u] /\ cnt'[u] = cnt[u]
      BY <1>0, <2>7 DEF WaitChoosing, WaitGreater, TypeOK, WaitLabel, locals
    <3>. QED  BY <1>0, <3>1 DEF LocalInv, WaitLabel
  <2>8. CASE WaitNonZero(u) \/ WaitEqual(u)
    <3>1. /\ pc[u] \in WaitLabel /\ k'[u] = k[u] /\ cnt'[u] = cnt[u]
          /\ \/ pc'[u] \in WaitLabel /\ i'[u] = i[u]
             \/ Turn(u, NextOther(u, i[u] + 1))
      BY <1>0, <2>8 DEF WaitNonZero, WaitEqual, TypeOK, WaitLabel
    <3>2. i[u] < N /\ i[u] # u /\ k[u] = 0 /\ cnt[u] < MaxEntries
      BY <1>0, <3>1 DEF LocalInv, WaitLabel
    <3>3. CASE Turn(u, NextOther(u, i[u] + 1))
      <4>1. i[u] + 1 \in 0 .. N /\ NextOther(u, i[u] + 1) <= N
        BY <2>0, <3>2 DEF NextOther
      <4>. QED  BY <1>0, <3>1, <3>2, <3>3, <4>1, TurnLocal
    <3>4. CASE pc'[u] \in WaitLabel /\ i'[u] = i[u]
      BY <1>0, <3>1, <3>2, <3>4 DEF LocalInv, WaitLabel
    <3>. QED  BY <3>1, <3>3, <3>4
  <2>9. CASE AssertInCS(u)
    <3>1. /\ pc[u] = "assert" /\ k'[u] = k[u] /\ cnt'[u] = cnt[u]
          /\ pc'[u] \in {"aborted", "clear", "increment"}
          /\ pc'[u] = "clear" => k[u] = 3
          /\ pc'[u] = "increment" => k[u] # 3
      BY <1>0, <2>9 DEF AssertInCS, TypeOK, locals
    <3>. QED  BY <1>0, <2>0, <3>1 DEF LocalInv, WaitLabel
  <2>10. CASE Increment(u) \/ ClearInCS(u)
    <3>1. /\ pc[u] \in {"increment", "clear"} /\ cnt'[u] = cnt[u]
          /\ pc'[u] \in {"assert", "unlock"}
      BY <1>0, <2>10 DEF Increment, ClearInCS, TypeOK, locals
    <3>. QED  BY <1>0, <3>1 DEF LocalInv, WaitLabel
  <2>11. CASE Unlock(u)
    <3>1. pc'[u] = "loop"
      BY <1>0, <2>11 DEF Unlock, TypeOK
    <3>. QED  BY <3>1 DEF LocalInv, WaitLabel
  <2>12. CASE Loop(u)
    <3>1. pc \in [Thread -> Label] /\ cnt' = cnt
      BY <1>0, <2>12 DEF Loop, TypeOK, locals
    <3>2. CASE pc' = [pc EXCEPT ![u] = "exit"]
      BY <3>1, <3>2 DEF LocalInv, WaitLabel
    <3>3. CASE pc' = [pc EXCEPT ![u] = "start"] /\ cnt[u] < MaxEntries
      BY <3>1, <3>3 DEF LocalInv, WaitLabel
    <3>. QED  BY <2>12, <3>2, <3>3 DEF Loop
  <2>. QED
    BY <1>2, <2>1, <2>2, <2>3, <2>4, <2>5, <2>6, <2>7, <2>8, <2>9, <2>10, <2>11, <2>12 DEF ThreadStep
<1>3. ASSUME UNCHANGED <<pc, i, k, cnt>> PROVE LocalInv(u)'
  BY <1>0, <1>3 DEF LocalInv
<1>. QED
  BY <1>1, <1>2, <1>3 DEF Next, Drain, Stop, JoinAndFree, Terminated, vars, locals

-----------------------------------------------------------------------------
(* Buffers in a step                                                       *)

(* A step outside the doorway that issues nothing.                         *)
LEMMA BufferSame ==
  ASSUME LowInv, NEW t \in Thread, ~ Doorway(t), ~ Doorway(t)',
         Issued(t)' = Issued(t), sb'[t] = sb[t],
         choosing'[t] = choosing[t], ticket'[t] = ticket[t]
  PROVE  BufferInv(t)'
<1>1. Drained(t)' = Drained(t)
  BY DEF Drained
<1>2. pc'[t] \notin DoorwayLabel
  BY DEF Doorway
<1>3. BufferInv(t)
  BY DEF LowInv
<1>. QED  BY <1>1, <1>2, <1>3 DEF BufferInv, DoorwayLabel

(* A step outside the doorway that issues the next store of the round.     *)
LEMMA BufferStore ==
  ASSUME LowInv, NEW t \in Thread, ~ Doorway(t), ~ Doorway(t)',
         Issued(t)' = Issued(t) + 1, NEW var, NEW val, Store(t, var, val),
         StoreEntry(var, val) = Stores[Issued(t) + 1],
         StoreEntry(var, val) \in StoreSet,
         choosing'[t] = choosing[t], ticket'[t] = ticket[t]
  PROVE  BufferInv(t)'
<1>. DEFINE e == StoreEntry(var, val)
<1>1. sb'[t] = Append(sb[t], e) /\ sb[t] \in Seq(StoreSet)
  BY DEF LowInv, TypeOK, Store
<1>2. /\ Len(sb'[t]) = Len(sb[t]) + 1
      /\ \A p \in 1 .. Len(sb[t]) : sb'[t][p] = sb[t][p]
      /\ sb'[t][Len(sb[t]) + 1] = e
  BY <1>1, AppendProperties
<1>3. /\ Len(sb[t]) \in Nat
      /\ Issued(t) \in 1 .. 7
      /\ Drained(t) \in 0 .. Issued(t)
      /\ Drained(t) + Len(sb[t]) = Issued(t)
  BY Counts DEF Drained
<1>4. Drained(t)' = Drained(t)
  BY <1>2, <1>3 DEF Drained
<1>5. BufferInv(t)
  BY DEF LowInv
<1>6. ASSUME NEW p \in 1 .. Len(sb'[t]) PROVE sb'[t][p] = Stores[Drained(t) + p]
  <2>1. CASE p \in 1 .. Len(sb[t])
    BY <1>2, <1>5, <2>1 DEF BufferInv
  <2>2. CASE p = Len(sb[t]) + 1
    <3>1. Drained(t) + p = Issued(t) + 1
      BY <1>3, <2>2
    <3>. QED  BY <1>2, <2>2, <3>1
  <2>. QED  BY <1>2, <1>3, <2>1, <2>2
<1>7. pc'[t] \notin DoorwayLabel
  BY DEF Doorway
<1>8. Len(sb'[t]) <= Issued(t)'
  BY <1>2, <1>3
<1>9. /\ choosing'[t] = IF Drained(t) \in 1 .. 6 THEN 0 ELSE 1
      /\ ticket'[t] = 0 <=> Drained(t) >= 6
  BY <1>5 DEF BufferInv
<1>. QED  BY <1>4, <1>6, <1>7, <1>8, <1>9 DEF BufferInv, DoorwayLabel

(* The stores memory receives, one by one.                                 *)
LEMMA StoresAre ==
  /\ Stores[1] = StoreEntry("choosing", 0)
  /\ \A n \in 2 .. 5 : Stores[n].var = "in_cs"
  /\ Stores[2].val = 1 /\ Stores[3].val = 2 /\ Stores[4].val = 3 /\ Stores[5].val = 0
  /\ Stores[6] = StoreEntry("ticket", 0)
  /\ Stores[7] = StoreEntry("choosing", 1)
  /\ \A n \in 1 .. 7 : Stores[n].var = "ticket" => n = 6
  /\ \A n \in 1 .. 7 : Stores[n].var = "choosing" => n \in {1, 7}
BY DEF Stores, StoreEntry

(* What one drain outside the doorway does.                                *)
LEMMA DrainOutside ==
  ASSUME LowInv, NEW t \in Thread, Drain(t), ~ Doorway(t)
  PROVE  /\ Drained(t)' = Drained(t) + 1
         /\ Drained(t) \in 0 .. 6
         /\ Issued(t)' = Issued(t)
         /\ Head(sb[t]) = Stores[Drained(t) + 1]
         /\ Len(sb'[t]) \in Nat /\ Len(sb'[t]) = Len(sb[t]) - 1
         /\ \A p \in 1 .. Len(sb'[t]) : sb'[t][p] = Stores[Drained(t) + 1 + p]
<1>1. sb[t] \in Seq(StoreSet) /\ sb[t] # <<>> /\ sb'[t] = Tail(sb[t])
  BY DEF LowInv, TypeOK, Drain
<1>2. /\ Len(sb[t]) \in Nat /\ Len(sb[t]) > 0
      /\ Issued(t) \in 1 .. 7
      /\ Drained(t) \in 0 .. Issued(t)
      /\ Drained(t) + Len(sb[t]) = Issued(t)
  BY <1>1, Counts, EmptySeq DEF Drained
<1>3. /\ Len(sb'[t]) = Len(sb[t]) - 1
      /\ \A p \in 1 .. Len(sb'[t]) : sb'[t][p] = sb[t][p + 1]
  BY <1>1, HeadTailProperties
<1>4. Issued(t)' = Issued(t)
  BY DEF Drain, locals, Issued
<1>5. \A p \in 1 .. Len(sb[t]) : sb[t][p] = Stores[Drained(t) + p]
  BY DEF LowInv, BufferInv
<1>6. Head(sb[t]) = Stores[Drained(t) + 1]
  BY <1>1, <1>2, <1>5
<1>7. ASSUME NEW p \in 1 .. Len(sb'[t]) PROVE sb'[t][p] = Stores[Drained(t) + 1 + p]
  <2>1. p + 1 \in 1 .. Len(sb[t]) /\ Drained(t) + (p + 1) = Drained(t) + 1 + p
    BY <1>2, <1>3
  <2>. QED  BY <1>3, <1>5, <2>1
<1>8. Drained(t) \in 0 .. 6 /\ Len(sb'[t]) \in Nat
  BY <1>2, <1>3
<1>9. Drained(t)' = Issued(t) - (Len(sb[t]) - 1) /\ Drained(t) = Issued(t) - Len(sb[t])
  BY <1>3, <1>4 DEF Drained
<1>10. Drained(t)' = Drained(t) + 1
  BY <1>2, <1>9
<1>. QED  BY <1>3, <1>4, <1>6, <1>7, <1>8, <1>10

(* In the doorway only the new number can drain.                           *)
LEMMA DrainDoorway ==
  ASSUME LowInv, NEW t \in Thread, Drain(t), Doorway(t)
  PROVE  /\ pc[t] = "drawn" /\ pc'[t] = "drawn"
         /\ ticket[t] = 0 /\ ticket' = [ticket EXCEPT ![t] = m[t] + 1]
         /\ choosing' = choosing /\ in_cs' = in_cs /\ ahead' = ahead
         /\ sb'[t] = <<>> /\ m' = m
<1>1. sb[t] # <<>> /\ sb' = [sb EXCEPT ![t] = Tail(@)] /\ sb \in [Thread -> Seq(StoreSet)]
  BY DEF Drain, LowInv, TypeOK
<1>2. pc[t] = "drawn"
  BY <1>1 DEF LowInv, BufferInv, Doorway, DoorwayLabel
<1>3. sb[t] = <<StoreEntry("ticket", m[t] + 1)>> /\ ticket[t] = 0
  BY <1>1, <1>2 DEF LowInv, BufferInv
<1>4. Head(sb[t]) = StoreEntry("ticket", m[t] + 1) /\ Tail(sb[t]) = <<>>
  BY <1>3
<1>5. m[t] \in Nat
  BY DEF LowInv, TypeOK
<1>6. StoreEntry("ticket", m[t] + 1) # StoreEntry("ticket", 0)
  BY <1>5 DEF StoreEntry
<1>7. sb'[t] = <<>>
  BY <1>1, <1>4
<1>8. Head(sb[t]).var = "ticket" /\ Head(sb[t]).val = m[t] + 1
  BY <1>4 DEF StoreEntry
<1>9. ahead' = ahead
  BY <1>4, <1>6 DEF Drain
<1>10. choosing' = choosing /\ in_cs' = in_cs /\ ticket' = [ticket EXCEPT ![t] = m[t] + 1]
  BY <1>8 DEF Drain
<1>11. m' = m /\ pc' = pc
  BY DEF Drain, locals
<1>. QED  BY <1>2, <1>3, <1>7, <1>9, <1>10, <1>11

(* Outside the doorway memory changes as the next store of the round says. *)
LEMMA DrainMemory ==
  ASSUME LowInv, NEW t \in Thread, Drain(t), ~ Doorway(t)
  PROVE  /\ Drained(t) = 5 =>
              /\ ticket' = [ticket EXCEPT ![t] = 0]
              /\ ahead' = [j \in Thread |-> ahead[j] \ {t}]
         /\ Drained(t) # 5 => ticket' = ticket /\ ahead' = ahead
         /\ Drained(t) = 0 => choosing' = [choosing EXCEPT ![t] = 0]
         /\ Drained(t) = 6 => choosing' = [choosing EXCEPT ![t] = 1]
         /\ Drained(t) \in 1 .. 5 => choosing' = choosing
         /\ Drained(t) \in {0, 5, 6} => in_cs' = in_cs
         /\ Drained(t) \in 1 .. 3 => in_cs' = Drained(t)
         /\ Drained(t) = 4 => in_cs' = 0
<1>1. Drained(t) \in 0 .. 6 /\ Head(sb[t]) = Stores[Drained(t) + 1]
  BY DrainOutside
<1>2. CASE Drained(t) = 0
  <2>1. Head(sb[t]) = StoreEntry("choosing", 0)
    BY <1>1, <1>2, StoresAre
  <2>2. Head(sb[t]).var = "choosing" /\ Head(sb[t]).val = 0
    BY <2>1 DEF StoreEntry
  <2>3. Head(sb[t]) # StoreEntry("ticket", 0)
    BY <2>2 DEF StoreEntry
  <2>4. choosing' = [choosing EXCEPT ![t] = 0]
    BY <2>2 DEF Drain
  <2>5. ticket' = ticket /\ in_cs' = in_cs
    BY <2>2 DEF Drain
  <2>6. ahead' = ahead
    BY <2>3 DEF Drain
  <2>. QED  BY <1>2, <2>4, <2>5, <2>6
<1>3. CASE Drained(t) \in 1 .. 4
  <2>1. /\ Head(sb[t]).var = "in_cs"
        /\ Head(sb[t]).val = IF Drained(t) = 4 THEN 0 ELSE Drained(t)
    <3>1. Drained(t) \in {1, 2, 3, 4}
      BY <1>3
    <3>. QED  BY <1>1, <3>1, StoresAre
  <2>2. Head(sb[t]) # StoreEntry("ticket", 0)
    BY <2>1 DEF StoreEntry
  <2>. QED  BY <1>3, <2>1, <2>2 DEF Drain
<1>4. CASE Drained(t) = 5
  <2>1. Head(sb[t]) = StoreEntry("ticket", 0)
    BY <1>1, <1>4, StoresAre
  <2>2. Head(sb[t]).var = "ticket" /\ Head(sb[t]).val = 0
    BY <2>1 DEF StoreEntry
  <2>4. ticket' = [ticket EXCEPT ![t] = 0]
    BY <2>2 DEF Drain
  <2>5. choosing' = choosing /\ in_cs' = in_cs
    BY <2>2 DEF Drain
  <2>6. ahead' = [j \in Thread |-> ahead[j] \ {t}]
    BY <2>1 DEF Drain
  <2>. QED  BY <1>4, <2>4, <2>5, <2>6
<1>5. CASE Drained(t) = 6
  <2>1. Head(sb[t]) = StoreEntry("choosing", 1)
    BY <1>1, <1>5, StoresAre
  <2>2. Head(sb[t]).var = "choosing" /\ Head(sb[t]).val = 1
    BY <2>1 DEF StoreEntry
  <2>3. Head(sb[t]) # StoreEntry("ticket", 0)
    BY <2>2 DEF StoreEntry
  <2>4. choosing' = [choosing EXCEPT ![t] = 1]
    BY <2>2 DEF Drain
  <2>5. ticket' = ticket /\ in_cs' = in_cs
    BY <2>2 DEF Drain
  <2>6. ahead' = ahead
    BY <2>3 DEF Drain
  <2>. QED  BY <1>5, <2>4, <2>5, <2>6
<1>. QED  BY <1>1, <1>2, <1>3, <1>4, <1>5

LEMMA DrainBuffer ==
  ASSUME LowInv, NEW t \in Thread, Drain(t)
  PROVE  BufferInv(t)'
<1>1. CASE Doorway(t)
  <2>1. ticket' = [ticket EXCEPT ![t] = m[t] + 1] /\ choosing[t] = 1
    BY <1>1, DrainDoorway DEF LowInv, BufferInv
  <2>2. ticket'[t] = m'[t] + 1 /\ choosing'[t] = 1 /\ sb'[t] = <<>> /\ pc'[t] = "drawn"
    BY <1>1, <2>1, DrainDoorway DEF LowInv, TypeOK
  <2>. QED  BY <2>2 DEF BufferInv, Doorway, DoorwayLabel
<1>2. CASE ~ Doorway(t)
  <2>1. pc'[t] \notin DoorwayLabel
    BY <1>2 DEF Doorway, Drain, locals
  <2>2. /\ Drained(t)' = Drained(t) + 1 /\ Drained(t) \in 0 .. 6
        /\ Len(sb'[t]) <= Issued(t)'
        /\ \A p \in 1 .. Len(sb'[t]) : sb'[t][p] = Stores[Drained(t)' + p]
    <3>1. Len(sb[t]) \in Nat /\ Len(sb[t]) <= Issued(t) /\ Issued(t) \in 1 .. 7
      BY <1>2, Counts DEF LowInv, BufferInv
    <3>. QED  BY <1>2, <3>1, DrainOutside
  <2>3. /\ choosing[t] = IF Drained(t) \in 1 .. 6 THEN 0 ELSE 1
        /\ ticket[t] = 0 <=> Drained(t) >= 6
        /\ choosing \in [Thread -> {0, 1}] /\ ticket \in [Thread -> Nat]
    BY <1>2 DEF LowInv, BufferInv, TypeOK
  <2>4. choosing'[t] = IF Drained(t) + 1 \in 1 .. 6 THEN 0 ELSE 1
    <3>1. CASE Drained(t) \in 1 .. 5
      BY <1>2, <2>3, <3>1, DrainMemory
    <3>2. CASE Drained(t) = 0
      BY <1>2, <2>3, <3>2, DrainMemory
    <3>3. CASE Drained(t) = 6
      BY <1>2, <2>3, <3>3, DrainMemory
    <3>. QED  BY <2>2, <3>1, <3>2, <3>3
  <2>5. ticket'[t] = 0 <=> Drained(t) + 1 >= 6
    <3>1. CASE Drained(t) = 5
      BY <1>2, <2>3, <3>1, DrainMemory
    <3>2. CASE Drained(t) # 5
      BY <1>2, <2>2, <2>3, <3>2, DrainMemory
    <3>. QED  BY <3>1, <3>2
  <2>. QED  BY <2>1, <2>2, <2>4, <2>5 DEF BufferInv, DoorwayLabel
<1>. QED  BY <1>1, <1>2

(* Buffers stay as the labels say.                                         *)
LEMMA BufferStep == IInv /\ [Next]_vars => \A u \in Thread : BufferInv(u)'
<1>. SUFFICES ASSUME IInv, [Next]_vars, NEW u \in Thread PROVE BufferInv(u)'
  OBVIOUS
<1>0. LowInv /\ TypeOK /\ LocalInv(u) /\ BufferInv(u)
  BY DEF IInv, LowInv
<1>1. ASSUME NEW t \in Thread, ThreadStep(t), t # u PROVE BufferInv(u)'
  <2>1. Still(u) /\ sb'[u] = sb[u] /\ choosing'[u] = choosing[u] /\ ticket'[u] = ticket[u]
    BY <1>0, <1>1, OthersStill, MemoryStill
  <2>2. Issued(u)' = Issued(u) /\ Drained(u)' = Drained(u)
    BY <2>1 DEF Still, Issued, Drained
  <2>. QED  BY <1>0, <2>1, <2>2 DEF Still, BufferInv, Doorway
<1>2. ASSUME ThreadStep(u) PROVE BufferInv(u)'
  <2>0. /\ choosing'[u] = choosing[u] /\ ticket'[u] = ticket[u]
        /\ k[u] \in 0 .. 3
    BY <1>0, <1>2, MemoryStill DEF TypeOK
  <2>1. CASE StartChoosing(u)
    <3>1. pc[u] = "start" /\ pc'[u] = "max_first" /\ Store(u, "choosing", 1)
      BY <1>0, <2>1 DEF StartChoosing, TypeOK
    <3>2. /\ ~ Doorway(u) /\ ~ Doorway(u)'
          /\ Issued(u) = 6 /\ Issued(u)' = 7
      BY <3>1 DEF Doorway, DoorwayLabel, Issued, WaitLabel
    <3>3. StoreEntry("choosing", 1) = Stores[Issued(u) + 1]
      BY <3>2, StoresAre
    <3>. QED  BY <1>0, <2>0, <3>1, <3>2, <3>3, EntryTypes, BufferStore
  <2>2. CASE MaxFirst(u)
    <3>1. pc[u] = "max_first" /\ pc'[u] = "max_compare" /\ sb[u] = <<>> /\ sb' = sb
      BY <1>0, <2>2 DEF MaxFirst, MFence, TypeOK
    <3>2. ~ Doorway(u) /\ Issued(u) = 7 /\ Len(sb[u]) = 0
      BY <3>1 DEF Doorway, DoorwayLabel, Issued, WaitLabel
    <3>3. Drained(u) = 7
      BY <3>2 DEF Drained
    <3>4. choosing[u] = 1 /\ ticket[u] = 0
      BY <1>0, <3>2, <3>3 DEF BufferInv
    <3>. QED  BY <2>0, <3>1, <3>4 DEF BufferInv, Doorway, DoorwayLabel
  <2>3. CASE MaxCompare(u) \/ MaxKeep(u)
    <3>1. /\ pc[u] \in {"max_compare", "max_keep"}
          /\ pc'[u] \in {"max_compare", "max_keep"} /\ sb' = sb
      BY <1>0, <2>3 DEF MaxCompare, MaxKeep, TypeOK
    <3>. QED  BY <1>0, <2>0, <3>1 DEF BufferInv, Doorway, DoorwayLabel
  <2>4. CASE DrawTicket(u)
    <3>1. /\ pc[u] = "max_compare" /\ pc'[u] = "drawn" /\ m' = m
          /\ sb'[u] = Append(sb[u], StoreEntry("ticket", m[u] + 1))
      BY <1>0, <2>4 DEF DrawTicket, TypeOK, Store, locals
    <3>2. sb[u] = <<>> /\ choosing[u] = 1 /\ ticket[u] = 0
      BY <1>0, <3>1 DEF BufferInv
    <3>3. sb'[u] = <<StoreEntry("ticket", m'[u] + 1)>>
      BY <3>1, <3>2
    <3>. QED  BY <2>0, <3>1, <3>2, <3>3 DEF BufferInv, Doorway, DoorwayLabel
  <2>5. CASE StopChoosing(u)
    <3>1. /\ pc[u] = "drawn" /\ pc'[u] \in {"wait_choosing", "assert"} /\ k'[u] = 0
          /\ sb[u] = <<>> /\ sb'[u] = Append(sb[u], StoreEntry("choosing", 0))
      BY <1>0, <2>5 DEF StopChoosing, Turn, MFence, TypeOK, Store
    <3>2. choosing[u] = 1 /\ ticket[u] = m[u] + 1 /\ m[u] \in Nat
      <4>1. ~ (<<>> = <<StoreEntry("ticket", m[u] + 1)>>)
        OBVIOUS
      <4>. QED  BY <1>0, <3>1, <4>1 DEF BufferInv, TypeOK
    <3>3. sb'[u] = <<StoreEntry("choosing", 0)>> /\ Len(sb'[u]) = 1
      BY <3>1
    <3>4. Issued(u)' = 1 /\ Drained(u)' = 0
      BY <3>1, <3>3 DEF Issued, Drained, WaitLabel
    <3>5. \A p \in 1 .. Len(sb'[u]) : sb'[u][p] = Stores[0 + p]
      BY <3>3, StoresAre
    <3>. QED  BY <2>0, <3>1, <3>2, <3>3, <3>4, <3>5 DEF BufferInv, Doorway, DoorwayLabel
  <2>6. CASE WaitChoosing(u) \/ WaitGreater(u) \/ WaitNonZero(u) \/ WaitEqual(u)
    <3>1. /\ pc[u] \in WaitLabel /\ pc'[u] \in WaitLabel \cup {"assert"} /\ k'[u] = k[u]
          /\ sb'[u] = sb[u]
      BY <1>0, <2>6 DEF WaitChoosing, WaitGreater, WaitNonZero, WaitEqual, Turn, TypeOK, WaitLabel, locals
    <3>2. k[u] = 0
      BY <1>0, <3>1 DEF LocalInv
    <3>3. Issued(u) = 1 /\ Issued(u)' = 1 /\ ~ Doorway(u) /\ ~ Doorway(u)'
      BY <3>1, <3>2 DEF Issued, Doorway, DoorwayLabel, WaitLabel
    <3>. QED  BY <1>0, <2>0, <3>1, <3>3, BufferSame
  <2>7. CASE AssertInCS(u)
    <3>1. /\ pc[u] = "assert" /\ pc'[u] \in {"aborted", "clear", "increment"} /\ k'[u] = k[u]
          /\ pc'[u] = "clear" => k[u] = 3
          /\ sb'[u] = sb[u]
      BY <1>0, <2>7 DEF AssertInCS, TypeOK, locals
    <3>2. Issued(u) = 1 + k[u] /\ Issued(u)' = 1 + k[u] /\ ~ Doorway(u) /\ ~ Doorway(u)'
      BY <3>1 DEF Issued, Doorway, DoorwayLabel, WaitLabel
    <3>. QED  BY <1>0, <2>0, <3>1, <3>2, BufferSame
  <2>8. CASE Increment(u)
    <3>1. /\ pc[u] = "increment" /\ pc'[u] = "assert" /\ k'[u] = k[u] + 1
          /\ Store(u, "in_cs", Seen(u, "in_cs", in_cs) + 1)
      BY <1>0, <2>8 DEF Increment, TypeOK
    <3>2. Seen(u, "in_cs", in_cs) = k[u] /\ k[u] \in {0, 1, 2}
      BY <1>0, <2>0, <3>1, SeenInCS DEF LocalInv
    <3>3. /\ Issued(u) = 1 + k[u] /\ Issued(u)' = Issued(u) + 1
          /\ ~ Doorway(u) /\ ~ Doorway(u)'
      BY <3>1, <3>2 DEF Issued, Doorway, DoorwayLabel, WaitLabel
    <3>4. StoreEntry("in_cs", k[u] + 1) = Stores[Issued(u) + 1]
      BY <3>2, <3>3 DEF Stores
    <3>. QED  BY <1>0, <2>0, <3>1, <3>2, <3>3, <3>4, EntryTypes, BufferStore
  <2>9. CASE ClearInCS(u)
    <3>1. pc[u] = "clear" /\ pc'[u] = "unlock" /\ Store(u, "in_cs", 0)
      BY <1>0, <2>9 DEF ClearInCS, TypeOK
    <3>2. /\ Issued(u) = 4 /\ Issued(u)' = 5
          /\ ~ Doorway(u) /\ ~ Doorway(u)'
      BY <3>1 DEF Issued, Doorway, DoorwayLabel, WaitLabel
    <3>3. StoreEntry("in_cs", 0) = Stores[Issued(u) + 1]
      BY <3>2 DEF Stores
    <3>. QED  BY <1>0, <2>0, <3>1, <3>2, <3>3, EntryTypes, BufferStore
  <2>10. CASE Unlock(u)
    <3>1. pc[u] = "unlock" /\ pc'[u] = "loop" /\ Store(u, "ticket", 0)
      BY <1>0, <2>10 DEF Unlock, TypeOK
    <3>2. /\ Issued(u) = 5 /\ Issued(u)' = 6
          /\ ~ Doorway(u) /\ ~ Doorway(u)'
      BY <3>1 DEF Issued, Doorway, DoorwayLabel, WaitLabel
    <3>3. StoreEntry("ticket", 0) = Stores[Issued(u) + 1]
      BY <3>2, StoresAre
    <3>. QED  BY <1>0, <2>0, <3>1, <3>2, <3>3, EntryTypes, BufferStore
  <2>11. CASE Loop(u)
    <3>1. pc[u] = "loop" /\ pc'[u] \in {"exit", "start"} /\ sb'[u] = sb[u]
      BY <1>0, <2>11 DEF Loop, TypeOK
    <3>2. Issued(u) = 6 /\ Issued(u)' = 6 /\ ~ Doorway(u) /\ ~ Doorway(u)'
      BY <3>1 DEF Issued, Doorway, DoorwayLabel, WaitLabel
    <3>. QED  BY <1>0, <2>0, <3>1, <3>2, BufferSame
  <2>. QED
    BY <1>2, <2>1, <2>2, <2>3, <2>4, <2>5, <2>6, <2>7, <2>8, <2>9, <2>10, <2>11 DEF ThreadStep
<1>3. ASSUME NEW t \in Thread, Drain(t), t # u PROVE BufferInv(u)'
  <2>1. /\ pc' = pc /\ k' = k /\ m' = m /\ sb'[u] = sb[u]
        /\ choosing'[u] = choosing[u] /\ ticket'[u] = ticket[u]
    BY <1>0, <1>3 DEF Drain, TypeOK, locals
  <2>2. Issued(u)' = Issued(u) /\ Drained(u)' = Drained(u)
    BY <2>1 DEF Issued, Drained
  <2>. QED  BY <1>0, <2>1, <2>2 DEF BufferInv, Doorway
<1>4. ASSUME Drain(u) PROVE BufferInv(u)'
  BY <1>0, <1>4, DrainBuffer
<1>5. ASSUME UNCHANGED <<pc, k, m, sb, choosing, ticket>> PROVE BufferInv(u)'
  BY <1>0, <1>5 DEF BufferInv, Doorway, Drained, Issued
<1>. QED
  BY <1>1, <1>2, <1>3, <1>4, <1>5 DEF Next, Stop, JoinAndFree, Terminated, vars, locals, memory

LEMMA LowStep == IInv /\ [Next]_vars => LowInv'
BY TypeStep, LocalStep, BufferStep DEF LowInv

LEMMA HeldNext == LowInv' => HeldInMemory'
BY HeldIsInMemory, PTL

-----------------------------------------------------------------------------
(* The order of service in a step                                          *)

(* A thread enters the doorway without a ticket.                           *)
LEMMA EntersWithoutTicket ==
  ASSUME LowInv, LowInv', NEW t \in Thread, ThreadStep(t), Doorway(t)', ~ Doorway(t)
  PROVE  MaxFirst(t) /\ ticket[t] = 0
<1>1. pc \in [Thread -> Label]
  BY DEF LowInv, TypeOK
<1>2. MaxFirst(t)
  BY <1>1 DEF ThreadStep, StartChoosing, MaxFirst, MaxCompare, MaxKeep, DrawTicket, StopChoosing,
       WaitChoosing, WaitNonZero, WaitGreater, WaitEqual, AssertInCS, Increment, ClearInCS,
       Unlock, Loop, Turn, Doorway, DoorwayLabel
<1>3. pc'[t] = "max_compare" /\ BufferInv(t)' /\ ticket' = ticket
  BY <1>1, <1>2 DEF MaxFirst, LowInv, memory
<1>. QED  BY <1>2, <1>3 DEF BufferInv

(* A thread leaves the doorway with the number it drew in memory.          *)
LEMMA LeavesWithTicket ==
  ASSUME LowInv, NEW t \in Thread, ThreadStep(t), ~ Doorway(t)', Doorway(t)
  PROVE  StopChoosing(t) /\ pc[t] = "drawn" /\ ticket[t] = m[t] + 1 /\ sb[t] = <<>>
<1>1. pc \in [Thread -> Label]
  BY DEF LowInv, TypeOK
<1>2. StopChoosing(t)
  BY <1>1 DEF ThreadStep, StartChoosing, MaxFirst, MaxCompare, MaxKeep, DrawTicket, StopChoosing,
       WaitChoosing, WaitNonZero, WaitGreater, WaitEqual, AssertInCS, Increment, ClearInCS,
       Unlock, Loop, Turn, Doorway, DoorwayLabel
<1>3. pc[t] = "drawn" /\ sb[t] = <<>> /\ BufferInv(t)
  BY <1>2 DEF StopChoosing, MFence, LowInv
<1>4. ~ (<<>> = <<StoreEntry("ticket", m[t] + 1)>>)
  OBVIOUS
<1>. QED  BY <1>2, <1>3, <1>4 DEF BufferInv

(* Steps of a thread in the wait.                                          *)
LEMMA WaitSteps ==
  ASSUME LowInv, NEW t \in Thread, ThreadStep(t), pc[t] \in WaitLabel
  PROVE  LET j == i[t] IN
         /\ j \in Thread /\ j # t
         /\ ahead' = ahead /\ m' = m
         /\ \/ /\ pc[t] = "wait_choosing" /\ choosing[j] # 1
               /\ pc'[t] = "wait_nonzero" /\ i'[t] = j
            \/ /\ pc[t] # "wait_choosing" /\ i'[t] = j
               /\ pc'[t] \in {"wait_nonzero", "wait_greater"}
            \/ /\ pc[t] = "wait_greater" /\ ticket[t] <= ticket[j]
               /\ pc'[t] = "wait_equal" /\ i'[t] = j
            \/ /\ pc[t] = "wait_nonzero" /\ ticket[j] = 0
               /\ Turn(t, NextOther(t, j + 1))
            \/ /\ pc[t] = "wait_equal" /\ ~ (ticket[t] = ticket[j] /\ t > j)
               /\ Turn(t, NextOther(t, j + 1))
<1>. DEFINE j == i[t]
<1>1. /\ pc \in [Thread -> Label] /\ i \in [Thread -> 0 .. N]
      /\ ticket \in [Thread -> Nat] /\ LocalInv(t)
  BY DEF LowInv, TypeOK
<1>2. j \in Thread /\ j # t
  <2>1. i[t] \in 0 .. N
    BY <1>1
  <2>. QED  BY <1>1, <2>1, NAssumption DEF LocalInv, Thread
<1>3. SeenTicket(t, j) = ticket[j] /\ SeenTicket(t, t) = ticket[t]
  BY <1>2, SeenTickets
<1>4. WaitChoosing(t) \/ WaitNonZero(t) \/ WaitGreater(t) \/ WaitEqual(t)
  BY DEF ThreadStep, StartChoosing, MaxFirst, MaxCompare, MaxKeep, DrawTicket, StopChoosing,
       AssertInCS, Increment, ClearInCS, Unlock, Loop, WaitLabel
<1>5. CASE WaitChoosing(t)
  <2>1. /\ pc[t] = "wait_choosing" /\ choosing[j] # 1
        /\ pc'[t] = "wait_nonzero" /\ i' = i /\ ahead' = ahead /\ m' = m
    BY <1>1, <1>5 DEF WaitChoosing, locals
  <2>. QED  BY <1>2, <2>1
<1>6. CASE WaitNonZero(t)
  <2>1. /\ pc[t] = "wait_nonzero" /\ ahead' = ahead /\ m' = m
        /\ \/ ticket[j] = 0 /\ Turn(t, NextOther(t, j + 1))
           \/ pc'[t] = "wait_greater" /\ i' = i
    BY <1>1, <1>3, <1>6 DEF WaitNonZero
  <2>. QED  BY <1>2, <2>1
<1>7. CASE WaitGreater(t)
  <2>1. /\ pc[t] = "wait_greater" /\ ahead' = ahead /\ m' = m /\ i' = i
        /\ \/ pc'[t] = "wait_nonzero"
           \/ ~ (ticket[t] > ticket[j]) /\ pc'[t] = "wait_equal"
    BY <1>1, <1>3, <1>7 DEF WaitGreater, locals
  <2>2. ticket[t] \in Nat /\ ticket[j] \in Nat
    BY <1>1, <1>2
  <2>. QED  BY <1>2, <2>1, <2>2
<1>8. CASE WaitEqual(t)
  <2>1. /\ pc[t] = "wait_equal" /\ ahead' = ahead /\ m' = m
        /\ \/ pc'[t] = "wait_nonzero" /\ i' = i
           \/ ~ (ticket[t] = ticket[j] /\ t > j) /\ Turn(t, NextOther(t, j + 1))
    BY <1>1, <1>3, <1>8 DEF WaitEqual
  <2>. QED  BY <1>2, <2>1
<1>. QED  BY <1>4, <1>5, <1>6, <1>7, <1>8

(* After the turn from j every other thread up to j is behind t.           *)
LEMMA TurnCovers ==
  ASSUME LowInv, NEW t \in Thread, NEW j \in Thread, j # t, Turn(t, NextOther(t, j + 1)),
         NEW u \in Thread, u # t
  PROVE  /\ pc'[t] \in {"wait_choosing", "assert"}
         /\ pc'[t] = "wait_choosing" => (u < i'[t] <=> u <= j)
         /\ pc'[t] = "assert" => u <= j
<1>1. /\ pc'[t] = IF NextOther(t, j + 1) = N THEN "assert" ELSE "wait_choosing"
      /\ i'[t] = NextOther(t, j + 1)
  BY DEF Turn, LowInv, TypeOK
<1>2. u \in 0 .. N - 1 /\ j \in 0 .. N - 1 /\ t \in 0 .. N - 1
  BY DEF Thread
<1>3. u < NextOther(t, j + 1) <=> u <= j
  BY <1>2 DEF NextOther
<1>. QED  BY <1>1, <1>2, <1>3, NAssumption

(* Those ahead of a waiting thread are not among those it has passed.      *)
LEMMA AheadNotPassed ==
  ASSUME IInv, NEW t \in Thread, NEW u \in ahead[t], pc[t] \in WaitLabel
  PROVE  /\ u \in Thread /\ u # t /\ ticket[u] # 0 /\ ~ Doorway(u)
         /\ ~ Passed(t, u)
         /\ ~ (pc[t] = "wait_equal" /\ i[t] = u)
<1>1. u \in Thread /\ ticket[u] \in Nat /\ ticket[t] \in Nat
  BY DEF IInv, LowInv, TypeOK
<1>2. u # t /\ ticket[u] # 0 /\ ~ Doorway(u) /\ ticket[u] < ticket[t]
  BY DEF IInv, AheadInv
<1>3. ~ Before(t, u)
  BY <1>1, <1>2 DEF Before
<1>4. PassInv(t, u)
  BY <1>1, <1>2 DEF IInv
<1>. QED  BY <1>1, <1>2, <1>3, <1>4 DEF PassInv

(* Those ahead stay ahead until they give the lock back.                   *)
LEMMA AheadStep == IInv /\ [Next]_vars => \A j \in Thread : AheadInv(j)'
<1>. SUFFICES ASSUME IInv, [Next]_vars, NEW j \in Thread PROVE AheadInv(j)'
  OBVIOUS
<1>0. /\ LowInv /\ LowInv' /\ TypeOK /\ AheadInv(j)
      /\ ahead[j] \subseteq Thread
      /\ ticket \in [Thread -> Nat] /\ pc \in [Thread -> Label]
      /\ i[j] \in 0 .. N /\ m[j] \in Nat
  BY LowStep DEF IInv, LowInv, TypeOK
<1>1. ASSUME NEW t \in Thread, ThreadStep(t), t # j PROVE AheadInv(j)'
  <2>1. Still(j) /\ ahead'[j] = ahead[j] /\ ticket' = ticket
    BY <1>0, <1>1, OthersStill, MemoryStill
  <2>2. ASSUME NEW u \in ahead[j] PROVE u # j /\ ticket[u] # 0 /\ ~ Doorway(u)'
    <3>1. u \in Thread /\ u # j /\ ticket[u] # 0 /\ ~ Doorway(u)
      BY <1>0 DEF AheadInv
    <3>2. CASE u = t
      BY <1>0, <1>1, <3>1, <3>2, EntersWithoutTicket
    <3>3. CASE u # t
      <4>1. pc'[u] = pc[u]
        BY <1>0, <1>1, <3>1, <3>3, OthersStill DEF Still
      <4>. QED  BY <3>1, <4>1 DEF Doorway
    <3>. QED  BY <3>1, <3>2, <3>3
  <2>. QED  BY <1>0, <2>1, <2>2 DEF Still, AheadInv, Doorway
<1>2. ASSUME ThreadStep(j) PROVE AheadInv(j)'
  <2>0. /\ ticket' = ticket
        /\ \A u \in Thread : u # j => pc'[u] = pc[u]
    BY <1>0, <1>2, OthersStill, MemoryStill DEF Still
  <2>1. ASSUME NEW u \in ahead[j] PROVE u \in Thread /\ u # j /\ ticket[u] # 0 /\ ~ Doorway(u)'
    BY <1>0, <2>0 DEF AheadInv, Doorway
  <2>2. CASE MaxFirst(j)
    <3>1. /\ pc'[j] = "max_compare" /\ i'[j] = 1 /\ m'[j] = SeenTicket(j, 0)
          /\ ahead'[j] = Waiting \ {j} /\ sb[j] = <<>>
      BY <1>0, <2>2 DEF MaxFirst, MFence, TypeOK
    <3>2. 0 \in Thread /\ m'[j] = ticket[0]
      BY <1>0, <3>1, SeenTickets, NAssumption DEF Thread
    <3>3. ASSUME NEW u \in ahead'[j]
          PROVE  /\ u # j /\ ticket[u] # 0 /\ ~ Doorway(u)'
                 /\ u < 1 => ticket[u] <= ticket[0]
      <4>1. u \in Waiting /\ u # j
        BY <3>1
      <4>2. u \in Thread /\ ticket[u] # 0 /\ ~ Doorway(u)'
        BY <2>0, <4>1 DEF Waiting, Doorway
      <4>3. u < 1 => u = 0
        BY <4>2 DEF Thread
      <4>4. ticket[u] \in Nat
        BY <1>0, <4>2
      <4>. QED  BY <4>1, <4>2, <4>3, <4>4
    <3>. QED  BY <2>0, <3>1, <3>2, <3>3 DEF AheadInv, Doorway, DoorwayLabel, WaitLabel
  <2>3. CASE MaxCompare(j) \/ MaxKeep(j)
    <3>1. ahead' = ahead /\ pc[j] \in {"max_compare", "max_keep"}
      BY <2>3 DEF MaxCompare, MaxKeep
    <3>2. ASSUME NEW u \in ahead[j]
          PROVE  u \in Int /\ ticket[u] \in Nat
      BY <1>0, <2>1 DEF Thread
    <3>3. CASE MaxCompare(j)
      <4>1. /\ pc[j] = "max_compare" /\ i[j] \in Thread /\ m'[j] = m[j]
            /\ \/ SeenTicket(j, i[j]) > m[j] /\ pc'[j] = "max_keep" /\ i'[j] = i[j]
               \/ ~ (SeenTicket(j, i[j]) > m[j]) /\ pc'[j] = "max_compare" /\ i'[j] = i[j] + 1
        <5>1. i[j] \in Thread /\ m' = m /\ pc[j] = "max_compare"
          BY <1>0, <3>3, NAssumption DEF MaxCompare, Thread
        <5>2. i \in [Thread -> 0 .. N]
          BY <1>0 DEF TypeOK
        <5>. QED  BY <1>0, <3>3, <5>1, <5>2 DEF MaxCompare
      <4>2. SeenTicket(j, i[j]) = ticket[i[j]] /\ ticket[i[j]] \in Nat
        BY <1>0, <3>1, <4>1, SeenTickets
      <4>3. \A u \in ahead[j] : u < i[j] => ticket[u] <= m[j]
        BY <1>0, <4>1 DEF AheadInv
      <4>4. CASE pc'[j] = "max_keep"
        <5>1. \A u \in ahead[j] : u < i[j] => ticket[u] < ticket[i[j]]
          BY <1>0, <3>2, <4>1, <4>2, <4>3, <4>4
        <5>. QED  BY <2>0, <2>1, <3>1, <4>1, <4>4, <5>1 DEF AheadInv, Doorway, DoorwayLabel, WaitLabel
      <4>5. CASE pc'[j] = "max_compare"
        <5>1. \A u \in ahead[j] : u < i[j] + 1 => u < i[j] \/ u = i[j]
          BY <1>0, <3>2
        <5>2. ticket[i[j]] <= m[j]
          BY <1>0, <4>1, <4>2, <4>5
        <5>3. \A u \in ahead[j] : u < i[j] + 1 => ticket[u] <= m[j]
          BY <4>3, <5>1, <5>2
        <5>. QED  BY <2>0, <2>1, <3>1, <4>1, <4>5, <5>3 DEF AheadInv, Doorway, DoorwayLabel, WaitLabel
      <4>. QED  BY <4>1, <4>4, <4>5
    <3>4. CASE MaxKeep(j)
      <4>1. /\ pc[j] = "max_keep" /\ pc'[j] = "max_compare" /\ i'[j] = i[j] + 1
            /\ m'[j] = SeenTicket(j, i[j])
        BY <1>0, <3>4 DEF MaxKeep, TypeOK
      <4>2. i[j] \in Thread
        <5>1. LocalInv(j)
          BY <1>0 DEF LowInv
        <5>. QED  BY <1>0, <4>1, <5>1, NAssumption DEF LocalInv, Thread
      <4>3. m'[j] = ticket[i[j]] /\ ticket[i[j]] \in Nat
        BY <1>0, <3>1, <4>1, <4>2, SeenTickets
      <4>4. \A u \in ahead[j] : u < i[j] + 1 => u < i[j] \/ u = i[j]
        BY <1>0, <3>2
      <4>5. \A u \in ahead[j] : u < i[j] => ticket[u] < ticket[i[j]]
        BY <1>0, <4>1 DEF AheadInv
      <4>6. \A u \in ahead[j] : u < i[j] + 1 => ticket[u] <= ticket[i[j]]
        BY <3>2, <4>3, <4>4, <4>5
      <4>. QED  BY <2>0, <2>1, <3>1, <4>1, <4>3, <4>6 DEF AheadInv, Doorway, DoorwayLabel, WaitLabel
    <3>. QED  BY <2>3, <3>3, <3>4
  <2>4. CASE DrawTicket(j)
    <3>1. /\ pc[j] = "max_compare" /\ pc'[j] = "drawn" /\ i[j] = N
          /\ m' = m /\ ahead' = ahead
      BY <1>0, <2>4 DEF DrawTicket, locals
    <3>2. \A u \in ahead[j] : u < i[j]
      BY <2>1, <3>1, NAssumption DEF Thread
    <3>3. \A u \in ahead[j] : ticket[u] <= m[j]
      BY <1>0, <3>1, <3>2 DEF AheadInv
    <3>. QED  BY <2>0, <2>1, <3>1, <3>3 DEF AheadInv, Doorway, DoorwayLabel, WaitLabel
  <2>5. CASE StopChoosing(j)
    <3>1. /\ pc[j] = "drawn" /\ ahead' = ahead
          /\ pc'[j] = IF NextOther(j, 0) = N THEN "assert" ELSE "wait_choosing"
      BY <1>0, <2>5 DEF StopChoosing, Turn
    <3>2. ~ Doorway(j)' /\ Doorway(j)
      BY <3>1 DEF Doorway, DoorwayLabel
    <3>3. ticket[j] = m[j] + 1
      BY <1>0, <1>2, <3>2, LeavesWithTicket
    <3>4. \A u \in ahead[j] : ticket[u] < ticket[j]
      <4>1. \A u \in ahead[j] : ticket[u] <= m[j] /\ ticket[u] \in Nat
        BY <1>0, <2>1, <3>1 DEF AheadInv
      <4>. QED  BY <1>0, <3>3, <4>1
    <3>5. CASE NextOther(j, 0) = N
      <4>1. \A u \in ahead[j] : FALSE
        BY <2>1, <3>5, NAssumption DEF NextOther, Thread
      <4>. QED  BY <3>1, <3>5, <4>1 DEF AheadInv, WaitLabel, Doorway, DoorwayLabel
    <3>6. CASE NextOther(j, 0) # N
      BY <2>0, <2>1, <3>1, <3>4, <3>6 DEF AheadInv, WaitLabel, Doorway, DoorwayLabel
    <3>. QED  BY <3>5, <3>6
  <2>6. CASE pc[j] \in WaitLabel
    <3>1. i[j] \in Thread /\ i[j] # j /\ ahead' = ahead
      BY <1>0, <1>2, <2>6, WaitSteps
    <3>2. CASE pc'[j] \in WaitLabel
      <4>1. \A u \in ahead[j] : ticket[u] < ticket[j]
        BY <1>0, <2>6 DEF AheadInv
      <4>. QED  BY <2>0, <2>1, <3>1, <3>2, <4>1 DEF AheadInv, WaitLabel, Doorway, DoorwayLabel
    <3>3. CASE pc'[j] \notin WaitLabel
      <4>1. /\ Turn(j, NextOther(j, i[j] + 1))
            /\ \/ pc[j] = "wait_nonzero" /\ ticket[i[j]] = 0
               \/ pc[j] = "wait_equal"
        BY <1>0, <1>2, <2>6, <3>3, WaitSteps DEF WaitLabel
      <4>2. pc'[j] = "assert"
        BY <1>0, <4>1, <3>3 DEF Turn, WaitLabel
      <4>3. ASSUME NEW u \in ahead[j] PROVE FALSE
        <5>1. u <= i[j]
          BY <1>0, <2>1, <3>1, <4>1, <4>2, TurnCovers
        <5>2. /\ ~ Passed(j, u) /\ ticket[u] # 0
              /\ ~ (pc[j] = "wait_equal" /\ i[j] = u)
          BY <2>6, AheadNotPassed
        <5>3. ~ (u < i[j])
          BY <2>6, <5>2 DEF Passed
        <5>4. u = i[j]
          BY <2>1, <3>1, <5>1, <5>3 DEF Thread
        <5>. QED  BY <4>1, <5>2, <5>4
      <4>. QED  BY <3>1, <4>2, <4>3 DEF AheadInv, WaitLabel, Doorway, DoorwayLabel
    <3>. QED  BY <3>2, <3>3
  <2>7. CASE StartChoosing(j) \/ AssertInCS(j) \/ Increment(j) \/ ClearInCS(j) \/ Unlock(j) \/ Loop(j)
    <3>1. /\ ~ Doorway(j) /\ pc[j] \notin WaitLabel
          /\ ~ Doorway(j)' /\ pc'[j] \notin WaitLabel /\ ahead' = ahead
      BY <1>0, <2>7 DEF StartChoosing, AssertInCS, Increment, ClearInCS, Unlock, Loop,
         Doorway, DoorwayLabel, WaitLabel
    <3>. QED  BY <1>0, <3>1 DEF AheadInv, Doorway, DoorwayLabel
  <2>. QED
    BY <1>2, <2>2, <2>3, <2>4, <2>5, <2>6, <2>7
       DEF ThreadStep, WaitChoosing, WaitNonZero, WaitGreater, WaitEqual, WaitLabel
<1>3. ASSUME NEW t \in Thread, Drain(t) PROVE AheadInv(j)'
  <2>0. pc' = pc /\ i' = i /\ m' = m /\ \A u \in Thread : Doorway(u)' <=> Doorway(u)
    BY <1>3 DEF Drain, locals, Doorway
  <2>1. CASE Doorway(t)
    <3>1. ticket[t] = 0 /\ ticket' = [ticket EXCEPT ![t] = m[t] + 1] /\ ahead' = ahead
          /\ pc[t] = "drawn"
      BY <1>0, <1>3, <2>1, DrainDoorway
    <3>2. \A u \in ahead[j] : u # t /\ ticket'[u] = ticket[u] /\ ticket[u] \in Nat /\ u \in Thread
      BY <1>0, <3>1 DEF AheadInv
    <3>3. CASE pc[j] = "max_keep"
      <4>1. i[j] \in Thread
        <5>1. LocalInv(j)
          BY <1>0 DEF LowInv
        <5>. QED  BY <1>0, <3>3, <5>1, NAssumption DEF LocalInv, Thread
      <4>2. \A u \in ahead[j] : u < i[j] => ticket[u] < ticket[i[j]]
        BY <1>0, <3>3 DEF AheadInv
      <4>3. \A u \in ahead[j] : u < i[j] => ticket'[u] < ticket'[i[j]]
        <5>1. CASE i[j] = t
          BY <3>1, <3>2, <4>2, <5>1
        <5>2. CASE i[j] # t
          BY <1>0, <3>1, <3>2, <4>1, <4>2, <5>2
        <5>. QED  BY <5>1, <5>2
      <4>. QED  BY <1>0, <2>0, <3>1, <3>2, <3>3, <4>3 DEF AheadInv, WaitLabel, Doorway, DoorwayLabel
    <3>4. CASE pc[j] # "max_keep"
      <4>1. pc[j] \in WaitLabel => ticket'[j] = ticket[j]
        BY <1>0, <3>1 DEF WaitLabel
      <4>. QED  BY <1>0, <2>0, <3>1, <3>2, <3>4, <4>1 DEF AheadInv, Doorway
    <3>. QED  BY <3>3, <3>4
  <2>2. CASE ~ Doorway(t) /\ Drained(t) = 5
    <3>1. ticket' = [ticket EXCEPT ![t] = 0] /\ ahead'[j] = ahead[j] \ {t}
      BY <1>0, <1>3, <2>2, DrainMemory
    <3>2. \A u \in ahead'[j] : u \in ahead[j] /\ u # t /\ ticket'[u] = ticket[u] /\ u \in Thread
      BY <1>0, <3>1
    <3>3. pc[t] \notin WaitLabel /\ ticket[t] # 0
      <4>1. pc[t] \in WaitLabel => Issued(t) = 1
        BY DEF Issued, WaitLabel
      <4>2. Drained(t) \in 0 .. Issued(t) /\ (ticket[t] = 0 <=> Drained(t) >= 6)
        BY <1>0, <2>2, Counts DEF LowInv, BufferInv
      <4>. QED  BY <2>2, <4>1, <4>2
    <3>4. Held(t)
      BY <1>0, <2>2, <3>3, HeldIsInMemory DEF HeldInMemory
    <3>5. CASE pc[j] = "max_keep"
      <4>1. i[j] \in Thread
        <5>1. LocalInv(j)
          BY <1>0 DEF LowInv
        <5>. QED  BY <1>0, <3>5, <5>1, NAssumption DEF LocalInv, Thread
      <4>2. \A u \in ahead[j] : u < i[j] => ticket[u] < ticket[i[j]]
        BY <1>0, <3>5 DEF AheadInv
      <4>3. ASSUME NEW u \in ahead'[j], u < i[j] PROVE ticket'[u] < ticket'[i[j]]
        <5>1. CASE i[j] = t
          <6>1. u \in Thread /\ u # t /\ ticket[u] # 0 /\ ~ Doorway(u)
            BY <1>0, <3>2 DEF AheadInv
          <6>2. Before(t, u)
            BY <3>4, <6>1 DEF IInv, PassInv, Passed
          <6>3. ticket[u] \in Nat /\ ticket[t] \in Nat /\ ticket[u] < ticket[t]
            BY <1>0, <3>2, <4>2, <4>3, <5>1
          <6>. QED  BY <6>2, <6>3 DEF Before
        <5>2. CASE i[j] # t
          BY <1>0, <3>1, <3>2, <4>1, <4>2, <4>3, <5>2
        <5>. QED  BY <5>1, <5>2
      <4>. QED  BY <1>0, <2>0, <3>2, <3>5, <4>3 DEF AheadInv, WaitLabel, Doorway, DoorwayLabel
    <3>6. CASE pc[j] # "max_keep"
      <4>1. pc[j] \in WaitLabel => ticket'[j] = ticket[j]
        BY <1>0, <3>1, <3>3
      <4>2. ahead[j] = {} => ahead'[j] = {}
        BY <3>1
      <4>. QED  BY <1>0, <2>0, <3>2, <3>6, <4>1, <4>2 DEF AheadInv, Doorway
    <3>. QED  BY <3>5, <3>6
  <2>3. CASE ~ Doorway(t) /\ Drained(t) # 5
    <3>1. ticket' = ticket /\ ahead' = ahead
      BY <1>0, <1>3, <2>3, DrainMemory
    <3>. QED  BY <1>0, <2>0, <3>1 DEF AheadInv
  <2>. QED  BY <2>1, <2>2, <2>3
<1>4. ASSUME UNCHANGED <<pc, i, m, ticket, ahead>> PROVE AheadInv(j)'
  BY <1>0, <1>4 DEF AheadInv, Doorway
<1>. QED
  BY <1>1, <1>2, <1>3, <1>4 DEF Next, Stop, JoinAndFree, Terminated, vars, locals, memory

(* Only a step of t changes whether t holds the lock, or a drain of t.     *)
LEMMA HeldStill ==
  ASSUME TypeOK, NEW t \in Thread, pc'[t] = pc[t], sb'[t] = sb[t]
  PROVE  Held(t)' <=> Held(t)
BY DEF Held, InCS

(* What t has passed stays behind it.                                      *)
LEMMA PassStep == IInv /\ [Next]_vars => \A t, j \in Thread : t # j => PassInv(t, j)'
<1>. SUFFICES ASSUME IInv, [Next]_vars, NEW t \in Thread, NEW j \in Thread, t # j
              PROVE  PassInv(t, j)'
  OBVIOUS
<1>0. /\ LowInv /\ LowInv' /\ TypeOK /\ PassInv(t, j) /\ AheadInv(j)
      /\ ticket \in [Thread -> Nat] /\ pc \in [Thread -> Label]
      /\ HeldInMemory /\ HeldInMemory'
      /\ t \in Int /\ j \in Int
  <2>1. LowInv /\ PassInv(t, j) /\ AheadInv(j)
    BY DEF IInv
  <2>2. LowInv'
    BY LowStep
  <2>3. HeldInMemory /\ HeldInMemory'
    BY <2>1, <2>2, HeldIsInMemory, HeldNext
  <2>4. TypeOK /\ ticket \in [Thread -> Nat] /\ pc \in [Thread -> Label]
    BY <2>1 DEF LowInv, TypeOK
  <2>5. t \in Int /\ j \in Int
    BY DEF Thread
  <2>. QED  BY <2>1, <2>2, <2>3, <2>4, <2>5
<1>. DEFINE Kept(u) == Still(u) /\ sb'[u] = sb[u] /\ ahead'[u] = ahead[u]
<1>1. ASSUME NEW s \in Thread, ThreadStep(s), s # t PROVE PassInv(t, j)'
  <2>1. Kept(t) /\ ticket' = ticket
    BY <1>0, <1>1, OthersStill, MemoryStill
  <2>2. Held(t)' <=> Held(t)
    BY <1>0, <2>1, HeldStill DEF Still
  <2>3. /\ PassedChoosing(t, j)' <=> PassedChoosing(t, j)
        /\ Passed(t, j)' <=> Passed(t, j)
    BY <2>1, <2>2 DEF PassedChoosing, Passed, Still
  <2>4. CASE s # j
    <3>1. Kept(j)
      BY <1>0, <1>1, <2>4, OthersStill
    <3>. QED  BY <1>0, <2>1, <2>3, <3>1 DEF PassInv, Still, Doorway, Before
  <2>5. CASE s = j
    <3>1. PassedChoosing(t, j) => ticket[t] # 0 /\ ~ Doorway(t)
      BY <1>0, TicketShown DEF PassedChoosing, HeldInMemory
    <3>2. ASSUME PassedChoosing(t, j), Doorway(j)' PROVE t \in ahead'[j]
      <4>1. CASE Doorway(j)
        <5>1. ahead'[j] = ahead[j]
          <6>1. ~ MaxFirst(j)
            BY <4>1 DEF MaxFirst, Doorway, DoorwayLabel
          <6>. QED  BY <1>1, <2>5, <6>1 DEF ThreadStep, StartChoosing, MaxCompare, MaxKeep, DrawTicket,
               StopChoosing, WaitChoosing, WaitNonZero, WaitGreater, WaitEqual, AssertInCS, Increment,
               ClearInCS, Unlock, Loop
        <5>. QED  BY <1>0, <3>2, <4>1, <5>1 DEF PassInv
      <4>2. CASE ~ Doorway(j)
        <5>1. MaxFirst(j)
          BY <1>0, <1>1, <2>5, <3>2, <4>2, EntersWithoutTicket
        <5>2. ahead'[j] = Waiting \ {j}
          BY <1>0, <5>1 DEF MaxFirst, TypeOK
        <5>. QED  BY <3>1, <3>2, <5>2 DEF Waiting, Doorway
      <4>. QED  BY <4>1, <4>2
    <3>3. ASSUME PassedChoosing(t, j), ~ Doorway(j)', Doorway(j) PROVE ticket[t] < ticket[j]
      <4>1. pc[j] = "drawn" /\ ticket[j] = m[j] + 1
        BY <1>0, <1>1, <2>5, <3>3, LeavesWithTicket
      <4>2. t \in ahead[j]
        BY <1>0, <3>3 DEF PassInv
      <4>3. ticket[t] <= m[j] /\ ticket[t] \in Nat /\ m[j] \in Nat
        BY <1>0, <4>1, <4>2 DEF AheadInv, TypeOK
      <4>. QED  BY <4>1, <4>3
    <3>4. ASSUME Passed(t, j), ~ Doorway(j)', ticket[j] # 0 PROVE Before(t, j)
      <4>1. PassedChoosing(t, j)
        BY <3>4 DEF Passed, PassedChoosing
      <4>. QED  BY <1>0, <3>3, <3>4, <4>1 DEF PassInv, Before
    <3>5. ASSUME pc[t] = "wait_equal", i[t] = j, ~ Doorway(j)', ticket[j] # 0
          PROVE  ticket[t] <= ticket[j]
      <4>1. PassedChoosing(t, j)
        BY <3>5 DEF PassedChoosing, WaitLabel
      <4>2. ticket[t] \in Nat /\ ticket[j] \in Nat
        BY <1>0
      <4>. QED  BY <1>0, <3>3, <3>5, <4>1, <4>2 DEF PassInv
    <3>. QED  BY <2>1, <2>3, <3>2, <3>4, <3>5 DEF PassInv, Still, Before
  <2>. QED  BY <2>4, <2>5
<1>2. ASSUME ThreadStep(t) PROVE PassInv(t, j)'
  <2>0. Kept(j) /\ ticket' = ticket
    BY <1>0, <1>2, OthersStill, MemoryStill
  <2>1. Doorway(j)' <=> Doorway(j)
    BY <2>0 DEF Still, Doorway
  <2>2. Doorway(j) => choosing[j] = 1
    BY <1>0 DEF LowInv, BufferInv, Doorway, DoorwayLabel
  <2>3. ticket[t] \in Nat /\ ticket[j] \in Nat
    BY <1>0
  <2>4. CASE pc[t] \in WaitLabel
    <3>. DEFINE c == i[t]
    <3>1. c \in Thread /\ c # t
      BY <1>0, <1>2, <2>4, WaitSteps
    <3>2. CASE pc'[t] \in WaitLabel /\ i'[t] = c
      <4>1. ~ Held(t)'
        BY <1>0, <3>2 DEF HeldInMemory
      <4>2. /\ PassedChoosing(t, j)' => PassedChoosing(t, j) \/ choosing[j] # 1
            /\ Passed(t, j)' => Passed(t, j)
            /\ pc'[t] = "wait_equal" /\ i'[t] = j => ticket[t] <= ticket[j]
        <5>1. \/ pc[t] = "wait_choosing" /\ choosing[c] # 1 /\ pc'[t] = "wait_nonzero"
              \/ pc[t] # "wait_choosing" /\ pc'[t] \in {"wait_nonzero", "wait_greater"}
              \/ pc[t] = "wait_greater" /\ ticket[t] <= ticket[c] /\ pc'[t] = "wait_equal"
          <6>1. ~ Turn(t, NextOther(t, c + 1))
            <7>1. c # NextOther(t, c + 1)
              BY <3>1 DEF NextOther, Thread
            <7>2. i \in [Thread -> 0 .. N]
              BY <1>0 DEF TypeOK
            <7>. QED  BY <3>2, <7>1, <7>2 DEF Turn
          <6>. QED  BY <1>0, <1>2, <2>4, <6>1, WaitSteps
        <5>. QED  BY <2>4, <3>2, <4>1, <5>1 DEF PassedChoosing, Passed, WaitLabel
      <4>. QED  BY <1>0, <2>0, <2>1, <2>2, <4>2 DEF PassInv, Still, Before
    <3>3. CASE Turn(t, NextOther(t, c + 1)) /\ pc[t] \in {"wait_nonzero", "wait_equal"}
      <4>1. /\ pc'[t] \in {"wait_choosing", "assert"}
            /\ pc'[t] = "wait_choosing" => (j < i'[t] <=> j <= c)
            /\ pc'[t] = "assert" => j <= c
        BY <1>0, <3>1, <3>3, TurnCovers
      <4>2. PassedChoosing(t, j)' => j <= c
        BY <1>0, <4>1 DEF PassedChoosing, HeldInMemory, WaitLabel
      <4>3. j <= c => j < c \/ j = c
        BY <3>1 DEF Thread
      <4>4. PassedChoosing(t, j)' => PassedChoosing(t, j)
        BY <2>4, <3>3, <4>2, <4>3 DEF PassedChoosing, WaitLabel
      <4>5. Passed(t, j)' => PassedChoosing(t, j)'
        BY DEF Passed, PassedChoosing
      <4>6. ASSUME Passed(t, j)', ~ Doorway(j), ticket[j] # 0 PROVE Before(t, j)
        <5>1. CASE j < c
          BY <1>0, <2>4, <4>6, <5>1 DEF PassInv, Passed
        <5>2. CASE j = c
          <6>1. \/ pc[t] = "wait_nonzero" /\ ticket[j] = 0
                \/ pc[t] = "wait_equal" /\ ~ (ticket[t] = ticket[j] /\ t > j)
            <7>1. pc'[t] # "wait_greater" /\ pc'[t] # "wait_nonzero" /\ pc'[t] # "wait_equal"
              BY <4>1
            <7>. QED  BY <1>0, <1>2, <2>4, <5>2, <7>1, WaitSteps
          <6>2. pc[t] = "wait_equal" /\ ticket[t] <= ticket[j]
            BY <1>0, <4>6, <5>2, <6>1 DEF PassInv
          <6>. QED  BY <1>0, <2>3, <6>1, <6>2 DEF Before
        <5>. QED  BY <4>2, <4>3, <4>5, <4>6, <5>1, <5>2
      <4>7. pc'[t] # "wait_equal"
        BY <4>1
      <4>. QED  BY <1>0, <2>0, <2>1, <4>4, <4>6, <4>7 DEF PassInv, Before
    <3>. QED  BY <1>0, <1>2, <2>4, <3>2, <3>3, WaitSteps DEF WaitLabel
  <2>5. CASE pc[t] \notin WaitLabel /\ ~ StopChoosing(t)
    <3>1. pc'[t] \notin WaitLabel
      BY <1>0, <1>2, <2>5
         DEF ThreadStep, StartChoosing, MaxFirst, MaxCompare, MaxKeep, DrawTicket,
             WaitChoosing, WaitNonZero, WaitGreater, WaitEqual, AssertInCS, Increment,
             ClearInCS, Unlock, Loop, WaitLabel
    <3>2. Held(t)' => Held(t)
      <4>1. Doorway(t) => Doorway(t)'
        BY <1>0, <1>2, <2>5, LeavesWithTicket
      <4>. QED  BY <1>0, <2>0, <2>5, <4>1 DEF HeldInMemory
    <3>3. /\ PassedChoosing(t, j)' => PassedChoosing(t, j)
          /\ Passed(t, j)' => Passed(t, j)
          /\ pc'[t] # "wait_equal"
      BY <3>1, <3>2 DEF PassedChoosing, Passed, WaitLabel
    <3>. QED  BY <1>0, <2>0, <2>1, <3>3 DEF PassInv, Before
  <2>6. CASE StopChoosing(t)
    <3>1. /\ pc'[t] = IF NextOther(t, 0) = N THEN "assert" ELSE "wait_choosing"
          /\ i'[t] = NextOther(t, 0)
      BY <1>0, <2>6 DEF StopChoosing, Turn, TypeOK
    <3>2. t \in 0 .. N - 1 /\ j \in 0 .. N - 1
      BY DEF Thread
    <3>3. NextOther(t, 0) # N /\ ~ (j < NextOther(t, 0))
      BY <3>2, NAssumption DEF NextOther
    <3>4. ~ PassedChoosing(t, j)' /\ ~ Passed(t, j)' /\ pc'[t] # "wait_equal"
      BY <1>0, <3>1, <3>3 DEF PassedChoosing, Passed, HeldInMemory, WaitLabel
    <3>. QED  BY <3>4 DEF PassInv
  <2>. QED  BY <2>4, <2>5, <2>6
<1>3. ASSUME NEW s \in Thread, Drain(s) PROVE PassInv(t, j)'
  <2>0. /\ pc' = pc /\ i' = i
        /\ Doorway(t)' <=> Doorway(t)
        /\ Doorway(j)' <=> Doorway(j)
    BY <1>3 DEF Drain, locals, Doorway
  <2>1. CASE Doorway(s)
    <3>1. ticket' = [ticket EXCEPT ![s] = m[s] + 1] /\ ahead' = ahead
      BY <1>0, <1>3, <2>1, DrainDoorway
    <3>2. CASE s = t
      <4>1. ~ PassedChoosing(t, j)' /\ ~ Passed(t, j)' /\ pc'[t] # "wait_equal"
        <5>1. pc'[t] \notin WaitLabel
          BY <2>0, <2>1, <3>2 DEF Doorway, DoorwayLabel, WaitLabel
        <5>. QED  BY <1>0, <2>0, <2>1, <3>2, <5>1 DEF PassedChoosing, Passed, HeldInMemory, WaitLabel
      <4>. QED  BY <4>1 DEF PassInv
    <3>3. CASE s # t
      <4>1. ticket'[t] = ticket[t] /\ (Held(t)' <=> Held(t))
        BY <1>0, <2>0, <3>1, <3>3 DEF HeldInMemory
      <4>2. /\ PassedChoosing(t, j)' <=> PassedChoosing(t, j)
            /\ Passed(t, j)' <=> Passed(t, j)
        BY <2>0, <4>1 DEF PassedChoosing, Passed
      <4>3. CASE s = j
        BY <1>0, <2>0, <2>1, <3>1, <4>2, <4>3 DEF PassInv
      <4>4. CASE s # j
        <5>1. ticket'[j] = ticket[j]
          BY <1>0, <3>1, <4>4
        <5>. QED  BY <1>0, <2>0, <3>1, <4>1, <4>2, <5>1 DEF PassInv, Before
      <4>. QED  BY <4>3, <4>4
    <3>. QED  BY <3>2, <3>3
  <2>2. CASE ~ Doorway(s) /\ Drained(s) = 5
    <3>1. ticket' = [ticket EXCEPT ![s] = 0] /\ ahead'[j] = ahead[j] \ {s}
      BY <1>0, <1>3, <2>2, DrainMemory
    <3>2. pc[s] \notin WaitLabel
      <4>1. pc[s] \in WaitLabel => Issued(s) = 1
        BY DEF Issued, WaitLabel
      <4>2. Drained(s) \in 0 .. Issued(s)
        BY <1>0, <2>2, Counts
      <4>. QED  BY <2>2, <4>1, <4>2
    <3>3. CASE s = t
      <4>1. ticket'[t] = 0
        BY <1>0, <3>1, <3>3
      <4>2. ~ PassedChoosing(t, j)' /\ ~ Passed(t, j)' /\ pc'[t] # "wait_equal"
        BY <1>0, <2>0, <3>2, <3>3, <4>1 DEF PassedChoosing, Passed, HeldInMemory, WaitLabel
      <4>. QED  BY <4>2 DEF PassInv
    <3>4. CASE s # t
      <4>1. ticket'[t] = ticket[t] /\ (Held(t)' <=> Held(t))
        BY <1>0, <2>0, <3>1, <3>4 DEF HeldInMemory
      <4>2. /\ PassedChoosing(t, j)' <=> PassedChoosing(t, j)
            /\ Passed(t, j)' <=> Passed(t, j)
            /\ t \in ahead[j] => t \in ahead'[j]
        BY <2>0, <3>1, <3>4, <4>1 DEF PassedChoosing, Passed
      <4>3. CASE s = j
        <5>1. ticket'[j] = 0 /\ ~ Doorway(j)'
          BY <1>0, <2>0, <2>2, <3>1, <4>3
        <5>. QED  BY <5>1 DEF PassInv
      <4>4. CASE s # j
        <5>1. ticket'[j] = ticket[j]
          BY <1>0, <3>1, <4>4
        <5>. QED  BY <1>0, <2>0, <4>1, <4>2, <5>1 DEF PassInv, Before
      <4>. QED  BY <4>3, <4>4
    <3>. QED  BY <3>3, <3>4
  <2>3. CASE ~ Doorway(s) /\ Drained(s) # 5
    <3>1. ticket' = ticket /\ ahead' = ahead
      BY <1>0, <1>3, <2>3, DrainMemory
    <3>2. Held(t)' <=> Held(t)
      BY <1>0, <2>0, <3>1 DEF HeldInMemory
    <3>. QED  BY <1>0, <2>0, <3>1, <3>2 DEF PassInv, PassedChoosing, Passed, Before
  <2>. QED  BY <2>1, <2>2, <2>3
<1>4. ASSUME UNCHANGED <<pc, i, sb, ticket, ahead>> PROVE PassInv(t, j)'
  BY <1>0, <1>4 DEF PassInv, PassedChoosing, Passed, Held, InCS, Before, Doorway
<1>. QED
  BY <1>1, <1>2, <1>3, <1>4 DEF Next, Stop, JoinAndFree, Terminated, vars, locals, memory

-----------------------------------------------------------------------------
(* The counter of the critical section in a step                           *)

(* A step outside the doorway drains nothing.                              *)
LEMMA StepDrainsNothing ==
  ASSUME IInv, NEW t \in Thread, ThreadStep(t), ~ Doorway(t), ~ Doorway(t)'
  PROVE  Drained(t)' = Drained(t)
<1>0. /\ pc \in [Thread -> Label] /\ sb \in [Thread -> Seq(StoreSet)] /\ k \in [Thread -> 0 .. 3]
      /\ LocalInv(t) /\ LowInv
  BY DEF IInv, LowInv, TypeOK
<1>1. CASE StartChoosing(t) \/ Increment(t) \/ ClearInCS(t) \/ Unlock(t)
  <2>1. \E e \in StoreSet : sb'[t] = Append(sb[t], e)
    <3>1. CASE StartChoosing(t)
      BY <1>0, <3>1, EntryTypes DEF StartChoosing, Store
    <3>2. CASE Increment(t)
      <4>0. pc[t] = "increment" /\ k[t] \in 0 .. 3
        BY <1>0, <3>2 DEF Increment
      <4>1. Seen(t, "in_cs", in_cs) = k[t]
        BY <4>0, SeenInCS
      <4>2. Seen(t, "in_cs", in_cs) + 1 \in Nat
        BY <4>0, <4>1
      <4>. QED  BY <1>0, <3>2, <4>2, EntryTypes DEF Increment, Store
    <3>3. CASE ClearInCS(t)
      BY <1>0, <3>3, EntryTypes DEF ClearInCS, Store
    <3>4. CASE Unlock(t)
      BY <1>0, <3>4, EntryTypes DEF Unlock, Store
    <3>. QED  BY <1>1, <3>1, <3>2, <3>3, <3>4
  <2>2. Len(sb'[t]) = Len(sb[t]) + 1 /\ Len(sb[t]) \in Nat
    BY <1>0, <2>1, AppendProperties, LenProperties
  <2>3. Issued(t)' = Issued(t) + 1
    <3>1. CASE StartChoosing(t)
      BY <1>0, <3>1 DEF StartChoosing, Issued, WaitLabel
    <3>2. CASE Increment(t)
      <4>1. pc[t] = "increment" /\ pc'[t] = "assert" /\ k'[t] = k[t] + 1 /\ k[t] \in Nat
        BY <1>0, <3>2 DEF Increment
      <4>. QED  BY <4>1 DEF Issued, WaitLabel
    <3>3. CASE ClearInCS(t)
      BY <1>0, <3>3 DEF ClearInCS, Issued, WaitLabel
    <3>4. CASE Unlock(t)
      BY <1>0, <3>4 DEF Unlock, Issued, WaitLabel
    <3>. QED  BY <1>1, <3>1, <3>2, <3>3, <3>4
  <2>4. Issued(t) \in 1 .. 7
    BY <1>0, Counts
  <2>. QED  BY <2>2, <2>3, <2>4 DEF Drained
<1>2. CASE ~ (StartChoosing(t) \/ Increment(t) \/ ClearInCS(t) \/ Unlock(t))
  <2>1. \/ WaitChoosing(t) \/ WaitNonZero(t) \/ WaitGreater(t) \/ WaitEqual(t)
        \/ AssertInCS(t) \/ Loop(t)
    BY <1>0, <1>2 DEF ThreadStep, MaxFirst, MaxCompare, MaxKeep, DrawTicket, StopChoosing,
       Doorway, DoorwayLabel
  <2>2. sb' = sb /\ k' = k
    BY <2>1 DEF WaitChoosing, WaitNonZero, WaitGreater, WaitEqual, AssertInCS, Loop, locals
  <2>3. Issued(t)' = Issued(t)
    <3>1. CASE WaitChoosing(t) \/ WaitNonZero(t) \/ WaitGreater(t) \/ WaitEqual(t)
      <4>1. pc[t] \in WaitLabel /\ pc'[t] \in WaitLabel \cup {"assert"}
        BY <1>0, <3>1 DEF WaitChoosing, WaitNonZero, WaitGreater, WaitEqual, Turn, WaitLabel
      <4>2. k[t] = 0
        BY <1>0, <4>1 DEF LocalInv
      <4>. QED  BY <2>2, <4>1, <4>2 DEF Issued, WaitLabel
    <3>2. CASE AssertInCS(t)
      <4>1. /\ pc[t] = "assert" /\ pc'[t] \in {"aborted", "clear", "increment"}
            /\ pc'[t] = "clear" => k[t] = 3
        BY <1>0, <3>2 DEF AssertInCS
      <4>. QED  BY <2>2, <4>1 DEF Issued, WaitLabel
    <3>3. CASE Loop(t)
      BY <1>0, <3>3 DEF Loop, Issued, WaitLabel
    <3>. QED  BY <2>1, <3>1, <3>2, <3>3
  <2>. QED  BY <2>2, <2>3 DEF Drained
<1>. QED  BY <1>1, <1>2

(* The asserts of the critical section hold in a step.                     *)
LEMMA AssertStep == IInv /\ [Next]_vars => NoAssertFails'
<1>. SUFFICES ASSUME IInv, [Next]_vars, NEW u \in Thread PROVE pc'[u] # "aborted"
  BY DEF NoAssertFails
<1>0. pc \in [Thread -> Label] /\ LowInv /\ TypeOK /\ pc[u] # "aborted"
  BY DEF IInv, LowInv, TypeOK, CounterInv, NoAssertFails
<1>1. ASSUME NEW t \in Thread, ThreadStep(t), t # u PROVE pc'[u] # "aborted"
  BY <1>0, <1>1, OthersStill DEF Still
<1>2. ASSUME ThreadStep(u) PROVE pc'[u] # "aborted"
  <2>1. CASE AssertInCS(u)
    <3>1. Seen(u, "in_cs", in_cs) = k[u]
      BY <2>1, SeenInCS DEF AssertInCS
    <3>. QED  BY <1>0, <2>1, <3>1 DEF AssertInCS
  <2>2. CASE ~ AssertInCS(u)
    BY <1>0, <1>2, <2>2
       DEF ThreadStep, StartChoosing, MaxFirst, MaxCompare, MaxKeep, DrawTicket, StopChoosing,
           WaitChoosing, WaitNonZero, WaitGreater, WaitEqual, Increment, ClearInCS,
           Unlock, Loop, Turn
  <2>. QED  BY <2>1, <2>2
<1>. QED
  BY <1>0, <1>1, <1>2 DEF Next, Drain, Stop, JoinAndFree, Terminated, vars, locals

(* in_cs in memory is the count of the one thread inside.                  *)
LEMMA CounterStep == IInv /\ [Next]_vars => CounterInv'
<1>. SUFFICES ASSUME IInv, [Next]_vars PROVE CounterInv'
  OBVIOUS
<1>0. LowInv /\ TypeOK /\ CounterInv /\ NoAssertFails'
  BY AssertStep DEF IInv, LowInv
<1>1. ASSUME NEW t \in Thread, ThreadStep(t) PROVE CounterInv'
  <2>1. in_cs' = in_cs
    BY <1>1, MemoryStill
  <2>2. ASSUME NEW u \in Thread
        PROVE  (Inside(u)' <=> Inside(u)) /\ (Inside(u) => Drained(u)' = Drained(u))
    <3>1. CASE u # t
      <4>1. Still(u) /\ sb'[u] = sb[u]
        BY <1>0, <1>1, <3>1, OthersStill
      <4>. QED  BY <4>1 DEF Inside, Doorway, Drained, Issued, Still
    <3>2. CASE u = t /\ ~ Doorway(t) /\ ~ Doorway(t)'
      BY <1>1, <3>2, StepDrainsNothing DEF Inside
    <3>3. CASE u = t /\ Doorway(t) /\ ~ Doorway(t)'
      <4>1. /\ Doorway(t)
            /\ StopChoosing(t) /\ sb[t] = <<>>
        BY <1>0, <1>1, <3>3, LeavesWithTicket
      <4>2. /\ sb'[t] = Append(<<>>, StoreEntry("choosing", 0))
            /\ k'[t] = 0 /\ pc'[t] \in {"assert", "wait_choosing"}
        BY <1>0, <4>1 DEF StopChoosing, Store, Turn, TypeOK
      <4>3. Issued(t)' = 1
        BY <4>2 DEF Issued, WaitLabel
      <4>4. Len(sb'[t]) = 1
        BY <4>2
      <4>5. Drained(t)' = 0
        BY <4>3, <4>4 DEF Drained
      <4>. QED  BY <3>3, <4>5 DEF Inside
    <3>4. CASE u = t /\ ~ Doorway(t) /\ Doorway(t)'
      <4>1. LowInv'
        BY LowStep
      <4>2. ticket[t] = 0
        BY <1>0, <1>1, <3>4, <4>1, EntersWithoutTicket
      <4>3. Drained(t) >= 6
        BY <1>0, <3>4, <4>2 DEF LowInv, BufferInv
      <4>. QED  BY <1>0, <3>4, <4>3, Counts DEF Inside
    <3>5. CASE u = t /\ Doorway(t) /\ Doorway(t)'
      BY <3>5 DEF Inside
    <3>. QED  BY <3>1, <3>2, <3>3, <3>4, <3>5
  <2>. QED  BY <1>0, <2>1, <2>2 DEF CounterInv
<1>2. ASSUME NEW t \in Thread, Drain(t) PROVE CounterInv'
  <2>1. ASSUME NEW u \in Thread, u # t
        PROVE  (Inside(u)' <=> Inside(u)) /\ Drained(u)' = Drained(u)
    <3>1. pc' = pc /\ k' = k /\ sb'[u] = sb[u]
      BY <1>0, <1>2, <2>1 DEF Drain, locals, TypeOK
    <3>. QED  BY <3>1 DEF Inside, Doorway, Drained, Issued
  <2>2. CASE Doorway(t)
    <3>1. in_cs' = in_cs /\ Doorway(t)'
      BY <1>0, <1>2, <2>2, DrainDoorway DEF Doorway, DoorwayLabel
    <3>. QED  BY <1>0, <2>1, <2>2, <3>1 DEF CounterInv, Inside
  <2>3. CASE ~ Doorway(t)
    <3>1. /\ Drained(t)' = Drained(t) + 1 /\ Drained(t) \in 0 .. 6
          /\ ~ Doorway(t)'
      BY <1>0, <1>2, <2>3, DrainOutside DEF Drain, locals, Doorway
    <3>2. CASE Drained(t) \in {0, 5, 6}
      <4>1. in_cs' = in_cs /\ ~ Inside(t) /\ ~ Inside(t)'
        BY <1>0, <1>2, <2>3, <3>1, <3>2, DrainMemory DEF Inside
      <4>. QED  BY <1>0, <2>1, <4>1 DEF CounterInv
    <3>3. CASE Drained(t) \in 1 .. 4
      <4>1. Held(t)
        <5>1. ticket[t] # 0
          BY <1>0, <2>3, <3>3 DEF LowInv, BufferInv
        <5>2. pc[t] \notin WaitLabel
          <6>1. pc[t] \in WaitLabel => Issued(t) = 1
            BY DEF Issued, WaitLabel
          <6>2. Len(sb[t]) \in Nat /\ Len(sb'[t]) \in Nat /\ Len(sb'[t]) = Len(sb[t]) - 1
                /\ Drained(t) = Issued(t) - Len(sb[t]) /\ Issued(t) \in 1 .. 7
            BY <1>0, <1>2, <2>3, DrainOutside, Counts DEF Drained
          <6>. QED  BY <3>3, <6>1, <6>2
        <5>. QED  BY <1>0, <2>3, <5>1, <5>2, HeldIsInMemory DEF HeldInMemory
      <4>2. ASSUME NEW u \in Thread, u # t PROVE ~ Inside(u)'
        <5>1. ~ Inside(u)
          BY <1>0, <4>1, <4>2, InsideHolds, Exclusion DEF MutualExclusion
        <5>. QED  BY <2>1, <4>2, <5>1
      <4>3. CASE Drained(t) \in 1 .. 3
        <5>1. in_cs' = Drained(t)' - 1 /\ Inside(t)'
          BY <1>0, <1>2, <2>3, <3>1, <4>3, DrainMemory DEF Inside
        <5>. QED  BY <1>0, <4>2, <5>1 DEF CounterInv
      <4>4. CASE Drained(t) = 4
        <5>1. in_cs' = 0 /\ ~ Inside(t)'
          BY <1>0, <1>2, <2>3, <3>1, <4>4, DrainMemory DEF Inside
        <5>. QED  BY <1>0, <4>2, <5>1 DEF CounterInv
      <4>. QED  BY <3>3, <4>3, <4>4
    <3>. QED  BY <3>1, <3>2, <3>3
  <2>. QED  BY <2>2, <2>3
<1>3. ASSUME UNCHANGED <<pc, k, sb, in_cs>> PROVE CounterInv'
  BY <1>0, <1>3 DEF CounterInv, Inside, Doorway, Drained, Issued
<1>. QED
  BY <1>1, <1>2, <1>3 DEF Next, Stop, JoinAndFree, Terminated, vars, locals, memory

-----------------------------------------------------------------------------
(* Theorems                                                                *)

(* The invariant holds before any thread has run.                          *)
LEMMA InitInv == Init => IInv
<1>. SUFFICES ASSUME Init PROVE IInv
  OBVIOUS
<1>1. TypeOK /\ \A t \in Thread : LocalInv(t)
  BY NAssumption, MaxEntriesAssumption
     DEF Init, TypeOK, LocalInv, Thread, Label, WaitLabel
<1>2. ASSUME NEW t \in Thread
      PROVE  /\ Issued(t) = 6 /\ Len(sb[t]) = 0 /\ Drained(t) = 6 /\ ~ Doorway(t)
             /\ ticket[t] = 0 /\ choosing[t] = 0 /\ pc[t] = "start" /\ ahead[t] = {}
  <2>1. sb[t] = <<>> /\ pc[t] = "start" /\ ticket[t] = 0 /\ choosing[t] = 0 /\ ahead[t] = {}
    BY DEF Init
  <2>2. Issued(t) = 6 /\ Len(sb[t]) = 0 /\ ~ Doorway(t)
    BY <2>1 DEF Issued, WaitLabel, Doorway, DoorwayLabel
  <2>. QED  BY <2>1, <2>2 DEF Drained
<1>3. \A t \in Thread : BufferInv(t)
  BY <1>2 DEF BufferInv
<1>4. \A t \in Thread : AheadInv(t)
  BY <1>2 DEF AheadInv, WaitLabel
<1>5. LowInv
  BY <1>1, <1>3 DEF LowInv
<1>6. \A t, j \in Thread : t # j => PassInv(t, j)
  <2>1. \A t \in Thread : ~ Held(t) /\ pc[t] \notin WaitLabel
    BY <1>2, <1>5, HeldIsInMemory DEF HeldInMemory, WaitLabel
  <2>. QED  BY <2>1, <1>2 DEF PassInv, PassedChoosing, Passed
<1>7. CounterInv
  <2>1. in_cs = 0
    BY DEF Init
  <2>. QED  BY <1>2, <2>1 DEF CounterInv, Inside, NoAssertFails
<1>. QED  BY <1>4, <1>5, <1>6, <1>7 DEF IInv

(* The inductive invariant holds in every reachable state: lock() and      *)
(* unlock() of problem_3.c for every number of threads.                    *)
THEOREM Inductive == Spec => []IInv
<1>1. Init => IInv
  BY InitInv
<1>2. IInv /\ [Next]_vars => IInv'
  BY LowStep, AheadStep, PassStep, CounterStep DEF IInv
<1>. QED  BY <1>1, <1>2, PTL DEF Spec

(* Type correctness: buffers hold well-formed stores, indices stay inside  *)
(* the malloc'd arrays.                                                    *)
THEOREM TypeCorrect == Spec => []TypeOK
<1>1. IInv => TypeOK
  BY DEF IInv, LowInv
<1>. QED  BY <1>1, Inductive, PTL

(* lock() and unlock() exclude for every number of threads.                *)
THEOREM MutualExclusionHolds == Spec => []MutualExclusion
BY Exclusion, Inductive, PTL

(* The asserts of get_in_line() hold for every number of threads.          *)
THEOREM AssertsHold == Spec => []NoAssertFails
<1>1. IInv => NoAssertFails
  BY DEF IInv, CounterInv
<1>. QED  BY <1>1, Inductive, PTL

(* Nobody enters before a thread that had its number when it came.         *)
THEOREM FirstComeFirstServedHolds == Spec => []FirstComeFirstServed
<1>1. IInv => FirstComeFirstServed
  BY DEF IInv, AheadInv, FirstComeFirstServed, InCS, CSLabel, Doorway, DoorwayLabel, WaitLabel
<1>. QED  BY <1>1, Inductive, PTL

(* max() covers every number that was waiting when it began, although it   *)
(* loads the elements twice.                                               *)
THEOREM MaxCoversWaitingHolds == Spec => []MaxCoversWaiting
<1>1. IInv => MaxCoversWaiting
  <2>. SUFFICES ASSUME IInv, NEW t \in Thread, pc[t] = "max_compare", i[t] = N,
                       NEW u \in ahead[t]
                PROVE  ticket[u] <= m[t]
    BY DEF MaxCoversWaiting
  <2>1. u \in Thread /\ u < N
    BY NAssumption DEF IInv, LowInv, TypeOK, Thread
  <2>. QED  BY <2>1 DEF IInv, AheadInv
<1>. QED  BY <1>1, Inductive, PTL

-----------------------------------------------------------------------------
(* The abstract mutex                                                      *)

Trying(t) == Doorway(t) \/ pc[t] \in WaitLabel

(* The stage of a thread, in terms of memory.                              *)
StageInMemory ==
  \A t \in Thread :
    stage[t] = IF Trying(t) THEN "trying" ELSE IF ticket[t] # 0 THEN "held" ELSE "idle"

LEMMA StageIsInMemory == LowInv => StageInMemory
<1>. SUFFICES ASSUME LowInv PROVE StageInMemory
  OBVIOUS
<1>1. HeldInMemory
  BY HeldIsInMemory
<1>. QED  BY <1>1 DEF HeldInMemory, StageInMemory, stage, Trying, Doorway

LEMMA StageNext == LowInv' => StageInMemory'
BY StageIsInMemory, PTL

(* Where a step of its own takes a thread.                                 *)
LEMMA TryingStep ==
  ASSUME LowInv, LowInv', NEW t \in Thread, ThreadStep(t)
  PROVE  /\ ~ Trying(t) /\ Trying(t)' => ticket[t] = 0
         /\ Trying(t) /\ ~ Trying(t)' => ticket[t] # 0 /\ pc'[t] = "assert"
<1>0. pc \in [Thread -> Label]
  BY DEF LowInv, TypeOK
<1>1. ASSUME ~ Trying(t), Trying(t)' PROVE ticket[t] = 0
  <2>1. ~ Doorway(t) /\ pc[t] \notin WaitLabel
    BY <1>1 DEF Trying
  <2>2. pc'[t] \notin WaitLabel
    BY <1>0, <2>1 DEF ThreadStep, StartChoosing, MaxFirst, MaxCompare, MaxKeep, DrawTicket,
       StopChoosing, WaitChoosing, WaitNonZero, WaitGreater, WaitEqual, AssertInCS, Increment,
       ClearInCS, Unlock, Loop, Doorway, DoorwayLabel, WaitLabel
  <2>3. Doorway(t)'
    BY <1>1, <2>2 DEF Trying
  <2>. QED  BY <2>1, <2>3, EntersWithoutTicket
<1>2. ASSUME Trying(t), ~ Trying(t)' PROVE ticket[t] # 0 /\ pc'[t] = "assert"
  <2>1. CASE Doorway(t)
    <3>1. ~ Doorway(t)'
      BY <1>2 DEF Trying
    <3>2. StopChoosing(t) /\ ticket[t] = m[t] + 1
      BY <2>1, <3>1, LeavesWithTicket
    <3>3. m[t] \in Nat
      BY DEF LowInv, TypeOK
    <3>4. pc'[t] \in {"assert", "wait_choosing"}
      BY <1>0, <3>2 DEF StopChoosing, Turn
    <3>. QED  BY <1>2, <3>2, <3>3, <3>4 DEF Trying, WaitLabel
  <2>2. CASE pc[t] \in WaitLabel
    <3>1. ticket[t] # 0
      BY <2>2, TicketShown
    <3>2. pc'[t] \in WaitLabel \cup {"assert"}
      BY <1>0, <2>2 DEF ThreadStep, StartChoosing, MaxFirst, MaxCompare, MaxKeep, DrawTicket,
         StopChoosing, WaitChoosing, WaitNonZero, WaitGreater, WaitEqual, AssertInCS, Increment,
         ClearInCS, Unlock, Loop, Turn, WaitLabel
    <3>. QED  BY <1>2, <3>1, <3>2 DEF Trying
  <2>. QED  BY <1>2, <2>1, <2>2 DEF Trying
<1>. QED  BY <1>1, <1>2

(* The stages of the others in a step of t.                                *)
LEMMA OtherStages ==
  ASSUME StageInMemory, StageInMemory', NEW t \in Thread, NEW u \in Thread,
         pc'[u] = pc[u], ticket'[u] = ticket[u]
  PROVE  stage'[u] = stage[u]
BY DEF StageInMemory, Trying, Doorway

(* One thread at a time changes its stage, as the mutex lets it.           *)
LEMMA StageStep ==
  ASSUME NEW t \in Thread, \A u \in Thread : u # t => stage'[u] = stage[u],
         \/ stage'[t] = stage[t]
         \/ stage[t] = "idle" /\ stage'[t] = "trying"
         \/ stage[t] = "held" /\ stage'[t] = "idle"
         \/ /\ stage[t] = "trying" /\ stage'[t] = "held"
            /\ \A u \in Thread : stage[u] # "held"
  PROVE  [Lock!Next]_stage
<1>1. stage = [u \in Thread |-> stage[u]] /\ stage' = [u \in Thread |-> stage'[u]]
  BY DEF stage
<1>2. stage' = [stage EXCEPT ![t] = stage'[t]]
  BY <1>1
<1>3. CASE stage'[t] = stage[t]
  <2>1. stage' = stage
    BY <1>1, <1>3
  <2>. QED  BY <2>1
<1>4. CASE stage[t] = "idle" /\ stage'[t] = "trying"
  BY <1>2, <1>4 DEF Lock!Next, Lock!Request
<1>5. CASE stage[t] = "held" /\ stage'[t] = "idle"
  BY <1>2, <1>5 DEF Lock!Next, Lock!Release
<1>6. CASE stage[t] = "trying" /\ stage'[t] = "held" /\ \A u \in Thread : stage[u] # "held"
  BY <1>2, <1>6 DEF Lock!Next, Lock!Acquire
<1>. QED  BY <1>3, <1>4, <1>5, <1>6

(* Every step of problem_3.c is a step of the abstract mutex or a stutter. *)
LEMMA RefinesStep == IInv /\ IInv' /\ [Next]_vars => [Lock!Next]_stage
<1>. SUFFICES ASSUME IInv, IInv', [Next]_vars PROVE [Lock!Next]_stage
  OBVIOUS
<1>0. /\ LowInv /\ LowInv' /\ TypeOK /\ StageInMemory /\ StageInMemory'
  BY StageIsInMemory, StageNext DEF IInv, LowInv
<1>1. MutualExclusion'
  BY Exclusion, PTL
<1>2. ASSUME NEW t \in Thread, ThreadStep(t) PROVE [Lock!Next]_stage
  <2>1. ticket' = ticket
    BY <1>2, MemoryStill
  <2>2. \A u \in Thread : u # t => stage'[u] = stage[u]
    <3>. SUFFICES ASSUME NEW u \in Thread, u # t PROVE stage'[u] = stage[u]
      OBVIOUS
    <3>1. pc'[u] = pc[u]
      BY <1>0, <1>2, OthersStill DEF Still
    <3>. QED  BY <1>0, <2>1, <3>1, OtherStages
  <2>3. /\ ~ Trying(t) /\ Trying(t)' => ticket[t] = 0
        /\ Trying(t) /\ ~ Trying(t)' => ticket[t] # 0 /\ pc'[t] = "assert"
    BY <1>0, <1>2, TryingStep
  <2>4. /\ stage[t] = IF Trying(t) THEN "trying" ELSE IF ticket[t] # 0 THEN "held" ELSE "idle"
        /\ stage'[t] = IF Trying(t)' THEN "trying" ELSE IF ticket[t] # 0 THEN "held" ELSE "idle"
    BY <1>0, <2>1 DEF StageInMemory
  <2>5. CASE Trying(t) /\ ~ Trying(t)'
    <3>1. Held(t)'
      BY <2>3, <2>5 DEF Held, InCS, CSLabel
    <3>2. ASSUME NEW u \in Thread PROVE stage[u] # "held"
      <4>1. CASE u = t
        BY <2>4, <2>5, <4>1
      <4>2. CASE u # t
        <5>1. ~ Held(u)'
          BY <1>1, <3>1, <4>2 DEF MutualExclusion
        <5>2. stage'[u] # "held"
          BY <5>1 DEF stage
        <5>. QED  BY <2>2, <4>2, <5>2
      <4>. QED  BY <4>1, <4>2
    <3>3. stage[t] = "trying" /\ stage'[t] = "held"
      BY <2>3, <2>4, <2>5
    <3>. QED  BY <2>2, <3>2, <3>3, StageStep
  <2>6. CASE ~ (Trying(t) /\ ~ Trying(t)')
    <3>1. stage'[t] = stage[t] \/ (stage[t] = "idle" /\ stage'[t] = "trying")
      BY <2>3, <2>4, <2>6
    <3>. QED  BY <2>2, <3>1, StageStep
  <2>. QED  BY <2>5, <2>6
<1>3. ASSUME NEW t \in Thread, Drain(t) PROVE [Lock!Next]_stage
  <2>1. pc' = pc
    BY <1>3 DEF Drain
  <2>2. ticket \in [Thread -> Nat]
    BY <1>0 DEF TypeOK
  <2>3. \A u \in Thread : u # t => ticket'[u] = ticket[u]
    BY <1>3, <2>2 DEF Drain
  <2>4. \A u \in Thread : u # t => stage'[u] = stage[u]
    BY <1>0, <2>1, <2>3, OtherStages
  <2>5. Trying(t)' <=> Trying(t)
    BY <2>1 DEF Trying, Doorway
  <2>6. CASE Trying(t)
    <3>1. stage'[t] = stage[t]
      BY <1>0, <2>5, <2>6 DEF StageInMemory
    <3>. QED  BY <2>4, <3>1, StageStep
  <2>7. CASE ~ Trying(t)
    <3>1. ticket'[t] = 0 \/ ticket'[t] = ticket[t]
      <4>1. ~ Doorway(t)
        BY <2>7 DEF Trying
      <4>. QED  BY <1>0, <1>3, <2>2, <4>1, DrainMemory
    <3>2. stage'[t] = stage[t] \/ (stage[t] = "held" /\ stage'[t] = "idle")
      BY <1>0, <2>5, <2>7, <3>1 DEF StageInMemory
    <3>. QED  BY <2>4, <3>2, StageStep
  <2>. QED  BY <2>6, <2>7
<1>4. ASSUME UNCHANGED <<pc, sb>> PROVE [Lock!Next]_stage
  BY <1>4 DEF stage, Held, InCS
<1>. QED
  BY <1>2, <1>3, <1>4 DEF Next, Stop, JoinAndFree, Terminated, vars, locals, memory

(* The bakery lock implements the safety part of the abstract mutex, for   *)
(* every number of threads; that every waiter is served is left to TLC.    *)
THEOREM RefinesMutex == Spec => Lock!Spec
<1>1. Init => Lock!Init
  <2>. SUFFICES ASSUME Init PROVE Lock!Init
    OBVIOUS
  <2>1. LowInv
    BY InitInv DEF IInv
  <2>2. StageInMemory
    BY <2>1, StageIsInMemory
  <2>3. \A t \in Thread : stage[t] = "idle"
    BY <2>2 DEF Init, StageInMemory, Trying, Doorway, DoorwayLabel, WaitLabel
  <2>. QED  BY <2>3 DEF Lock!Init, stage
<1>. QED  BY <1>1, RefinesStep, Inductive, PTL DEF Spec, Lock!Spec
=============================================================================
