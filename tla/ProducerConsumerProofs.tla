----------------------- MODULE ProducerConsumerProofs -----------------------
(***************************************************************************)
(* The inductive invariant of ProducerConsumer, and what follows from it   *)
(* for every number of producers and consumers and every size of the ring: *)
(* numbers come out in the order in which they went in, the ring is a      *)
(* bounded FIFO, and the counters of the threads add up to what went       *)
(* through it.                                                             *)
(***************************************************************************)
EXTENDS ProducerConsumer, FiniteSetTheorems, WellFoundedInduction, TLAPS

(* Where a thread holds the lock.                                          *)
Inside == EnqLabel \cup DeqLabel \cup {"unlock", "unlock_fail"}

(* Of a thread: its lock, and the half of the code that it runs.           *)
ThreadInv(t) ==
  /\ pc[t] # "aborted"
  /\ stage[t] = CASE pc[t] = "lock" -> "trying"
                  [] pc[t] \in Inside -> "held"
                  [] OTHER -> "idle"
  /\ IF t \in Producer THEN pc[t] \notin DeqLabel ELSE pc[t] \notin EnqLabel

Exclusion == \A t, u \in Thread : stage[t] = "held" /\ stage[u] = "held" => t = u

(* The position j after h in the ring.                                     *)
Pos(h, j) == IF h + j < SIZE THEN h + j ELSE h + j - SIZE

(* The n numbers from a on are in the ring from head on.                   *)
Stored(a, n) == \A j \in 0 .. n - 1 : value[Pos(head, j)] = a + j

(* n numbers from a on are in the queue, and nothing else.                 *)
Ring(a, n) ==
  /\ n \in 0 .. SIZE
  /\ IF n = 0 THEN head = -1 /\ tail = -1
     ELSE head \in 0 .. SIZE - 1 /\ tail = Pos(head, n - 1) /\ Stored(a, n)

(* The first number that is in the queue, and how many are.                *)
Leaving == \E t \in Thread : pc[t] = "advance"
first == IF Leaving THEN deque_v - 1 ELSE deque_v
count == enque_v - first

(* tail has gone on to an element that is not counted yet.                 *)
Ahead ==
  /\ count \in 0 .. SIZE - 1
  /\ head \in 0 .. SIZE - 1 /\ tail = Pos(head, count) /\ Stored(first, count)

(* The queue, when a thread is at the step of the code that it is at.      *)
QueueAt(t) ==
  /\ pc[t] = "set_head" => count < SIZE
  /\ pc[t] = "move_tail" =>
       /\ count < SIZE
       /\ IF count = 0 THEN head = 0 /\ tail = -1 ELSE Ring(first, count)
  /\ pc[t] \in {"write", "increase"} => Ahead
  /\ pc[t] = "increase" => value[tail] = enque_v
  /\ pc[t] \in {"read", "assert", "advance"} => count > 0
  /\ pc[t] = "assert" => v[t] = deque_v

Moving(t) == pc[t] \in {"move_tail", "write", "increase"}

QueueInv ==
  /\ (\A t \in Thread : ~ Moving(t)) => Ring(first, count)
  /\ \A t \in Thread : QueueAt(t)
  /\ count \in 0 .. SIZE

(* The inductive invariant.                                                *)
IInv ==
  /\ TypeOK
  /\ \A t \in Thread : ThreadInv(t)
  /\ Exclusion
  /\ QueueInv

-----------------------------------------------------------------------------
(* Positions in the ring                                                   *)

LEMMA ModSmall ==
  ASSUME NEW x \in 0 .. SIZE - 1
  PROVE  x % SIZE = x
BY SizeAssumption

LEMMA ModOver ==
  ASSUME NEW x \in SIZE .. 2 * SIZE - 1
  PROVE  x % SIZE = x - SIZE
BY SizeAssumption

LEMMA ModUnder ==
  ASSUME NEW x \in -SIZE .. -1
  PROVE  x % SIZE = x + SIZE
BY SizeAssumption

LEMMA PosShape ==
  ASSUME NEW h \in 0 .. SIZE - 1, NEW j \in 0 .. SIZE
  PROVE  /\ Pos(h, j) \in 0 .. SIZE - 1
         /\ Pos(h, 0) = h
         /\ j # 0 => (Pos(h, j) = h <=> j = SIZE)
         /\ \A k \in 0 .. SIZE - 1 : j \in 0 .. SIZE - 1 /\ Pos(h, j) = Pos(h, k) => j = k
BY SizeAssumption DEF Pos

LEMMA PosMod ==
  ASSUME NEW h \in 0 .. SIZE - 1, NEW j \in 0 .. SIZE - 1
  PROVE  (h + j) % SIZE = Pos(h, j) /\ (Pos(h, j) - h) % SIZE = j
<1>0. SIZE \in Nat \ {0}
  BY SizeAssumption
<1>1. CASE h + j < SIZE
  <2>1. (h + j) % SIZE = h + j /\ j % SIZE = j
    BY <1>0, <1>1, ModSmall
  <2>. QED  BY <1>1, <2>1 DEF Pos
<1>2. CASE ~ (h + j < SIZE)
  <2>1. (h + j) % SIZE = h + j - SIZE
    BY <1>0, <1>2, ModOver
  <2>2. Pos(h, j) = h + j - SIZE /\ Pos(h, j) - h = j - SIZE
    BY <1>0, <1>2 DEF Pos
  <2>3. (j - SIZE) % SIZE = j
    BY <1>0, <1>2, ModUnder
  <2>. QED  BY <2>1, <2>2, <2>3
<1>. QED  BY <1>1, <1>2

LEMMA AfterShape ==
  ASSUME NEW p \in -1 .. SIZE - 1
  PROVE  After(p) = (IF p = SIZE - 1 THEN 0 ELSE p + 1) /\ After(p) \in 0 .. SIZE - 1
<1>0. SIZE \in Nat \ {0}
  BY SizeAssumption
<1>1. CASE p = SIZE - 1
  <2>1. (p + 1) % SIZE = 0
    BY <1>0, <1>1, ModOver
  <2>. QED  BY <1>0, <1>1, <2>1 DEF After
<1>2. CASE p # SIZE - 1
  <2>1. p + 1 \in 0 .. SIZE - 1
    BY <1>0, <1>2
  <2>2. (p + 1) % SIZE = p + 1
    BY <2>1, ModSmall
  <2>. QED  BY <1>0, <1>2, <2>1, <2>2 DEF After
<1>. QED  BY <1>1, <1>2

LEMMA AfterPos ==
  ASSUME NEW h \in 0 .. SIZE - 1, NEW j \in 0 .. SIZE - 1
  PROVE  After(Pos(h, j)) = Pos(h, j + 1) /\ Pos(After(h), j) = Pos(h, j + 1)
<1>0. SIZE \in Nat \ {0}
  BY SizeAssumption
<1>1. Pos(h, j) \in -1 .. SIZE - 1 /\ h \in -1 .. SIZE - 1
  BY <1>0, PosShape
<1>2. /\ After(Pos(h, j)) = (IF Pos(h, j) = SIZE - 1 THEN 0 ELSE Pos(h, j) + 1)
      /\ After(h) = (IF h = SIZE - 1 THEN 0 ELSE h + 1)
  BY <1>1, AfterShape
<1>. QED  BY <1>0, <1>2 DEF Pos

LEMMA RingShape ==
  ASSUME NEW a \in Int, NEW n \in 0 .. SIZE, Ring(a, n)
  PROVE  /\ n = 0 => head = -1 /\ tail = -1
         /\ n # 0 => head \in 0 .. SIZE - 1 /\ tail \in 0 .. SIZE - 1 /\ value[head] = a
         /\ After(tail) \in 0 .. SIZE - 1
         /\ head = After(tail) <=> n = SIZE
         /\ head = tail /\ n # 0 <=> n = 1
<1>0. SIZE \in Nat \ {0} /\ n \in Nat
  BY SizeAssumption
<1>1. CASE n = 0
  <2>1. head = -1 /\ tail = -1
    BY <1>1 DEF Ring
  <2>2. After(tail) = IF SIZE = 0 THEN -1 ELSE 0
    BY <1>0, <2>1, AfterShape
  <2>. QED  BY <1>0, <1>1, <2>1, <2>2
<1>2. CASE n # 0
  <2>1. head \in 0 .. SIZE - 1 /\ tail = Pos(head, n - 1) /\ Stored(a, n)
    BY <1>2 DEF Ring
  <2>2. n - 1 \in 0 .. SIZE - 1 /\ n - 1 \in 0 .. SIZE /\ 0 \in 0 .. SIZE
    BY <1>0, <1>2
  <2>3. tail \in 0 .. SIZE - 1 /\ Pos(head, 0) = head
    BY <2>1, <2>2, PosShape
  <2>4. After(tail) = Pos(head, n)
    <3>1. n - 1 + 1 = n
      BY <1>0
    <3>. QED  BY <2>1, <2>2, <3>1, AfterPos
  <2>5. (After(tail) = head) <=> n = SIZE
    BY <1>2, <2>1, <2>4, PosShape
  <2>6. value[head] = a
    <3>1. 0 \in 0 .. n - 1
      BY <1>0, <1>2
    <3>. QED  BY <2>1, <2>3, <3>1 DEF Stored
  <2>7. (head = tail) <=> n = 1
    <3>1. n - 1 # 0 => (Pos(head, n - 1) = head <=> n - 1 = SIZE)
      BY <2>1, <2>2, PosShape
    <3>. QED  BY <1>0, <2>1, <2>2, <2>3, <3>1
  <2>8. After(tail) \in 0 .. SIZE - 1
    BY <2>1, <2>4, PosShape
  <2>. QED  BY <1>2, <2>1, <2>3, <2>5, <2>6, <2>7, <2>8
<1>. QED  BY <1>1, <1>2

-----------------------------------------------------------------------------
(* The threads                                                             *)

(* The thread that is inside is alone there.                               *)
LEMMA Alone ==
  ASSUME IInv, NEW t \in Thread, pc[t] \in Inside
  PROVE  /\ \A u \in Thread : u # t => pc[u] \notin Inside
         /\ Leaving <=> pc[t] = "advance"
<1>1. \A u \in Thread : pc[u] \in Inside => stage[u] = "held"
  BY DEF IInv, ThreadInv, Inside, EnqLabel, DeqLabel
<1>2. \A u \in Thread : u # t => pc[u] \notin Inside
  BY <1>1 DEF IInv, Exclusion
<1>3. "advance" \in Inside
  BY DEF Inside, DeqLabel
<1>. QED  BY <1>2, <1>3 DEF Leaving

LEMMA GotoShape ==
  ASSUME pc \in [Thread -> Label], NEW t \in Thread, NEW l \in Label, Goto(t, l)
  PROVE  /\ pc' \in [Thread -> Label] /\ pc'[t] = l
         /\ \A u \in Thread : u # t => pc'[u] = pc[u]
BY DEF Goto

(* A step inside, from one label of the half of the thread to another.     *)
LEMMA InsideStep ==
  ASSUME IInv, NEW t \in Thread, pc[t] \in Inside, NEW l \in Inside, Goto(t, l),
         stage' = stage, IF t \in Producer THEN l \notin DeqLabel ELSE l \notin EnqLabel
  PROVE  /\ pc' \in [Thread -> Label] /\ pc'[t] = l
         /\ \A u \in Thread : u # t => pc'[u] \notin Inside
         /\ \A u \in Thread : ThreadInv(u)'
         /\ Exclusion'
         /\ Leaving' <=> l = "advance"
<1>1. l \in Label /\ pc \in [Thread -> Label]
  BY DEF Inside, EnqLabel, DeqLabel, Label, IInv, TypeOK
<1>2. /\ pc' \in [Thread -> Label] /\ pc'[t] = l
      /\ \A u \in Thread : u # t => pc'[u] = pc[u]
  BY <1>1, GotoShape
<1>3. \A u \in Thread : u # t => pc'[u] \notin Inside
  BY <1>2, Alone
<1>4. ASSUME NEW u \in Thread PROVE ThreadInv(u)'
  <2>1. CASE u = t
    <3>1. stage[t] = "held" /\ l # "aborted" /\ l # "lock"
      BY DEF IInv, ThreadInv, Inside, EnqLabel, DeqLabel
    <3>. QED  BY <1>2, <2>1, <3>1 DEF ThreadInv
  <2>2. CASE u # t
    BY <1>2, <2>2 DEF IInv, ThreadInv
  <2>. QED  BY <2>1, <2>2
<1>5. Exclusion'
  BY DEF IInv, Exclusion
<1>6. Leaving' <=> l = "advance"
  <2>1. "advance" \in Inside
    BY DEF Inside, DeqLabel
  <2>. QED  BY <1>2, <1>3, <2>1 DEF Leaving
<1>. QED  BY <1>2, <1>3, <1>4, <1>5, <1>6

Special == {"set_head", "move_tail", "write", "increase", "read", "assert", "advance"}

LEMMA SpecialInside == Special \subseteq Inside
BY DEF Special, Inside, EnqLabel, DeqLabel

(* The queue is at a step of the thread that is inside.                    *)
LEMMA QueueFrom ==
  ASSUME NEW t \in Thread, \A u \in Thread : u # t => pc'[u] \notin Inside,
         ~ Moving(t)' => Ring(first, count)', QueueAt(t)', count' \in 0 .. SIZE
  PROVE  QueueInv'
<1>1. ASSUME NEW u \in Thread, u # t PROVE QueueAt(u)' /\ ~ Moving(u)'
  <2>1. pc'[u] \notin Special
    BY <1>1, SpecialInside
  <2>. QED  BY <2>1 DEF QueueAt, Moving, Special
<1>. QED  BY <1>1 DEF QueueInv

(* The facts that each step of the queue starts from.                      *)
LEMMA Base ==
  ASSUME IInv, NEW t \in Thread, pc[t] \in Inside
  PROVE  /\ TypeOK /\ enque_v \in Nat /\ deque_v \in Nat /\ SIZE \in Nat \ {0}
         /\ first = IF pc[t] = "advance" THEN deque_v - 1 ELSE deque_v
         /\ first \in Int /\ count = enque_v - first /\ count \in 0 .. SIZE
         /\ QueueAt(t)
         /\ ~ Moving(t) => Ring(first, count)
<1>1. TypeOK /\ enque_v \in Nat /\ deque_v \in Nat /\ SIZE \in Nat \ {0} /\ QueueInv
  BY SizeAssumption DEF IInv, TypeOK
<1>2. /\ first = IF pc[t] = "advance" THEN deque_v - 1 ELSE deque_v
      /\ \A u \in Thread : u # t => pc[u] \notin Inside
  BY Alone DEF first
<1>3. first \in Int
  BY <1>1, <1>2
<1>4. \A u \in Thread : u # t => ~ Moving(u)
  <2>1. \A u \in Thread : u # t => pc[u] \notin Special
    BY <1>2, SpecialInside
  <2>. QED  BY <2>1 DEF Moving, Special
<1>. QED  BY <1>1, <1>2, <1>3, <1>4 DEF QueueInv, count

(* The labels of the two halves.                                           *)
LEMMA Labels ==
  /\ EnqLabel \subseteq Inside /\ DeqLabel \subseteq Inside /\ EnqLabel \cap DeqLabel = {}
  /\ "unlock" \in Inside /\ "unlock_fail" \in Inside
  /\ {"unlock", "unlock_fail"} \cap (EnqLabel \cup DeqLabel) = {}
BY DEF Inside, EnqLabel, DeqLabel

LEMMA Halves ==
  ASSUME IInv, NEW t \in Thread
  PROVE  /\ pc[t] \in EnqLabel => t \in Producer
         /\ pc[t] \in DeqLabel => t \notin Producer /\ t \in Consumer
BY DEF IInv, ThreadInv, Thread

-----------------------------------------------------------------------------
(* enq()                                                                   *)

LEMMA IsFullStep ==
  ASSUME IInv, NEW t \in Thread, IsFull(t)
  PROVE  IInv' /\ first' = first /\ enque_v' = enque_v
<1>. DEFINE l == IF head = After(tail) THEN "unlock_fail" ELSE "set_head"
<1>0. /\ pc[t] = "is_full" /\ pc[t] \in EnqLabel /\ pc[t] \in Inside /\ t \in Producer
      /\ Goto(t, l) /\ stage' = stage
      /\ UNCHANGED <<value, head, tail, enque_v, deque_v, v, cnt, is_stop, main>>
      /\ l \in Inside /\ l \notin DeqLabel /\ l # "advance"
  BY Labels, Halves DEF IsFull, queue, EnqLabel
<1>1. /\ TypeOK /\ first = deque_v /\ count = enque_v - first /\ count \in 0 .. SIZE
      /\ Ring(first, count) /\ first \in Int /\ SIZE \in Nat
  BY <1>0, Base DEF Moving
<1>2. head = After(tail) <=> count = SIZE
  BY <1>1, RingShape
<1>3. l \in {"unlock_fail", "set_head"} /\ (l = "set_head" => count < SIZE)
  BY <1>1, <1>2
<1>. HIDE DEF l
<1>4. /\ pc' \in [Thread -> Label] /\ pc'[t] = l
      /\ \A u \in Thread : u # t => pc'[u] \notin Inside
      /\ (\A u \in Thread : ThreadInv(u)') /\ Exclusion' /\ ~ Leaving'
  BY <1>0, InsideStep
<1>5. first' = first /\ count' = count
  BY <1>0, <1>1, <1>4 DEF first, count
<1>6. TypeOK'
  BY <1>0, <1>1, <1>4 DEF TypeOK
<1>7. Ring(first, count)'
  BY <1>0, <1>1, <1>5 DEF Ring, Stored
<1>8. QueueAt(t)'
  BY <1>3, <1>4, <1>5 DEF QueueAt
<1>9. QueueInv'
  BY <1>1, <1>4, <1>5, <1>7, <1>8, QueueFrom
<1>. QED  BY <1>0, <1>4, <1>5, <1>6, <1>9 DEF IInv

LEMMA SetHeadStep ==
  ASSUME IInv, NEW t \in Thread, SetHead(t)
  PROVE  IInv' /\ first' = first /\ enque_v' = enque_v
<1>0. /\ pc[t] = "set_head" /\ pc[t] \in EnqLabel /\ pc[t] \in Inside /\ t \in Producer
      /\ Goto(t, "move_tail") /\ stage' = stage
      /\ head' = IF tail = -1 THEN 0 ELSE head
      /\ UNCHANGED <<value, tail, enque_v, deque_v, v, cnt, is_stop, main>>
      /\ "move_tail" \in Inside /\ "move_tail" \notin DeqLabel
  BY Labels, Halves DEF SetHead, EnqLabel
<1>1. /\ TypeOK /\ first = deque_v /\ count = enque_v - first /\ count \in 0 .. SIZE
      /\ Ring(first, count) /\ first \in Int /\ SIZE \in Nat /\ SIZE # 0 /\ count < SIZE
  BY <1>0, Base DEF Moving, QueueAt
<1>2. /\ count = 0 => tail = -1
      /\ count # 0 => tail \in 0 .. SIZE - 1 /\ head' = head
  BY <1>0, <1>1, RingShape
<1>4. /\ pc' \in [Thread -> Label] /\ pc'[t] = "move_tail"
      /\ \A u \in Thread : u # t => pc'[u] \notin Inside
      /\ (\A u \in Thread : ThreadInv(u)') /\ Exclusion' /\ ~ Leaving'
  BY <1>0, InsideStep
<1>5. first' = first /\ count' = count
  BY <1>0, <1>1, <1>4 DEF first, count
<1>6. TypeOK'
  BY <1>0, <1>1, <1>4 DEF TypeOK
<1>7. count # 0 => Ring(first, count)'
  BY <1>0, <1>1, <1>2, <1>5 DEF Ring, Stored
<1>8. QueueAt(t)'
  BY <1>0, <1>1, <1>2, <1>4, <1>5, <1>7 DEF QueueAt
<1>9. QueueInv'
  BY <1>1, <1>4, <1>5, <1>8, QueueFrom DEF Moving
<1>. QED  BY <1>0, <1>4, <1>5, <1>6, <1>9 DEF IInv

LEMMA MoveTailStep ==
  ASSUME IInv, NEW t \in Thread, MoveTail(t)
  PROVE  IInv' /\ first' = first /\ enque_v' = enque_v
<1>0. /\ pc[t] = "move_tail" /\ pc[t] \in EnqLabel /\ pc[t] \in Inside /\ t \in Producer
      /\ Goto(t, "write") /\ stage' = stage /\ tail' = After(tail)
      /\ UNCHANGED <<value, head, enque_v, deque_v, v, cnt, is_stop, main>>
      /\ "write" \in Inside /\ "write" \notin DeqLabel
  BY Labels, Halves DEF MoveTail, EnqLabel
<1>1. /\ TypeOK /\ first = deque_v /\ count = enque_v - first /\ count \in 0 .. SIZE
      /\ first \in Int /\ SIZE \in Nat /\ SIZE # 0 /\ count < SIZE
      /\ IF count = 0 THEN head = 0 /\ tail = -1 ELSE Ring(first, count)
  BY <1>0, Base DEF QueueAt
<1>2. head \in 0 .. SIZE - 1 /\ tail' = Pos(head, count) /\ Stored(first, count)
  <2>1. CASE count = 0
    <3>1. After(tail) = 0 /\ Pos(0, 0) = 0
      BY <1>1, <2>1, AfterShape, PosShape
    <3>. QED  BY <1>0, <1>1, <2>1, <3>1 DEF Stored
  <2>2. CASE count # 0
    <3>1. head \in 0 .. SIZE - 1 /\ tail = Pos(head, count - 1) /\ Stored(first, count)
      BY <1>1, <2>2 DEF Ring
    <3>2. count - 1 \in 0 .. SIZE - 1 /\ count - 1 + 1 = count
      BY <1>1, <2>2
    <3>. QED  BY <1>0, <3>1, <3>2, AfterPos
  <2>. QED  BY <2>1, <2>2
<1>4. /\ pc' \in [Thread -> Label] /\ pc'[t] = "write"
      /\ \A u \in Thread : u # t => pc'[u] \notin Inside
      /\ (\A u \in Thread : ThreadInv(u)') /\ Exclusion' /\ ~ Leaving'
  BY <1>0, InsideStep
<1>5. first' = first /\ count' = count
  BY <1>0, <1>1, <1>4 DEF first, count
<1>6. TypeOK'
  <2>1. tail' \in 0 .. SIZE - 1
    BY <1>1, <1>2, PosShape
  <2>. QED  BY <1>0, <1>1, <1>4, <2>1 DEF TypeOK
<1>7. Ahead'
  BY <1>0, <1>1, <1>2, <1>5 DEF Ahead, Stored
<1>8. QueueAt(t)'
  BY <1>4, <1>7 DEF QueueAt
<1>9. QueueInv'
  BY <1>1, <1>4, <1>5, <1>8, QueueFrom DEF Moving
<1>. QED  BY <1>0, <1>4, <1>5, <1>6, <1>9 DEF IInv

LEMMA WriteStep ==
  ASSUME IInv, NEW t \in Thread, Write(t)
  PROVE  IInv' /\ first' = first /\ enque_v' = enque_v
<1>0. /\ pc[t] = "write" /\ pc[t] \in EnqLabel /\ pc[t] \in Inside /\ t \in Producer
      /\ Goto(t, "increase") /\ stage' = stage /\ value' = [value EXCEPT ![tail] = enque_v]
      /\ UNCHANGED <<head, tail, enque_v, deque_v, v, cnt, is_stop, main>>
      /\ "increase" \in Inside /\ "increase" \notin DeqLabel
  BY Labels, Halves DEF Write, EnqLabel
<1>1. /\ TypeOK /\ first = deque_v /\ count = enque_v - first /\ count \in 0 .. SIZE
      /\ first \in Int /\ SIZE \in Nat /\ SIZE # 0 /\ Ahead /\ enque_v \in Nat
  BY <1>0, Base DEF QueueAt
<1>2. /\ count \in 0 .. SIZE - 1 /\ count \in 0 .. SIZE
      /\ head \in 0 .. SIZE - 1 /\ tail = Pos(head, count) /\ Stored(first, count)
      /\ tail \in 0 .. SIZE - 1
  BY <1>1, PosShape DEF Ahead
<1>3. \A j \in 0 .. count - 1 : value'[Pos(head, j)] = value[Pos(head, j)]
  <2>. SUFFICES ASSUME NEW j \in 0 .. count - 1
                PROVE  value'[Pos(head, j)] = value[Pos(head, j)]
    OBVIOUS
  <2>1. j \in 0 .. SIZE - 1 /\ j \in 0 .. SIZE /\ j # count
    BY <1>1, <1>2
  <2>2. Pos(head, j) # tail /\ Pos(head, j) \in 0 .. SIZE - 1
    BY <1>2, <2>1, PosShape
  <2>. QED  BY <1>0, <1>1, <2>2 DEF TypeOK
<1>4. /\ pc' \in [Thread -> Label] /\ pc'[t] = "increase"
      /\ \A u \in Thread : u # t => pc'[u] \notin Inside
      /\ (\A u \in Thread : ThreadInv(u)') /\ Exclusion' /\ ~ Leaving'
  BY <1>0, InsideStep
<1>5. first' = first /\ count' = count
  BY <1>0, <1>1, <1>4 DEF first, count
<1>6. TypeOK'
  BY <1>0, <1>1, <1>2, <1>4 DEF TypeOK
<1>7. Ahead' /\ value'[tail'] = enque_v'
  <2>1. Stored(first, count)'
    <3>1. \A j : Pos(head, j)' = Pos(head, j)
      BY <1>0 DEF Pos
    <3>. QED  BY <1>0, <1>2, <1>3, <1>5, <3>1 DEF Stored
  <2>2. value'[tail'] = enque_v'
    BY <1>0, <1>1, <1>2 DEF TypeOK
  <2>. QED  BY <1>0, <1>2, <1>5, <2>1, <2>2 DEF Ahead, Pos
<1>8. QueueAt(t)'
  BY <1>4, <1>7 DEF QueueAt
<1>9. QueueInv'
  BY <1>1, <1>4, <1>5, <1>8, QueueFrom DEF Moving
<1>. QED  BY <1>0, <1>4, <1>5, <1>6, <1>9 DEF IInv

(* The item is in.                                                         *)
LEMMA IncreaseStep ==
  ASSUME IInv, NEW t \in Thread, Increase(t)
  PROVE  IInv' /\ first' = first /\ enque_v' = enque_v + 1 /\ count < SIZE
<1>0. /\ pc[t] = "increase" /\ pc[t] \in EnqLabel /\ pc[t] \in Inside /\ t \in Producer
      /\ Goto(t, "unlock") /\ stage' = stage /\ enque_v' = enque_v + 1
      /\ UNCHANGED <<value, head, tail, deque_v, v, cnt, is_stop, main>>
      /\ "unlock" \in Inside /\ "unlock" \notin DeqLabel
  BY Labels, Halves DEF Increase, EnqLabel, queue
<1>1. /\ TypeOK /\ first = deque_v /\ count = enque_v - first /\ count \in 0 .. SIZE
      /\ first \in Int /\ SIZE \in Nat /\ SIZE # 0 /\ Ahead /\ enque_v \in Nat
      /\ value[tail] = enque_v
  BY <1>0, Base DEF QueueAt
<1>2. /\ count \in 0 .. SIZE - 1
      /\ head \in 0 .. SIZE - 1 /\ tail = Pos(head, count) /\ Stored(first, count)
  BY <1>1 DEF Ahead
<1>4. /\ pc' \in [Thread -> Label] /\ pc'[t] = "unlock"
      /\ \A u \in Thread : u # t => pc'[u] \notin Inside
      /\ (\A u \in Thread : ThreadInv(u)') /\ Exclusion' /\ ~ Leaving'
  BY <1>0, InsideStep
<1>5. first' = first /\ count' = count + 1 /\ count + 1 \in 0 .. SIZE
  BY <1>0, <1>1, <1>2, <1>4 DEF first, count
<1>6. TypeOK'
  BY <1>0, <1>1, <1>4 DEF TypeOK
<1>7. Ring(first, count)'
  <2>1. \A j \in 0 .. count : value[Pos(head, j)] = first + j
    <3>1. \A j \in 0 .. count : j \in 0 .. count - 1 \/ j = count
      BY <1>2
    <3>2. value[Pos(head, count)] = first + count
      BY <1>1, <1>2
    <3>. QED  BY <1>2, <3>1, <3>2 DEF Stored
  <2>2. count + 1 - 1 = count /\ count + 1 # 0
    BY <1>2
  <2>. QED  BY <1>0, <1>2, <1>5, <2>1, <2>2 DEF Ring, Stored, Pos
<1>8. QueueAt(t)'
  BY <1>4 DEF QueueAt
<1>9. QueueInv'
  BY <1>4, <1>5, <1>7, <1>8, QueueFrom
<1>. QED  BY <1>0, <1>1, <1>2, <1>4, <1>5, <1>6, <1>9 DEF IInv

-----------------------------------------------------------------------------
(* deq()                                                                   *)

LEMMA IsEmptyStep ==
  ASSUME IInv, NEW t \in Thread, IsEmpty(t)
  PROVE  IInv' /\ first' = first /\ enque_v' = enque_v
<1>. DEFINE l == IF head = -1 THEN "unlock_fail" ELSE "read"
<1>0. /\ pc[t] = "is_empty" /\ pc[t] \in DeqLabel /\ pc[t] \in Inside /\ t \notin Producer
      /\ Goto(t, l) /\ stage' = stage
      /\ UNCHANGED <<value, head, tail, enque_v, deque_v, v, cnt, is_stop, main>>
      /\ l \in Inside /\ l \notin EnqLabel /\ l # "advance"
  BY Labels, Halves DEF IsEmpty, queue, DeqLabel
<1>1. /\ TypeOK /\ first = deque_v /\ count = enque_v - first /\ count \in 0 .. SIZE
      /\ Ring(first, count) /\ first \in Int /\ SIZE \in Nat
  BY <1>0, Base DEF Moving
<1>2. head = -1 <=> count = 0
  BY <1>1, RingShape
<1>3. l \in {"unlock_fail", "read"} /\ (l = "read" => count > 0)
  BY <1>1, <1>2
<1>. HIDE DEF l
<1>4. /\ pc' \in [Thread -> Label] /\ pc'[t] = l
      /\ \A u \in Thread : u # t => pc'[u] \notin Inside
      /\ (\A u \in Thread : ThreadInv(u)') /\ Exclusion' /\ ~ Leaving'
  BY <1>0, InsideStep
<1>5. first' = first /\ count' = count
  BY <1>0, <1>1, <1>4 DEF first, count
<1>6. TypeOK'
  BY <1>0, <1>1, <1>4 DEF TypeOK
<1>7. Ring(first, count)'
  BY <1>0, <1>1, <1>5 DEF Ring, Stored
<1>8. QueueAt(t)'
  BY <1>3, <1>4, <1>5 DEF QueueAt
<1>9. QueueInv'
  BY <1>1, <1>4, <1>5, <1>7, <1>8, QueueFrom
<1>. QED  BY <1>0, <1>4, <1>5, <1>6, <1>9 DEF IInv

LEMMA ReadStep ==
  ASSUME IInv, NEW t \in Thread, Read(t)
  PROVE  IInv' /\ first' = first /\ enque_v' = enque_v
<1>0. /\ pc[t] = "read" /\ pc[t] \in DeqLabel /\ pc[t] \in Inside /\ t \notin Producer
      /\ t \in Consumer
      /\ Goto(t, "assert") /\ stage' = stage /\ v' = [v EXCEPT ![t] = value[head]]
      /\ UNCHANGED <<value, head, tail, enque_v, deque_v, cnt, is_stop, main>>
      /\ "assert" \in Inside /\ "assert" \notin EnqLabel
  BY Labels, Halves DEF Read, queue, DeqLabel
<1>1. /\ TypeOK /\ first = deque_v /\ count = enque_v - first /\ count \in 0 .. SIZE
      /\ Ring(first, count) /\ first \in Int /\ SIZE \in Nat /\ count > 0 /\ deque_v \in Nat
  BY <1>0, Base DEF Moving, QueueAt
<1>2. value[head] = first
  BY <1>1, RingShape
<1>3. v' \in [Consumer -> Nat] /\ v'[t] = deque_v
  BY <1>0, <1>1, <1>2 DEF TypeOK
<1>4. /\ pc' \in [Thread -> Label] /\ pc'[t] = "assert"
      /\ \A u \in Thread : u # t => pc'[u] \notin Inside
      /\ (\A u \in Thread : ThreadInv(u)') /\ Exclusion' /\ ~ Leaving'
  BY <1>0, InsideStep
<1>5. first' = first /\ count' = count
  BY <1>0, <1>1, <1>4 DEF first, count
<1>6. TypeOK'
  BY <1>0, <1>1, <1>3, <1>4 DEF TypeOK
<1>7. Ring(first, count)'
  BY <1>0, <1>1, <1>5 DEF Ring, Stored
<1>8. QueueAt(t)'
  BY <1>0, <1>1, <1>3, <1>4, <1>5 DEF QueueAt
<1>9. QueueInv'
  BY <1>1, <1>4, <1>5, <1>7, <1>8, QueueFrom
<1>. QED  BY <1>0, <1>4, <1>5, <1>6, <1>9 DEF IInv

(* The assert is passed, as v is the first number that is in the queue.    *)
LEMMA AssertOrderStep ==
  ASSUME IInv, NEW t \in Thread, AssertOrder(t)
  PROVE  IInv' /\ first' = first /\ enque_v' = enque_v
<1>0. /\ pc[t] = "assert" /\ pc[t] \in DeqLabel /\ pc[t] \in Inside /\ t \notin Producer
      /\ deque_v' = deque_v + 1 /\ stage' = stage
      /\ UNCHANGED <<value, head, tail, enque_v, v, cnt, is_stop, main>>
      /\ "advance" \in Inside /\ "advance" \notin EnqLabel
  BY Labels, Halves DEF AssertOrder, queue, DeqLabel
<1>1. /\ TypeOK /\ first = deque_v /\ count = enque_v - first /\ count \in 0 .. SIZE
      /\ Ring(first, count) /\ first \in Int /\ SIZE \in Nat /\ count > 0 /\ deque_v \in Nat
      /\ v[t] = deque_v
  BY <1>0, Base DEF Moving, QueueAt
<1>2. Goto(t, "advance")
  BY <1>1 DEF AssertOrder
<1>4. /\ pc' \in [Thread -> Label] /\ pc'[t] = "advance"
      /\ \A u \in Thread : u # t => pc'[u] \notin Inside
      /\ (\A u \in Thread : ThreadInv(u)') /\ Exclusion' /\ Leaving'
  BY <1>0, <1>2, InsideStep
<1>5. first' = first /\ count' = count
  BY <1>0, <1>1, <1>4 DEF first, count
<1>6. TypeOK'
  BY <1>0, <1>1, <1>4 DEF TypeOK
<1>7. Ring(first, count)'
  BY <1>0, <1>1, <1>5 DEF Ring, Stored
<1>8. QueueAt(t)'
  BY <1>1, <1>4, <1>5 DEF QueueAt
<1>9. QueueInv'
  BY <1>1, <1>4, <1>5, <1>7, <1>8, QueueFrom
<1>. QED  BY <1>0, <1>4, <1>5, <1>6, <1>9 DEF IInv

(* The item is out.                                                        *)
LEMMA AdvanceStep ==
  ASSUME IInv, NEW t \in Thread, Advance(t)
  PROVE  IInv' /\ first' = first + 1 /\ enque_v' = enque_v /\ count > 0
<1>0. /\ pc[t] = "advance" /\ pc[t] \in DeqLabel /\ pc[t] \in Inside /\ t \notin Producer
      /\ Goto(t, "unlock") /\ stage' = stage
      /\ UNCHANGED <<value, enque_v, deque_v, v, cnt, is_stop, main>>
      /\ "unlock" \in Inside /\ "unlock" \notin EnqLabel
      /\ IF tail = head THEN head' = -1 /\ tail' = -1 ELSE head' = After(head) /\ tail' = tail
  BY Labels, Halves DEF Advance, DeqLabel
<1>1. /\ TypeOK /\ first = deque_v - 1 /\ count = enque_v - first /\ count \in 0 .. SIZE
      /\ Ring(first, count) /\ first \in Int /\ SIZE \in Nat /\ SIZE # 0 /\ count > 0
      /\ deque_v \in Nat /\ enque_v \in Nat
  BY <1>0, Base DEF Moving, QueueAt
<1>2. head \in 0 .. SIZE - 1 /\ tail \in 0 .. SIZE - 1 /\ (head = tail <=> count = 1)
  BY <1>1, RingShape
<1>3. tail = Pos(head, count - 1) /\ Stored(first, count)
  BY <1>1 DEF Ring
<1>4. /\ pc' \in [Thread -> Label] /\ pc'[t] = "unlock"
      /\ \A u \in Thread : u # t => pc'[u] \notin Inside
      /\ (\A u \in Thread : ThreadInv(u)') /\ Exclusion' /\ ~ Leaving'
  BY <1>0, InsideStep
<1>5. first' = first + 1 /\ count' = count - 1 /\ count - 1 \in 0 .. SIZE
  BY <1>0, <1>1, <1>4 DEF first, count
<1>6. tail # head => head' \in 0 .. SIZE - 1
  BY <1>0, <1>1, <1>2, AfterShape
<1>7. TypeOK'
  BY <1>0, <1>1, <1>2, <1>4, <1>6 DEF TypeOK
<1>8. Ring(first, count)'
  <2>1. CASE count = 1
    BY <1>0, <1>1, <1>2, <1>5, <2>1 DEF Ring
  <2>2. CASE count # 1
    <3>1. head' = After(head) /\ tail' = tail /\ head' \in 0 .. SIZE - 1
      BY <1>0, <1>2, <1>6, <2>2
    <3>2. \A j \in 0 .. count - 2 : Pos(head', j) = Pos(head, j + 1)
      <4>1. \A j \in 0 .. count - 2 : j \in 0 .. SIZE - 1
        BY <1>1
      <4>. QED  BY <1>2, <3>1, <4>1, AfterPos
    <3>3. tail' = Pos(head', count - 2)
      <4>1. count - 2 \in 0 .. count - 2 /\ count - 2 + 1 = count - 1
        BY <1>1, <2>2
      <4>. QED  BY <1>3, <3>1, <3>2, <4>1
    <3>4. \A j \in 0 .. count - 2 : value[Pos(head', j)] = first + 1 + j
      <4>1. \A j \in 0 .. count - 2 : j + 1 \in 0 .. count - 1 /\ first + (j + 1) = first + 1 + j
        BY <1>1
      <4>. QED  BY <1>3, <3>2, <4>1 DEF Stored
    <3>5. count - 1 # 0 /\ count - 1 - 1 = count - 2
      BY <1>1, <2>2
    <3>. QED  BY <1>0, <1>5, <3>1, <3>3, <3>4, <3>5 DEF Ring, Stored, Pos
  <2>. QED  BY <2>1, <2>2
<1>9. QueueAt(t)'
  BY <1>4 DEF QueueAt
<1>10. QueueInv'
  BY <1>4, <1>5, <1>8, <1>9, QueueFrom
<1>. QED  BY <1>0, <1>1, <1>4, <1>5, <1>7, <1>10 DEF IInv

-----------------------------------------------------------------------------
(* The lock, the loops and main()                                          *)

(* The queue in a step that does not touch it.                             *)
LEMMA Elsewhere ==
  ASSUME IInv, NEW t \in Thread, NEW l, l \notin Special, pc[t] \notin Special,
         pc'[t] = l, \A u \in Thread : u # t => pc'[u] = pc[u],
         UNCHANGED <<queue, enque_v, deque_v, v>>
  PROVE  QueueInv' /\ first' = first
<1>1. UNCHANGED <<value, head, tail, enque_v, deque_v, v>>
  BY DEF queue
<1>2. Leaving' = Leaving
  BY DEF Leaving, Special
<1>3. first' = first /\ count' = count
  BY <1>1, <1>2 DEF first, count
<1>4. \A u \in Thread : Moving(u)' = Moving(u)
  BY DEF Moving, Special
<1>5. Ring(first, count)' = Ring(first, count) /\ Ahead' = Ahead
  BY <1>1, <1>3 DEF Ring, Ahead, Stored
<1>6. ASSUME NEW u \in Thread PROVE QueueAt(u)'
  <2>1. CASE u = t
    BY <2>1 DEF QueueAt, Special
  <2>2. CASE u # t
    BY <1>1, <1>3, <1>5, <2>2 DEF QueueAt, IInv, QueueInv
  <2>. QED  BY <2>1, <2>2
<1>. QED  BY <1>3, <1>4, <1>5, <1>6 DEF IInv, QueueInv

(* A step of a thread between two labels where it does not hold the lock.  *)
LEMMA OutsideStep ==
  ASSUME IInv, NEW t \in Thread, pc[t] \in {"count", "loop"}, NEW l \in {"call", "loop", "exit"},
         Goto(t, l), cnt' \in [Thread -> Nat],
         UNCHANGED <<queue, enque_v, deque_v, stage, v, is_stop, main>>
  PROVE  IInv' /\ first' = first /\ enque_v' = enque_v
<1>1. TypeOK /\ pc \in [Thread -> Label] /\ l \in Label
  BY DEF IInv, TypeOK, Label
<1>2. /\ pc' \in [Thread -> Label] /\ pc'[t] = l
      /\ \A u \in Thread : u # t => pc'[u] = pc[u]
  BY <1>1, GotoShape
<1>3. TypeOK'
  BY <1>1, <1>2 DEF TypeOK, queue
<1>4. ASSUME NEW u \in Thread PROVE ThreadInv(u)'
  <2>0. ThreadInv(u)
    BY DEF IInv
  <2>1. CASE u = t
    <3>1. pc[t] \notin Inside /\ l \notin Inside /\ l \notin EnqLabel /\ l \notin DeqLabel
      BY DEF Inside, EnqLabel, DeqLabel
    <3>. QED  BY <1>2, <2>0, <2>1, <3>1 DEF ThreadInv
  <2>2. CASE u # t
    BY <1>2, <2>0, <2>2 DEF ThreadInv
  <2>. QED  BY <2>1, <2>2
<1>5. Exclusion'
  BY DEF IInv, Exclusion
<1>6. QueueInv' /\ first' = first
  BY <1>2, Elsewhere DEF Special
<1>. QED  BY <1>3, <1>4, <1>5, <1>6 DEF IInv

LEMMA CallLockStep ==
  ASSUME IInv, NEW t \in Thread, CallLock(t)
  PROVE  IInv' /\ first' = first /\ enque_v' = enque_v
<1>0. /\ TypeOK /\ pc \in [Thread -> Label] /\ pc[t] = "call" /\ Goto(t, "lock")
      /\ stage \in [Thread -> {"idle", "trying", "held"}]
      /\ stage' = [stage EXCEPT ![t] = "trying"] /\ "lock" \in Label
      /\ UNCHANGED <<queue, enque_v, deque_v, v, cnt, is_stop, main>>
  BY DEF IInv, TypeOK, CallLock, Lock!Request, Label
<1>1. /\ pc' \in [Thread -> Label] /\ pc'[t] = "lock"
      /\ \A u \in Thread : u # t => pc'[u] = pc[u]
  BY <1>0, GotoShape
<1>2. TypeOK'
  BY <1>0, <1>1 DEF TypeOK, queue
<1>3. ASSUME NEW u \in Thread PROVE ThreadInv(u)'
  <2>0. ThreadInv(u)
    BY DEF IInv
  <2>1. CASE u = t
    <3>1. "lock" \notin EnqLabel /\ "lock" \notin DeqLabel /\ "lock" \notin Inside
      BY DEF EnqLabel, DeqLabel, Inside
    <3>. QED  BY <1>0, <1>1, <2>0, <2>1, <3>1 DEF ThreadInv
  <2>2. CASE u # t
    BY <1>0, <1>1, <2>0, <2>2 DEF ThreadInv
  <2>. QED  BY <2>1, <2>2
<1>4. Exclusion'
  BY <1>0 DEF IInv, Exclusion
<1>5. QueueInv' /\ first' = first
  BY <1>0, <1>1, Elsewhere DEF Special
<1>. QED  BY <1>0, <1>2, <1>3, <1>4, <1>5 DEF IInv

LEMMA GetLockStep ==
  ASSUME IInv, NEW t \in Thread, GetLock(t)
  PROVE  IInv' /\ first' = first /\ enque_v' = enque_v
<1>. DEFINE l == IF t \in Producer THEN "is_full" ELSE "is_empty"
<1>0. /\ TypeOK /\ pc \in [Thread -> Label] /\ pc[t] = "lock" /\ Goto(t, l)
      /\ stage \in [Thread -> {"idle", "trying", "held"}]
      /\ stage' = [stage EXCEPT ![t] = "held"] /\ l \in Label
      /\ UNCHANGED <<queue, enque_v, deque_v, v, cnt, is_stop, main>>
      /\ \A u \in Thread : stage[u] # "held"
  BY DEF IInv, TypeOK, GetLock, Lock!Acquire, Label, EnqLabel, DeqLabel
<1>a. /\ l \in Inside /\ l \notin Special /\ l # "lock" /\ l # "aborted"
      /\ IF t \in Producer THEN l \notin DeqLabel ELSE l \notin EnqLabel
  BY DEF Inside, EnqLabel, DeqLabel, Special
<1>. HIDE DEF l
<1>1. /\ pc' \in [Thread -> Label] /\ pc'[t] = l
      /\ \A u \in Thread : u # t => pc'[u] = pc[u]
  BY <1>0, GotoShape
<1>2. TypeOK'
  BY <1>0, <1>1 DEF TypeOK, queue
<1>3. ASSUME NEW u \in Thread PROVE ThreadInv(u)'
  <2>0. ThreadInv(u)
    BY DEF IInv
  <2>1. CASE u = t
    BY <1>0, <1>1, <1>a, <2>0, <2>1 DEF ThreadInv
  <2>2. CASE u # t
    BY <1>0, <1>1, <2>0, <2>2 DEF ThreadInv
  <2>. QED  BY <2>1, <2>2
<1>4. Exclusion'
  BY <1>0 DEF Exclusion
<1>5. QueueInv' /\ first' = first
  BY <1>0, <1>1, <1>a, Elsewhere DEF Special
<1>. QED  BY <1>0, <1>2, <1>3, <1>4, <1>5 DEF IInv

LEMMA UnlockStep ==
  ASSUME IInv, NEW t \in Thread, Unlock(t)
  PROVE  IInv' /\ first' = first /\ enque_v' = enque_v
<1>. DEFINE l == IF pc[t] = "unlock" THEN "count" ELSE "loop"
<1>0. /\ TypeOK /\ pc \in [Thread -> Label] /\ pc[t] \in {"unlock", "unlock_fail"}
      /\ Goto(t, l)
      /\ stage \in [Thread -> {"idle", "trying", "held"}]
      /\ stage' = [stage EXCEPT ![t] = "idle"] /\ l \in Label
      /\ UNCHANGED <<queue, enque_v, deque_v, v, cnt, is_stop, main>>
  BY DEF IInv, TypeOK, Unlock, Lock!Release, Label
<1>a. /\ l \notin Inside /\ l \notin Special /\ l # "lock" /\ l # "aborted"
      /\ l \notin EnqLabel /\ l \notin DeqLabel
  BY DEF Inside, EnqLabel, DeqLabel, Special
<1>. HIDE DEF l
<1>1. /\ pc' \in [Thread -> Label] /\ pc'[t] = l
      /\ \A u \in Thread : u # t => pc'[u] = pc[u]
  BY <1>0, GotoShape
<1>2. TypeOK'
  BY <1>0, <1>1 DEF TypeOK, queue
<1>3. ASSUME NEW u \in Thread PROVE ThreadInv(u)'
  <2>0. ThreadInv(u)
    BY DEF IInv
  <2>1. CASE u = t
    BY <1>0, <1>1, <1>a, <2>0, <2>1 DEF ThreadInv
  <2>2. CASE u # t
    BY <1>0, <1>1, <2>0, <2>2 DEF ThreadInv
  <2>. QED  BY <2>1, <2>2
<1>4. Exclusion'
  BY <1>0 DEF IInv, Exclusion
<1>5. QueueInv' /\ first' = first
  BY <1>0, <1>1, <1>a, Elsewhere DEF Special
<1>. QED  BY <1>0, <1>2, <1>3, <1>4, <1>5 DEF IInv

LEMMA ThreadStepInv ==
  ASSUME IInv, NEW t \in Thread, ThreadStep(t)
  PROVE  /\ IInv'
         /\ \/ first' = first /\ enque_v' = enque_v
            \/ first' = first /\ enque_v' = enque_v + 1 /\ count < SIZE
            \/ first' = first + 1 /\ enque_v' = enque_v /\ count > 0
<1>1. CASE Count(t)
  <2>1. cnt' \in [Thread -> Nat]
    BY <1>1 DEF Count, IInv, TypeOK
  <2>. QED  BY <1>1, <2>1, OutsideStep DEF Count
<1>2. CASE Loop(t)
  BY <1>2, OutsideStep DEF Loop, IInv, TypeOK
<1>3. CASE CallLock(t) \/ GetLock(t) \/ Unlock(t)
  BY <1>3, CallLockStep, GetLockStep, UnlockStep
<1>4. CASE Enq(t)
  BY <1>4, IsFullStep, SetHeadStep, MoveTailStep, WriteStep, IncreaseStep DEF Enq
<1>5. CASE Deq(t)
  BY <1>5, IsEmptyStep, ReadStep, AssertOrderStep, AdvanceStep DEF Deq
<1>. QED  BY <1>1, <1>2, <1>3, <1>4, <1>5 DEF ThreadStep

(* main() and a stutter.                                                   *)
LEMMA MainStep ==
  ASSUME IInv, UNCHANGED <<queue, enque_v, deque_v, stage, pc, v, cnt>>,
         is_stop' \in BOOLEAN, main' \in {"sleep", "join", "freed"}
  PROVE  IInv' /\ first' = first /\ enque_v' = enque_v
<1>1. UNCHANGED <<value, head, tail, enque_v, deque_v, stage, pc, v, cnt>>
  BY DEF queue
<1>2. TypeOK'
  BY <1>1 DEF IInv, TypeOK
<1>3. Exclusion' /\ \A t \in Thread : ThreadInv(t)'
  BY <1>1 DEF IInv, Exclusion, ThreadInv
<1>4. first' = first /\ count' = count
  BY <1>1 DEF first, count, Leaving
<1>5. QueueInv'
  <2>1. Ring(first, count)' = Ring(first, count) /\ Ahead' = Ahead
    BY <1>1, <1>4 DEF Ring, Ahead, Stored
  <2>. QED  BY <1>1, <1>4, <2>1 DEF IInv, QueueInv, QueueAt, Moving
<1>. QED  BY <1>1, <1>2, <1>3, <1>4, <1>5 DEF IInv

LEMMA NextStep ==
  ASSUME IInv, [Next]_vars
  PROVE  /\ IInv'
         /\ \/ first' = first /\ enque_v' = enque_v
            \/ first' = first /\ enque_v' = enque_v + 1 /\ count < SIZE
            \/ first' = first + 1 /\ enque_v' = enque_v /\ count > 0
<1>1. is_stop \in BOOLEAN /\ main \in {"sleep", "join", "freed"}
  BY DEF IInv, TypeOK
<1>2. CASE Stop \/ JoinAndFree \/ Terminated \/ UNCHANGED vars
  <2>1. /\ UNCHANGED <<queue, enque_v, deque_v, stage, pc, v, cnt>>
        /\ is_stop' \in BOOLEAN /\ main' \in {"sleep", "join", "freed"}
    BY <1>1, <1>2 DEF Stop, JoinAndFree, Terminated, vars
  <2>. QED  BY <2>1, MainStep
<1>3. ASSUME NEW t \in Thread, ThreadStep(t)
      PROVE  /\ IInv'
             /\ \/ first' = first /\ enque_v' = enque_v
                \/ first' = first /\ enque_v' = enque_v + 1 /\ count < SIZE
                \/ first' = first + 1 /\ enque_v' = enque_v /\ count > 0
  BY <1>3, ThreadStepInv
<1>. QED  BY <1>2, <1>3 DEF Next

LEMMA InitInv == Init => IInv
<1>. SUFFICES ASSUME Init PROVE IInv
  OBVIOUS
<1>0. SIZE \in Nat \ {0}
  BY SizeAssumption
<1>1. TypeOK
  <2>1. value \in [0 .. SIZE - 1 -> Nat] /\ v \in [Consumer -> Nat] /\ cnt \in [Thread -> Nat]
    BY DEF Init
  <2>2. pc \in [Thread -> Label] /\ stage \in [Thread -> {"idle", "trying", "held"}]
    BY DEF Init, Lock!Init, Label
  <2>3. head \in -1 .. SIZE - 1 /\ tail \in -1 .. SIZE - 1
    BY <1>0 DEF Init
  <2>. QED  BY <2>1, <2>2, <2>3 DEF Init, TypeOK
<1>2. Exclusion /\ \A t \in Thread : ThreadInv(t)
  BY DEF Init, Lock!Init, Exclusion, ThreadInv, Inside, EnqLabel, DeqLabel
<1>3. first = 0 /\ count = 0
  <2>1. ~ Leaving
    BY DEF Init, Leaving
  <2>2. deque_v = 0 /\ enque_v = 0
    BY DEF Init
  <2>3. first = 0
    BY <2>1, <2>2 DEF first
  <2>. QED  BY <2>2, <2>3 DEF count
<1>4. QueueInv
  BY <1>0, <1>3 DEF Init, QueueInv, QueueAt, Ring
<1>. QED  BY <1>1, <1>2, <1>4 DEF IInv

-----------------------------------------------------------------------------
(* What the queue holds                                                    *)

(* The n numbers from a on.                                                *)
Numbers(a, n) == [k \in 1 .. n |-> a + k - 1]

LEMMA NumbersShape ==
  ASSUME NEW a \in Nat, NEW n \in Nat
  PROVE  /\ Numbers(a, n) \in Seq(Nat) /\ Len(Numbers(a, n)) = n
         /\ Numbers(a, n + 1) = Append(Numbers(a, n), a + n)
         /\ n # 0 => Numbers(a, n) # <<>> /\ Numbers(a + 1, n - 1) = Tail(Numbers(a, n))
         /\ Numbers(a, 0) = <<>>
<1>1. Numbers(a, n) \in Seq(Nat) /\ Len(Numbers(a, n)) = n
  BY DEF Numbers
<1>2. Numbers(a, n + 1) = Append(Numbers(a, n), a + n)
  BY <1>1 DEF Numbers
<1>3. ASSUME n # 0 PROVE Numbers(a, n) # <<>> /\ Numbers(a + 1, n - 1) = Tail(Numbers(a, n))
  <2>1. Numbers(a, n) # <<>>
    BY <1>1, <1>3
  <2>2. Numbers(a + 1, n - 1) = Tail(Numbers(a, n))
    BY <1>1, <1>3 DEF Numbers
  <2>. QED  BY <2>1, <2>2
<1>4. Numbers(a, 0) = <<>>
  BY DEF Numbers
<1>. QED  BY <1>1, <1>2, <1>3, <1>4

LEMMA ContentsAre ==
  ASSUME head \in 0 .. SIZE - 1, NEW m \in 0 .. SIZE - 1, tail = Pos(head, m)
  PROVE  Contents = [n \in 1 .. m + 1 |-> value[Pos(head, n - 1)]]
<1>0. SIZE \in Nat \ {0}
  BY SizeAssumption
<1>1. tail \in 0 .. SIZE - 1 /\ (tail - head) % SIZE = m
  BY <1>0, PosMod, PosShape
<1>2. \A n \in 1 .. m + 1 : (head + n - 1) % SIZE = Pos(head, n - 1)
  <2>. SUFFICES ASSUME NEW n \in 1 .. m + 1 PROVE (head + n - 1) % SIZE = Pos(head, n - 1)
    OBVIOUS
  <2>1. n - 1 \in 0 .. SIZE - 1 /\ head + (n - 1) = head + n - 1
    BY <1>0
  <2>. QED  BY <2>1, PosMod
<1>3. head # -1 /\ tail # -1
  BY <1>0, <1>1
<1>. QED  BY <1>1, <1>2, <1>3 DEF Contents

LEMMA RingContents ==
  ASSUME NEW a \in Nat, NEW n \in 0 .. SIZE, Ring(a, n)
  PROVE  Contents = Numbers(a, n)
<1>0. SIZE \in Nat \ {0}
  BY SizeAssumption
<1>1. CASE n = 0
  BY <1>1, NumbersShape DEF Ring, Contents
<1>2. CASE n # 0
  <2>1. /\ head \in 0 .. SIZE - 1 /\ tail = Pos(head, n - 1) /\ Stored(a, n)
        /\ n - 1 \in 0 .. SIZE - 1 /\ n - 1 + 1 = n
    BY <1>0, <1>2 DEF Ring
  <2>2. Contents = [k \in 1 .. n |-> value[Pos(head, k - 1)]]
    BY <2>1, ContentsAre
  <2>3. \A k \in 1 .. n : value[Pos(head, k - 1)] = a + k - 1
    <3>1. \A k \in 1 .. n : k - 1 \in 0 .. n - 1 /\ a + (k - 1) = a + k - 1
      BY <1>0
    <3>. QED  BY <2>1, <3>1 DEF Stored
  <2>. QED  BY <2>2, <2>3 DEF Numbers
<1>. QED  BY <1>1, <1>2

(* The queue holds the numbers that have been given out and not been read. *)
Holding ==
  /\ items = Numbers(first, count)
  /\ first \in Nat /\ count \in Nat /\ count <= SIZE /\ enque_v = first + count

LEMMA ItemsAre == IInv => Holding
<1>. SUFFICES ASSUME IInv PROVE Holding
  OBVIOUS
<1>0. /\ SIZE \in Nat \ {0} /\ enque_v \in Nat /\ deque_v \in Nat /\ QueueInv
      /\ count \in 0 .. SIZE
  BY SizeAssumption DEF IInv, TypeOK, QueueInv
<1>1. first \in Nat /\ enque_v = first + count
  <2>1. CASE Leaving
    <3>1. PICK t \in Thread : pc[t] = "advance"
      BY <2>1 DEF Leaving
    <3>2. pc[t] \in Inside /\ ~ Moving(t)
      BY <3>1, Labels DEF DeqLabel, Moving
    <3>3. Ring(first, count) /\ first \in Int /\ count > 0
      BY <3>1, <3>2, Base DEF QueueAt
    <3>4. value[head] = first /\ head \in 0 .. SIZE - 1
      BY <1>0, <3>3, RingShape
    <3>5. first \in Nat
      BY <3>4 DEF IInv, TypeOK
    <3>. QED  BY <1>0, <3>5 DEF count
  <2>2. CASE ~ Leaving
    BY <1>0, <2>2 DEF first, count
  <2>. QED  BY <2>1, <2>2
<1>2. ASSUME \A t \in Thread : ~ Moving(t) PROVE items = Numbers(first, count)
  <2>1. Contents = Numbers(first, count)
    BY <1>0, <1>1, <1>2, RingContents DEF QueueInv
  <2>2. ~ \E t \in Producer : pc[t] \in {"write", "increase"}
    BY <1>2 DEF Moving, Thread
  <2>. QED  BY <2>1, <2>2 DEF items
<1>3. ASSUME NEW t \in Thread, Moving(t) PROVE items = Numbers(first, count)
  <2>0. pc[t] \in EnqLabel /\ pc[t] \in Inside /\ t \in Producer /\ QueueAt(t)
    BY <1>0, <1>3, Labels, Halves DEF Moving, EnqLabel, QueueInv
  <2>1. CASE pc[t] = "move_tail"
    <3>1. ~ \E u \in Producer : pc[u] \in {"write", "increase"}
      BY <2>0, <2>1, Alone, Labels DEF EnqLabel, Thread
    <3>2. Contents = Numbers(first, count)
      <4>1. CASE count = 0
        BY <1>1, <2>0, <2>1, <4>1, NumbersShape DEF QueueAt, Contents
      <4>2. CASE count # 0
        BY <1>0, <1>1, <2>0, <2>1, <4>2, RingContents DEF QueueAt
      <4>. QED  BY <4>1, <4>2
    <3>. QED  BY <3>1, <3>2 DEF items
  <2>2. CASE pc[t] \in {"write", "increase"}
    <3>1. /\ count \in 0 .. SIZE - 1 /\ head \in 0 .. SIZE - 1 /\ tail = Pos(head, count)
          /\ Stored(first, count)
      BY <2>0, <2>2 DEF QueueAt, Ahead
    <3>2. Contents = [k \in 1 .. count + 1 |-> value[Pos(head, k - 1)]]
      BY <3>1, ContentsAre
    <3>3. items = SubSeq(Contents, 1, Len(Contents) - 1)
      BY <2>0, <2>2 DEF items
    <3>. DEFINE c == count
                w == [k \in 1 .. c + 1 |-> value[Pos(head, k - 1)]]
    <3>4. c \in Nat /\ w = Contents
      BY <1>0, <3>2
    <3>5. SubSeq(w, 1, Len(w) - 1) = [k \in 1 .. c |-> value[Pos(head, k - 1)]]
      <4>. HIDE DEF c
      <4>1. Len(w) = c + 1
        BY <3>4
      <4>2. c + 1 - 1 = c /\ \A k \in 1 .. c : k \in 1 .. c + 1 /\ 1 + k - 1 = k
        BY <3>4
      <4>. QED  BY <3>4, <4>1, <4>2
    <3>6. \A k \in 1 .. c : value[Pos(head, k - 1)] = first + k - 1
      <4>1. \A k \in 1 .. c : k - 1 \in 0 .. c - 1 /\ first + (k - 1) = first + k - 1
        BY <1>1, <3>4
      <4>. QED  BY <3>1, <4>1 DEF Stored
    <3>. QED  BY <3>3, <3>4, <3>5, <3>6 DEF Numbers
  <2>. QED  BY <1>3, <2>1, <2>2 DEF Moving
<1>. QED  BY <1>0, <1>1, <1>2, <1>3 DEF Holding

LEMMA ItemsAreNext == IInv' => Holding'
BY ItemsAre, PTL

-----------------------------------------------------------------------------
(* Sums over a finite set.  Both the equation of the recursion and what    *)
(* the sum does when one summand changes go by induction over the subsets, *)
(* in the form: of the subsets of a finite set for which a claim fails,    *)
(* one would be minimal.                                                   *)

LEMMA MinimalSubset ==
  ASSUME NEW S, IsFiniteSet(S), NEW F, F \subseteq SUBSET S, F # {}
  PROVE  \E A \in F : \A B \in F : B \subseteq A => B = A
<1>1. F \subseteq FiniteSubsetsOf(S)
  BY FS_Subset DEF FiniteSubsetsOf
<1>2. PICK A \in F : \A B \in F : ~ (<<B, A>> \in StrictSubsetOrdering(S))
  BY <1>1, FS_StrictSubsetOrderingWellFounded, WFMin
<1>. QED  BY <1>2 DEF StrictSubsetOrdering

Any(s) == CHOOSE x \in s : TRUE

(* h is the sum of f over each subset of S.                                *)
IsSum(h, f, S) ==
  h = [s \in SUBSET S |-> IF s = {} THEN 0 ELSE f[Any(s)] + h[s \ {Any(s)}]]

Sum(f, S) == MapThenSumSet(LAMBDA t : f[t], S)

LEMMA AnyIn == ASSUME NEW s, s # {} PROVE Any(s) \in s
BY DEF Any

LEMMA SumUnfold ==
  ASSUME NEW f, NEW S
  PROVE  Sum(f, S) = (CHOOSE h : IsSum(h, f, S))[S]
BY DEF Sum, MapThenSumSet, MapThenFoldSet, IsSum, Any

LEMMA SumEquation ==
  ASSUME NEW h, NEW f, NEW S, IsSum(h, f, S), NEW A, A \subseteq S
  PROVE  /\ A = {} => h[A] = 0
         /\ A # {} => h[A] = f[Any(A)] + h[A \ {Any(A)}]
<1>. DEFINE e(s) == IF s = {} THEN 0 ELSE f[Any(s)] + h[s \ {Any(s)}]
<1>1. h = [s \in SUBSET S |-> e(s)]
  BY DEF IsSum
<1>2. h[A] = e(A)
  BY <1>1
<1>. QED  BY <1>2

(* There is one sum, whatever set it is taken in.                          *)
LEMMA SumUnique ==
  ASSUME NEW f, NEW S, NEW T, NEW h, NEW k, IsSum(h, f, S), IsSum(k, f, T),
         NEW A, A \subseteq S, A \subseteq T, IsFiniteSet(A)
  PROVE  h[A] = k[A]
<1>. DEFINE F == {B \in SUBSET A : h[B] # k[B]}
<1>. SUFFICES ASSUME F # {} PROVE FALSE
  OBVIOUS
<1>1. F \subseteq SUBSET A
  OBVIOUS
<1>2. PICK B \in F : \A C \in F : C \subseteq B => C = B
  <2>. HIDE DEF F
  <2>. QED  BY <1>1, MinimalSubset
<1>3. B \subseteq S /\ B \subseteq T /\ h[B] # k[B]
  BY <1>2
<1>4. B # {}
  BY <1>3, SumEquation
<1>5. Any(B) \in B
  BY <1>4, AnyIn
<1>6. h[B \ {Any(B)}] = k[B \ {Any(B)}]
  <2>1. B \ {Any(B)} \in SUBSET A /\ B \ {Any(B)} # B
    BY <1>5, <1>2
  <2>. QED  BY <1>2, <2>1
<1>. QED  BY <1>3, <1>4, <1>6, SumEquation

LEMMA SumExists ==
  ASSUME NEW f, NEW S, IsFiniteSet(S)
  PROVE  \E h : IsSum(h, f, S)
<1>. DEFINE F == {B \in SUBSET S : ~ \E h : IsSum(h, f, B)}
<1>. SUFFICES ASSUME F # {} PROVE FALSE
  OBVIOUS
<1>1. F \subseteq SUBSET S
  OBVIOUS
<1>2. PICK B \in F : \A C \in F : C \subseteq B => C = B
  <2>. HIDE DEF F
  <2>. QED  BY <1>1, MinimalSubset
<1>. DEFINE sum(C) == (CHOOSE h : IsSum(h, f, C))[C]
            g == [s \in SUBSET B |-> IF s = {} THEN 0 ELSE f[Any(s)] + sum(s \ {Any(s)})]
<1>3. B \subseteq S /\ ~ IsSum(g, f, B)
  BY <1>2
<1>4. ASSUME NEW C, C \subseteq B, C # B
      PROVE  IsSum(CHOOSE h : IsSum(h, f, C), f, C)
  <2>1. C \notin F /\ C \in SUBSET S
    BY <1>2, <1>3, <1>4
  <2>2. \E h : IsSum(h, f, C)
    BY <2>1
  <2>. QED  BY <2>2
<1>5. ASSUME NEW C, C \subseteq B, C # B, C # {}
      PROVE  sum(C) = f[Any(C)] + sum(C \ {Any(C)})
  <2>. DEFINE h == CHOOSE h : IsSum(h, f, C)
              D == C \ {Any(C)}
              k == CHOOSE k : IsSum(k, f, D)
  <2>1. Any(C) \in C /\ D \subseteq C /\ D \subseteq B /\ D # B
    BY <1>5, AnyIn
  <2>2. IsSum(h, f, C) /\ IsSum(k, f, D)
    BY <1>4, <1>5, <2>1
  <2>3. IsFiniteSet(D)
    BY <1>3, <2>1, FS_Subset
  <2>. HIDE DEF h, k, D
  <2>4. h[D] = k[D]
    BY <2>1, <2>2, <2>3, SumUnique
  <2>5. h[C] = f[Any(C)] + h[D]
    BY <1>5, <2>2, SumEquation DEF D
  <2>6. sum(C) = h[C] /\ sum(C \ {Any(C)}) = k[D]
    BY DEF h, k, D
  <2>. QED  BY <2>4, <2>5, <2>6
<1>6. sum({}) = 0
  <2>. DEFINE h == [s \in SUBSET {} |-> 0]
              k == CHOOSE k : IsSum(k, f, {})
  <2>1. IsSum(h, f, {})
    BY DEF IsSum
  <2>2. IsSum(k, f, {})
    <3>. HIDE DEF h
    <3>. QED  BY <2>1
  <2>. HIDE DEF k
  <2>3. k[{}] = 0
    BY <2>2, SumEquation
  <2>. QED  BY <2>3 DEF k
<1>7. \A C \in SUBSET B : C # B => g[C] = sum(C)
  <2>. SUFFICES ASSUME NEW C \in SUBSET B, C # B PROVE g[C] = sum(C)
    OBVIOUS
  <2>1. g[C] = IF C = {} THEN 0 ELSE f[Any(C)] + sum(C \ {Any(C)})
    <3>. HIDE DEF sum
    <3>. QED  OBVIOUS
  <2>. HIDE DEF g, sum
  <2>. QED  BY <1>5, <1>6, <2>1
<1>8. \A C \in SUBSET B : C # {} => g[C \ {Any(C)}] = sum(C \ {Any(C)})
  <2>. SUFFICES ASSUME NEW C \in SUBSET B, C # {}
                PROVE  g[C \ {Any(C)}] = sum(C \ {Any(C)})
    OBVIOUS
  <2>1. Any(C) \in C
    BY AnyIn
  <2>2. C \ {Any(C)} \in SUBSET B /\ C \ {Any(C)} # B
    BY <2>1
  <2>. HIDE DEF g, sum
  <2>. QED  BY <1>7, <2>2
<1>9. g = [s \in SUBSET B |-> IF s = {} THEN 0 ELSE f[Any(s)] + g[s \ {Any(s)}]]
  <2>. DEFINE e(s) == IF s = {} THEN 0 ELSE f[Any(s)] + sum(s \ {Any(s)})
              d(s) == IF s = {} THEN 0 ELSE f[Any(s)] + g[s \ {Any(s)}]
  <2>1. \A s \in SUBSET B : e(s) = d(s)
    <3>. HIDE DEF g, sum
    <3>. QED  BY <1>8
  <2>2. g = [s \in SUBSET B |-> e(s)]
    OBVIOUS
  <2>. HIDE DEF g, e, d
  <2>3. g = [s \in SUBSET B |-> d(s)]
    BY <2>1, <2>2
  <2>. QED  BY <2>3 DEF d
<1>. HIDE DEF g
<1>. QED  BY <1>3, <1>9 DEF IsSum

LEMMA SumIs ==
  ASSUME NEW f, NEW S, IsFiniteSet(S)
  PROVE  \E h : IsSum(h, f, S) /\ Sum(f, S) = h[S]
<1>1. IsSum(CHOOSE h : IsSum(h, f, S), f, S)
  BY SumExists
<1>. QED  BY <1>1, SumUnfold

(* A sum of zeroes.                                                        *)
LEMMA SumZero ==
  ASSUME NEW f, NEW S, IsFiniteSet(S), \A x \in S : f[x] = 0
  PROVE  Sum(f, S) = 0
<1>1. PICK h : IsSum(h, f, S) /\ Sum(f, S) = h[S]
  BY SumIs
<1>. DEFINE F == {B \in SUBSET S : h[B] # 0}
<1>. SUFFICES ASSUME F # {} PROVE FALSE
  BY <1>1
<1>2. F \subseteq SUBSET S
  OBVIOUS
<1>3. PICK B \in F : \A C \in F : C \subseteq B => C = B
  <2>. HIDE DEF F
  <2>. QED  BY <1>2, MinimalSubset
<1>4. B \subseteq S /\ h[B] # 0
  BY <1>3
<1>5. B # {}
  BY <1>1, <1>4, SumEquation
<1>6. Any(B) \in B
  BY <1>5, AnyIn
<1>7. h[B \ {Any(B)}] = 0
  <2>1. B \ {Any(B)} \in SUBSET S /\ B \ {Any(B)} # B
    BY <1>4, <1>6
  <2>. QED  BY <1>3, <2>1
<1>8. h[B] = f[Any(B)] + h[B \ {Any(B)}]
  BY <1>1, <1>4, <1>5, SumEquation
<1>. QED  BY <1>4, <1>6, <1>7, <1>8

(* One summand goes up by d, which may be 0.                               *)
GoesUp(f, g, S, x, d) ==
  /\ g[x] = f[x] + d
  /\ \A y \in S : f[y] \in Nat /\ (y # x => g[y] = f[y])

(* The sum goes up with it.                                                *)
LEMMA SumStep ==
  ASSUME NEW S, IsFiniteSet(S), NEW d \in Nat, NEW f, NEW g, NEW x, GoesUp(f, g, S, x, d)
  PROVE  /\ Sum(f, S) \in Nat
         /\ Sum(g, S) = Sum(f, S) + (IF x \in S THEN d ELSE 0)
<1>1. PICK h : IsSum(h, f, S) /\ Sum(f, S) = h[S]
  BY SumIs
<1>2. PICK k : IsSum(k, g, S) /\ Sum(g, S) = k[S]
  BY SumIs
<1>. DEFINE more(B) == IF x \in B THEN d ELSE 0
            F == {B \in SUBSET S : ~ (h[B] \in Nat /\ k[B] = h[B] + more(B))}
<1>. SUFFICES ASSUME F # {} PROVE FALSE
  BY <1>1, <1>2
<1>3. F \subseteq SUBSET S
  OBVIOUS
<1>4. PICK B \in F : \A C \in F : C \subseteq B => C = B
  <2>. HIDE DEF F
  <2>. QED  BY <1>3, MinimalSubset
<1>5. B \subseteq S /\ ~ (h[B] \in Nat /\ k[B] = h[B] + more(B))
  BY <1>4
<1>6. B # {}
  <2>. SUFFICES ASSUME B = {} PROVE FALSE
    OBVIOUS
  <2>1. h[B] = 0 /\ k[B] = 0
    BY <1>1, <1>2, <1>5, SumEquation
  <2>. QED  BY <1>5, <2>1
<1>. DEFINE y == Any(B)
            C == B \ {y}
<1>7. y \in B /\ y \in S
  BY <1>5, <1>6, AnyIn
<1>8. h[C] \in Nat /\ k[C] = h[C] + more(C)
  <2>1. C \in SUBSET S /\ C # B /\ C \subseteq B
    BY <1>5, <1>7
  <2>. QED  BY <1>4, <2>1
<1>9. h[B] = f[y] + h[C] /\ k[B] = g[y] + k[C]
  <2>1. h[B] = f[y] + h[C]
    BY <1>1, <1>5, <1>6, SumEquation
  <2>2. k[B] = g[y] + k[C]
    BY <1>2, <1>5, <1>6, SumEquation
  <2>. QED  BY <2>1, <2>2
<1>10. f[y] \in Nat
  BY <1>7 DEF GoesUp
<1>11. CASE y = x
  <2>1. more(C) = 0 /\ more(B) = d /\ g[y] = f[y] + d
    BY <1>7, <1>11 DEF GoesUp
  <2>. HIDE DEF y, C, more
  <2>. QED  BY <1>5, <1>8, <1>9, <1>10, <2>1
<1>12. CASE y # x
  <2>1. more(C) = more(B) /\ g[y] = f[y] /\ more(B) \in Nat
    BY <1>7, <1>12 DEF GoesUp
  <2>. HIDE DEF y, C, more
  <2>. QED  BY <1>5, <1>8, <1>9, <1>10, <2>1
<1>. QED  BY <1>11, <1>12

-----------------------------------------------------------------------------
(* The counters                                                            *)

(* What the counters of the threads in T say, with those who have to count *)
(* still.                                                                  *)
Total(T) == Sum(cnt, T) + Cardinality(Uncounted(T))

(* Who has taken an item in or out and has not counted it.                 *)
Owes(l) == IF l \in {"unlock", "count"} THEN 1 ELSE 0

Accounted ==
  /\ enque_v = Total(Producer)
  /\ first = Total(Consumer)

LEMMA TotalStep ==
  ASSUME pc \in [Thread -> Label], cnt \in [Thread -> Nat],
         NEW T \in {Producer, Consumer}, NEW t \in Thread, NEW l \in Label, Goto(t, l),
         NEW d \in Nat, cnt' = [cnt EXCEPT ![t] = @ + d]
  PROVE  /\ Total(T) \in Nat
         /\ Total(T)' = Total(T) + (IF t \in T THEN d + Owes(l) - Owes(pc[t]) ELSE 0)
<1>1. IsFiniteSet(T) /\ T \subseteq Thread
  BY ThreadsAssumption DEF Thread
<1>2. pc'[t] = l /\ \A u \in Thread : u # t => pc'[u] = pc[u]
  BY GotoShape
<1>3. cnt'[t] = cnt[t] + d /\ \A u \in T : cnt[u] \in Nat /\ (u # t => cnt'[u] = cnt[u])
  BY <1>1
<1>4. Sum(cnt, T) \in Nat /\ Sum(cnt, T)' = Sum(cnt, T) + (IF t \in T THEN d ELSE 0)
  <2>0. PICK f, g : f = cnt /\ g = cnt'
    OBVIOUS
  <2>1. GoesUp(f, g, T, t, d)
    BY <1>3, <2>0 DEF GoesUp
  <2>2. Sum(f, T) \in Nat /\ Sum(g, T) = Sum(f, T) + (IF t \in T THEN d ELSE 0)
    BY <1>1, <2>1, SumStep
  <2>3. Sum(cnt, T) = Sum(f, T) /\ Sum(cnt, T)' = Sum(g, T)
    BY <2>0 DEF Sum, MapThenSumSet, MapThenFoldSet
  <2>. QED  BY <2>2, <2>3
<1>a. PICK U, V : U = Uncounted(T) /\ V = Uncounted(T)'
  OBVIOUS
<1>5. IsFiniteSet(U) /\ IsFiniteSet(V) /\ Cardinality(U) \in Nat
  <2>1. U \in SUBSET T /\ V \in SUBSET T
    BY <1>a DEF Uncounted
  <2>2. IsFiniteSet(U) /\ IsFiniteSet(V)
    BY <1>1, <2>1, FS_Subset
  <2>. QED  BY <2>2, FS_CardinalityType
<1>6. /\ t \notin T => V = U
      /\ t \in T => /\ t \in U <=> Owes(pc[t]) = 1
                    /\ t \in V <=> Owes(l) = 1
                    /\ V \ {t} = U \ {t}
      /\ Owes(l) \in {0, 1} /\ Owes(pc[t]) \in {0, 1}
  BY <1>1, <1>2, <1>a DEF Uncounted, Owes
<1>7. /\ Cardinality(V \ {t}) = IF t \in V THEN Cardinality(V) - 1 ELSE Cardinality(V)
      /\ Cardinality(U \ {t}) = IF t \in U THEN Cardinality(U) - 1 ELSE Cardinality(U)
  BY <1>5, FS_RemoveElement
<1>8. Cardinality(V) \in Nat
  BY <1>5, FS_CardinalityType
<1>9. Cardinality(V) = Cardinality(U) + (IF t \in T THEN Owes(l) - Owes(pc[t]) ELSE 0)
  <2>1. CASE t \in T
    <3>1. Cardinality(V) - Owes(l) = Cardinality(V \ {t})
      BY <1>6, <1>7, <1>8, <2>1
    <3>2. Cardinality(U) - Owes(pc[t]) = Cardinality(U \ {t})
      BY <1>5, <1>6, <1>7, <2>1
    <3>3. V \ {t} = U \ {t}
      BY <1>6, <2>1
    <3>4. Cardinality(V) - Owes(l) = Cardinality(U) - Owes(pc[t])
      BY <3>1, <3>2, <3>3
    <3>. QED  BY <1>5, <1>6, <1>8, <2>1, <3>4
  <2>2. CASE t \notin T
    BY <1>5, <1>6, <2>2
  <2>. QED  BY <2>1, <2>2
<1>10. Total(T) = Sum(cnt, T) + Cardinality(U) /\ Total(T)' = Sum(cnt, T)' + Cardinality(V)
  BY <1>a DEF Total
<1>. QED  BY <1>4, <1>5, <1>6, <1>9, <1>10

(* The steps that take no item in or out, and count none.                  *)
LEMMA QuietStep ==
  ASSUME IInv, Accounted, NEW t \in Thread, NEW l \in Label, Goto(t, l), cnt' = cnt,
         Owes(l) = Owes(pc[t]), first' = first, enque_v' = enque_v
  PROVE  Accounted'
<1>1. pc \in [Thread -> Label] /\ cnt \in [Thread -> Nat]
  BY DEF IInv, TypeOK
<1>2. cnt' = [cnt EXCEPT ![t] = @ + 0]
  <2>1. cnt[t] \in Nat
    BY <1>1
  <2>2. cnt[t] + 0 = cnt[t]
    BY <2>1
  <2>. QED  BY <1>1, <2>2
<1>3. Owes(l) \in Nat
  BY DEF Owes
<1>4. ASSUME NEW T \in {Producer, Consumer} PROVE Total(T)' = Total(T)
  <2>1. /\ Total(T) \in Nat
        /\ Total(T)' = Total(T) + (IF t \in T THEN 0 + Owes(l) - Owes(pc[t]) ELSE 0)
    BY <1>1, <1>2, TotalStep
  <2>. QED  BY <1>3, <2>1
<1>5. Total(Producer)' = Total(Producer) /\ Total(Consumer)' = Total(Consumer)
  BY <1>4
<1>. QED  BY <1>5 DEF Accounted

(* The labels that a thread goes to from one that owes nothing, but for    *)
(* the two that take an item in or out.                                    *)
LEMMA AccountedStep ==
  ASSUME IInv, Accounted, NEW t \in Thread, ThreadStep(t)
  PROVE  Accounted'
<1>0. /\ pc \in [Thread -> Label] /\ cnt \in [Thread -> Nat]
      /\ t \in Producer => t \notin Consumer
      /\ t \in Producer \cup Consumer
  BY ThreadsAssumption DEF IInv, TypeOK, Thread
<1>1. CASE Increase(t)
  <2>1. pc[t] = "increase" /\ Goto(t, "unlock") /\ cnt' = cnt /\ "unlock" \in Label
        /\ t \in Producer
    BY <1>1, Halves DEF Increase, Label, EnqLabel
  <2>2. first' = first /\ enque_v' = enque_v + 1
    BY <1>1, IncreaseStep
  <2>3. cnt' = [cnt EXCEPT ![t] = @ + 0]
    <3>1. cnt[t] + 0 = cnt[t]
      BY <1>0
    <3>. QED  BY <1>0, <2>1, <3>1
  <2>4. \A T \in {Producer, Consumer} :
          /\ Total(T) \in Nat
          /\ Total(T)' = Total(T) + (IF t \in T THEN 0 + Owes("unlock") - Owes(pc[t]) ELSE 0)
    BY <1>0, <2>1, <2>3, TotalStep
  <2>5. Owes("unlock") = 1 /\ Owes(pc[t]) = 0
    BY <2>1 DEF Owes
  <2>6. Total(Producer)' = Total(Producer) + 1 /\ Total(Consumer)' = Total(Consumer)
    BY <1>0, <2>1, <2>4, <2>5
  <2>. QED  BY <2>2, <2>6 DEF Accounted
<1>2. CASE Advance(t)
  <2>1. pc[t] = "advance" /\ Goto(t, "unlock") /\ cnt' = cnt /\ "unlock" \in Label
        /\ t \in Consumer /\ t \notin Producer
    BY <1>2, Halves DEF Advance, Label, DeqLabel
  <2>2. first' = first + 1 /\ enque_v' = enque_v
    BY <1>2, AdvanceStep
  <2>3. cnt' = [cnt EXCEPT ![t] = @ + 0]
    <3>1. cnt[t] + 0 = cnt[t]
      BY <1>0
    <3>. QED  BY <1>0, <2>1, <3>1
  <2>4. \A T \in {Producer, Consumer} :
          /\ Total(T) \in Nat
          /\ Total(T)' = Total(T) + (IF t \in T THEN 0 + Owes("unlock") - Owes(pc[t]) ELSE 0)
    BY <1>0, <2>1, <2>3, TotalStep
  <2>5. Owes("unlock") = 1 /\ Owes(pc[t]) = 0
    BY <2>1 DEF Owes
  <2>6. Total(Producer)' = Total(Producer) /\ Total(Consumer)' = Total(Consumer) + 1
    BY <2>1, <2>4, <2>5
  <2>. QED  BY <2>2, <2>6 DEF Accounted
<1>3. CASE Count(t)
  <2>1. /\ pc[t] = "count" /\ Goto(t, "loop") /\ cnt' = [cnt EXCEPT ![t] = @ + 1]
        /\ "loop" \in Label
    BY <1>3 DEF Count, Label
  <2>2. first' = first /\ enque_v' = enque_v
    <3>1. cnt' \in [Thread -> Nat]
      BY <1>0, <2>1
    <3>. QED  BY <1>3, <3>1, OutsideStep DEF Count
  <2>4. \A T \in {Producer, Consumer} :
          /\ Total(T) \in Nat
          /\ Total(T)' = Total(T) + (IF t \in T THEN 1 + Owes("loop") - Owes(pc[t]) ELSE 0)
    BY <1>0, <2>1, TotalStep
  <2>5. Owes("loop") = 0 /\ Owes(pc[t]) = 1
    BY <2>1 DEF Owes
  <2>6. Total(Producer)' = Total(Producer) /\ Total(Consumer)' = Total(Consumer)
    BY <2>4, <2>5
  <2>. QED  BY <2>2, <2>6 DEF Accounted
<1>4. CASE Unlock(t)
  <2>1. PICK l \in {"count", "loop"} :
          Goto(t, l) /\ l = (IF pc[t] = "unlock" THEN "count" ELSE "loop")
    BY <1>4 DEF Unlock
  <2>2. /\ cnt' = cnt /\ l \in Label /\ Owes(l) = Owes(pc[t])
    BY <1>4, <2>1 DEF Unlock, Label, Owes
  <2>3. first' = first /\ enque_v' = enque_v
    BY <1>4, UnlockStep
  <2>. QED  BY <2>1, <2>2, <2>3, QuietStep
<1>5. CASE CallLock(t) \/ GetLock(t) \/ Loop(t)
  <2>1. PICK l \in {"lock", "is_full", "is_empty", "exit", "call"} : Goto(t, l)
    BY <1>5 DEF CallLock, GetLock, Loop
  <2>2. cnt' = cnt /\ l \in Label /\ Owes(l) = Owes(pc[t])
    BY <1>5 DEF CallLock, GetLock, Loop, Label, EnqLabel, DeqLabel, Owes
  <2>3. first' = first /\ enque_v' = enque_v
    BY <1>0, <1>5, CallLockStep, GetLockStep, OutsideStep DEF Loop
  <2>. QED  BY <2>1, <2>2, <2>3, QuietStep
<1>6. CASE IsFull(t) \/ SetHead(t) \/ MoveTail(t) \/ Write(t)
  <2>1. PICK l \in {"unlock_fail"} \cup EnqLabel : Goto(t, l)
    BY <1>6 DEF IsFull, SetHead, MoveTail, Write, EnqLabel
  <2>2. cnt' = cnt /\ l \in Label /\ Owes(l) = Owes(pc[t])
    BY <1>6 DEF IsFull, SetHead, MoveTail, Write, Label, EnqLabel, Owes
  <2>3. first' = first /\ enque_v' = enque_v
    BY <1>6, IsFullStep, SetHeadStep, MoveTailStep, WriteStep
  <2>. QED  BY <2>1, <2>2, <2>3, QuietStep
<1>7. CASE IsEmpty(t) \/ Read(t) \/ AssertOrder(t)
  <2>1. PICK l \in {"unlock_fail", "aborted"} \cup DeqLabel : Goto(t, l)
    BY <1>7 DEF IsEmpty, Read, AssertOrder, DeqLabel
  <2>2. cnt' = cnt /\ l \in Label /\ Owes(l) = Owes(pc[t])
    BY <1>7 DEF IsEmpty, Read, AssertOrder, Label, DeqLabel, Owes
  <2>3. first' = first /\ enque_v' = enque_v
    BY <1>7, IsEmptyStep, ReadStep, AssertOrderStep
  <2>. QED  BY <2>1, <2>2, <2>3, QuietStep
<1>. QED  BY <1>1, <1>2, <1>3, <1>4, <1>5, <1>6, <1>7 DEF ThreadStep, Enq, Deq

LEMMA AccountedNext ==
  ASSUME IInv, Accounted, [Next]_vars
  PROVE  Accounted'
<1>1. CASE Stop \/ JoinAndFree \/ Terminated \/ UNCHANGED vars
  <2>1. UNCHANGED <<queue, enque_v, deque_v, stage, pc, v, cnt>>
    BY <1>1 DEF Stop, JoinAndFree, Terminated, vars
  <2>2. first' = first
    BY <2>1 DEF first, Leaving
  <2>3. \A T \in {Producer, Consumer} : Total(T)' = Total(T)
    <3>1. cnt' = cnt /\ pc' = pc
      BY <2>1
    <3>2. \A T : Sum(cnt, T)' = Sum(cnt, T)
      BY <3>1 DEF Sum, MapThenSumSet, MapThenFoldSet
    <3>. QED  BY <3>1, <3>2 DEF Total, Uncounted
  <2>. QED  BY <2>1, <2>2, <2>3 DEF Accounted
<1>2. ASSUME NEW t \in Thread, ThreadStep(t) PROVE Accounted'
  BY <1>2, AccountedStep
<1>. QED  BY <1>1, <1>2 DEF Next

LEMMA AccountedInit == Init => Accounted
<1>. SUFFICES ASSUME Init PROVE Accounted
  OBVIOUS
<1>1. ASSUME NEW T \in {Producer, Consumer} PROVE Total(T) = 0
  <2>1. IsFiniteSet(T) /\ T \subseteq Thread
    BY ThreadsAssumption DEF Thread
  <2>2. Uncounted(T) = {} /\ \A u \in T : cnt[u] = 0
    BY <2>1 DEF Uncounted, Init
  <2>3. Sum(cnt, T) = 0
    BY <2>1, <2>2, SumZero
  <2>. QED  BY <2>2, <2>3, FS_EmptySet DEF Total
<1>2. first = 0 /\ enque_v = 0
  BY DEF Init, first, Leaving
<1>. QED  BY <1>1, <1>2 DEF Accounted

LEMMA AccountingFrom ==
  ASSUME IInv, Accounted
  PROVE  Accounting
<1>1. items = Numbers(first, count) /\ first \in Nat /\ count \in Nat /\ enque_v = first + count
  BY ItemsAre DEF Holding
<1>2. Len(items) = count
  BY <1>1, NumbersShape
<1>3. enque_v - Len(items) = first
  BY <1>1, <1>2
<1>4. \A T : Counted(T) = Sum(cnt, T)
  BY DEF Counted, Sum
<1>. QED  BY <1>3, <1>4 DEF Accounted, Accounting, Total

-----------------------------------------------------------------------------
(* The theorems                                                            *)

(* The inductive invariant holds of any number of producers and consumers, *)
(* on a ring of any size.                                                  *)
THEOREM Inductive == Spec => []IInv
<1>1. Init => IInv
  BY InitInv
<1>2. IInv /\ [Next]_vars => IInv'
  BY NextStep
<1>. QED  BY <1>1, <1>2, PTL DEF Spec

(* Every variable keeps its type: head and tail stay in the ring.          *)
THEOREM TypeCorrect == Spec => []TypeOK
<1>1. IInv => TypeOK
  BY DEF IInv
<1>. QED  BY <1>1, Inductive, PTL

(* The assert of deq() never fails: the numbers come out in the order 0,   *)
(* 1, 2, ..., whoever takes them out.                                      *)
THEOREM AssertHolds == Spec => []NoAssertFails
<1>1. IInv => NoAssertFails
  BY DEF IInv, ThreadInv, NoAssertFails
<1>. QED  BY <1>1, Inductive, PTL

(* The ring under the lock implements a bounded FIFO queue: an item is in  *)
(* when enq() counts it, out when deq() has moved head on, and every other *)
(* step of the code leaves what the queue holds as it is.                  *)
THEOREM RefinesFifo == Spec => ImplementsFifo
<1>1. Init => Queue!Init
  <2>. SUFFICES ASSUME Init PROVE Queue!Init
    OBVIOUS
  <2>1. enque_v = 0 /\ items = Numbers(first, count) /\ count = 0 /\ first = 0
    <3>1. Holding
      BY InitInv, ItemsAre
    <3>2. enque_v = 0
      BY DEF Init
    <3>. QED  BY <3>1, <3>2 DEF Holding
  <2>2. items = <<>>
    BY <2>1, NumbersShape
  <2>. QED  BY <2>1, <2>2 DEF Queue!Init
<1>2. IInv /\ [Next]_vars => [Queue!Next]_<<items, enque_v>>
  <2>. SUFFICES ASSUME IInv, [Next]_vars PROVE [Queue!Next]_<<items, enque_v>>
    OBVIOUS
  <2>1. enque_v = first + count /\ first \in Nat /\ count \in Nat /\ enque_v \in Nat
    BY ItemsAre DEF Holding, IInv, TypeOK
  <2>2. Holding'
    BY NextStep, ItemsAreNext
  <2>3. items = Numbers(first, count) /\ items' = Numbers(first', count')
    BY <2>2, ItemsAre DEF Holding, Numbers
  <2>4. CASE first' = first /\ enque_v' = enque_v
    <3>1. count' = count
      BY <2>4 DEF count
    <3>. QED  BY <2>3, <2>4, <3>1
  <2>5. CASE first' = first /\ enque_v' = enque_v + 1 /\ count < SIZE
    <3>1. count' = count + 1
      BY <2>1, <2>5 DEF count
    <3>2. items' = Append(items, enque_v) /\ Len(items) < SIZE
      BY <2>1, <2>3, <2>5, <3>1, NumbersShape
    <3>. QED  BY <2>5, <3>2 DEF Queue!Next, Queue!Enqueue
  <2>6. CASE first' = first + 1 /\ enque_v' = enque_v /\ count > 0
    <3>1. count' = count - 1 /\ count # 0
      BY <2>1, <2>6 DEF count
    <3>2. items' = Tail(items) /\ items # <<>>
      BY <2>1, <2>3, <2>6, <3>1, NumbersShape
    <3>. QED  BY <2>6, <3>2 DEF Queue!Next, Queue!Dequeue
  <2>. QED  BY <2>4, <2>5, <2>6, NextStep
<1>. QED  BY <1>1, <1>2, Inductive, PTL DEF Spec, ImplementsFifo, Queue!Spec

(* The counters that main sums up: enque_v is what the producers have      *)
(* counted and have still to count, and what left the queue is what the    *)
(* consumers have, for any number of threads.                              *)
THEOREM CountersAgree == Spec => []Accounting
<1>1. Init => IInv /\ Accounted
  BY InitInv, AccountedInit
<1>2. IInv /\ Accounted /\ [Next]_vars => (IInv /\ Accounted)'
  BY NextStep, AccountedNext
<1>3. IInv /\ Accounted => Accounting
  BY AccountingFrom
<1>. QED  BY <1>1, <1>2, <1>3, PTL DEF Spec
=============================================================================
