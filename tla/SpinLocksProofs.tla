--------------------------- MODULE SpinLocksProofs ---------------------------
(***************************************************************************)
(* The inductive invariant of SpinLocks, and the theorems that follow from *)
(* it for every number of threads and every width of an int.               *)
(*                                                                         *)
(* problem_5.c is only right when one thread runs it (TLC shows a failed   *)
(* assert with two), so what is said of all builds has the assumption      *)
(* ResetAlone, and the invariant says nothing of a state outside of it.    *)
(***************************************************************************)
EXTENDS SpinLocks, TLAPS, SequenceTheorems, FiniteSetTheorems

-----------------------------------------------------------------------------
(* Loads through the store buffer                                          *)

(* A thread whose buffer holds no store to var loads from memory.          *)
LEMMA LoadMemory ==
  ASSUME NEW buf, NEW var, NEW old, Pending(buf, var) = {}
  PROVE  Load(buf, var, old) = old
BY DEF Load

(* A thread whose newest buffered store is to var loads that one.          *)
LEMMA LoadNewest ==
  ASSUME NEW S, NEW buf \in Seq(S), NEW var, NEW old,
         buf # <<>>, buf[Len(buf)].var = var
  PROVE  Load(buf, var, old) = buf[Len(buf)].val
<1>. DEFINE n == Len(buf)
            P == Pending(buf, var)
<1>1. n \in Nat /\ n > 0
  BY EmptySeq
<1>2. n \in P /\ \A q \in P : q <= n
  BY <1>1 DEF Pending
<1>3. P \subseteq Int
  BY DEF Pending
<1>4. (CHOOSE p \in P : \A q \in P : q <= p) = n
  <2>. DEFINE c == CHOOSE p \in P : \A q \in P : q <= p
  <2>1. c \in P /\ \A q \in P : q <= c
    BY <1>2
  <2>2. c \in Int /\ c <= n /\ n <= c
    BY <1>2, <1>3, <2>1
  <2>3. c = n
    <3>. HIDE DEF c
    <3>. QED  BY <1>1, <2>2
  <2>. QED  BY <2>3
<1>. QED  BY <1>2, <1>4 DEF Load

-----------------------------------------------------------------------------
(* The invariant                                                           *)

ResetAlone ==
  \A p \in Programs : p.build = "reset" => \A t, u \in p.crew : t = u

Tame == build = "reset" => ResetAlone

(* Threads that main does not create do nothing.                           *)
Crewed ==
  \E p \in Programs :
    /\ build = p.build
    /\ \A u \in Thread \ p.crew : pc[u] = "exit" /\ sb[u] = <<>>

(* Where t can be under its build, and which stores it can have buffered.  *)
PlaceInv(t) ==
  /\ pc[t] # "aborted"
  /\ pc[t] = "increment" => k[t] < 3
  /\ pc[t] \in {"overflowed", "served_overflow"} => build = "reset"
  /\ pc[t] = "wait" => build # "spin"

BufferInv(t) ==
  \A p \in 1 .. Len(sb[t]) :
    /\ sb[t][p].var = "in_cs" => Held(t)
    /\ sb[t][p].var = "lock" =>
         build = "spin" /\ p = Len(sb[t]) /\ sb[t][p].val = 0 /\ ~ InCS(t)
    /\ sb[t][p].var \in {"waiting", "serving"} => build = "reset" /\ sb[t][p].val = 0

(* The value of in_cs that the thread inside has brought it to.            *)
Reached(t) ==
  CASE pc[t] \in {"assert", "increment"} -> k[t]
    [] pc[t] = "clear" -> 3
    [] OTHER -> 0

(* It is in memory or the newest of its stores; after the store to lock,   *)
(* the newest but one.                                                     *)
SectionInv(t) ==
  Held(t) =>
    IF InCS(t)
    THEN IF Pending(sb[t], "in_cs") = {}
         THEN mem["in_cs"] = Reached(t)
         ELSE sb[t][Len(sb[t])] = StoreEntry("in_cs", Reached(t))
    ELSE IF Len(sb[t]) = 1
         THEN mem["in_cs"] = 0
         ELSE sb[t][Len(sb[t]) - 1] = StoreEntry("in_cs", 0)

ThreadInv(t) == PlaceInv(t) /\ BufferInv(t) /\ SectionInv(t)

Exclusion == \A t, u \in Thread : Held(t) /\ Held(u) => t = u

HeldInv ==
  /\ Exclusion
  /\ (\A t \in Thread : ~ Held(t)) => mem["in_cs"] = 0
  /\ build = "spin" => \A t \in Thread : Held(t) => mem["lock"] = 1

(* The turn n places after v.                                              *)
Turn(v, n) == IF v + n > IntMax THEN v + n - (2 * IntMax + 2) ELSE v + n

(* The fair lock: the threads that wait or are inside stand in line, each  *)
(* with the turn of its place.                                             *)
InLine(t) == pc[t] = "wait" \/ InCS(t)
LineInv ==
  build = "fair" =>
    /\ \A p, q \in 1 .. Len(line) : line[p] = line[q] => p = q
    /\ \A t \in Thread : InLine(t) <=> \E p \in 1 .. Len(line) : line[p] = t
    /\ \A p \in 1 .. Len(line) : my_turn[line[p]] = Turn(mem["serving"], p - 1)
    /\ mem["waiting"] = Turn(mem["serving"], Len(line))
    /\ \A t \in Thread : InCS(t) => line[1] = t

(* The inductive invariant.                                                *)
Inv ==
  /\ TypeOK
  /\ Crewed
  /\ \A t \in Thread : ThreadInv(t)
  /\ HeldInv
  /\ LineInv

IInv == Tame => Inv

-----------------------------------------------------------------------------
(* The buffer of a thread                                                  *)

Entry == [var : Location, val : 0 .. 3]

LEMMA StillPending ==
  ASSUME NEW b \in Seq(Entry), NEW e \in Entry, NEW x
  PROVE  /\ e.var = x => Pending(Append(b, e), x) # {}
         /\ e.var # x => (Pending(Append(b, e), x) = {} <=> Pending(b, x) = {})
         /\ Append(b, e) \in Seq(Entry)
         /\ Len(Append(b, e)) = Len(b) + 1 /\ Len(b) \in Nat
         /\ Append(b, e)[Len(b) + 1] = e
         /\ \A p \in 1 .. Len(b) : Append(b, e)[p] = b[p]
<1>. DEFINE c == Append(b, e)
<1>1. /\ c \in Seq(Entry) /\ Len(c) = Len(b) + 1 /\ Len(b) \in Nat
      /\ c[Len(b) + 1] = e /\ \A p \in 1 .. Len(b) : c[p] = b[p]
  BY AppendProperties
<1>. HIDE DEF c
<1>2. e.var = x => Len(b) + 1 \in Pending(c, x)
  BY <1>1 DEF Pending
<1>3. e.var # x => Pending(c, x) = Pending(b, x)
  <2>. SUFFICES ASSUME e.var # x PROVE \A p : p \in Pending(c, x) <=> p \in Pending(b, x)
    OBVIOUS
  <2>. QED  BY <1>1 DEF Pending
<1>. QED  BY <1>1, <1>2, <1>3 DEF c

LEMMA AfterHead ==
  ASSUME NEW b \in Seq(Entry), b # <<>>
  PROVE  /\ Tail(b) \in Seq(Entry) /\ Len(b) \in Nat \ {0} /\ Len(Tail(b)) = Len(b) - 1
         /\ Head(b) = b[1] /\ Head(b) \in Entry
         /\ \A p \in 1 .. Len(b) - 1 : Tail(b)[p] = b[p + 1]
         /\ \A x : Pending(b, x) = {} => Pending(Tail(b), x) = {} /\ Head(b).var # x
<1>1. /\ Tail(b) \in Seq(Entry) /\ Len(b) \in Nat \ {0} /\ Len(Tail(b)) = Len(b) - 1
      /\ Head(b) = b[1] /\ Head(b) \in Entry
      /\ \A p \in 1 .. Len(b) - 1 : Tail(b)[p] = b[p + 1]
  BY HeadTailProperties, EmptySeq
<1>2. ASSUME NEW x, Pending(b, x) = {} PROVE Pending(Tail(b), x) = {} /\ Head(b).var # x
  <2>1. \A p \in 1 .. Len(b) : b[p].var # x
    BY <1>2 DEF Pending
  <2>2. Head(b).var # x
    BY <1>1, <2>1
  <2>3. \A p \in 1 .. Len(Tail(b)) : Tail(b)[p].var # x
    <3>. SUFFICES ASSUME NEW p \in 1 .. Len(Tail(b)) PROVE Tail(b)[p].var # x
      OBVIOUS
    <3>1. p \in 1 .. Len(b) - 1 /\ p + 1 \in 1 .. Len(b)
      BY <1>1
    <3>. QED  BY <1>1, <2>1, <3>1
  <2>. QED  BY <2>2, <2>3 DEF Pending
<1>. QED  BY <1>1, <1>2

LEMMA NoneBuffered ==
  ASSUME NEW x, NEW b, b = <<>>
  PROVE  Pending(b, x) = {} /\ Len(b) = 0
BY DEF Pending

-----------------------------------------------------------------------------
(* What the invariant says of one state                                    *)

Base == TypeOK /\ \A t \in Thread : ThreadInv(t)

(* The thread inside loads what it has stored.                             *)
LEMMA SeesReached ==
  ASSUME Base, NEW t \in Thread, InCS(t)
  PROVE  Seen(t, "in_cs") = Reached(t)
<1>1. /\ sb[t] \in Seq(Entry) /\ Held(t) /\ SectionInv(t)
  BY DEF Base, TypeOK, Entry, Held, ThreadInv
<1>2. CASE Pending(sb[t], "in_cs") = {}
  BY <1>1, <1>2, LoadMemory DEF Seen, SectionInv
<1>3. CASE Pending(sb[t], "in_cs") # {}
  <2>1. sb[t] # <<>>
    BY <1>3 DEF Pending
  <2>2. sb[t][Len(sb[t])] = StoreEntry("in_cs", Reached(t))
    BY <1>1, <1>3 DEF SectionInv
  <2>3. sb[t][Len(sb[t])].var = "in_cs" /\ sb[t][Len(sb[t])].val = Reached(t)
    BY <2>2 DEF StoreEntry
  <2>4. Load(sb[t], "in_cs", mem["in_cs"]) = sb[t][Len(sb[t])].val
    BY <1>1, <2>1, <2>3, LoadNewest
  <2>. QED  BY <2>3, <2>4 DEF Seen
<1>. QED  BY <1>2, <1>3

(* A store to lock is the last of the buffer, and gives the lock back.     *)
LEMMA HeldByBuffer ==
  ASSUME Base, NEW t \in Thread
  PROVE  /\ Held(t) <=> InCS(t) \/ \E p \in 1 .. Len(sb[t]) : sb[t][p].var = "lock"
         /\ Held(t) /\ ~ InCS(t) =>
              /\ build = "spin" /\ Len(sb[t]) > 0
              /\ sb[t][Len(sb[t])] = StoreEntry("lock", 0)
<1>0. sb[t] \in Seq(Entry) /\ BufferInv(t)
  BY DEF Base, TypeOK, Entry, ThreadInv
<1>1. sb[t] \in Seq(Entry) /\ BufferInv(t) /\ Len(sb[t]) \in Nat
  BY <1>0
<1>2. \A p \in 1 .. Len(sb[t]) : sb[t][p] \in Entry
  BY <1>1, ElementOfSeq
<1>3. \A p \in 1 .. Len(sb[t]) :
        sb[t][p].var = "lock" <=> sb[t][p] = StoreEntry("lock", 0)
  <2>. SUFFICES ASSUME NEW p \in 1 .. Len(sb[t])
                PROVE  sb[t][p].var = "lock" <=> sb[t][p] = StoreEntry("lock", 0)
    OBVIOUS
  <2>1. sb[t][p].var = "lock" => sb[t][p].val = 0
    BY <1>1 DEF BufferInv
  <2>2. sb[t][p] = [var |-> sb[t][p].var, val |-> sb[t][p].val]
    BY <1>2 DEF Entry
  <2>3. StoreEntry("lock", 0).var = "lock"
    BY DEF StoreEntry
  <2>. QED  BY <2>1, <2>2, <2>3 DEF StoreEntry
<1>4. Held(t) <=> InCS(t) \/ \E p \in 1 .. Len(sb[t]) : sb[t][p].var = "lock"
  BY <1>3 DEF Held
<1>5. ASSUME Held(t), ~ InCS(t)
      PROVE  /\ build = "spin" /\ Len(sb[t]) > 0
             /\ sb[t][Len(sb[t])] = StoreEntry("lock", 0)
  <2>1. PICK p \in 1 .. Len(sb[t]) : sb[t][p].var = "lock"
    BY <1>4, <1>5
  <2>2. build = "spin" /\ p = Len(sb[t])
    BY <1>1, <2>1 DEF BufferInv
  <2>. QED  BY <1>1, <1>3, <2>1, <2>2
<1>. QED  BY <1>4, <1>5

(* Who has nothing buffered is inside or does not hold the lock, and       *)
(* memory shows what it has stored.                                        *)
LEMMA EmptyBuffer ==
  ASSUME Base, NEW t \in Thread, sb[t] = <<>>
  PROVE  /\ Held(t) <=> InCS(t)
         /\ InCS(t) => mem["in_cs"] = Reached(t)
         /\ Pending(sb[t], "in_cs") = {}
<1>1. Len(sb[t]) = 0 /\ Pending(sb[t], "in_cs") = {}
  BY NoneBuffered
<1>. QED  BY <1>1 DEF Held, Base, ThreadInv, SectionInv

-----------------------------------------------------------------------------
(* What a step of t leaves alone                                           *)

Still(t) ==
  /\ build' = build
  /\ \A u \in Thread :
       u # t => /\ pc'[u] = pc[u] /\ k'[u] = k[u]
                /\ sb'[u] = sb[u] /\ my_turn'[u] = my_turn[u]

LEMMA OthersStill ==
  ASSUME TypeOK, NEW t \in Thread, ThreadStep(t) \/ Drain(t)
  PROVE  Still(t) /\ is_stop' = is_stop /\ main' = main
BY DEF TypeOK, ThreadStep, Drain, CmpXchg, TakeTurn, ResetWaiting, WaitTurn, AssertInCS,
   Increment, ClearInCS, UnlockStore, Serve, ResetServing, Loop, Still, Goto, Enter, Store

LEMMA CrewStep ==
  ASSUME TypeOK, Crewed, NEW t \in Thread, ThreadStep(t) \/ Drain(t)
  PROVE  Crewed'
<1>1. Still(t)
  BY OthersStill
<1>2. pc[t] # "exit" \/ sb[t] # <<>>
  BY DEF ThreadStep, Drain, CmpXchg, TakeTurn, ResetWaiting, WaitTurn, AssertInCS,
     Increment, ClearInCS, UnlockStore, Serve, ResetServing, Loop
<1>. QED  BY <1>1, <1>2 DEF Crewed, Still

(* Another thread knows what it knew, unless it is inside and in_cs has    *)
(* changed under it.                                                       *)
LEMMA OtherThread ==
  ASSUME NEW t \in Thread, NEW u \in Thread, u # t, Still(t), ThreadInv(u)
  PROVE  /\ Held(u)' <=> Held(u)
         /\ InCS(u)' <=> InCS(u)
         /\ PlaceInv(u)' /\ BufferInv(u)'
         /\ mem'["in_cs"] = mem["in_cs"] \/ ~ Held(u) => ThreadInv(u)'
<1>1. pc'[u] = pc[u] /\ k'[u] = k[u] /\ sb'[u] = sb[u] /\ build' = build
  BY DEF Still
<1>2. (Held(u)' <=> Held(u)) /\ (InCS(u)' <=> InCS(u))
  BY <1>1 DEF Held, InCS
<1>3. PlaceInv(u)' /\ BufferInv(u)'
  BY <1>1, <1>2 DEF ThreadInv, PlaceInv, BufferInv
<1>4. mem'["in_cs"] = mem["in_cs"] \/ ~ Held(u) => SectionInv(u)'
  <2>1. Reached(u)' = Reached(u)
    BY <1>1 DEF Reached
  <2>. QED  BY <1>1, <1>2, <2>1 DEF ThreadInv, SectionInv
<1>. QED  BY <1>2, <1>3, <1>4 DEF ThreadInv

(* A step that leaves memory and the line alone, and the lock with who     *)
(* holds it.                                                               *)
LEMMA QuietStep ==
  ASSUME Inv, NEW t \in Thread, Still(t), TypeOK', Crewed', ThreadInv(t)',
         UNCHANGED <<mem, my_turn, line>>, Held(t)' <=> Held(t),
         build = "fair" => (InCS(t)' <=> InCS(t)) /\ (InLine(t)' <=> InLine(t))
  PROVE  Inv'
<1>1. ASSUME NEW u \in Thread
      PROVE  /\ ThreadInv(u)' /\ (Held(u)' <=> Held(u))
             /\ build = "fair" => (InCS(u)' <=> InCS(u)) /\ (InLine(u)' <=> InLine(u))
  <2>1. CASE u = t
    BY <2>1
  <2>2. CASE u # t
    <3>1. (Held(u)' <=> Held(u)) /\ (InCS(u)' <=> InCS(u)) /\ ThreadInv(u)'
      BY <2>2, OtherThread DEF Inv
    <3>2. pc'[u] = pc[u]
      BY <2>2 DEF Still
    <3>. QED  BY <3>1, <3>2 DEF InLine
  <2>. QED  BY <2>1, <2>2
<1>2. HeldInv'
  BY <1>1 DEF Inv, HeldInv, Exclusion, Still
<1>3. LineInv'
  BY <1>1 DEF Inv, LineInv, Still
<1>. QED  BY <1>1, <1>2, <1>3 DEF Inv

(* Who is not inside and has its buffer empty, or one of reset, does not   *)
(* hold the lock.                                                          *)
LEMMA NotHeld ==
  ASSUME NEW t \in Thread, ~ InCS(t), \A p \in 1 .. Len(sb[t]) : sb[t][p].var # "lock"
  PROVE  ~ Held(t)
BY DEF Held, StoreEntry

-----------------------------------------------------------------------------
(* The critical section                                                    *)

LEMMA AssertStep ==
  ASSUME Inv, NEW t \in Thread, AssertInCS(t)
  PROVE  Inv'
<1>0. TypeOK /\ Base /\ ThreadInv(t) /\ InCS(t)
  BY DEF Inv, Base, AssertInCS, InCS, CSLabel
<1>1. Still(t) /\ Crewed'
  BY <1>0, OthersStill, CrewStep DEF ThreadStep, Inv
<1>2. Seen(t, "in_cs") = k[t]
  BY <1>0, SeesReached DEF AssertInCS, Reached
<1>3. /\ pc'[t] = IF k[t] = 3 THEN "clear" ELSE "increment"
      /\ pc[t] = "assert" /\ sb' = sb /\ k' = k /\ mem' = mem
  BY <1>0, <1>2 DEF AssertInCS, Goto, TypeOK
<1>4. InCS(t)' /\ Held(t) /\ Held(t)'
  BY <1>0, <1>3 DEF InCS, CSLabel, Held
<1>5. TypeOK'
  BY <1>0 DEF AssertInCS, Goto, TypeOK, Label, CSLabel
<1>6. PlaceInv(t)'
  BY <1>0, <1>3 DEF PlaceInv, TypeOK
<1>7. BufferInv(t)'
  BY <1>0, <1>1, <1>3, <1>4 DEF ThreadInv, BufferInv, Still
<1>8. SectionInv(t)'
  <2>1. Reached(t)' = Reached(t)
    BY <1>3 DEF Reached
  <2>. QED  BY <1>0, <1>3, <1>4, <2>1 DEF ThreadInv, SectionInv
<1>9. InLine(t)' /\ InLine(t)
  BY <1>0, <1>4 DEF InLine
<1>. QED
  BY <1>0, <1>1, <1>4, <1>5, <1>6, <1>7, <1>8, <1>9, QuietStep DEF ThreadInv, AssertInCS

(* A store to in_cs of the thread inside.                                  *)
LEMMA StoreInCS ==
  ASSUME Base, NEW t \in Thread, InCS(t), InCS(t)', build' = build, mem' = mem, TypeOK',
         NEW v \in 0 .. 3, v = Reached(t)', sb'[t] = Append(sb[t], StoreEntry("in_cs", v))
  PROVE  BufferInv(t)' /\ SectionInv(t)'
<1>1. /\ sb[t] \in Seq(Entry) /\ BufferInv(t) /\ StoreEntry("in_cs", v) \in Entry
      /\ StoreEntry("in_cs", v).var = "in_cs" /\ Held(t) /\ Held(t)'
  BY DEF Base, TypeOK, Entry, ThreadInv, StoreEntry, Location, Held
<1>2. /\ Pending(sb'[t], "in_cs") # {}
      /\ Len(sb'[t]) = Len(sb[t]) + 1 /\ Len(sb[t]) \in Nat
      /\ sb'[t][Len(sb[t]) + 1] = StoreEntry("in_cs", v)
      /\ \A p \in 1 .. Len(sb[t]) : sb'[t][p] = sb[t][p]
  BY <1>1, StillPending
<1>3. BufferInv(t)'
  <2>. SUFFICES ASSUME NEW p \in 1 .. Len(sb'[t])
                PROVE  /\ sb'[t][p].var = "in_cs" => Held(t)'
                       /\ sb'[t][p].var # "lock"
                       /\ sb'[t][p].var \in {"waiting", "serving"} =>
                            build' = "reset" /\ sb'[t][p].val = 0
    BY DEF BufferInv
  <2>1. CASE p = Len(sb[t]) + 1
    BY <1>1, <1>2, <2>1
  <2>2. CASE p \in 1 .. Len(sb[t])
    BY <1>1, <1>2, <2>2 DEF BufferInv
  <2>. QED  BY <1>2, <2>1, <2>2
<1>4. SectionInv(t)'
  BY <1>1, <1>2 DEF SectionInv
<1>. QED  BY <1>3, <1>4

LEMMA IncrementStep ==
  ASSUME Inv, NEW t \in Thread, Increment(t)
  PROVE  Inv'
<1>0. TypeOK /\ Base /\ ThreadInv(t) /\ InCS(t)
  BY DEF Inv, Base, Increment, InCS, CSLabel
<1>1. Still(t) /\ Crewed'
  BY <1>0, OthersStill, CrewStep DEF ThreadStep, Inv
<1>2. Seen(t, "in_cs") = k[t] /\ k[t] \in 0 .. 2
  BY <1>0, SeesReached DEF Increment, Reached, ThreadInv, PlaceInv, TypeOK
<1>3. /\ pc'[t] = "assert" /\ k'[t] = k[t] + 1 /\ k[t] + 1 \in 0 .. 3 /\ mem' = mem
      /\ sb'[t] = Append(sb[t], StoreEntry("in_cs", k[t] + 1))
  BY <1>0, <1>2 DEF Increment, Goto, Store, TypeOK
<1>4. InCS(t)' /\ Held(t) /\ Held(t)'
  BY <1>0, <1>3 DEF InCS, CSLabel, Held
<1>5. TypeOK'
  <2>1. sb' \in [Thread -> Seq(Entry)]
    <3>1. Append(sb[t], StoreEntry("in_cs", k[t] + 1)) \in Seq(Entry)
      BY <1>0, <1>3, AppendProperties DEF TypeOK, Entry, StoreEntry, Location
    <3>. QED  BY <1>0, <1>2, <3>1 DEF Increment, Store, TypeOK, Entry
  <2>2. k' \in [Thread -> 0 .. 3] /\ pc' \in [Thread -> Label]
    BY <1>0, <1>2 DEF Increment, Goto, TypeOK, Label, CSLabel
  <2>. QED  BY <1>0, <2>1, <2>2 DEF Increment, TypeOK, Entry
<1>6. PlaceInv(t)'
  BY <1>3 DEF PlaceInv
<1>7. BufferInv(t)' /\ SectionInv(t)'
  <2>1. Reached(t)' = k[t] + 1
    BY <1>3 DEF Reached
  <2>. QED  BY <1>0, <1>1, <1>3, <1>4, <1>5, <2>1, StoreInCS DEF Still
<1>8. InLine(t)' /\ InLine(t)
  BY <1>0, <1>4 DEF InLine
<1>. QED
  BY <1>0, <1>1, <1>4, <1>5, <1>6, <1>7, <1>8, QuietStep DEF ThreadInv, Increment

LEMMA ClearStep ==
  ASSUME Inv, NEW t \in Thread, ClearInCS(t)
  PROVE  Inv'
<1>0. TypeOK /\ Base /\ ThreadInv(t) /\ InCS(t)
  BY DEF Inv, Base, ClearInCS, InCS, CSLabel
<1>1. Still(t) /\ Crewed'
  BY <1>0, OthersStill, CrewStep DEF ThreadStep, Inv
<1>3. /\ pc'[t] = "unlock" /\ k' = k /\ mem' = mem
      /\ sb'[t] = Append(sb[t], StoreEntry("in_cs", 0))
  BY <1>0 DEF ClearInCS, Goto, Store, TypeOK
<1>4. InCS(t)' /\ Held(t) /\ Held(t)'
  BY <1>0, <1>3 DEF InCS, CSLabel, Held
<1>5. TypeOK'
  <2>1. sb' \in [Thread -> Seq(Entry)]
    <3>1. Append(sb[t], StoreEntry("in_cs", 0)) \in Seq(Entry)
      BY <1>0, AppendProperties DEF TypeOK, Entry, StoreEntry, Location
    <3>. QED  BY <1>0, <3>1 DEF ClearInCS, Store, TypeOK, Entry
  <2>2. pc' \in [Thread -> Label]
    BY <1>0 DEF ClearInCS, Goto, TypeOK, Label, CSLabel
  <2>. QED  BY <1>0, <2>1, <2>2 DEF ClearInCS, TypeOK, Entry
<1>6. PlaceInv(t)'
  BY <1>3 DEF PlaceInv
<1>7. BufferInv(t)' /\ SectionInv(t)'
  <2>1. Reached(t)' = 0
    BY <1>3 DEF Reached
  <2>. QED  BY <1>0, <1>1, <1>3, <1>4, <1>5, <2>1, StoreInCS DEF Still
<1>8. InLine(t)' /\ InLine(t)
  BY <1>0, <1>4 DEF InLine
<1>. QED
  BY <1>0, <1>1, <1>4, <1>5, <1>6, <1>7, <1>8, QuietStep DEF ThreadInv, ClearInCS

-----------------------------------------------------------------------------
(* Stores outside of the critical section                                  *)

(* The stores of reset give nothing back.                                  *)
LEMMA StoreReset ==
  ASSUME Base, NEW t \in Thread, ~ InCS(t), ~ InCS(t)', build = "reset", build' = build,
         NEW x \in {"waiting", "serving"}, sb'[t] = Append(sb[t], StoreEntry(x, 0))
  PROVE  ~ Held(t) /\ ~ Held(t)' /\ BufferInv(t)' /\ SectionInv(t)'
<1>1. /\ sb[t] \in Seq(Entry) /\ BufferInv(t) /\ StoreEntry(x, 0) \in Entry
      /\ StoreEntry(x, 0).var = x /\ StoreEntry(x, 0).val = 0
  BY DEF Base, TypeOK, Entry, ThreadInv, StoreEntry, Location
<1>2. /\ Len(sb'[t]) = Len(sb[t]) + 1 /\ Len(sb[t]) \in Nat
      /\ sb'[t][Len(sb[t]) + 1] = StoreEntry(x, 0)
      /\ \A p \in 1 .. Len(sb[t]) : sb'[t][p] = sb[t][p]
  BY <1>1, StillPending
<1>3. ~ Held(t)
  BY HeldByBuffer
<1>4. \A p \in 1 .. Len(sb[t]) : sb[t][p].var \notin {"lock", "in_cs"}
  BY <1>1, <1>3 DEF BufferInv
<1>5. \A p \in 1 .. Len(sb'[t]) : sb'[t][p].var \notin {"lock", "in_cs"} /\
        (sb'[t][p].var \in {"waiting", "serving"} => sb'[t][p].val = 0)
  <2>. SUFFICES ASSUME NEW p \in 1 .. Len(sb'[t])
                PROVE  sb'[t][p].var \notin {"lock", "in_cs"} /\
                         (sb'[t][p].var \in {"waiting", "serving"} => sb'[t][p].val = 0)
    OBVIOUS
  <2>1. CASE p = Len(sb[t]) + 1
    BY <1>1, <1>2, <2>1
  <2>2. CASE p \in 1 .. Len(sb[t])
    BY <1>1, <1>2, <1>4, <2>2 DEF BufferInv
  <2>. QED  BY <1>2, <2>1, <2>2
<1>6. BufferInv(t)'
  BY <1>5 DEF BufferInv
<1>7. ~ Held(t)'
  BY <1>5 DEF Held, StoreEntry
<1>. QED  BY <1>3, <1>6, <1>7 DEF SectionInv

LEMMA ResetWaitingStep ==
  ASSUME Inv, NEW t \in Thread, ResetWaiting(t)
  PROVE  Inv'
<1>0. TypeOK /\ Base /\ ThreadInv(t) /\ build = "reset" /\ ~ InCS(t)
  BY DEF Inv, Base, ResetWaiting, ThreadInv, PlaceInv, InCS, CSLabel
<1>1. Still(t) /\ Crewed'
  BY <1>0, OthersStill, CrewStep DEF ThreadStep, Inv
<1>2. pc'[t] = "wait" /\ sb'[t] = Append(sb[t], StoreEntry("waiting", 0)) /\ ~ InCS(t)'
  BY <1>0 DEF ResetWaiting, Goto, Store, TypeOK, InCS, CSLabel
<1>3. TypeOK'
  <2>1. Append(sb[t], StoreEntry("waiting", 0)) \in Seq(Entry)
    BY <1>0, AppendProperties DEF TypeOK, Entry, StoreEntry, Location
  <2>2. sb' \in [Thread -> Seq(Entry)] /\ pc' \in [Thread -> Label]
    BY <1>0, <2>1 DEF ResetWaiting, Store, Goto, TypeOK, Entry, Label
  <2>. QED  BY <1>0, <2>2 DEF ResetWaiting, TypeOK, Entry
<1>4. ~ Held(t) /\ ~ Held(t)' /\ BufferInv(t)' /\ SectionInv(t)'
  BY <1>0, <1>1, <1>2, StoreReset DEF Still
<1>5. PlaceInv(t)'
  BY <1>0, <1>1, <1>2 DEF PlaceInv, Still
<1>. QED  BY <1>0, <1>1, <1>3, <1>4, <1>5, QuietStep DEF ThreadInv, ResetWaiting

LEMMA ResetServingStep ==
  ASSUME Inv, NEW t \in Thread, ResetServing(t)
  PROVE  Inv'
<1>0. TypeOK /\ Base /\ ThreadInv(t) /\ build = "reset" /\ ~ InCS(t)
  BY DEF Inv, Base, ResetServing, ThreadInv, PlaceInv, InCS, CSLabel
<1>1. Still(t) /\ Crewed'
  BY <1>0, OthersStill, CrewStep DEF ThreadStep, Inv
<1>2. pc'[t] = "loop" /\ sb'[t] = Append(sb[t], StoreEntry("serving", 0)) /\ ~ InCS(t)'
  BY <1>0 DEF ResetServing, Goto, Store, TypeOK, InCS, CSLabel
<1>3. TypeOK'
  <2>1. Append(sb[t], StoreEntry("serving", 0)) \in Seq(Entry)
    BY <1>0, AppendProperties DEF TypeOK, Entry, StoreEntry, Location
  <2>2. sb' \in [Thread -> Seq(Entry)] /\ pc' \in [Thread -> Label]
    BY <1>0, <2>1 DEF ResetServing, Store, Goto, TypeOK, Entry, Label
  <2>. QED  BY <1>0, <2>2 DEF ResetServing, TypeOK, Entry
<1>4. ~ Held(t) /\ ~ Held(t)' /\ BufferInv(t)' /\ SectionInv(t)'
  BY <1>0, <1>1, <1>2, StoreReset DEF Still
<1>5. PlaceInv(t)'
  BY <1>0, <1>1, <1>2 DEF PlaceInv, Still
<1>. QED  BY <1>0, <1>1, <1>3, <1>4, <1>5, QuietStep DEF ThreadInv, ResetServing

(* The plain store that frees the word: the thread holds the lock until    *)
(* memory has it.                                                          *)
LEMMA UnlockStoreStep ==
  ASSUME Inv, NEW t \in Thread, UnlockStore(t)
  PROVE  Inv'
<1>0. TypeOK /\ Base /\ ThreadInv(t) /\ InCS(t) /\ Held(t) /\ build = "spin"
  BY DEF Inv, Base, UnlockStore, InCS, CSLabel, Held
<1>1. Still(t) /\ Crewed'
  BY <1>0, OthersStill, CrewStep DEF ThreadStep, Inv
<1>2. /\ pc[t] = "unlock" /\ pc'[t] = "loop" /\ mem' = mem
      /\ sb'[t] = Append(sb[t], StoreEntry("lock", 0)) /\ ~ InCS(t)'
  BY <1>0 DEF UnlockStore, Goto, Store, TypeOK, InCS, CSLabel
<1>3. StoreEntry("lock", 0) \in Entry /\ sb[t] \in Seq(Entry)
  BY <1>0 DEF TypeOK, Entry, StoreEntry, Location
<1>4. TypeOK'
  <2>1. Append(sb[t], StoreEntry("lock", 0)) \in Seq(Entry)
    BY <1>3, AppendProperties
  <2>2. sb' \in [Thread -> Seq(Entry)] /\ pc' \in [Thread -> Label]
    BY <1>0, <2>1 DEF UnlockStore, Store, Goto, TypeOK, Entry, Label
  <2>. QED  BY <1>0, <2>2 DEF UnlockStore, TypeOK, Entry
<1>5. /\ Len(sb'[t]) = Len(sb[t]) + 1 /\ Len(sb[t]) \in Nat
      /\ sb'[t][Len(sb[t]) + 1] = StoreEntry("lock", 0)
      /\ \A p \in 1 .. Len(sb[t]) : sb'[t][p] = sb[t][p]
  BY <1>2, <1>3, StillPending
<1>6. Held(t)'
  BY <1>5 DEF Held
<1>7. PlaceInv(t)'
  BY <1>2 DEF PlaceInv
<1>8. \A p \in 1 .. Len(sb[t]) : sb[t][p].var = "in_cs"
  <2>. SUFFICES ASSUME NEW p \in 1 .. Len(sb[t]) PROVE sb[t][p].var = "in_cs"
    OBVIOUS
  <2>1. sb[t][p] \in Entry
    BY <1>3, ElementOfSeq
  <2>. QED  BY <1>0, <2>1 DEF ThreadInv, BufferInv, Entry, Location
<1>9. BufferInv(t)'
  <2>. SUFFICES ASSUME NEW p \in 1 .. Len(sb'[t])
                PROVE  \/ sb'[t][p].var = "in_cs"
                       \/ /\ sb'[t][p].var = "lock" /\ p = Len(sb'[t])
                          /\ sb'[t][p].val = 0
    BY <1>0, <1>1, <1>2, <1>6 DEF BufferInv, Still
  <2>1. CASE p = Len(sb[t]) + 1
    BY <1>5, <2>1 DEF StoreEntry
  <2>2. CASE p \in 1 .. Len(sb[t])
    BY <1>5, <1>8, <2>2
  <2>. QED  BY <1>5, <2>1, <2>2
<1>10. SectionInv(t)'
  <2>1. Reached(t) = 0
    BY <1>2 DEF Reached
  <2>2. CASE Len(sb[t]) = 0
    <3>1. Pending(sb[t], "in_cs") = {}
      BY <2>2 DEF Pending
    <3>2. mem["in_cs"] = 0
      BY <1>0, <2>1, <3>1 DEF ThreadInv, SectionInv
    <3>. QED  BY <1>2, <1>5, <2>2, <3>2 DEF SectionInv
  <2>3. CASE Len(sb[t]) # 0
    <3>1. Len(sb[t]) \in 1 .. Len(sb[t])
      BY <1>5, <2>3
    <3>2. Pending(sb[t], "in_cs") # {}
      BY <1>8, <3>1 DEF Pending
    <3>3. sb[t][Len(sb[t])] = StoreEntry("in_cs", 0)
      BY <1>0, <2>1, <3>2 DEF ThreadInv, SectionInv
    <3>. QED  BY <1>2, <1>5, <3>1, <3>3 DEF SectionInv
  <2>. QED  BY <2>2, <2>3
<1>. QED
  BY <1>0, <1>1, <1>4, <1>6, <1>7, <1>9, <1>10, QuietStep DEF ThreadInv, UnlockStore

LEMMA LoopStep ==
  ASSUME Inv, NEW t \in Thread, Loop(t)
  PROVE  Inv'
<1>0. TypeOK /\ Base /\ ThreadInv(t) /\ ~ InCS(t)
  BY DEF Inv, Base, Loop, InCS, CSLabel
<1>1. Still(t) /\ Crewed'
  BY <1>0, OthersStill, CrewStep DEF ThreadStep, Inv
<1>2. pc'[t] \in {"start", "exit"} /\ sb' = sb /\ mem' = mem /\ pc[t] = "loop"
  BY <1>0 DEF Loop, Goto, TypeOK
<1>3. ~ InCS(t)' /\ ~ InLine(t) /\ ~ InLine(t)' /\ (Held(t)' <=> Held(t))
  BY <1>0, <1>2 DEF InCS, CSLabel, InLine, Held
<1>4. TypeOK'
  BY <1>0 DEF Loop, Goto, TypeOK, Label
<1>5. PlaceInv(t)'
  BY <1>2 DEF PlaceInv
<1>6. BufferInv(t)' /\ SectionInv(t)'
  BY <1>0, <1>1, <1>2, <1>3 DEF ThreadInv, BufferInv, SectionInv, Still
<1>. QED  BY <1>0, <1>1, <1>3, <1>4, <1>5, <1>6, QuietStep DEF ThreadInv, Loop

-----------------------------------------------------------------------------
(* Taking and giving back the lock                                         *)

(* A thread that comes in while nobody holds the lock.                     *)
LEMMA EnterAlone ==
  ASSUME Inv, NEW t \in Thread, Still(t), \A u \in Thread : ~ Held(u),
         pc'[t] = "assert", k'[t] = 0, sb' = sb, mem'["in_cs"] = mem["in_cs"]
  PROVE  \A u \in Thread : ThreadInv(u)' /\ (Held(u)' <=> u = t)
<1>0. Base /\ mem["in_cs"] = 0
  BY DEF Inv, Base, HeldInv
<1>1. InCS(t)' /\ Held(t)' /\ Reached(t)' = 0
  BY DEF InCS, CSLabel, Held, Reached
<1>2. \A p \in 1 .. Len(sb[t]) : sb[t][p].var \notin {"in_cs", "lock"}
  <2>1. ~ Held(t) /\ BufferInv(t)
    BY <1>0 DEF Base, ThreadInv
  <2>. QED  BY <1>0, <2>1, HeldByBuffer DEF BufferInv
<1>3. BufferInv(t)' /\ PlaceInv(t)'
  <2>1. PlaceInv(t)'
    BY DEF PlaceInv
  <2>. QED  BY <1>0, <1>2, <2>1 DEF Base, ThreadInv, BufferInv, Still
<1>4. SectionInv(t)'
  <2>1. Pending(sb'[t], "in_cs") = {}
    BY <1>2 DEF Pending
  <2>. QED  BY <1>0, <1>1, <2>1 DEF SectionInv
<1>5. ASSUME NEW u \in Thread, u # t PROVE ThreadInv(u)' /\ ~ Held(u)'
  BY <1>0, <1>5, OtherThread DEF Base
<1>. QED  BY <1>1, <1>3, <1>4, <1>5 DEF ThreadInv

LEMMA EnterTypes ==
  ASSUME TypeOK, NEW t \in Thread, Enter(t)
  PROVE  /\ pc' \in [Thread -> Label] /\ k' \in [Thread -> 0 .. 3]
         /\ pc'[t] = "assert" /\ k'[t] = 0
BY DEF TypeOK, Enter, Goto, Label, CSLabel

LEMMA CmpXchgStep ==
  ASSUME Inv, NEW t \in Thread, CmpXchg(t)
  PROVE  Inv'
<1>0. TypeOK /\ build = "spin"
  BY DEF Inv, CmpXchg
<1>1. Still(t) /\ Crewed'
  BY <1>0, OthersStill, CrewStep DEF ThreadStep, Inv
<1>2. \A u \in Thread : ~ Held(u)
  BY <1>0 DEF Inv, HeldInv, CmpXchg
<1>3. /\ pc'[t] = "assert" /\ k'[t] = 0 /\ sb' = sb
      /\ mem'["in_cs"] = mem["in_cs"] /\ mem'["lock"] = 1
  BY <1>0 DEF CmpXchg, Enter, Goto, TypeOK, Location
<1>4. \A u \in Thread : ThreadInv(u)' /\ (Held(u)' <=> u = t)
  BY <1>1, <1>2, <1>3, EnterAlone
<1>5. TypeOK'
  <2>1. mem' \in [Location -> Int32 \cup 0 .. 3]
    <3>1. 1 \in Int32 \cup 0 .. 3
      OBVIOUS
    <3>. QED  BY <1>0, <3>1 DEF CmpXchg, TypeOK
  <2>2. mem'["in_cs"] = mem["in_cs"] /\ mem'["waiting"] = mem["waiting"]
        /\ mem'["serving"] = mem["serving"] /\ mem'["lock"] = 1
    BY <1>0 DEF CmpXchg, TypeOK, Location
  <2>3. pc' \in [Thread -> Label] /\ k' \in [Thread -> 0 .. 3]
    BY <1>0, EnterTypes DEF CmpXchg
  <2>4. 1 \in 0 .. 1
    OBVIOUS
  <2>5. /\ build' = build /\ is_stop' = is_stop /\ sb' = sb /\ my_turn' = my_turn
        /\ main' = main /\ line' = line
    BY DEF CmpXchg
  <2>. QED  BY <1>0, <2>1, <2>2, <2>3, <2>4, <2>5 DEF TypeOK
<1>6. HeldInv'
  BY <1>3, <1>4 DEF HeldInv, Exclusion
<1>7. LineInv'
  BY <1>0, <1>1 DEF LineInv, Still
<1>. QED  BY <1>1, <1>4, <1>5, <1>6, <1>7 DEF Inv

(* There are turns for all threads.                                        *)
LEMMA LineLength ==
  ASSUME NEW s \in Seq(Thread), \A p, q \in 1 .. Len(s) : s[p] = s[q] => p = q
  PROVE  Len(s) \in Nat /\ Len(s) <= 2 * IntMax + 2
<1>1. Len(s) \in Nat /\ s \in [1 .. Len(s) -> Thread]
  BY LenProperties
<1>2. s \in Injection(1 .. Len(s), Thread)
  BY <1>1 DEF Injection, IsInjective
<1>3. Cardinality(1 .. Len(s)) <= Cardinality(Thread)
  BY <1>2, FS_Injection, ThreadAssumption
<1>4. Cardinality(1 .. Len(s)) = Len(s)
  BY <1>1, FS_Interval
<1>5. Cardinality(Thread) \in Nat
  BY FS_CardinalityType, ThreadAssumption
<1>. QED  BY <1>1, <1>3, <1>4, <1>5, ThreadAssumption, IntMaxAssumption

(* What is served is the turn of the first in line only.                   *)
LEMMA TurnIsFirst ==
  ASSUME NEW v \in Int32, NEW n \in Nat, n < 2 * IntMax + 2, Turn(v, n) = v
  PROVE  n = 0
BY IntMaxAssumption DEF Turn, Int32

(* Counting on, over the end of an int.                                    *)
LEMMA TurnAfter ==
  ASSUME NEW v \in Int32, NEW n \in Nat, n < 2 * IntMax + 2
  PROVE  /\ Turn(v, n) \in Int32
         /\ Succ(Turn(v, n)) = Turn(v, n + 1)
         /\ Turn(Succ(v), n) = Turn(v, n + 1)
         /\ Succ(v) \in Int32
BY IntMaxAssumption DEF Turn, Int32, Succ

(* Under another build than spin, who holds the lock is inside.            *)
LEMMA HeldInside ==
  ASSUME Inv, build # "spin", NEW t \in Thread
  PROVE  Held(t) <=> InCS(t)
BY HeldByBuffer DEF Inv, Base

(* The only thread of reset.                                               *)
LEMMA AloneInReset ==
  ASSUME Inv, Tame, build = "reset", NEW t \in Thread, pc[t] # "exit",
         NEW u \in Thread, InCS(u)
  PROVE  u = t
<1>1. PICK p \in Programs : build = p.build /\ \A w \in Thread \ p.crew : pc[w] = "exit"
  BY DEF Inv, Crewed
<1>2. t \in p.crew /\ u \in p.crew
  BY <1>1 DEF InCS, CSLabel
<1>. QED  BY <1>1, <1>2 DEF Tame, ResetAlone

LEMMA FirstInLine ==
  ASSUME Inv, build = "fair", NEW t \in Thread, pc[t] = "wait",
         my_turn[t] = Seen(t, "serving")
  PROVE  line[1] = t
<1>0. TypeOK /\ LineInv /\ ThreadInv(t)
  BY DEF Inv
<1>1. Pending(sb[t], "serving") = {}
  BY <1>0 DEF ThreadInv, BufferInv, Pending
<1>2. my_turn[t] = mem["serving"]
  BY <1>1, LoadMemory DEF Seen
<1>3. PICK p \in 1 .. Len(line) : line[p] = t
  BY <1>0 DEF LineInv, InLine
<1>4. Turn(mem["serving"], p - 1) = mem["serving"]
  BY <1>0, <1>2, <1>3 DEF LineInv
<1>5. Len(line) \in Nat /\ Len(line) <= 2 * IntMax + 2
  BY <1>0, LineLength DEF LineInv, TypeOK
<1>6. p - 1 \in Nat /\ p - 1 < 2 * IntMax + 2
  BY <1>5, IntMaxAssumption
<1>7. p - 1 = 0
  BY <1>0, <1>4, <1>6, TurnIsFirst DEF TypeOK
<1>. QED  BY <1>3, <1>7

LEMMA WaitTurnStep ==
  ASSUME Inv, Tame, NEW t \in Thread, WaitTurn(t)
  PROVE  Inv'
<1>0. TypeOK /\ Base /\ build # "spin" /\ build \in {"fair", "reset"} /\ pc[t] = "wait" /\ ~ InCS(t)
  BY ProgramsAssumption
     DEF Inv, Base, TypeOK, WaitTurn, ThreadInv, PlaceInv, InCS, CSLabel
<1>1. Still(t) /\ Crewed'
  BY <1>0, OthersStill, CrewStep DEF ThreadStep, Inv
<1>2. build = "fair" => line[1] = t
  BY <1>0, FirstInLine DEF WaitTurn
<1>3. \A u \in Thread : ~ Held(u)
  <2>. SUFFICES ASSUME NEW u \in Thread, Held(u) PROVE FALSE
    OBVIOUS
  <2>1. InCS(u)
    BY <1>0, HeldInside
  <2>2. CASE build = "reset"
    BY <1>0, <2>1, <2>2, AloneInReset
  <2>3. CASE build = "fair"
    BY <1>0, <1>2, <2>1, <2>3 DEF Inv, LineInv
  <2>. QED  BY <1>0, <2>2, <2>3
<1>4. /\ pc'[t] = "assert" /\ k'[t] = 0 /\ sb' = sb /\ mem' = mem
      /\ line' = line /\ my_turn' = my_turn
  BY <1>0 DEF WaitTurn, Enter, Goto, TypeOK
<1>5. \A u \in Thread : ThreadInv(u)' /\ (Held(u)' <=> u = t)
  BY <1>1, <1>3, <1>4, EnterAlone
<1>6. TypeOK'
  <2>1. pc' \in [Thread -> Label] /\ k' \in [Thread -> 0 .. 3]
    BY <1>0, EnterTypes DEF WaitTurn
  <2>. QED  BY <1>0, <2>1 DEF WaitTurn, TypeOK
<1>7. HeldInv'
  BY <1>0, <1>1, <1>5 DEF HeldInv, Exclusion, Still
<1>8. LineInv'
  <2>1. \A u \in Thread : (InLine(u)' <=> InLine(u)) /\ (InCS(u)' => u = t \/ InCS(u))
    BY <1>0, <1>1, <1>4 DEF InLine, InCS, CSLabel, Still
  <2>. QED  BY <1>1, <1>2, <1>4, <2>1 DEF Inv, LineInv, Still
<1>. QED  BY <1>1, <1>5, <1>6, <1>7, <1>8 DEF Inv

LEMMA TakeTurnStep ==
  ASSUME Inv, NEW t \in Thread, TakeTurn(t)
  PROVE  Inv'
<1>0. TypeOK /\ Base /\ build # "spin" /\ pc[t] = "start" /\ sb[t] = <<>> /\ ~ InCS(t) /\ ~ InLine(t)
  BY DEF Inv, Base, TakeTurn, Locked, InCS, CSLabel, InLine
<1>1. Still(t) /\ Crewed'
  BY <1>0, OthersStill, CrewStep DEF ThreadStep, Inv
<1>2. /\ pc'[t] = IF build = "reset" /\ mem["waiting"] < 0 THEN "overflowed" ELSE "wait"
      /\ sb' = sb /\ k' = k /\ my_turn'[t] = mem["waiting"] /\ line' = Append(line, t)
  BY <1>0 DEF TakeTurn, Goto, TypeOK
<1>3. /\ mem'["in_cs"] = mem["in_cs"] /\ mem'["lock"] = mem["lock"]
      /\ mem'["serving"] = mem["serving"] /\ mem'["waiting"] = Succ(mem["waiting"])
      /\ mem' \in [Location -> Int32 \cup 0 .. 3] /\ Succ(mem["waiting"]) \in Int32
  <2>1. Succ(mem["waiting"]) \in Int32
    BY <1>0, IntMaxAssumption DEF TypeOK, Int32, Succ
  <2>. QED  BY <1>0, <2>1 DEF TakeTurn, TypeOK, Location
<1>4. line' \in Seq(Thread) /\ line \in Seq(Thread)
  BY <1>0, <1>2, AppendProperties DEF TypeOK
<1>5. TypeOK'
  <2>1. pc' \in [Thread -> Label]
    BY <1>0 DEF TakeTurn, Goto, TypeOK, Label
  <2>2. my_turn' \in [Thread -> Int32]
    BY <1>0 DEF TakeTurn, TypeOK
  <2>. QED  BY <1>0, <1>3, <1>4, <2>1, <2>2 DEF TakeTurn, TypeOK
<1>6. ~ InCS(t)' /\ ~ Held(t) /\ ~ Held(t)'
  <2>1. ~ InCS(t)'
    BY <1>2 DEF InCS, CSLabel
  <2>. QED  BY <1>0, <1>2, <2>1, NoneBuffered DEF Held
<1>7. ThreadInv(t)'
  <2>1. PlaceInv(t)'
    BY <1>0, <1>1, <1>2 DEF PlaceInv, Still
  <2>2. BufferInv(t)'
    BY <1>0, <1>2, NoneBuffered DEF BufferInv
  <2>. QED  BY <1>6, <2>1, <2>2 DEF ThreadInv, SectionInv
<1>8. \A u \in Thread : u # t => ThreadInv(u)' /\ (Held(u)' <=> Held(u)) /\ (InCS(u)' <=> InCS(u))
  BY <1>0, <1>1, <1>3, OtherThread DEF Base
<1>9. HeldInv'
  BY <1>1, <1>3, <1>6, <1>8 DEF Inv, HeldInv, Exclusion, Still
<1>10. LineInv'
  <2>. SUFFICES ASSUME build = "fair" PROVE LineInv'
    BY <1>1 DEF LineInv, Still
  <2>0. LineInv
    BY DEF Inv
  <2>1. /\ Len(line') = Len(line) + 1 /\ Len(line) \in Nat /\ line'[Len(line) + 1] = t
        /\ \A p \in 1 .. Len(line) : line'[p] = line[p] /\ line[p] \in Thread
    BY <1>2, <1>4, AppendProperties, ElementOfSeq
  <2>2. \A p \in 1 .. Len(line) : line[p] # t
    BY <1>0, <2>0 DEF LineInv
  <2>3. \A p, q \in 1 .. Len(line') : line'[p] = line'[q] => p = q
    <3>1. ASSUME NEW p \in 1 .. Len(line'), NEW q \in 1 .. Len(line'), line'[p] = line'[q]
          PROVE  p = q
      <4>1. p \in 1 .. Len(line) \/ p = Len(line) + 1
        BY <2>1
      <4>2. q \in 1 .. Len(line) \/ q = Len(line) + 1
        BY <2>1
      <4>. QED  BY <2>0, <2>1, <2>2, <3>1, <4>1, <4>2 DEF LineInv
    <3>. QED  BY <3>1
  <2>4. Len(line) < 2 * IntMax + 2
    <3>1. Len(line') <= 2 * IntMax + 2
      BY <1>4, <2>3, LineLength
    <3>. QED  BY <2>1, <3>1, IntMaxAssumption
  <2>5. ASSUME NEW u \in Thread
        PROVE  InLine(u)' <=> \E p \in 1 .. Len(line') : line'[p] = u
    <3>1. CASE u = t
      <4>1. InLine(t)'
        BY <1>2 DEF InLine
      <4>2. Len(line) + 1 \in 1 .. Len(line')
        BY <2>1
      <4>. QED  BY <2>1, <3>1, <4>1, <4>2
    <3>2. CASE u # t
      <4>1. InLine(u)' <=> InLine(u)
        BY <1>1, <1>8, <3>2 DEF InLine, Still
      <4>2. InLine(u) <=> \E p \in 1 .. Len(line) : line[p] = u
        BY <2>0 DEF LineInv
      <4>3. \A p \in 1 .. Len(line') : p \in 1 .. Len(line) \/ line'[p] = t
        BY <2>1
      <4>4. \A p \in 1 .. Len(line) : p \in 1 .. Len(line')
        BY <2>1
      <4>. QED  BY <2>1, <3>2, <4>1, <4>2, <4>3, <4>4
    <3>. QED  BY <3>1, <3>2
  <2>6. mem["waiting"] = Turn(mem["serving"], Len(line))
    BY <2>0 DEF LineInv
  <2>7. ASSUME NEW p \in 1 .. Len(line')
        PROVE  my_turn'[line'[p]] = Turn(mem'["serving"], p - 1)
    <3>1. CASE p = Len(line) + 1
      <4>1. p - 1 = Len(line)
        BY <2>1, <3>1
      <4>. QED  BY <1>2, <1>3, <2>1, <2>6, <3>1, <4>1
    <3>2. CASE p # Len(line) + 1
      <4>1. p \in 1 .. Len(line)
        BY <2>1, <3>2
      <4>2. my_turn[line[p]] = Turn(mem["serving"], p - 1)
        BY <2>0, <4>1 DEF LineInv
      <4>3. my_turn'[line[p]] = my_turn[line[p]]
        BY <1>1, <2>1, <2>2, <4>1 DEF Still
      <4>. QED  BY <1>3, <2>1, <4>1, <4>2, <4>3
    <3>. QED  BY <3>1, <3>2
  <2>8. mem'["waiting"] = Turn(mem'["serving"], Len(line'))
    <3>1. Succ(Turn(mem["serving"], Len(line))) = Turn(mem["serving"], Len(line) + 1)
      BY <1>0, <2>1, <2>4, TurnAfter DEF TypeOK
    <3>. QED  BY <1>3, <2>1, <2>6, <3>1
  <2>9. ASSUME NEW u \in Thread, InCS(u)' PROVE line'[1] = u
    <3>1. u # t /\ InCS(u)
      BY <1>6, <1>8, <2>9
    <3>2. line[1] = u /\ \E p \in 1 .. Len(line) : line[p] = u
      BY <2>0, <3>1 DEF LineInv, InLine
    <3>3. 1 \in 1 .. Len(line)
      BY <2>1, <3>2
    <3>. QED  BY <2>1, <3>2, <3>3
  <2>. QED  BY <2>3, <2>5, <2>7, <2>8, <2>9 DEF LineInv
<1>. QED  BY <1>1, <1>5, <1>7, <1>8, <1>9, <1>10 DEF Inv

LEMMA LeavesFirst ==
  ASSUME line \in Seq(Thread), \A p, q \in 1 .. Len(line) : line[p] = line[q] => p = q,
         NEW t \in Thread, 1 \in 1 .. Len(line), line[1] = t, LeaveLine(t)
  PROVE  /\ line' \in Seq(Thread) /\ Len(line) \in Nat /\ Len(line') = Len(line) - 1
         /\ \A p \in 1 .. Len(line') : line'[p] = line[p + 1]
<1>1. PICK p \in 1 .. Len(line) :
        line[p] = t /\ line' = SubSeq(line, 1, p - 1) \o SubSeq(line, p + 1, Len(line))
  BY DEF LeaveLine
<1>2. p = 1 /\ Len(line) \in Nat /\ line # <<>>
  BY <1>1, EmptySeq
<1>3. SubSeq(line, 1, 0) = <<>>
  BY SubSeqEmpty
<1>4. Tail(line) \in Seq(Thread) /\ Tail(line) = SubSeq(line, 2, Len(line))
  BY <1>2, HeadTailProperties, TailIsSubSeq
<1>5. line' = Tail(line)
  BY <1>1, <1>2, <1>3, <1>4, ConcatEmptySeq
<1>. QED  BY <1>2, <1>4, <1>5, HeadTailProperties

LEMMA LeaveType ==
  ASSUME line \in Seq(Thread), NEW t, LeaveLine(t)
  PROVE  line' \in Seq(Thread)
<1>1. PICK p \in 1 .. Len(line) :
        line' = SubSeq(line, 1, p - 1) \o SubSeq(line, p + 1, Len(line))
  BY DEF LeaveLine
<1>2. Len(line) \in Nat
  OBVIOUS
<1>3. SubSeq(line, 1, p - 1) \in Seq(Thread)
  <2>1. \A i \in 1 .. p - 1 : line[i] \in Thread
    BY <1>2, ElementOfSeq
  <2>. QED  BY <1>2, <2>1, SubSeqProperties
<1>4. SubSeq(line, p + 1, Len(line)) \in Seq(Thread)
  <2>1. \A i \in p + 1 .. Len(line) : line[i] \in Thread
    BY <1>2, ElementOfSeq
  <2>. QED  BY <1>2, <2>1, SubSeqProperties
<1>. QED  BY <1>1, <1>3, <1>4, ConcatProperties

LEMMA ServeStep ==
  ASSUME Inv, NEW t \in Thread, Serve(t)
  PROVE  Inv'
<1>0. /\ TypeOK /\ Base /\ build # "spin" /\ pc[t] = "unlock" /\ sb[t] = <<>>
      /\ InCS(t) /\ Held(t)
  BY DEF Inv, Base, Serve, Locked, InCS, CSLabel, Held
<1>1. Still(t) /\ Crewed'
  BY <1>0, OthersStill, CrewStep DEF ThreadStep, Inv
<1>2. /\ pc'[t] = IF build = "reset" /\ mem["serving"] < 0 THEN "served_overflow" ELSE "loop"
      /\ sb' = sb /\ k' = k /\ my_turn' = my_turn
  BY <1>0 DEF Serve, Goto, TypeOK
<1>3. /\ mem'["in_cs"] = mem["in_cs"] /\ mem'["lock"] = mem["lock"]
      /\ mem'["waiting"] = mem["waiting"] /\ mem'["serving"] = Succ(mem["serving"])
      /\ mem' \in [Location -> Int32 \cup 0 .. 3] /\ Succ(mem["serving"]) \in Int32
  <2>1. Succ(mem["serving"]) \in Int32
    BY <1>0, IntMaxAssumption DEF TypeOK, Int32, Succ
  <2>. QED  BY <1>0, <2>1 DEF Serve, TypeOK, Location
<1>4. mem["in_cs"] = 0
  BY <1>0, EmptyBuffer DEF Reached
<1>5. TypeOK'
  <2>1. pc' \in [Thread -> Label]
    BY <1>0 DEF Serve, Goto, TypeOK, Label
  <2>2. line' \in Seq(Thread)
    BY <1>0, LeaveType DEF Serve, TypeOK
  <2>. QED  BY <1>0, <1>3, <2>1, <2>2 DEF Serve, TypeOK
<1>6. ~ InCS(t)' /\ ~ Held(t)' /\ ~ InLine(t)'
  <2>1. ~ InCS(t)' /\ ~ InLine(t)'
    BY <1>2 DEF InCS, CSLabel, InLine
  <2>. QED  BY <1>0, <1>2, <2>1, NoneBuffered DEF Held
<1>7. ThreadInv(t)'
  <2>1. PlaceInv(t)'
    BY <1>0, <1>1, <1>2 DEF PlaceInv, Still
  <2>2. BufferInv(t)'
    BY <1>0, <1>2, NoneBuffered DEF BufferInv
  <2>. QED  BY <1>6, <2>1, <2>2 DEF ThreadInv, SectionInv
<1>8. \A u \in Thread : u # t =>
        /\ ThreadInv(u)' /\ ~ Held(u)' /\ (InCS(u)' <=> InCS(u))
        /\ InLine(u)' <=> InLine(u)
  <2>. SUFFICES ASSUME NEW u \in Thread, u # t
                PROVE  /\ ThreadInv(u)' /\ ~ Held(u)' /\ (InCS(u)' <=> InCS(u))
                       /\ InLine(u)' <=> InLine(u)
    OBVIOUS
  <2>1. ThreadInv(u)' /\ (Held(u)' <=> Held(u)) /\ (InCS(u)' <=> InCS(u))
    BY <1>0, <1>1, <1>3, OtherThread DEF Base
  <2>2. ~ Held(u)
    BY <1>0 DEF Inv, HeldInv, Exclusion
  <2>3. pc'[u] = pc[u]
    BY <1>1 DEF Still
  <2>. QED  BY <2>1, <2>2, <2>3 DEF InLine
<1>9. HeldInv'
  BY <1>3, <1>4, <1>6, <1>8 DEF HeldInv, Exclusion
<1>10. LineInv'
  <2>. SUFFICES ASSUME build = "fair" PROVE LineInv'
    BY <1>1 DEF LineInv, Still
  <2>0. LineInv /\ line \in Seq(Thread) /\ LeaveLine(t)
    BY <1>0 DEF Inv, TypeOK, Serve
  <2>1. line[1] = t /\ 1 \in 1 .. Len(line)
    <3>1. \E p \in 1 .. Len(line) : line[p] = t
      BY <1>0, <2>0 DEF LineInv, InLine
    <3>2. Len(line) \in Nat
      BY <2>0
    <3>. QED  BY <1>0, <2>0, <3>1, <3>2 DEF LineInv
  <2>2. /\ Len(line') = Len(line) - 1 /\ Len(line) \in Nat
        /\ \A p \in 1 .. Len(line') : line'[p] = line[p + 1]
    BY <2>0, <2>1, LeavesFirst DEF LineInv
  <2>3. Len(line) <= 2 * IntMax + 2
    BY <2>0, LineLength DEF LineInv
  <2>4. \A p \in 1 .. Len(line') : p + 1 \in 1 .. Len(line) /\ p + 1 # 1
    BY <2>2
  <2>5. \A p, q \in 1 .. Len(line') : line'[p] = line'[q] => p = q
    <3>1. ASSUME NEW p \in 1 .. Len(line'), NEW q \in 1 .. Len(line'), line'[p] = line'[q]
          PROVE  p = q
      <4>1. line[p + 1] = line[q + 1]
        BY <2>2, <3>1
      <4>2. p + 1 = q + 1
        BY <2>0, <2>4, <4>1 DEF LineInv
      <4>. QED  BY <4>2
    <3>. QED  BY <3>1
  <2>6. ASSUME NEW u \in Thread
        PROVE  InLine(u)' <=> \E p \in 1 .. Len(line') : line'[p] = u
    <3>1. CASE u = t
      <4>1. \A p \in 1 .. Len(line') : line'[p] # t
        BY <2>0, <2>1, <2>2, <2>4 DEF LineInv
      <4>. QED  BY <1>6, <3>1, <4>1
    <3>2. CASE u # t
      <4>1. InLine(u)' <=> \E p \in 1 .. Len(line) : line[p] = u
        BY <1>8, <2>0, <3>2 DEF LineInv
      <4>2. ASSUME NEW p \in 1 .. Len(line), line[p] = u
            PROVE  p - 1 \in 1 .. Len(line') /\ line'[p - 1] = u
        <5>1. p # 1
          BY <2>1, <3>2, <4>2
        <5>2. p - 1 \in 1 .. Len(line') /\ (p - 1) + 1 = p
          BY <2>2, <5>1
        <5>. QED  BY <2>2, <4>2, <5>2
      <4>. QED  BY <2>2, <2>4, <4>1, <4>2
    <3>. QED  BY <3>1, <3>2
  <2>7. ASSUME NEW n \in 1 .. Len(line)
        PROVE  Turn(mem'["serving"], n - 1) = Turn(mem["serving"], n)
    <3>1. n - 1 \in Nat /\ n - 1 < 2 * IntMax + 2 /\ (n - 1) + 1 = n
      BY <2>2, <2>3, IntMaxAssumption
    <3>2. mem["serving"] \in Int32
      BY <1>0 DEF TypeOK
    <3>. QED  BY <1>3, <3>1, <3>2, TurnAfter
  <2>8. ASSUME NEW p \in 1 .. Len(line')
        PROVE  my_turn'[line'[p]] = Turn(mem'["serving"], p - 1)
    <3>1. my_turn[line[p + 1]] = Turn(mem["serving"], (p + 1) - 1)
      BY <2>0, <2>4 DEF LineInv
    <3>2. (p + 1) - 1 = p /\ p \in 1 .. Len(line)
      BY <2>2
    <3>. QED  BY <1>2, <2>2, <2>7, <3>1, <3>2
  <2>9. mem'["waiting"] = Turn(mem'["serving"], Len(line'))
    <3>1. Len(line) \in 1 .. Len(line)
      BY <2>1, <2>2
    <3>. QED  BY <1>3, <2>0, <2>2, <2>7, <3>1 DEF LineInv
  <2>10. \A u \in Thread : ~ InCS(u)'
    BY <1>0, <1>6, <1>8, HeldInside DEF Inv, HeldInv, Exclusion
  <2>. QED  BY <2>5, <2>6, <2>8, <2>9, <2>10 DEF LineInv
<1>. QED  BY <1>1, <1>5, <1>7, <1>8, <1>9, <1>10 DEF Inv

-----------------------------------------------------------------------------
(* Memory takes the oldest store of a thread                               *)

LEMMA DrainStep ==
  ASSUME Inv, NEW t \in Thread, Drain(t)
  PROVE  Inv'
<1>. DEFINE b == sb[t]
            e == Head(sb[t])
<1>0. /\ TypeOK /\ Base /\ ThreadInv(t) /\ b \in Seq(Entry) /\ b # <<>>
      /\ Still(t) /\ Crewed'
  BY OthersStill, CrewStep DEF Inv, Base, Drain, TypeOK, Entry
<1>1. /\ Tail(b) \in Seq(Entry) /\ Len(b) \in Nat \ {0} /\ Len(Tail(b)) = Len(b) - 1
      /\ e = b[1] /\ e \in Entry
      /\ \A p \in 1 .. Len(b) - 1 : Tail(b)[p] = b[p + 1]
      /\ \A x : Pending(b, x) = {} => Pending(Tail(b), x) = {} /\ e.var # x
  BY <1>0, AfterHead
<1>2. /\ sb'[t] = Tail(b) /\ pc' = pc /\ k' = k /\ my_turn' = my_turn /\ line' = line
      /\ build' = build /\ mem' = [mem EXCEPT ![e.var] = e.val]
  BY <1>0 DEF Drain, TypeOK
<1>3. e.var \in Location /\ e.val \in 0 .. 3
  BY <1>1 DEF Entry
<1>4. \A x \in Location : mem'[x] = IF x = e.var THEN e.val ELSE mem[x]
  BY <1>0, <1>2 DEF TypeOK
<1>. HIDE DEF b, e
<1>5. /\ e.var = "in_cs" => Held(t)
      /\ e.var = "lock" => build = "spin" /\ Len(b) = 1 /\ e.val = 0 /\ ~ InCS(t)
      /\ e.var \in {"waiting", "serving"} => build = "reset" /\ e.val = 0
  <2>1. 1 \in 1 .. Len(b)
    BY <1>1
  <2>. QED  BY <1>0, <1>1, <2>1 DEF ThreadInv, BufferInv, b
<1>6. InCS(t)' <=> InCS(t)
  BY <1>2 DEF InCS
<1>7. e.var # "lock" => (Held(t)' <=> Held(t))
  <2>. SUFFICES ASSUME e.var # "lock" PROVE Held(t)' <=> Held(t)
    OBVIOUS
  <2>1. e # StoreEntry("lock", 0)
    BY DEF StoreEntry
  <2>2. ASSUME NEW p \in 1 .. Len(b), b[p] = StoreEntry("lock", 0)
        PROVE  p - 1 \in 1 .. Len(Tail(b)) /\ Tail(b)[p - 1] = StoreEntry("lock", 0)
    <3>1. p # 1
      BY <1>1, <2>1, <2>2
    <3>2. p - 1 \in 1 .. Len(b) - 1 /\ (p - 1) + 1 = p
      BY <1>1, <3>1
    <3>. QED  BY <1>1, <2>2, <3>2
  <2>3. ASSUME NEW p \in 1 .. Len(Tail(b)), Tail(b)[p] = StoreEntry("lock", 0)
        PROVE  p + 1 \in 1 .. Len(b) /\ b[p + 1] = StoreEntry("lock", 0)
    BY <1>1, <2>3
  <2>. QED  BY <1>2, <1>6, <2>2, <2>3 DEF Held, b
<1>8. e.var = "lock" => ~ Held(t)' /\ Held(t) /\ mem["in_cs"] = 0 /\ Len(sb'[t]) = 0
  <2>. SUFFICES ASSUME e.var = "lock"
                PROVE  ~ Held(t)' /\ Held(t) /\ mem["in_cs"] = 0 /\ Len(sb'[t]) = 0
    OBVIOUS
  <2>1. Len(b) = 1 /\ Len(sb'[t]) = 0 /\ ~ InCS(t)
    BY <1>1, <1>2, <1>5
  <2>2. Held(t)
    BY <1>0, <1>1, <2>1, HeldByBuffer DEF b
  <2>3. ~ Held(t)'
    BY <1>6, <2>1 DEF Held
  <2>. QED  BY <1>0, <2>1, <2>2, <2>3 DEF ThreadInv, SectionInv, b
<1>9. TypeOK'
  <2>1. sb' \in [Thread -> Seq(Entry)]
    BY <1>0, <1>1 DEF Drain, TypeOK, Entry, b
  <2>2. e.val \in Int32 \/ e.var \in {"in_cs", "lock"}
    BY <1>3, <1>5, IntMaxAssumption DEF Location, Int32
  <2>3. mem' \in [Location -> Int32 \cup 0 .. 3]
    BY <1>0, <1>2, <1>3 DEF TypeOK
  <2>4. /\ mem'["in_cs"] \in 0 .. 3 /\ mem'["lock"] \in 0 .. 1
        /\ mem'["waiting"] \in Int32 /\ mem'["serving"] \in Int32
    BY <1>0, <1>3, <1>4, <1>5, <2>2 DEF TypeOK, Location
  <2>. QED  BY <1>0, <1>2, <2>1, <2>3, <2>4 DEF Drain, TypeOK, Entry
<1>10. BufferInv(t)'
  <2>. SUFFICES ASSUME NEW p \in 1 .. Len(Tail(b))
                PROVE  /\ Tail(b)[p].var = "in_cs" => Held(t)'
                       /\ Tail(b)[p].var = "lock" =>
                            /\ build = "spin" /\ p = Len(Tail(b))
                            /\ Tail(b)[p].val = 0 /\ ~ InCS(t)
                       /\ Tail(b)[p].var \in {"waiting", "serving"} =>
                            build = "reset" /\ Tail(b)[p].val = 0
    BY <1>2, <1>6 DEF BufferInv
  <2>1. p + 1 \in 1 .. Len(b) /\ Tail(b)[p] = b[p + 1] /\ Len(b) # 1
    BY <1>1
  <2>2. Held(t)' <=> Held(t)
    BY <1>3, <1>5, <1>7, <2>1
  <2>. QED  BY <1>0, <1>1, <2>1, <2>2 DEF ThreadInv, BufferInv, b
<1>11. SectionInv(t)'
  <2>. SUFFICES ASSUME Held(t)' PROVE SectionInv(t)'
    BY DEF SectionInv
  <2>0. Held(t) /\ e.var # "lock"
    BY <1>7, <1>8
  <2>1. Reached(t)' = Reached(t)
    BY <1>2 DEF Reached
  <2>2. CASE InCS(t)
    <3>1. CASE Pending(b, "in_cs") = {}
      <4>1. Pending(Tail(b), "in_cs") = {} /\ e.var # "in_cs" /\ mem["in_cs"] = Reached(t)
        BY <1>0, <1>1, <2>0, <2>2, <3>1 DEF ThreadInv, SectionInv, b
      <4>2. mem'["in_cs"] = Reached(t)
        BY <1>4, <4>1 DEF Location
      <4>. QED  BY <1>2, <1>6, <2>1, <2>2, <4>1, <4>2 DEF SectionInv
    <3>2. CASE Pending(b, "in_cs") # {}
      <4>1. b[Len(b)] = StoreEntry("in_cs", Reached(t))
        BY <1>0, <2>0, <2>2, <3>2 DEF ThreadInv, SectionInv, b
      <4>2. CASE Len(b) = 1
        <5>1. e.var = "in_cs" /\ e.val = Reached(t)
          BY <1>1, <4>1, <4>2 DEF StoreEntry
        <5>2. mem'["in_cs"] = Reached(t)
          BY <1>4, <5>1 DEF Location
        <5>3. Pending(Tail(b), "in_cs") = {}
          <6>1. Len(Tail(b)) = 0
            BY <1>1, <4>2
          <6>. QED  BY <6>1 DEF Pending
        <5>. QED  BY <1>2, <1>6, <2>1, <2>2, <5>2, <5>3 DEF SectionInv
      <4>3. CASE Len(b) # 1
        <5>1. /\ Len(Tail(b)) \in 1 .. Len(b) - 1 /\ Len(Tail(b)) + 1 = Len(b)
              /\ Len(Tail(b)) \in 1 .. Len(Tail(b))
          BY <1>1, <4>3
        <5>2. Tail(b)[Len(Tail(b))] = StoreEntry("in_cs", Reached(t))
          BY <1>1, <4>1, <5>1
        <5>3. Pending(Tail(b), "in_cs") # {}
          <6>1. StoreEntry("in_cs", Reached(t)).var = "in_cs"
            BY DEF StoreEntry
          <6>. QED  BY <5>1, <5>2, <6>1 DEF Pending
        <5>. QED  BY <1>2, <1>6, <2>1, <2>2, <5>2, <5>3 DEF SectionInv
      <4>. QED  BY <4>2, <4>3
    <3>. QED  BY <3>1, <3>2
  <2>3. CASE ~ InCS(t)
    <3>1. Len(b) # 1
      <4>1. b[Len(b)] = StoreEntry("lock", 0)
        BY <1>0, <2>0, <2>3, HeldByBuffer DEF b
      <4>. QED  BY <1>1, <2>0, <4>1 DEF StoreEntry
    <3>2. b[Len(b) - 1] = StoreEntry("in_cs", 0)
      BY <1>0, <2>0, <2>3, <3>1 DEF ThreadInv, SectionInv, b
    <3>3. CASE Len(b) = 2
      <4>1. e.var = "in_cs" /\ e.val = 0 /\ Len(Tail(b)) = 1
        BY <1>1, <3>2, <3>3 DEF StoreEntry
      <4>2. mem'["in_cs"] = 0
        BY <1>4, <4>1 DEF Location
      <4>. QED  BY <1>2, <1>6, <2>3, <4>1, <4>2 DEF SectionInv
    <3>4. CASE Len(b) # 2
      <4>1. /\ Len(Tail(b)) # 1 /\ Len(Tail(b)) - 1 \in 1 .. Len(b) - 1
            /\ (Len(Tail(b)) - 1) + 1 = Len(b) - 1
        BY <1>1, <3>1, <3>4
      <4>2. Tail(b)[Len(Tail(b)) - 1] = StoreEntry("in_cs", 0)
        BY <1>1, <3>2, <4>1
      <4>. QED  BY <1>2, <1>6, <2>3, <4>1, <4>2 DEF SectionInv
    <3>. QED  BY <3>3, <3>4
  <2>. QED  BY <2>2, <2>3
<1>12. PlaceInv(t)'
  BY <1>0, <1>2 DEF ThreadInv, PlaceInv
<1>13. mem'["in_cs"] # mem["in_cs"] => Held(t)
  BY <1>4, <1>5 DEF Location
<1>14. ASSUME NEW u \in Thread, u # t
       PROVE  ThreadInv(u)' /\ (Held(u)' <=> Held(u))
  <2>1. mem'["in_cs"] = mem["in_cs"] \/ ~ Held(u)
    BY <1>13, <1>14 DEF Inv, HeldInv, Exclusion
  <2>. QED  BY <1>0, <1>14, <2>1, OtherThread DEF Base
<1>15. HeldInv'
  <2>1. CASE e.var = "lock"
    <3>1. \A u \in Thread : ~ Held(u)'
      BY <1>8, <1>14, <2>1 DEF Inv, HeldInv, Exclusion
    <3>2. mem'["in_cs"] = 0
      BY <1>4, <1>8, <2>1 DEF Location
    <3>. QED  BY <3>1, <3>2 DEF HeldInv, Exclusion
  <2>2. CASE e.var # "lock"
    <3>1. \A u \in Thread : Held(u)' <=> Held(u)
      BY <1>7, <1>14, <2>2
    <3>2. mem'["lock"] = mem["lock"]
      BY <1>4, <2>2 DEF Location
    <3>. QED  BY <1>2, <1>13, <3>1, <3>2 DEF Inv, HeldInv, Exclusion
  <2>. QED  BY <2>1, <2>2
<1>16. LineInv'
  <2>. SUFFICES ASSUME build = "fair" PROVE LineInv'
    BY <1>2 DEF LineInv
  <2>1. mem'["waiting"] = mem["waiting"] /\ mem'["serving"] = mem["serving"]
    BY <1>4, <1>5 DEF Location
  <2>2. \A u \in Thread : (InLine(u)' <=> InLine(u)) /\ (InCS(u)' <=> InCS(u))
    BY <1>2 DEF InLine, InCS
  <2>. QED  BY <1>2, <2>1, <2>2 DEF Inv, LineInv
<1>17. ThreadInv(t)'
  BY <1>10, <1>11, <1>12 DEF ThreadInv
<1>. QED  BY <1>0, <1>9, <1>14, <1>15, <1>16, <1>17 DEF Inv

-----------------------------------------------------------------------------
(* Theorems                                                                *)

LEMMA InitInv == Init => Inv
<1>. SUFFICES ASSUME Init PROVE Inv
  OBVIOUS
<1>0. PICK p \in Programs :
        /\ build = p.build
        /\ pc = [t \in Thread |-> IF t \in p.crew THEN "start" ELSE "exit"]
  BY DEF Init
<1>1. Crewed
  BY <1>0 DEF Crewed, Init
<1>2. TypeOK
  <2>1. 0 \in Int32 /\ 0 \in 0 .. 1 /\ 0 \in 0 .. 3
    BY IntMaxAssumption DEF Int32
  <2>2. pc \in [Thread -> Label]
    BY <1>0 DEF Label
  <2>3. sb \in [Thread -> Seq(Entry)] /\ line \in Seq(Thread)
    BY EmptySeq DEF Init
  <2>. QED  BY <1>0, <2>1, <2>2, <2>3 DEF Init, TypeOK, Location, Entry
<1>3. ASSUME NEW t \in Thread
      PROVE  ThreadInv(t) /\ ~ Held(t) /\ ~ InLine(t)
  <2>1. pc[t] \in {"start", "exit"} /\ sb[t] = <<>> /\ Len(sb[t]) = 0
    BY <1>0, NoneBuffered DEF Init
  <2>2. ~ Held(t) /\ ~ InLine(t)
    BY <2>1 DEF Held, InLine, InCS, CSLabel
  <2>. QED  BY <2>1, <2>2 DEF ThreadInv, PlaceInv, BufferInv, SectionInv
<1>4. HeldInv
  BY <1>3 DEF Init, HeldInv, Exclusion, Location
<1>5. LineInv
  <2>1. Len(line) = 0 /\ mem["waiting"] = 0 /\ mem["serving"] = 0
    BY DEF Init, Location
  <2>2. Turn(0, 0) = 0
    BY IntMaxAssumption DEF Turn
  <2>. QED  BY <1>3, <2>1, <2>2 DEF LineInv, InLine
<1>. QED  BY <1>1, <1>2, <1>3, <1>4, <1>5 DEF Inv

LEMMA NextStep == Inv /\ Tame /\ [Next]_vars => Inv'
<1>. SUFFICES ASSUME Inv, Tame, [Next]_vars PROVE Inv'
  OBVIOUS
<1>1. ASSUME NEW t \in Thread, ThreadStep(t) PROVE Inv'
  BY <1>1, CmpXchgStep, TakeTurnStep, ResetWaitingStep, WaitTurnStep, AssertStep,
     IncrementStep, ClearStep, UnlockStoreStep, ServeStep, ResetServingStep, LoopStep
     DEF ThreadStep
<1>2. ASSUME UNCHANGED <<build, mem, sb, pc, my_turn, k, line>>, is_stop' \in BOOLEAN,
             main' \in {"sleep", "join", "freed"}
      PROVE  Inv'
  <2>1. \A t \in Thread : /\ InCS(t)' <=> InCS(t)
                          /\ Held(t)' <=> Held(t)
                          /\ InLine(t)' <=> InLine(t)
                          /\ Reached(t)' = Reached(t)
    BY <1>2 DEF InCS, Held, InLine, Reached
  <2>2. TypeOK' /\ Crewed'
    BY <1>2 DEF Inv, TypeOK, Crewed
  <2>3. \A t \in Thread : ThreadInv(t)'
    BY <1>2, <2>1 DEF Inv, ThreadInv, PlaceInv, BufferInv, SectionInv
  <2>4. HeldInv'
    BY <1>2, <2>1 DEF Inv, HeldInv, Exclusion
  <2>5. LineInv'
    BY <1>2, <2>1 DEF Inv, LineInv
  <2>. QED  BY <2>2, <2>3, <2>4, <2>5 DEF Inv
<1>3. TypeOK
  BY DEF Inv
<1>. QED
  BY <1>1, <1>2, <1>3, DrainStep DEF Next, Stop, JoinAndFree, Terminated, vars, TypeOK

LEMMA SameBuild == [Next]_vars => build' = build
BY DEF Next, ThreadStep, Drain, CmpXchg, TakeTurn, ResetWaiting, WaitTurn, AssertInCS,
   Increment, ClearInCS, UnlockStore, Serve, ResetServing, Loop, Stop, JoinAndFree,
   Terminated, vars

(* The inductive invariant holds in every reachable state.                 *)
THEOREM Inductive == Spec => []IInv
<1>1. Init => IInv
  BY InitInv DEF IInv
<1>2. IInv /\ [Next]_vars => IInv'
  BY NextStep, SameBuild DEF IInv, Tame
<1>. QED  BY <1>1, <1>2, PTL DEF Spec

(* Types: an int stays an int over the overflow, in_cs stays below 4.      *)
THEOREM TypeCorrect ==
  ASSUME ResetAlone
  PROVE  Spec => []TypeOK
<1>1. IInv => TypeOK
  BY DEF IInv, Tame, Inv
<1>. QED  BY <1>1, Inductive, PTL

(* The asserts of get_in_line() hold, of spin lock and fair lock for any   *)
(* number of threads, of problem_5.c for one.                              *)
THEOREM AssertsHold ==
  ASSUME ResetAlone
  PROVE  Spec => []NoAssertFails
<1>1. IInv => NoAssertFails
  BY DEF IInv, Tame, Inv, ThreadInv, PlaceInv, NoAssertFails
<1>. QED  BY <1>1, Inductive, PTL

(* The fair lock lets in the thread that has been in line longest, however *)
(* often its counters overflow and whatever other programs there are.      *)
THEOREM ServedInOrderHolds == Spec => []ServedInOrder
<1>1. IInv => ServedInOrder
  BY DEF IInv, Tame, Inv, LineInv, ServedInOrder
<1>. QED  BY <1>1, Inductive, PTL

(* The turns of those in line follow one another from serving to waiting.  *)
THEOREM TurnsInLineHolds == Spec => []TurnsInLine
<1>1. IInv => TurnsInLine
  <2>. SUFFICES ASSUME Inv, build = "fair", NEW p \in 0 .. Len(line)
                PROVE  (IF p = Len(line) THEN mem["waiting"] ELSE my_turn[line[p + 1]])
                         = IF p = 0 THEN mem["serving"] ELSE Succ(my_turn[line[p]])
    BY DEF IInv, Tame, TurnsInLine
  <2>0. LineInv /\ TypeOK
    BY DEF Inv
  <2>1. Len(line) \in Nat /\ Len(line) <= 2 * IntMax + 2
    BY <2>0, LineLength DEF LineInv, TypeOK
  <2>2. (IF p = Len(line) THEN mem["waiting"] ELSE my_turn[line[p + 1]])
          = Turn(mem["serving"], p)
    <3>1. CASE p = Len(line)
      BY <2>0, <3>1 DEF LineInv
    <3>2. CASE p # Len(line)
      <4>1. p + 1 \in 1 .. Len(line) /\ (p + 1) - 1 = p
        BY <2>1, <3>2
      <4>. QED  BY <2>0, <3>2, <4>1 DEF LineInv
    <3>. QED  BY <3>1, <3>2
  <2>3. CASE p = 0
    <3>1. Turn(mem["serving"], 0) = mem["serving"]
      BY <2>0, IntMaxAssumption DEF Turn, TypeOK, Int32
    <3>. QED  BY <2>2, <2>3, <3>1
  <2>4. CASE p # 0
    <3>1. p \in 1 .. Len(line) /\ p - 1 \in Nat /\ p - 1 < 2 * IntMax + 2 /\ (p - 1) + 1 = p
      BY <2>1, <2>4, IntMaxAssumption
    <3>2. my_turn[line[p]] = Turn(mem["serving"], p - 1)
      BY <2>0, <3>1 DEF LineInv
    <3>3. Succ(Turn(mem["serving"], p - 1)) = Turn(mem["serving"], p)
      BY <2>0, <3>1, TurnAfter DEF TypeOK
    <3>. QED  BY <2>2, <2>4, <3>2, <3>3
  <2>. QED  BY <2>3, <2>4
<1>. QED  BY <1>1, Inductive, PTL

-----------------------------------------------------------------------------
(* The abstract mutex                                                      *)

(* One thread at a time changes its stage, as the mutex lets it.           *)
LEMMA StageStep ==
  ASSUME NEW t \in Thread, \A u \in Thread : u # t => stage'[u] = stage[u],
         \/ stage'[t] = stage[t]
         \/ stage[t] = "idle" /\ stage'[t] = "trying"
         \/ stage[t] = "held" /\ stage'[t] = "idle"
         \/ /\ stage[t] \in {"idle", "trying"} /\ stage'[t] = "held"
            /\ \A u \in Thread : u # t => stage[u] # "held"
  PROVE  [Lock!Next]_stage
<1>1. stage = [u \in Thread |-> stage[u]] /\ stage' = [u \in Thread |-> stage'[u]]
  BY DEF stage
<1>2. stage' = [stage EXCEPT ![t] = stage'[t]]
  BY <1>1
<1>3. CASE stage'[t] = stage[t]
  <2>1. stage' = stage
    BY <1>1, <1>3
  <2>. QED  BY <2>1
<1>4. CASE stage[t] = "idle" /\ stage'[t] = "trying"
  BY <1>2, <1>4 DEF Lock!Next, Lock!Request
<1>5. CASE stage[t] = "held" /\ stage'[t] = "idle"
  BY <1>2, <1>5 DEF Lock!Next, Lock!Release
<1>6. CASE /\ stage[t] \in {"idle", "trying"} /\ stage'[t] = "held"
           /\ \A u \in Thread : u # t => stage[u] # "held"
  <2>1. \A u \in Thread : stage[u] # "held"
    BY <1>6
  <2>2. Lock!Acquire(t) \/ Lock!TakeAtOnce(t)
    BY <1>2, <1>6, <2>1 DEF Lock!Acquire, Lock!TakeAtOnce
  <2>. QED  BY <2>2 DEF Lock!Next
<1>. QED  BY <1>3, <1>4, <1>5, <1>6

(* Who waits does not hold the lock.                                       *)
LEMMA WaitsWithout ==
  ASSUME Inv, NEW t \in Thread, pc[t] \in {"overflowed", "wait"}
  PROVE  ~ Held(t)
<1>1. build # "spin" /\ ~ InCS(t)
  BY DEF Inv, ThreadInv, PlaceInv, InCS, CSLabel
<1>. QED  BY <1>1, HeldInside

(* The stages follow each other as the mutex wants it.                     *)
LEMMA StageOrder ==
  ASSUME Inv, Inv', NEW t \in Thread, ThreadStep(t) \/ Drain(t)
  PROVE  /\ ~ (stage[t] = "held" /\ stage'[t] = "trying")
         /\ ~ (stage[t] = "trying" /\ stage'[t] = "idle")
<1>0. TypeOK /\ Base
  BY DEF Inv, Base
<1>1. ASSUME pc'[t] \in {"overflowed", "wait"}, Held(t) PROVE FALSE
  <2>1. pc[t] \in {"overflowed", "wait"} \/ TakeTurn(t)
    BY <1>0, <1>1 DEF ThreadStep, CmpXchg, TakeTurn, ResetWaiting, WaitTurn, AssertInCS,
       Increment, ClearInCS, UnlockStore, Serve, ResetServing, Loop, Drain, Goto, Enter, TypeOK
  <2>2. CASE TakeTurn(t)
    BY <1>0, <1>1, <2>2, EmptyBuffer DEF TakeTurn, Locked, InCS, CSLabel
  <2>. QED  BY <1>1, <2>1, <2>2, WaitsWithout
<1>2. ASSUME pc[t] \in {"overflowed", "wait"}
      PROVE  pc'[t] \in {"overflowed", "wait", "assert"}
  BY <1>0, <1>2 DEF ThreadStep, CmpXchg, TakeTurn, ResetWaiting, WaitTurn, AssertInCS,
     Increment, ClearInCS, UnlockStore, Serve, ResetServing, Loop, Drain, Goto, Enter, TypeOK
<1>3. pc'[t] = "assert" => Held(t)'
  BY DEF Held, InCS, CSLabel
<1>. QED  BY <1>1, <1>2, <1>3 DEF stage

(* Every step of the three programs is a step of the mutex or a stutter.   *)
LEMMA RefinesStep == Inv /\ Inv' /\ [Next]_vars => [Lock!Next]_stage
<1>. SUFFICES ASSUME Inv, Inv', [Next]_vars PROVE [Lock!Next]_stage
  OBVIOUS
<1>0. TypeOK /\ Exclusion'
  BY DEF Inv, HeldInv
<1>1. ASSUME NEW t \in Thread, ThreadStep(t) \/ Drain(t) PROVE [Lock!Next]_stage
  <2>1. \A u \in Thread : u # t => stage'[u] = stage[u]
    <3>. SUFFICES ASSUME NEW u \in Thread, u # t PROVE stage'[u] = stage[u]
      OBVIOUS
    <3>1. pc'[u] = pc[u] /\ sb'[u] = sb[u]
      BY <1>0, <1>1, OthersStill DEF Still
    <3>2. Held(u)' <=> Held(u)
      BY <3>1 DEF Held, InCS
    <3>. QED  BY <3>1, <3>2 DEF stage
  <2>2. stage[t] \in {"idle", "trying", "held"} /\ stage'[t] \in {"idle", "trying", "held"}
    BY DEF stage
  <2>3. stage'[t] = "held" => \A u \in Thread : u # t => stage[u] # "held"
    <3>. SUFFICES ASSUME stage'[t] = "held", NEW u \in Thread, u # t PROVE stage[u] # "held"
      OBVIOUS
    <3>1. Held(t)'
      BY DEF stage
    <3>2. ~ Held(u)'
      BY <1>0, <3>1 DEF Exclusion
    <3>3. stage'[u] # "held"
      BY <3>2 DEF stage
    <3>. QED  BY <2>1, <3>3
  <2>. QED  BY <1>1, <2>1, <2>2, <2>3, StageOrder, StageStep
<1>2. ASSUME UNCHANGED <<pc, sb>> PROVE [Lock!Next]_stage
  BY <1>2 DEF stage, Held, InCS
<1>. QED  BY <1>1, <1>2 DEF Next, Stop, JoinAndFree, Terminated, vars

(* The spin lock and the fair lock, for any number of threads, and         *)
(* problem_5.c for one, implement the safety part of the abstract mutex:   *)
(* no two threads are between lock and the store that gives it back, seen  *)
(* from memory.                                                            *)
THEOREM RefinesMutex ==
  ASSUME ResetAlone
  PROVE  Spec => ImplementsMutex
<1>1. Init => Lock!Init
  <2>. SUFFICES ASSUME Init PROVE Lock!Init
    OBVIOUS
  <2>1. \A t \in Thread : pc[t] \in {"start", "exit"} /\ sb[t] = <<>>
    BY DEF Init
  <2>2. \A t \in Thread : ~ Held(t)
    BY <2>1, NoneBuffered DEF Held, InCS, CSLabel
  <2>3. \A t \in Thread : stage[t] = "idle"
    BY <2>1, <2>2 DEF stage
  <2>. QED  BY <2>3 DEF Lock!Init, stage
<1>2. IInv /\ IInv' /\ [Next]_vars => [Lock!Next]_stage
  BY RefinesStep DEF IInv, Tame
<1>. QED  BY <1>1, <1>2, Inductive, PTL DEF Spec, ImplementsMutex, Lock!Spec
=============================================================================
