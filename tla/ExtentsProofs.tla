--------------------------- MODULE ExtentsProofs ---------------------------
(***************************************************************************)
(* Whatever the calls of the VFS do to each other, and whatever zones have *)
(* been freed in use, the words of the inodes stay well formed: extents    *)
(* reach over data zones only, their lengths fit, and no call is given a   *)
(* block outside of the data zones.  As long as no zone has been freed in  *)
(* use and no word stored late, a zone is in one place only, and none      *)
(* leaks.  For every number of files, calls, zones and words.              *)
(***************************************************************************)
EXTENDS Extents, TLAPS

(* What a call knows at each label.  In "extend" the word it found may be  *)
(* out of date, but it is still one of a file, at an offset with a word    *)
(* after it, or there was none.                                            *)
CallInv(p) ==
  LET c == call[p]
  IN  /\ IF c.pc = "idle" THEN c = Idle ELSE c.file \in File
      /\ c.pc = "scan" => c.sum <= c.sector /\ c.sector <= NBLOCKS_INODE_MAX
      /\ c.pc \in {"last", "reload", "extend", "mapped", "zero"} => c.zone \in Zone
      /\ c.pc = "reload" => c.slot > 0
      /\ c.pc = "extend" => c.offset + 1 < DIRECT /\ (c.offset = -1 => c.last = Free)
      /\ c.pc = "free" => c.todo > 0 /\ c.zone + c.todo <= NZones + MAX_LEN + 1

WordInv == \A f \in File : \A i \in Slot : Span(i_data[f][i]) \subseteq Zone

(* The inductive invariant.                                                *)
IInv == TypeOK /\ WordInv /\ \A p \in Process : CallInv(p)

(* What a call may be, see TypeOK.                                         *)
Call ==
  [pc : {"idle", "scan", "new", "last", "reload", "extend", "mapped", "full",
         "truncate", "zero", "free"},
   op : {"none", "write", "writepage", "read", "truncate"},
   file : File \cup {NoFile}, sector : Sector \cup {0}, slot : Slot,
   sum : 0 .. NBLOCKS_INODE_MAX, zone : 0 .. NZones + MAX_LEN + 1, last : Word,
   offset : -1 .. DIRECT - 1, todo : 0 .. MAX_LEN + 2]

-----------------------------------------------------------------------------

(* The bounds as numbers.                                                  *)
LEMMA Bounds ==
  /\ NBLOCKS_INODE_MAX \in Nat
  /\ 0 \in Slot
  /\ Zone \subseteq 2 .. NZones - 1
  /\ Free \in Word /\ Span(Free) = {}
  /\ Idle \in Call
<1>1. NBLOCKS_INODE_MAX \in Nat
  BY ZoneAssumption DEF NBLOCKS_INODE_MAX
<1>2. 0 \in Slot
  BY ZoneAssumption DEF Slot
<1>3. Zone \subseteq 2 .. NZones - 1
  BY ZoneAssumption DEF Zone
<1>4. Free \in Word /\ Span(Free) = {}
  BY DEF Free, Word, Span
<1>5. Idle \in Call
  BY <1>1, <1>2, <1>4, ZoneAssumption DEF Idle, Call
<1> QED
  BY <1>1, <1>2, <1>3, <1>4, <1>5

(* A word that is stored keeps the invariant of the words.                 *)
LEMMA StoreWord ==
  ASSUME IInv, NEW f \in File, NEW i \in Slot, NEW w \in Word,
         Span(w) \subseteq Zone,
         i_data' = [i_data EXCEPT ![f][i] = w]
  PROVE  i_data' \in [File -> [Slot -> Word]] /\ WordInv'
  BY DEF IInv, TypeOK, WordInv

(* A call that changes only its own record keeps the invariant if the new  *)
(* record does.                                                            *)
LEMMA OneCall ==
  ASSUME IInv, NEW p \in Process, NEW c \in Call,
         call' = [call EXCEPT ![p] = c],
         zmap' \subseteq Zone,
         i_data' \in [File -> [Slot -> Word]], WordInv',
         {damaged, raced, overrun}' \subseteq BOOLEAN,
         CallInv(p)'
  PROVE  IInv'
<1>1. call \in [Process -> Call]
  BY DEF IInv, TypeOK, Call
<1>2. call' \in [Process -> Call]
  BY <1>1
<1>3. TypeOK'
  BY <1>2 DEF TypeOK, Call
<1>4. ASSUME NEW q \in Process PROVE CallInv(q)'
  <2>1. CASE q = p
    BY <2>1
  <2>2. CASE q # p
    <3>1. call'[q] = call[q]
      BY <2>2, <1>1
    <3> QED
      BY <3>1 DEF IInv, CallInv
  <2> QED
    BY <2>1, <2>2
<1> QED
  BY <1>3, <1>4 DEF IInv

(* The words are not touched.                                              *)
LEMMA WordsStill ==
  ASSUME IInv, UNCHANGED i_data
  PROVE  i_data' \in [File -> [Slot -> Word]] /\ WordInv'
  BY DEF IInv, TypeOK, WordInv

LEMMA ReturnKeeps ==
  ASSUME IInv, NEW p \in Process, Return(p),
         zmap' \subseteq Zone, UNCHANGED i_data,
         {damaged, raced, overrun}' \subseteq BOOLEAN
  PROVE  IInv'
<1>1. call'[p] = Idle
  BY DEF Return, IInv, TypeOK
<1>2. CallInv(p)'
  BY <1>1 DEF CallInv, Idle
<1> QED
  BY <1>2, OneCall, WordsStill, Bounds DEF Return

-----------------------------------------------------------------------------
(* Each action                                                             *)

(* The record of a call.                                                   *)
LEMMA Record ==
  ASSUME IInv, NEW p \in Process
  PROVE  /\ call \in [Process -> Call]
         /\ call[p] \in Call
         /\ CallInv(p)
         /\ {damaged, raced, overrun} \subseteq BOOLEAN
         /\ zmap \subseteq Zone
BY DEF IInv, TypeOK, Call

(* The words of the inode of a call.                                       *)
LEMMA Words ==
  ASSUME IInv, NEW f \in File, NEW i \in Slot
  PROVE  i_data[f][i] \in Word /\ Span(i_data[f][i]) \subseteq Zone
BY DEF IInv, TypeOK, WordInv

(* The numbers in a record and in a word.                                  *)
LEMMA Numbers ==
  ASSUME NEW c \in Call
  PROVE  /\ c.sector \in Nat /\ c.sum \in Nat /\ c.slot \in Nat /\ c.slot < DIRECT
         /\ c.zone \in Nat /\ c.todo \in Nat /\ c.offset \in Int
<1>1. c.sector \in Nat
  <2>1. c.sector \in Sector \cup {0}
    BY DEF Call
  <2>2. ASSUME NEW s \in Sector \cup {0} PROVE s \in Nat
    BY ZoneAssumption
  <2> QED
    BY <2>1, <2>2, Zenon
<1>2. c.slot \in Nat /\ c.slot < DIRECT
  BY ZoneAssumption DEF Call, Slot
<1>3. c.sum \in Nat /\ c.zone \in Nat /\ c.todo \in Nat /\ c.offset \in Int
  <2>1. c.sum \in 0 .. NBLOCKS_INODE_MAX /\ c.zone \in 0 .. NZones + MAX_LEN + 1
        /\ c.todo \in 0 .. MAX_LEN + 2 /\ c.offset \in -1 .. DIRECT - 1
    BY DEF Call
  <2> QED
    BY <2>1
<1> QED
  BY <1>1, <1>2, <1>3

LEMMA WordNumbers ==
  ASSUME NEW w \in Word
  PROVE  w.bg \in Nat /\ w.len \in Nat /\ (w.len > 0 => w.bg > 0)
BY ZoneAssumption DEF Word, Free, Zone

LEMMA GetBlockStep ==
  ASSUME IInv, NEW p \in Process, NEW op \in {"write", "writepage", "read"},
         NEW f \in File, NEW s \in Sector, GetBlock(p, op, f, s)
  PROVE  IInv'
<1> DEFINE c == [call[p] EXCEPT !.pc = "scan", !.op = op, !.file = f, !.sector = s]
<1>1. call' = [call EXCEPT ![p] = c]
  BY Record DEF GetBlock
<1>2. c \in Call
  BY Record DEF Call
<1>3. c.sum = 0 /\ c.sector = s /\ c.pc = "scan" /\ c.file = f
  BY Record DEF CallInv, Idle, GetBlock, Call
<1>4. CallInv(p)'
  <2>1. call'[p] = c
    BY <1>1, Record
  <2>2. 0 <= s /\ s <= NBLOCKS_INODE_MAX
    BY ZoneAssumption DEF GetBlock
  <2> HIDE DEF c
  <2> QED
    BY <2>1, <2>2, <1>3 DEF CallInv
<1> HIDE DEF c
<1> QED
  BY <1>1, <1>2, <1>4, OneCall, WordsStill, Record DEF GetBlock

LEMMA TruncateStep ==
  ASSUME IInv, NEW p \in Process, NEW f \in File, Truncate(p, f)
  PROVE  IInv'
<1> DEFINE c == [call[p] EXCEPT !.pc = "truncate", !.op = "truncate", !.file = f]
<1>1. call' = [call EXCEPT ![p] = c]
  BY Record DEF Truncate
<1>2. c \in Call
  BY Record DEF Call
<1>3. c.pc = "truncate" /\ c.file = f
  BY Record DEF Call
<1>4. CallInv(p)'
  <2>1. call'[p] = c
    BY <1>1, Record
  <2> HIDE DEF c
  <2> QED
    BY <2>1, <1>3 DEF CallInv
<1> HIDE DEF c
<1> QED
  BY <1>1, <1>2, <1>4, OneCall, WordsStill, Record DEF Truncate

LEMMA GetBlockValueStep ==
  ASSUME IInv, NEW p \in Process, GetBlockValue(p)
  PROVE  IInv'
<1> DEFINE old == call[p]
           w == i_data[old.file][old.slot]
<1>1. old \in Call /\ old.pc = "scan" /\ old.file \in File /\ old.slot \in Slot
  BY Record DEF GetBlockValue, CallInv, Call
<1>2. w \in Word /\ Span(w) \subseteq Zone
  BY <1>1, Words
<1>3. old.sum \in Nat /\ old.sector \in Nat /\ old.sum <= old.sector
      /\ old.sector <= NBLOCKS_INODE_MAX
  BY <1>1, Record, Numbers DEF CallInv
<1>0. w.bg \in Nat /\ w.len \in Nat /\ (w.len > 0 => w.bg > 0)
  BY <1>2, WordNumbers
<1>4. CASE old.sum + w.len > old.sector
           /\ call' = [call EXCEPT ![p].pc = "mapped", ![p].slot = 0, ![p].sum = 0,
                                   ![p].zone = w.bg + old.sector - old.sum]
  <2> DEFINE c == [old EXCEPT !.pc = "mapped", !.slot = 0, !.sum = 0,
                              !.zone = w.bg + old.sector - old.sum]
  <2>1. w.bg + old.sector - old.sum \in Span(w)
    <3> HIDE DEF w, old
    <3> QED
      BY <1>0, <1>3, <1>4 DEF Span
  <2>2. w.bg + old.sector - old.sum \in Zone
    BY <2>1, <1>2
  <2>3. w.bg + old.sector - old.sum \in 0 .. NZones + MAX_LEN + 1
    BY <2>2, ZoneAssumption DEF Zone
  <2>4. call' = [call EXCEPT ![p] = c]
    BY <1>4, Record
  <2>5. c \in Call
    <3>1. 0 \in Slot /\ 0 \in 0 .. NBLOCKS_INODE_MAX
      BY Bounds
    <3> DEFINE z == w.bg + old.sector - old.sum
    <3>2. z \in 0 .. NZones + MAX_LEN + 1
      BY <2>3
    <3> HIDE DEF z
    <3>3. [old EXCEPT !.pc = "mapped", !.slot = 0, !.sum = 0, !.zone = z] \in Call
      BY <1>1, <3>1, <3>2 DEF Call
    <3> QED
      BY <3>3 DEF z
  <2>6. c.pc = "mapped" /\ c.file = old.file /\ c.zone \in Zone
    BY <1>1, <2>2 DEF Call
  <2>7. call'[p] = c
    BY <2>4, Record
  <2> HIDE DEF c
  <2>8. CallInv(p)'
    BY <2>6, <2>7, <1>1 DEF CallInv
  <2> QED
    BY <2>4, <2>5, <2>8, OneCall, WordsStill, Record DEF GetBlockValue
<1>5. CASE old.sum + w.len <= old.sector /\ old.slot + 1 < DIRECT
           /\ call' = [call EXCEPT ![p].slot = old.slot + 1, ![p].sum = old.sum + w.len]
  <2> DEFINE c == [old EXCEPT !.slot = old.slot + 1, !.sum = old.sum + w.len]
  <2>1. old.slot + 1 \in Slot
    BY <1>1, <1>5, ZoneAssumption DEF Slot
  <2>2. old.sum + w.len \in 0 .. NBLOCKS_INODE_MAX
    BY <1>2, <1>3, <1>5, Bounds, ZoneAssumption DEF Word, Free
  <2>3. call' = [call EXCEPT ![p] = c]
    BY <1>5, Record
  <2>4. c \in Call
    BY <1>1, <2>1, <2>2 DEF Call
  <2>5. c.pc = "scan" /\ c.file = old.file /\ c.sum <= c.sector /\ c.sector = old.sector
    BY <1>1, <1>5 DEF Call
  <2>6. call'[p] = c
    BY <2>3, Record
  <2> HIDE DEF c
  <2>7. CallInv(p)'
    BY <2>5, <2>6, <1>1, <1>3 DEF CallInv
  <2> QED
    BY <2>3, <2>4, <2>7, OneCall, WordsStill, Record DEF GetBlockValue
<1>6. CASE call' = [call EXCEPT ![p].pc = "new", ![p].slot = 0, ![p].sum = 0]
  <2> DEFINE c == [old EXCEPT !.pc = "new", !.slot = 0, !.sum = 0]
  <2>1. call' = [call EXCEPT ![p] = c]
    BY <1>6, Record
  <2>2. c \in Call
    <3>1. 0 \in Slot /\ 0 \in 0 .. NBLOCKS_INODE_MAX
      BY Bounds
    <3> QED
      BY <1>1, <3>1 DEF Call
  <2>3. c.pc = "new" /\ c.file = old.file
    BY <1>1 DEF Call
  <2>4. call'[p] = c
    BY <2>1, Record
  <2> HIDE DEF c
  <2>5. CallInv(p)'
    BY <2>3, <2>4, <1>1 DEF CallInv
  <2> QED
    BY <2>1, <2>2, <2>5, OneCall, WordsStill, Record DEF GetBlockValue
<1>7. CASE Return(p)
  BY <1>7, ReturnKeeps, Record DEF GetBlockValue
<1> QED
  BY <1>4, <1>5, <1>6, <1>7 DEF GetBlockValue

LEMMA NewBlockStep ==
  ASSUME IInv, NEW p \in Process, NewBlock(p)
  PROVE  IInv'
<1> DEFINE old == call[p]
<1>1. old \in Call /\ old.pc = "new" /\ old.file \in File
  BY Record DEF NewBlock, CallInv
<1>2. ASSUME NEW z \in Zone, zmap' = zmap \cup {z},
             call' = [call EXCEPT ![p].pc = "last", ![p].zone = z]
      PROVE  IInv'
  <2> DEFINE c == [old EXCEPT !.pc = "last", !.zone = z]
  <2>1. z \in 0 .. NZones + MAX_LEN + 1
    BY ZoneAssumption DEF Zone
  <2>2. call' = [call EXCEPT ![p] = c]
    BY <1>2, Record
  <2>3. c \in Call
    BY <1>1, <2>1 DEF Call
  <2>4. c.pc = "last" /\ c.file = old.file /\ c.zone = z
    BY <1>1 DEF Call
  <2>5. call'[p] = c
    BY <2>2, Record
  <2> HIDE DEF c
  <2>6. CallInv(p)'
    BY <2>4, <2>5, <1>1 DEF CallInv
  <2> QED
    BY <1>2, <2>2, <2>3, <2>6, OneCall, WordsStill, Record DEF NewBlock
<1>3. CASE call' = [call EXCEPT ![p].pc = "full"] /\ UNCHANGED zmap
  <2> DEFINE c == [old EXCEPT !.pc = "full"]
  <2>1. call' = [call EXCEPT ![p] = c]
    BY <1>3, Record
  <2>2. c \in Call
    BY <1>1 DEF Call
  <2>3. c.pc = "full" /\ c.file = old.file
    BY <1>1 DEF Call
  <2>4. call'[p] = c
    BY <2>1, Record
  <2> HIDE DEF c
  <2>5. CallInv(p)'
    BY <2>3, <2>4, <1>1 DEF CallInv
  <2> QED
    BY <1>3, <2>1, <2>2, <2>5, OneCall, WordsStill, Record DEF NewBlock
<1> QED
  BY <1>2, <1>3 DEF NewBlock

LEMMA GetLastExtentStep ==
  ASSUME IInv, NEW p \in Process, GetLastExtent(p)
  PROVE  IInv'
<1> DEFINE old == call[p]
           w == i_data[old.file][old.slot]
<1>1. old \in Call /\ old.pc = "last" /\ old.file \in File /\ old.zone \in Zone
  BY Record DEF GetLastExtent, CallInv
<1>2. CASE w.bg = 0 /\ old.slot > 0 /\ call' = [call EXCEPT ![p].pc = "reload"]
  <2> DEFINE c == [old EXCEPT !.pc = "reload"]
  <2>1. call' = [call EXCEPT ![p] = c]
    BY <1>2, Record
  <2>2. c \in Call
    BY <1>1 DEF Call
  <2>3. c.pc = "reload" /\ c.file = old.file /\ c.zone = old.zone /\ c.slot > 0
    BY <1>1, <1>2 DEF Call
  <2>4. call'[p] = c
    BY <2>1, Record
  <2> HIDE DEF c
  <2>5. CallInv(p)'
    BY <2>3, <2>4, <1>1 DEF CallInv
  <2> QED
    BY <2>1, <2>2, <2>5, OneCall, WordsStill, Record DEF GetLastExtent
<1>3. CASE old.slot + 1 < DIRECT /\ call' = [call EXCEPT ![p].slot = old.slot + 1]
  <2> DEFINE c == [old EXCEPT !.slot = old.slot + 1]
  <2>1. call' = [call EXCEPT ![p] = c]
    BY <1>3, Record
  <2>2. old.slot + 1 \in Slot
    BY <1>1, <1>3, Numbers, ZoneAssumption DEF Slot
  <2>3. c \in Call
    BY <1>1, <2>2 DEF Call
  <2>4. c.pc = "last" /\ c.file = old.file /\ c.zone = old.zone
    BY <1>1 DEF Call
  <2>5. call'[p] = c
    BY <2>1, Record
  <2> HIDE DEF c
  <2>6. CallInv(p)'
    BY <2>4, <2>5, <1>1 DEF CallInv
  <2> QED
    BY <2>1, <2>3, <2>6, OneCall, WordsStill, Record DEF GetLastExtent
<1>4. CASE call' = [call EXCEPT ![p].pc = "extend", ![p].last = Free,
                               ![p].offset = -1, ![p].slot = 0]
  <2> DEFINE c == [old EXCEPT !.pc = "extend", !.last = Free, !.offset = -1, !.slot = 0]
  <2>1. call' = [call EXCEPT ![p] = c]
    BY <1>4, Record
  <2>2. 0 \in Slot /\ Free \in Word /\ -1 \in -1 .. DIRECT - 1
    BY Bounds, ZoneAssumption
  <2>3. c \in Call
    BY <1>1, <2>2 DEF Call
  <2>4. c.pc = "extend" /\ c.file = old.file /\ c.zone = old.zone /\ c.last = Free
        /\ c.offset = -1
    BY <1>1 DEF Call
  <2>5. call'[p] = c
    BY <2>1, Record
  <2> HIDE DEF c
  <2>6. CallInv(p)'
    BY <2>4, <2>5, <1>1, ZoneAssumption DEF CallInv
  <2> QED
    BY <2>1, <2>3, <2>6, OneCall, WordsStill, Record DEF GetLastExtent
<1> QED
  BY <1>2, <1>3, <1>4 DEF GetLastExtent

LEMMA ReloadLastStep ==
  ASSUME IInv, NEW p \in Process, ReloadLast(p)
  PROVE  IInv'
<1> DEFINE old == call[p]
           w == i_data[old.file][old.slot - 1]
           c == [old EXCEPT !.pc = "extend", !.slot = 0, !.last = w,
                            !.offset = old.slot - 1]
<1>1. old \in Call /\ old.pc = "reload" /\ old.file \in File /\ old.zone \in Zone
      /\ old.slot > 0
  BY Record DEF ReloadLast, CallInv
<1>2. old.slot - 1 \in Slot /\ old.slot - 1 \in -1 .. DIRECT - 1 /\ old.slot < DIRECT
  BY <1>1, Numbers, ZoneAssumption DEF Slot
<1>3. w \in Word /\ 0 \in Slot
  BY <1>1, <1>2, Words, Bounds
<1>4. call' = [call EXCEPT ![p] = c]
  BY Record DEF ReloadLast
<1>5. c \in Call
  <2> HIDE DEF w
  <2> QED
    BY <1>1, <1>2, <1>3 DEF Call
<1>6. c.pc = "extend" /\ c.file = old.file /\ c.zone = old.zone
      /\ c.offset = old.slot - 1
  BY <1>1 DEF Call
<1>7. call'[p] = c
  BY <1>4, Record
<1>8. old.slot \in Nat
  BY <1>1, Numbers
<1> HIDE DEF c
<1>9. CallInv(p)'
  BY <1>1, <1>2, <1>6, <1>7, <1>8 DEF CallInv
<1> QED
  BY <1>4, <1>5, <1>9, OneCall, WordsStill, Record DEF ReloadLast

(* The word that alloc_extent() stores: made longer it still ends at the   *)
(* zone of the call, which is a data zone.                                 *)
LEMMA ExtendStep ==
  ASSUME IInv, NEW p \in Process, Extend(p)
  PROVE  IInv'
<1> DEFINE old == call[p]
           contiguous == old.zone = old.last.bg + old.last.len + 1
                         /\ old.last.len + 1 < MAX_LEN
           slot == IF contiguous THEN old.offset ELSE old.offset + 1
           word == IF contiguous
                   THEN [bg |-> old.last.bg, len |-> old.last.len + 1]
                   ELSE [bg |-> old.zone, len |-> 0]
           c == [old EXCEPT !.pc = "mapped", !.last = Free, !.offset = -1]
<1>1. old \in Call /\ old.pc = "extend" /\ old.file \in File /\ old.zone \in Zone
      /\ old.offset + 1 < DIRECT /\ (old.offset = -1 => old.last = Free)
  BY Record DEF Extend, CallInv
<1>2. old.last \in Word /\ old.offset \in -1 .. DIRECT - 1
  BY <1>1 DEF Call
<1>3. old.last.bg \in Nat /\ old.last.len \in Nat
  BY <1>2, WordNumbers
<1>4. old.zone \in Nat /\ old.zone >= 2 /\ old.zone < NZones
  BY <1>1, ZoneAssumption DEF Zone
<1>5. contiguous => old.last # Free
  BY <1>4 DEF Free
<1>6. contiguous => old.last.bg \in Zone
  BY <1>2, <1>5 DEF Word
<1>7. slot \in Slot
  BY <1>1, <1>2, <1>5, ZoneAssumption DEF Slot
<1>8. word \in Word
  <2>1. CASE contiguous
    <3>1. old.last.len + 1 \in 0 .. MAX_LEN - 1
      BY <2>1, <1>3, ZoneAssumption
    <3> QED
      BY <2>1, <3>1, <1>6 DEF Word
  <2>2. CASE ~ contiguous
    <3>1. 0 \in 0 .. MAX_LEN - 1
      BY ZoneAssumption
    <3> QED
      BY <2>2, <3>1, <1>1 DEF Word
  <2> QED
    BY <2>1, <2>2
<1>9. Span(word) \subseteq Zone
  <2>1. CASE contiguous
    <3>1. Span(word) \subseteq old.last.bg .. old.zone
      BY <2>1, <1>3 DEF Span
    <3> QED
      BY <2>1, <3>1, <1>3, <1>4, <1>6, ZoneAssumption DEF Zone
  <2>2. CASE ~ contiguous
    BY <2>2, <1>1, <1>4 DEF Span
  <2> QED
    BY <2>1, <2>2
<1>10. i_data' = [i_data EXCEPT ![old.file][slot] = word]
  BY DEF Extend
<1>11. i_data' \in [File -> [Slot -> Word]] /\ WordInv'
  <2> HIDE DEF slot, word, old
  <2> QED
    BY <1>1, <1>7, <1>8, <1>9, <1>10, StoreWord
<1>12. call' = [call EXCEPT ![p] = c]
  BY Record DEF Extend
<1>13. c \in Call
  <2>1. Free \in Word /\ -1 \in -1 .. DIRECT - 1
    BY Bounds, ZoneAssumption
  <2> QED
    BY <1>1, <2>1 DEF Call
<1>14. c.pc = "mapped" /\ c.file = old.file /\ c.zone = old.zone
  BY <1>1 DEF Call
<1>15. call'[p] = c
  BY <1>12, Record
<1>16. {damaged, raced, overrun}' \subseteq BOOLEAN /\ zmap' \subseteq Zone
  BY Record DEF Extend
<1> HIDE DEF c
<1>17. CallInv(p)'
  BY <1>1, <1>14, <1>15 DEF CallInv
<1> QED
  BY <1>11, <1>12, <1>13, <1>16, <1>17, OneCall

LEMMA MapBlockStep ==
  ASSUME IInv, NEW p \in Process, MapBlock(p)
  PROVE  IInv'
BY ReturnKeeps, Record DEF MapBlock

LEMMA NoSpaceStep ==
  ASSUME IInv, NEW p \in Process, NoSpace(p)
  PROVE  IInv'
<1> DEFINE old == call[p]
           c == [old EXCEPT !.pc = "truncate", !.op = "truncate", !.sector = 0]
<1>1. old \in Call /\ old.file \in File
  BY Record DEF NoSpace, CallInv
<1>2. zmap' \subseteq Zone /\ {damaged, raced, overrun}' \subseteq BOOLEAN
  BY Record DEF NoSpace, FreeBlock
<1>3. CASE Return(p)
  BY <1>2, <1>3, ReturnKeeps DEF NoSpace
<1>4. CASE call' = [call EXCEPT ![p].pc = "truncate", ![p].op = "truncate",
                               ![p].sector = 0]
  <2>1. call' = [call EXCEPT ![p] = c]
    BY <1>4, Record
  <2>2. c \in Call
    BY <1>1 DEF Call
  <2>3. c.pc = "truncate" /\ c.file = old.file
    BY <1>1 DEF Call
  <2>4. call'[p] = c
    BY <2>1, Record
  <2> HIDE DEF c
  <2>5. CallInv(p)'
    BY <2>3, <2>4, <1>1 DEF CallInv
  <2> QED
    BY <1>2, <2>1, <2>2, <2>5, OneCall, WordsStill DEF NoSpace
<1> QED
  BY <1>3, <1>4 DEF NoSpace

LEMMA LoadWordStep ==
  ASSUME IInv, NEW p \in Process, LoadWord(p)
  PROVE  IInv'
<1> DEFINE old == call[p]
           w == i_data[old.file][old.slot]
<1>1. old \in Call /\ old.pc = "truncate" /\ old.file \in File /\ old.slot \in Slot
  BY Record DEF LoadWord, CallInv, Call
<1>2. w \in Word
  BY <1>1, Words
<1>3. CASE w.bg # 0 /\ call' = [call EXCEPT ![p].pc = "zero", ![p].zone = w.bg]
  <2> DEFINE z == w.bg
             c == [old EXCEPT !.pc = "zero", !.zone = z]
  <2>1. z \in Zone
    BY <1>2, <1>3 DEF Word, Free
  <2>2. z \in 0 .. NZones + MAX_LEN + 1
    BY <2>1, ZoneAssumption DEF Zone
  <2>3. call' = [call EXCEPT ![p] = c]
    BY <1>3, Record
  <2> HIDE DEF z
  <2>4. c \in Call
    BY <1>1, <2>2 DEF Call
  <2>5. c.pc = "zero" /\ c.file = old.file /\ c.zone = z
    BY <1>1 DEF Call
  <2>6. call'[p] = c
    BY <2>3, Record
  <2> HIDE DEF c
  <2>7. CallInv(p)'
    BY <2>1, <2>5, <2>6, <1>1 DEF CallInv
  <2> QED
    BY <2>3, <2>4, <2>7, OneCall, WordsStill, Record DEF LoadWord
<1>4. CASE old.slot + 1 < DIRECT /\ call' = [call EXCEPT ![p].slot = old.slot + 1]
  <2> DEFINE c == [old EXCEPT !.slot = old.slot + 1]
  <2>1. call' = [call EXCEPT ![p] = c]
    BY <1>4, Record
  <2>2. old.slot + 1 \in Slot
    BY <1>1, <1>4, ZoneAssumption DEF Slot
  <2>3. c \in Call
    BY <1>1, <2>2 DEF Call
  <2>4. c.pc = "truncate" /\ c.file = old.file
    BY <1>1 DEF Call
  <2>5. call'[p] = c
    BY <2>1, Record
  <2> HIDE DEF c
  <2>6. CallInv(p)'
    BY <2>4, <2>5, <1>1 DEF CallInv
  <2> QED
    BY <2>1, <2>3, <2>6, OneCall, WordsStill, Record DEF LoadWord
<1>5. CASE Return(p)
  BY <1>5, ReturnKeeps, Record DEF LoadWord
<1> QED
  BY <1>3, <1>4, <1>5 DEF LoadWord

LEMMA ZeroWordStep ==
  ASSUME IInv, NEW p \in Process, ZeroWord(p)
  PROVE  IInv'
<1> DEFINE old == call[p]
           c == [old EXCEPT !.pc = "free", !.todo = MAX_LEN + 2]
<1>1. old \in Call /\ old.file \in File /\ old.slot \in Slot /\ old.zone \in Zone
  BY Record DEF ZeroWord, CallInv, Call
<1>2. i_data' \in [File -> [Slot -> Word]] /\ WordInv'
  <2>1. i_data' = [i_data EXCEPT ![old.file][old.slot] = Free]
    BY DEF ZeroWord
  <2>2. Free \in Word /\ Span(Free) \subseteq Zone
    BY Bounds
  <2> HIDE DEF old
  <2> QED
    BY <1>1, <2>1, <2>2, StoreWord
<1>3. call' = [call EXCEPT ![p] = c]
  BY Record DEF ZeroWord
<1>4. c \in Call
  <2>1. MAX_LEN + 2 \in 0 .. MAX_LEN + 2
    BY ZoneAssumption
  <2> QED
    BY <1>1, <2>1 DEF Call
<1>5. c.pc = "free" /\ c.file = old.file /\ c.zone = old.zone /\ c.todo = MAX_LEN + 2
  BY <1>1 DEF Call
<1>6. old.zone + (MAX_LEN + 2) <= NZones + MAX_LEN + 1
  BY <1>1, ZoneAssumption DEF Zone
<1>7. call'[p] = c
  BY <1>3, Record
<1>8. {damaged, raced, overrun}' \subseteq BOOLEAN /\ zmap' \subseteq Zone
  BY Record DEF ZeroWord
<1> HIDE DEF c
<1>9. CallInv(p)'
  BY <1>1, <1>5, <1>6, <1>7, ZoneAssumption DEF CallInv
<1> QED
  BY <1>2, <1>3, <1>4, <1>8, <1>9, OneCall

(* The numbers that truncate() frees leave the data zones, but by no more  *)
(* than the length of its loop.                                            *)
LEMMA FreeZonesStep ==
  ASSUME IInv, NEW p \in Process, FreeZones(p)
  PROVE  IInv'
<1> DEFINE old == call[p]
<1>1. old \in Call /\ old.pc = "free" /\ old.file \in File /\ old.slot \in Slot
      /\ old.todo > 0 /\ old.zone + old.todo <= NZones + MAX_LEN + 1
  BY Record DEF FreeZones, CallInv, Call
<1>2. zmap' \subseteq Zone /\ {damaged, raced, overrun}' \subseteq BOOLEAN
  BY Record DEF FreeZones, FreeBlock
<1>3. old.zone \in Nat /\ old.todo \in Nat /\ old.todo <= MAX_LEN + 2
  <2>1. old.zone \in 0 .. NZones + MAX_LEN + 1 /\ old.todo \in 0 .. MAX_LEN + 2
    BY <1>1 DEF Call
  <2> QED
    BY <2>1
<1>4. CASE old.todo > 1
           /\ call' = [call EXCEPT ![p].zone = old.zone + 1, ![p].todo = old.todo - 1]
  <2> DEFINE c == [old EXCEPT !.zone = old.zone + 1, !.todo = old.todo - 1]
  <2>1. call' = [call EXCEPT ![p] = c]
    BY <1>4, Record
  <2>2. old.zone + 1 \in 0 .. NZones + MAX_LEN + 1 /\ old.todo - 1 \in 0 .. MAX_LEN + 2
    BY <1>1, <1>3, <1>4, ZoneAssumption
  <2>3. c \in Call
    BY <1>1, <2>2 DEF Call
  <2>4. c.pc = "free" /\ c.file = old.file /\ c.zone = old.zone + 1
        /\ c.todo = old.todo - 1
    BY <1>1 DEF Call
  <2>5. call'[p] = c
    BY <2>1, Record
  <2>6. old.todo - 1 > 0 /\ (old.zone + 1) + (old.todo - 1) <= NZones + MAX_LEN + 1
    BY <1>1, <1>3, <1>4, ZoneAssumption
  <2> HIDE DEF c
  <2>7. CallInv(p)'
    BY <2>4, <2>5, <2>6, <1>1 DEF CallInv
  <2> QED
    BY <1>2, <2>1, <2>3, <2>7, OneCall, WordsStill DEF FreeZones
<1>5. CASE old.slot + 1 < DIRECT
           /\ call' = [call EXCEPT ![p].pc = "truncate", ![p].zone = 0,
                                   ![p].todo = 0, ![p].slot = old.slot + 1]
  <2> DEFINE c == [old EXCEPT !.pc = "truncate", !.zone = 0, !.todo = 0,
                              !.slot = old.slot + 1]
  <2>1. call' = [call EXCEPT ![p] = c]
    BY <1>5, Record
  <2>2. old.slot + 1 \in Slot /\ 0 \in 0 .. NZones + MAX_LEN + 1 /\ 0 \in 0 .. MAX_LEN + 2
    BY <1>1, <1>5, ZoneAssumption DEF Slot
  <2>3. c \in Call
    BY <1>1, <2>2 DEF Call
  <2>4. c.pc = "truncate" /\ c.file = old.file
    BY <1>1 DEF Call
  <2>5. call'[p] = c
    BY <2>1, Record
  <2> HIDE DEF c
  <2>6. CallInv(p)'
    BY <2>4, <2>5, <1>1 DEF CallInv
  <2> QED
    BY <1>2, <2>1, <2>3, <2>6, OneCall, WordsStill DEF FreeZones
<1>6. CASE Return(p)
  BY <1>2, <1>6, ReturnKeeps DEF FreeZones
<1> QED
  BY <1>4, <1>5, <1>6 DEF FreeZones

-----------------------------------------------------------------------------
(* The theorems                                                            *)

LEMMA InitInv == Init => IInv
<1> SUFFICES ASSUME Init PROVE IInv
  OBVIOUS
<1>1. call \in [Process -> Call] /\ i_data \in [File -> [Slot -> Word]]
  BY Bounds DEF Init
<1>2. TypeOK
  BY <1>1 DEF Init, TypeOK, Call
<1>3. WordInv
  BY Bounds DEF Init, WordInv
<1>4. ASSUME NEW p \in Process PROVE CallInv(p)
  BY DEF Init, CallInv, Idle
<1> QED
  BY <1>2, <1>3, <1>4 DEF IInv

LEMMA NextInv == IInv /\ [Next]_vars => IInv'
<1> SUFFICES ASSUME IInv, [Next]_vars PROVE IInv'
  OBVIOUS
<1>1. CASE UNCHANGED vars
  BY <1>1 DEF vars, IInv, TypeOK, WordInv, CallInv
<1>2. ASSUME NEW p \in Process, Step(p) PROVE IInv'
  BY <1>2, GetBlockValueStep, NewBlockStep, GetLastExtentStep, ReloadLastStep,
     ExtendStep, MapBlockStep, NoSpaceStep, LoadWordStep, ZeroWordStep, FreeZonesStep
     DEF Step
<1> QED
  BY <1>1, <1>2, GetBlockStep, TruncateStep DEF Next

(* The invariant holds in every reachable state of any number of calls on  *)
(* any number of inodes: get_block(), truncate() and the bitmap.           *)
THEOREM Inductive == Spec => []IInv
BY InitInv, NextInv, PTL DEF Spec

(* Lengths fit the bits of a word, and each extent begins at a data zone:  *)
(* alloc_extent() stores no other words.                                   *)
THEOREM TypeCorrect == Spec => []TypeOK
<1>1. IInv => TypeOK
  BY DEF IInv
<1> QED
  BY <1>1, Inductive, PTL

(* get_block() gives out data zones only, and no extent reaches beyond     *)
(* them, also after truncate() has freed zones of other files.             *)
THEOREM InDataZonesHolds == Spec => []InDataZones
<1>1. IInv => InDataZones
  <2> SUFFICES ASSUME IInv PROVE InDataZones
    OBVIOUS
  <2>1. \A f \in File : Own(f) \subseteq Zone
    BY DEF IInv, WordInv, Own
  <2>2. \A p \in Process : call[p].pc = "mapped" => call[p].zone \in Zone
    BY DEF IInv, CallInv
  <2> QED
    BY <2>1, <2>2 DEF InDataZones
<1> QED
  BY <1>1, Inductive, PTL

-----------------------------------------------------------------------------
(* Zones in one place only                                                 *)

(* OwnedOnce and BusyAccounted, word by word and hand by hand.             *)
AllMarked ==
  /\ \A f \in File : \A i \in Slot : Span(i_data[f][i]) \subseteq zmap
  /\ \A p \in Process : Allocating(p) => call[p].zone \in zmap
SpansApart ==
  \A f, g \in File : \A i, j \in Slot :
    <<f, i>> # <<g, j>> => Span(i_data[f][i]) \cap Span(i_data[g][j]) = {}
HandsApart ==
  /\ \A p \in Process : Allocating(p) =>
       \A f \in File : \A i \in Slot : call[p].zone \notin Span(i_data[f][i])
  /\ \A p, q \in Process :
       Allocating(p) /\ Allocating(q) /\ p # q => call[p].zone # call[q].zone
Freeing(p, z) ==
  call[p].pc = "free" /\ z \in call[p].zone .. call[p].zone + call[p].todo - 1
Held(z) ==
  \/ \E f \in File : \E i \in Slot : z \in Span(i_data[f][i])
  \/ \E p \in Process : Allocating(p) /\ call[p].zone = z
  \/ \E p \in Process : Freeing(p, z)

OwnedPoints ==
  /\ OwnedOnce <=> (~damaged /\ ~raced => AllMarked /\ SpansApart /\ HandsApart)
  /\ BusyAccounted <=> (~raced /\ ~overrun => \A z \in zmap : Held(z))
  /\ \A z \in Zone :
       z \in InUse <=> \/ \E f \in File : \E i \in Slot : z \in Span(i_data[f][i])
                       \/ \E p \in Process : Allocating(p) /\ call[p].zone = z

LEMMA Points == OwnedPoints
<1>1. ASSUME NEW z
      PROVE  z \in InUse <=>
               \/ \E f \in File : \E i \in Slot : z \in Span(i_data[f][i])
               \/ \E p \in Process : Allocating(p) /\ call[p].zone = z
  <2>1. z \in InFlight <=> \E p \in Process : Allocating(p) /\ call[p].zone = z
    BY Zenon DEF InFlight
  <2>2. z \in UNION {Own(f) : f \in File}
          <=> \E f \in File : \E i \in Slot : z \in Span(i_data[f][i])
    <3>1. \A f \in File : z \in Own(f) <=> \E i \in Slot : z \in Span(i_data[f][i])
      BY Zenon DEF Own
    <3>2. z \in UNION {Own(f) : f \in File} <=> \E f \in File : z \in Own(f)
      BY Zenon
    <3> QED
      BY <3>1, <3>2
  <2> QED
    BY <2>1, <2>2 DEF InUse
<1>2. InUse \subseteq zmap <=> AllMarked
  <2>1. ASSUME InUse \subseteq zmap PROVE AllMarked
    BY <1>1, <2>1 DEF AllMarked
  <2>2. ASSUME AllMarked PROVE InUse \subseteq zmap
    BY <1>1, <2>2 DEF AllMarked
  <2> QED
    BY <2>1, <2>2
<1>3. \A p \in Process :
        (\A f \in File : call[p].zone \notin Own(f))
          <=> \A f \in File : \A i \in Slot : call[p].zone \notin Span(i_data[f][i])
  BY Zenon DEF Own
<1>4. OwnedOnce <=> (~damaged /\ ~raced => AllMarked /\ SpansApart /\ HandsApart)
  BY <1>2, <1>3 DEF OwnedOnce, SpansApart, HandsApart
<1>5. BusyAccounted <=> (~raced /\ ~overrun => \A z \in zmap : Held(z))
  BY <1>1 DEF BusyAccounted, Held, Freeing
<1> QED
  BY <1>1, <1>4, <1>5 DEF OwnedPoints

LEMMA PointsNext == OwnedPoints'
BY Points, PTL

(* What is to be shown of each step.                                       *)
OInv == IInv /\ OwnedOnce /\ BusyAccounted
Kept == OwnedOnce' /\ BusyAccounted'

(* A step that moves one call on, and neither changes a word or a bit nor  *)
(* puts a zone in the hands of the call, nor takes it out.                 *)
LEMMA Quiet ==
  ASSUME OInv, NEW p \in Process, NEW c,
         call' = [call EXCEPT ![p] = c],
         UNCHANGED <<zmap, i_data, damaged, raced, overrun>>,
         c.pc # "free", call[p].pc # "free",
         c.pc \in {"last", "reload", "extend"} <=> Allocating(p),
         Allocating(p) => c.zone = call[p].zone
  PROVE  Kept
<1>1. call'[p] = c /\ \A q \in Process : q # p => call'[q] = call[q]
  BY Record DEF OInv
<1>2. \A q \in Process :
        /\ Allocating(q)' <=> Allocating(q)
        /\ Allocating(q) => call'[q].zone = call[q].zone
        /\ \A z : Freeing(q, z)' <=> Freeing(q, z)
  BY <1>1 DEF Allocating, Freeing
<1>3. AllMarked /\ SpansApart /\ HandsApart => AllMarked' /\ SpansApart' /\ HandsApart'
  BY <1>2 DEF AllMarked, SpansApart, HandsApart
<1>4. ASSUME NEW z, Held(z) PROVE Held(z)'
  BY <1>2, <1>4 DEF Held
<1> QED
  BY <1>3, <1>4, Points, PointsNext DEF OInv, Kept, OwnedPoints

(* A number is freed: it leaves the zones that are marked, unless it is no *)
(* data zone, which none of those is.                                      *)
LEMMA Freed ==
  ASSUME OInv, NEW p \in Process, NEW c, NEW z, FreeBlock(z),
         call' = [call EXCEPT ![p] = c],
         UNCHANGED <<i_data, raced, overrun>>,
         c.pc \notin {"last", "reload", "extend"}, ~Allocating(p),
         \A y : Freeing(p, y) /\ y # z =>
           c.pc = "free" /\ y \in c.zone .. c.zone + c.todo - 1
  PROVE  Kept
<1>1. call'[p] = c /\ \A q \in Process : q # p => call'[q] = call[q]
  BY Record DEF OInv
<1>2. zmap' = zmap \ {z}
  BY Record DEF OInv, FreeBlock
<1>3. \A q \in Process :
        /\ Allocating(q)' <=> Allocating(q)
        /\ Allocating(q) => call'[q].zone = call[q].zone
  BY <1>1 DEF Allocating
<1>4. ASSUME ~damaged', AllMarked, SpansApart, HandsApart
      PROVE  AllMarked' /\ SpansApart' /\ HandsApart'
  <2>1. z \notin zmap \cap InUse
    BY <1>4 DEF FreeBlock
  <2>2. ASSUME NEW y \in InUse, y \in zmap PROVE y \in zmap'
    BY <1>2, <2>1, <2>2
  <2>3. AllMarked'
    <3>1. ASSUME NEW y \in zmap,
                 \/ \E f \in File : \E i \in Slot : y \in Span(i_data[f][i])
                 \/ \E q \in Process : Allocating(q) /\ call[q].zone = y
          PROVE  y \in zmap'
      BY <2>2, <3>1, Points, Record DEF OInv, OwnedPoints
    <3> QED
      BY <1>3, <1>4, <3>1 DEF AllMarked
  <2>4. SpansApart' /\ HandsApart'
    BY <1>3, <1>4 DEF SpansApart, HandsApart
  <2> QED
    BY <2>3, <2>4
<1>5. ASSUME NEW y \in zmap', Held(y) PROVE Held(y)'
  <2>1. y # z
    BY <1>2
  <2>2. ASSUME NEW q \in Process, Freeing(q, y) PROVE Freeing(q, y)'
    BY <1>1, <2>1, <2>2 DEF Freeing
  <2> QED
    BY <1>3, <1>5, <2>2 DEF Held
<1>6. damaged => damaged'
  BY Record DEF OInv, FreeBlock
<1>7. OwnedOnce'
  BY <1>4, <1>6, Points, PointsNext, Record DEF OInv, OwnedPoints
<1>8. BusyAccounted'
  BY <1>2, <1>5, Points, PointsNext DEF OInv, OwnedPoints
<1> QED
  BY <1>7, <1>8 DEF Kept

(* Each action: the calls that wait, look for a sector or find the word to *)
(* be changed are quiet.                                                   *)
LEMMA QuietSteps ==
  ASSUME OInv, NEW p \in Process,
         \/ \E f \in File : Truncate(p, f)
         \/ \E op \in {"write", "writepage", "read"}, f \in File, s \in Sector :
              GetBlock(p, op, f, s)
         \/ GetBlockValue(p) \/ GetLastExtent(p) \/ ReloadLast(p)
         \/ MapBlock(p) \/ LoadWord(p)
  PROVE  Kept
<1> DEFINE old == call[p]
           hand(c) == /\ c.pc # "free"
                      /\ c.pc \in {"last", "reload", "extend"} <=> Allocating(p)
                      /\ Allocating(p) => c.zone = old.zone
<1>1. old \in Call /\ Idle.pc = "idle"
  BY Record DEF OInv, Idle
<1>2. ASSUME NEW c, call' = [call EXCEPT ![p] = c], hand(c), old.pc # "free",
             UNCHANGED <<zmap, i_data, damaged, raced, overrun>>
      PROVE  Kept
  BY <1>2, Quiet
<1>3. ASSUME NEW f \in File, Truncate(p, f) PROVE Kept
  <2> DEFINE c == [old EXCEPT !.pc = "truncate", !.op = "truncate", !.file = f]
  <2>1. c.pc = "truncate"
    BY <1>1 DEF Call
  <2>2. call' = [call EXCEPT ![p] = c] /\ hand(c) /\ old.pc # "free"
    BY <1>3, <2>1, Record DEF OInv, Truncate, Allocating
  <2> QED
    BY <1>2, <1>3, <2>2 DEF Truncate
<1>4. ASSUME NEW op, NEW f \in File, NEW s, GetBlock(p, op, f, s) PROVE Kept
  <2> DEFINE c == [old EXCEPT !.pc = "scan", !.op = op, !.file = f, !.sector = s]
  <2>1. c.pc = "scan"
    BY <1>1 DEF Call
  <2>2. call' = [call EXCEPT ![p] = c] /\ hand(c) /\ old.pc # "free"
    BY <1>4, <2>1, Record DEF OInv, GetBlock, Allocating
  <2> QED
    BY <1>2, <1>4, <2>2 DEF GetBlock
<1>5. ASSUME GetBlockValue(p) PROVE Kept
  <2> DEFINE w == i_data[old.file][old.slot]
             b == w.bg + old.sector - old.sum
             c1 == [old EXCEPT !.pc = "mapped", !.slot = 0, !.sum = 0, !.zone = b]
             c2 == [old EXCEPT !.slot = old.slot + 1, !.sum = old.sum + w.len]
             c3 == [old EXCEPT !.pc = "new", !.slot = 0, !.sum = 0]
  <2>1. c1.pc = "mapped" /\ c2.pc = old.pc /\ c3.pc = "new"
    <3> HIDE DEF w
    <3> QED
      BY <1>1 DEF Call
  <2>2. \/ call' = [call EXCEPT ![p] = c1] \/ call' = [call EXCEPT ![p] = c2]
        \/ call' = [call EXCEPT ![p] = c3] \/ call' = [call EXCEPT ![p] = Idle]
    BY <1>5, Record DEF OInv, GetBlockValue, Return
  <2>3. old.pc = "scan"
    BY <1>5 DEF GetBlockValue
  <2> HIDE DEF c1, c2, c3
  <2>4. hand(c1) /\ hand(c2) /\ hand(c3) /\ hand(Idle)
    BY <1>1, <2>1, <2>3 DEF Allocating
  <2> QED
    BY <1>2, <1>5, <2>2, <2>3, <2>4 DEF GetBlockValue
<1>6. ASSUME GetLastExtent(p) PROVE Kept
  <2> DEFINE c1 == [old EXCEPT !.pc = "reload"]
             c2 == [old EXCEPT !.slot = old.slot + 1]
             c3 == [old EXCEPT !.pc = "extend", !.last = Free, !.offset = -1, !.slot = 0]
  <2>1. /\ c1.pc = "reload" /\ c2.pc = old.pc /\ c3.pc = "extend"
        /\ c1.zone = old.zone /\ c2.zone = old.zone /\ c3.zone = old.zone
    BY <1>1 DEF Call
  <2>2. \/ call' = [call EXCEPT ![p] = c1] \/ call' = [call EXCEPT ![p] = c2]
        \/ call' = [call EXCEPT ![p] = c3]
    BY <1>6, Record DEF OInv, GetLastExtent
  <2>3. old.pc = "last"
    BY <1>6 DEF GetLastExtent
  <2> HIDE DEF c1, c2, c3
  <2>4. hand(c1) /\ hand(c2) /\ hand(c3)
    BY <2>1, <2>3 DEF Allocating
  <2> QED
    BY <1>2, <1>6, <2>2, <2>3, <2>4 DEF GetLastExtent
<1>7. ASSUME ReloadLast(p) PROVE Kept
  <2> DEFINE w == i_data[old.file][old.slot - 1]
             c == [old EXCEPT !.pc = "extend", !.slot = 0, !.last = w,
                              !.offset = old.slot - 1]
  <2>1. c.pc = "extend" /\ c.zone = old.zone
    <3> HIDE DEF w
    <3> QED
      BY <1>1 DEF Call
  <2>2. call' = [call EXCEPT ![p] = c] /\ old.pc = "reload"
    BY <1>7, Record DEF OInv, ReloadLast
  <2> HIDE DEF c
  <2>3. hand(c)
    BY <2>1, <2>2 DEF Allocating
  <2> QED
    BY <1>2, <1>7, <2>2, <2>3 DEF ReloadLast
<1>8. ASSUME MapBlock(p) PROVE Kept
  BY <1>1, <1>2, <1>8 DEF MapBlock, Return, Allocating
<1>9. ASSUME LoadWord(p) PROVE Kept
  <2> DEFINE b == i_data[old.file][old.slot].bg
             c1 == [old EXCEPT !.pc = "zero", !.zone = b]
             c2 == [old EXCEPT !.slot = old.slot + 1]
  <2>1. c1.pc = "zero" /\ c2.pc = old.pc
    <3> HIDE DEF b
    <3> QED
      BY <1>1 DEF Call
  <2>2. \/ call' = [call EXCEPT ![p] = c1] \/ call' = [call EXCEPT ![p] = c2]
        \/ call' = [call EXCEPT ![p] = Idle]
    BY <1>9, Record DEF OInv, LoadWord, Return
  <2>3. old.pc = "truncate"
    BY <1>9 DEF LoadWord
  <2> HIDE DEF c1, c2
  <2>4. hand(c1) /\ hand(c2) /\ hand(Idle)
    BY <1>1, <2>1, <2>3 DEF Allocating
  <2> QED
    BY <1>2, <1>9, <2>2, <2>3, <2>4 DEF LoadWord
<1> QED
  BY <1>3, <1>4, <1>5, <1>6, <1>7, <1>8, <1>9

(* The zone that minix_new_block() gives was marked free, so in no word    *)
(* and in no other hands.                                                  *)
LEMMA NewBlockOwned ==
  ASSUME OInv, NEW p \in Process, NewBlock(p)
  PROVE  Kept
<1> DEFINE old == call[p]
<1>1. old \in Call /\ old.pc = "new"
  BY Record DEF OInv, NewBlock
<1>2. ASSUME call' = [call EXCEPT ![p].pc = "full"], UNCHANGED zmap PROVE Kept
  <2> DEFINE c == [old EXCEPT !.pc = "full"]
  <2>1. c.pc = "full"
    BY <1>1 DEF Call
  <2>2. call' = [call EXCEPT ![p] = c]
    BY <1>2, Record DEF OInv
  <2> HIDE DEF c
  <2> QED
    BY <1>1, <1>2, <2>1, <2>2, Quiet DEF Allocating, NewBlock
<1>3. ASSUME NEW z \in Zone \ zmap, zmap' = zmap \cup {z},
             call' = [call EXCEPT ![p].pc = "last", ![p].zone = z]
      PROVE  Kept
  <2> DEFINE c == [old EXCEPT !.pc = "last", !.zone = z]
  <2>1. call'[p].pc = "last" /\ call'[p].zone = z
    <3>1. c.pc = "last" /\ c.zone = z
      BY <1>1 DEF Call
    <3> HIDE DEF c
    <3>2. call' = [call EXCEPT ![p] = c]
      BY <1>3, Record DEF OInv, c
    <3> QED
      BY <3>1, <3>2, Record DEF OInv
  <2>2. \A q \in Process : q # p => call'[q] = call[q]
    BY <1>3, Record DEF OInv
  <2>3. /\ Allocating(p)' /\ ~Allocating(p)
        /\ \A y : ~Freeing(p, y)
        /\ \A q \in Process : q # p =>
             /\ Allocating(q)' <=> Allocating(q)
             /\ \A y : Freeing(q, y)' <=> Freeing(q, y)
    BY <1>1, <2>1, <2>2 DEF Allocating, Freeing
  <2>4. UNCHANGED <<i_data, damaged, raced, overrun>>
    BY DEF NewBlock
  <2>5. ASSUME AllMarked, SpansApart, HandsApart
        PROVE  AllMarked' /\ SpansApart' /\ HandsApart'
    <3>1. AllMarked'
      <4>1. \A f \in File : \A i \in Slot : Span(i_data[f][i])' \subseteq zmap'
        BY <1>3, <2>4, <2>5 DEF AllMarked
      <4>2. ASSUME NEW q \in Process, Allocating(q)' PROVE call'[q].zone \in zmap'
        <5>1. CASE q = p
          BY <1>3, <2>1, <5>1
        <5>2. CASE q # p
          <6>1. call'[q].zone = call[q].zone /\ Allocating(q)
            BY <2>2, <2>3, <4>2, <5>2
          <6>2. call[q].zone \in zmap
            BY <2>5, <6>1 DEF AllMarked
          <6> QED
            BY <1>3, <6>1, <6>2
        <5> QED
          BY <5>1, <5>2
      <4> QED
        BY <4>1, <4>2 DEF AllMarked
    <3>2. SpansApart'
      BY <2>4, <2>5 DEF SpansApart
    <3>3. HandsApart'
      <4>1. \A f \in File : \A i \in Slot : z \notin Span(i_data[f][i])
        BY <1>3, <2>5 DEF AllMarked
      <4>2. \A q \in Process : Allocating(q) => call[q].zone # z
        BY <1>3, <2>5 DEF AllMarked
      <4> QED
        BY <2>1, <2>2, <2>3, <2>4, <2>5, <4>1, <4>2 DEF HandsApart
    <3> QED
      BY <3>1, <3>2, <3>3
  <2>6. ASSUME NEW y \in zmap', y \in zmap => Held(y) PROVE Held(y)'
    <3>1. CASE y = z
      BY <2>1, <2>3, <3>1 DEF Held
    <3>2. CASE y # z
      BY <1>3, <2>2, <2>3, <2>4, <2>6, <3>2 DEF Held
    <3> QED
      BY <3>1, <3>2
  <2> QED
    BY <2>4, <2>5, <2>6, Points, PointsNext DEF OInv, Kept, OwnedPoints
<1> QED
  BY <1>2, <1>3 DEF NewBlock

(* truncate() frees the numbers after the first zone of an extent, one by  *)
(* one; without space the number of the sector is freed.                   *)
LEMMA FreeSteps ==
  ASSUME OInv, NEW p \in Process, NoSpace(p) \/ FreeZones(p)
  PROVE  Kept
<1> DEFINE old == call[p]
<1>1. old \in Call /\ Idle.pc = "idle"
  BY Record DEF OInv, Idle
<1>2. ASSUME NoSpace(p) PROVE Kept
  <2> DEFINE c == [old EXCEPT !.pc = "truncate", !.op = "truncate", !.sector = 0]
  <2>1. c.pc = "truncate"
    BY <1>1 DEF Call
  <2>2. call' = [call EXCEPT ![p] = c] \/ call' = [call EXCEPT ![p] = Idle]
    BY <1>2, Record DEF OInv, NoSpace, Return
  <2> HIDE DEF c
  <2> QED
    BY <1>1, <1>2, <2>1, <2>2, Freed DEF NoSpace, Allocating, Freeing
<1>3. ASSUME FreeZones(p) PROVE Kept
  <2>1. old.pc = "free" /\ FreeBlock(old.zone) /\ UNCHANGED <<i_data, raced, overrun>>
    BY <1>3 DEF FreeZones
  <2>2. old.zone \in Nat /\ old.todo \in Nat /\ old.todo > 0
    BY <2>1, <1>1, Numbers, Record DEF OInv, CallInv
  <2>3. CASE old.todo > 1
             /\ call' = [call EXCEPT ![p].zone = old.zone + 1, ![p].todo = old.todo - 1]
    <3> DEFINE c == [old EXCEPT !.zone = old.zone + 1, !.todo = old.todo - 1]
    <3>1. c.pc = "free" /\ c.zone = old.zone + 1 /\ c.todo = old.todo - 1
      BY <1>1, <2>1 DEF Call
    <3>2. call' = [call EXCEPT ![p] = c]
      BY <2>3, Record DEF OInv
    <3> HIDE DEF c
    <3>3. ASSUME NEW y, Freeing(p, y), y # old.zone
          PROVE  c.pc = "free" /\ y \in c.zone .. c.zone + c.todo - 1
      BY <2>2, <2>3, <3>1, <3>3 DEF Freeing
    <3> QED
      BY <2>1, <3>1, <3>2, <3>3, Freed DEF Allocating
  <2>4. CASE old.todo <= 1 /\ call'[p].pc \in {"truncate", "idle"}
             /\ \E c : call' = [call EXCEPT ![p] = c]
    <3> PICK c : call' = [call EXCEPT ![p] = c]
      BY <2>4
    <3>1. c.pc \in {"truncate", "idle"}
      BY <2>4, Record DEF OInv
    <3>2. \A y : Freeing(p, y) => y = old.zone
      BY <2>2, <2>4 DEF Freeing
    <3> QED
      BY <2>1, <3>1, <3>2, Freed DEF Allocating
  <2>5. CASE old.todo <= 1
    <3> DEFINE c == [old EXCEPT !.pc = "truncate", !.zone = 0, !.todo = 0,
                                !.slot = old.slot + 1]
    <3>1. c.pc = "truncate"
      BY <1>1 DEF Call
    <3>2. call' = [call EXCEPT ![p] = c] \/ call' = [call EXCEPT ![p] = Idle]
      <4>1. ~(old.todo > 1)
        BY <2>2, <2>5
      <4>2. \/ call' = [call EXCEPT ![p].pc = "truncate", ![p].zone = 0,
                                   ![p].todo = 0, ![p].slot = old.slot + 1]
            \/ Return(p)
        BY <1>3, <4>1, Zenon DEF FreeZones
      <4> QED
        BY <4>2, Record DEF OInv, Return
    <3> HIDE DEF c
    <3>3. call'[p].pc \in {"truncate", "idle"}
      BY <1>1, <3>1, <3>2, Record DEF OInv
    <3> QED
      BY <2>4, <2>5, <3>2, <3>3
  <2> QED
    BY <1>3, <2>2, <2>3, <2>5 DEF FreeZones
<1> QED
  BY <1>2, <1>3

(* truncate() takes an extent out of its word: the zones it has still to   *)
(* free hold those of the extent, which has at most MAX_LEN.               *)
LEMMA ZeroWordOwned ==
  ASSUME OInv, NEW p \in Process, ZeroWord(p)
  PROVE  Kept
<1> DEFINE old == call[p]
           c == [old EXCEPT !.pc = "free", !.todo = MAX_LEN + 2]
           f == old.file
           i == old.slot
           w == i_data[f][i]
<1>1. old \in Call /\ old.pc = "zero" /\ f \in File /\ i \in Slot /\ old.zone \in Zone
  BY Record DEF OInv, ZeroWord, CallInv, Call
<1>2. w \in Word
  BY <1>1, Words DEF OInv
<1>3. c.pc = "free" /\ c.zone = old.zone /\ c.todo = MAX_LEN + 2
  BY <1>1 DEF Call
<1>4. call' = [call EXCEPT ![p] = c]
  BY Record DEF OInv, ZeroWord
<1>5. i_data \in [File -> [Slot -> Word]] /\ i_data' = [i_data EXCEPT ![f][i] = Free]
  BY DEF OInv, IInv, TypeOK, ZeroWord
<1>6. UNCHANGED <<zmap, damaged, overrun>> /\ (raced' <=> raced \/ w.bg # old.zone)
  BY Record DEF OInv, ZeroWord
<1>7. call'[p] = c /\ \A q \in Process : q # p => call'[q] = call[q]
  BY <1>4, Record DEF OInv
<1> HIDE DEF c
<1>8. \A q \in Process :
        /\ Allocating(q)' <=> Allocating(q)
        /\ Allocating(q) => call'[q].zone = call[q].zone
        /\ \A y : Freeing(q, y) => Freeing(q, y)'
  BY <1>1, <1>3, <1>7 DEF Allocating, Freeing
<1>9. \A g \in File : \A j \in Slot :
        IF g = f /\ j = i THEN i_data'[g][j] = Free ELSE i_data'[g][j] = i_data[g][j]
  <2> HIDE DEF f, i
  <2> QED
    BY <1>1, <1>5
<1>10. \A g \in File : \A j \in Slot :
         /\ Span(i_data'[g][j]) \subseteq Span(i_data[g][j])
         /\ ~(g = f /\ j = i) => Span(i_data'[g][j]) = Span(i_data[g][j])
  <2> HIDE DEF f, i
  <2> QED
    BY <1>9, Bounds
<1>11. ASSUME AllMarked, SpansApart, HandsApart
       PROVE  AllMarked' /\ SpansApart' /\ HandsApart'
  <2>1. AllMarked'
    BY <1>6, <1>8, <1>10, <1>11 DEF AllMarked
  <2>2. SpansApart'
    BY <1>10, <1>11 DEF SpansApart
  <2>3. HandsApart'
    BY <1>8, <1>10, <1>11 DEF HandsApart
  <2> QED
    BY <2>1, <2>2, <2>3
<1>12. ASSUME ~raced', NEW y \in zmap, Held(y) PROVE Held(y)'
  <2>1. ASSUME y \in Span(w) PROVE Freeing(p, y)'
    <3>1. w.bg = old.zone /\ w.bg # 0 /\ w.bg \in Nat
      BY <1>1, <1>2, <1>6, <1>12, WordNumbers, ZoneAssumption DEF Zone
    <3>2. w.len \in 0 .. MAX_LEN - 1
      BY <1>2, ZoneAssumption DEF Word, Free
    <3>3. y \in w.bg .. w.bg + w.len
      BY <2>1, <3>1 DEF Span
    <3>4. y \in old.zone .. old.zone + (MAX_LEN + 2) - 1
      <4> HIDE DEF w, old
      <4> QED
        BY <3>1, <3>2, <3>3, ZoneAssumption
    <3> QED
      BY <1>3, <1>7, <3>4 DEF Freeing
  <2>2. ASSUME NEW g \in File, NEW j \in Slot, y \in Span(i_data[g][j])
        PROVE  Held(y)'
    <3>1. CASE g = f /\ j = i
      BY <2>1, <2>2, <3>1 DEF Held
    <3>2. CASE ~(g = f /\ j = i)
      BY <1>10, <2>2, <3>2 DEF Held
    <3> QED
      BY <3>1, <3>2
  <2> QED
    BY <1>8, <1>12, <2>2 DEF Held
<1> QED
  BY <1>6, <1>11, <1>12, Points, PointsNext, Record DEF OInv, Kept, OwnedPoints

(* alloc_extent() without a race: the word it stores has the zone of the   *)
(* call, and what the word before it had, or takes the place of another.   *)
LEMMA ExtendWord ==
  ASSUME IInv, NEW p \in Process, Extend(p), ~raced'
  PROVE  \E i \in Slot :
           LET f == call[p].file
               z == call[p].zone
           IN  /\ \A g \in File : \A j \in Slot :
                    ~(g = f /\ j = i) => i_data'[g][j] = i_data[g][j]
               /\ z \in Span(i_data'[f][i])
               /\ Span(i_data'[f][i]) \subseteq Span(i_data[f][i]) \cup {z}
               /\ ~overrun' => Span(i_data[f][i]) \subseteq Span(i_data'[f][i])
<1> DEFINE old == call[p]
           f == old.file
           z == old.zone
           words == i_data[f]
           contiguous == z = old.last.bg + old.last.len + 1
                         /\ old.last.len + 1 < MAX_LEN
           slot == IF contiguous THEN old.offset ELSE old.offset + 1
           word == IF contiguous
                   THEN [bg |-> old.last.bg, len |-> old.last.len + 1]
                   ELSE [bg |-> z, len |-> 0]
<1>1. old \in Call /\ f \in File /\ z \in Zone /\ old.offset + 1 < DIRECT
      /\ (old.offset = -1 => old.last = Free)
  BY Record DEF Extend, CallInv
<1>2. old.last \in Word /\ old.offset \in -1 .. DIRECT - 1
  BY <1>1 DEF Call
<1>3. old.last.bg \in Nat /\ old.last.len \in Nat /\ z \in Nat /\ z >= 2
  BY <1>1, <1>2, WordNumbers, ZoneAssumption DEF Zone
<1>4. contiguous => old.last # Free
  BY <1>3 DEF Free
<1>5. slot \in Slot
  BY <1>1, <1>2, <1>4, ZoneAssumption DEF Slot
<1>6. ~raced /\ old.offset = LastOffset(words) /\ old.last = LastWord(words)
  BY Record DEF Extend
<1>7. contiguous => old.last = words[slot] /\ old.last.bg # 0
  <2>1. ASSUME contiguous PROVE old.last = words[slot] /\ old.last.bg # 0
    <3>1. old.offset # -1
      BY <1>1, <1>4, <2>1
    <3>2. old.last = words[old.offset]
      BY <1>6, <3>1 DEF LastWord
    <3>3. old.last.bg # 0
      BY <1>2, <1>4, <2>1, ZoneAssumption DEF Word, Zone
    <3> QED
      BY <2>1, <3>2, <3>3
  <2> QED
    BY <2>1
<1>8. overrun' <=> overrun \/ (~contiguous /\ words[slot].bg # 0)
  BY Record DEF Extend
<1>9. i_data \in [File -> [Slot -> Word]]
      /\ i_data' = [i_data EXCEPT ![f][slot] = word]
  BY DEF IInv, TypeOK, Extend
<1>10. /\ i_data'[f][slot] = word
       /\ \A g \in File : \A j \in Slot :
            ~(g = f /\ j = slot) => i_data'[g][j] = i_data[g][j]
  <2> HIDE DEF f, slot, word
  <2> QED
    BY <1>1, <1>5, <1>9
<1>11. CASE contiguous
  <2>1. Span(word) = old.last.bg .. z
    BY <1>3, <1>7, <1>11 DEF Span
  <2>2. Span(words[slot]) = old.last.bg .. z - 1
    <3>1. Span(old.last) = old.last.bg .. z - 1
      <4>1. z - 1 = old.last.bg + old.last.len
        BY <1>3, <1>11
      <4> QED
        BY <1>7, <1>11, <4>1 DEF Span
    <3> QED
      BY <1>7, <1>11, <3>1
  <2>3. old.last.bg <= z
    BY <1>3, <1>11
  <2> HIDE DEF word, slot
  <2>4. z \in Span(word) /\ Span(word) = Span(words[slot]) \cup {z}
    BY <1>3, <2>1, <2>2, <2>3
  <2> QED
    BY <1>5, <1>10, <2>4
<1>12. CASE ~contiguous
  <2>1. Span(word) = {z}
    BY <1>3, <1>12 DEF Span
  <2>2. ~overrun' => Span(words[slot]) = {}
    BY <1>8, <1>12 DEF Span
  <2> HIDE DEF word, slot
  <2> QED
    BY <1>5, <1>10, <2>1, <2>2
<1> QED
  BY <1>11, <1>12

(* So the zone of the call moves from its hands into a word.               *)
LEMMA ExtendOwned ==
  ASSUME OInv, NEW p \in Process, Extend(p)
  PROVE  Kept
<1> DEFINE old == call[p]
           c == [old EXCEPT !.pc = "mapped", !.last = Free, !.offset = -1]
           f == old.file
           z == old.zone
<1>1. old \in Call /\ old.pc = "extend" /\ f \in File
  BY Record DEF OInv, Extend, CallInv
<1>2. c.pc = "mapped"
  BY <1>1 DEF Call
<1>3. call' = [call EXCEPT ![p] = c]
  BY Record DEF OInv, Extend
<1>4. call'[p] = c /\ \A q \in Process : q # p => call'[q] = call[q]
  BY <1>3, Record DEF OInv
<1> HIDE DEF c
<1>5. /\ Allocating(p) /\ ~Allocating(p)'
      /\ \A y : ~Freeing(p, y)
      /\ \A q \in Process : q # p =>
           /\ Allocating(q)' <=> Allocating(q)
           /\ \A y : Freeing(q, y)' <=> Freeing(q, y)
  BY <1>1, <1>2, <1>4 DEF Allocating, Freeing
<1>6. UNCHANGED <<zmap, damaged>> /\ (~raced' => ~raced) /\ (~overrun' => ~overrun)
  BY Record DEF OInv, Extend
<1>7. CASE raced'
  BY <1>7, PointsNext DEF Kept, OwnedPoints
<1>8. CASE ~raced'
  <2>1. PICK i \in Slot :
          /\ \A g \in File : \A j \in Slot :
               ~(g = f /\ j = i) => i_data'[g][j] = i_data[g][j]
          /\ z \in Span(i_data'[f][i])
          /\ Span(i_data'[f][i]) \subseteq Span(i_data[f][i]) \cup {z}
          /\ ~overrun' => Span(i_data[f][i]) \subseteq Span(i_data'[f][i])
    BY <1>8, ExtendWord DEF OInv
  <2>2. ASSUME AllMarked, SpansApart, HandsApart
        PROVE  AllMarked' /\ SpansApart' /\ HandsApart'
    <3>1. z \in zmap /\ \A g \in File : \A j \in Slot : z \notin Span(i_data[g][j])
      BY <1>5, <2>2 DEF AllMarked, HandsApart
    <3>2. \A g \in File : \A j \in Slot :
            Span(i_data'[g][j]) \subseteq Span(i_data[g][j]) \cup
                                          (IF g = f /\ j = i THEN {z} ELSE {})
      BY <2>1
    <3>3. AllMarked'
      <4>1. \A g \in File : \A j \in Slot : Span(i_data[g][j])' \subseteq zmap'
        BY <1>6, <2>2, <3>1, <3>2 DEF AllMarked
      <4>2. \A q \in Process : Allocating(q)' => call'[q].zone \in zmap'
        BY <1>4, <1>5, <1>6, <2>2 DEF AllMarked
      <4> QED
        BY <4>1, <4>2 DEF AllMarked
    <3>4. SpansApart'
      <4>1. ASSUME NEW g \in File, NEW h \in File, NEW j \in Slot, NEW k \in Slot,
                   <<g, j>> # <<h, k>>
            PROVE  Span(i_data'[g][j]) \cap Span(i_data'[h][k]) = {}
        <5>1. Span(i_data[g][j]) \cap Span(i_data[h][k]) = {}
          BY <2>2, <4>1 DEF SpansApart
        <5>2. ~(g = f /\ j = i) \/ ~(h = f /\ k = i)
          BY <4>1
        <5> QED
          BY <3>1, <3>2, <5>1, <5>2
      <4> QED
        BY <4>1 DEF SpansApart
    <3>5. HandsApart'
      <4>1. ASSUME NEW q \in Process, Allocating(q)'
            PROVE  q # p /\ Allocating(q) /\ call'[q].zone = call[q].zone
                   /\ call[q].zone # z
        BY <1>4, <1>5, <2>2, <4>1 DEF HandsApart
      <4> QED
        BY <2>2, <3>2, <4>1 DEF HandsApart
    <3> QED
      BY <3>3, <3>4, <3>5
  <2>3. ASSUME ~overrun', NEW y \in zmap, Held(y) PROVE Held(y)'
    <3>1. CASE y = z
      BY <1>1, <2>1, <3>1 DEF Held
    <3>2. CASE y # z
      <4>1. ASSUME NEW g \in File, NEW j \in Slot, y \in Span(i_data[g][j])
            PROVE  y \in Span(i_data'[g][j])
        BY <2>1, <2>3, <4>1
      <4> QED
        BY <1>4, <1>5, <2>3, <3>2, <4>1 DEF Held
    <3> QED
      BY <3>1, <3>2
  <2> QED
    BY <1>6, <1>8, <2>2, <2>3, Points, PointsNext DEF OInv, Kept, OwnedPoints
<1> QED
  BY <1>7, <1>8, Record DEF OInv, Extend

LEMMA NextOwned == OInv /\ [Next]_vars => OInv'
<1> SUFFICES ASSUME OInv, [Next]_vars PROVE OInv'
  OBVIOUS
<1>1. CASE UNCHANGED vars
  <2>1. \A p \in Process : Allocating(p)' <=> Allocating(p)
    BY <1>1 DEF vars, Allocating
  <2>2. AllMarked /\ SpansApart /\ HandsApart => AllMarked' /\ SpansApart' /\ HandsApart'
    BY <1>1, <2>1 DEF vars, AllMarked, SpansApart, HandsApart
  <2>3. \A z : Held(z) => Held(z)'
    BY <1>1, <2>1 DEF vars, Held, Freeing
  <2> QED
    BY <1>1, <2>2, <2>3, NextInv, Points, PointsNext DEF OInv, OwnedPoints, vars
<1>2. ASSUME NEW p \in Process, Step(p) PROVE Kept
  BY <1>2, QuietSteps, NewBlockOwned, ExtendOwned, FreeSteps, ZeroWordOwned DEF Step
<1>3. CASE Next
  <2>1. Kept
    BY <1>2, <1>3, QuietSteps DEF Next
  <2> QED
    BY <1>3, <2>1, NextInv DEF OInv, Kept
<1> QED
  BY <1>1, <1>3

LEMMA InitOwned == Init => OInv
<1> SUFFICES ASSUME Init PROVE OInv
  OBVIOUS
<1>1. \A p \in Process : ~Allocating(p)
  BY DEF Init, Allocating, Idle
<1>2. AllMarked /\ SpansApart /\ HandsApart
  BY <1>1, Bounds DEF Init, AllMarked, SpansApart, HandsApart
<1>3. zmap = {}
  BY DEF Init
<1> QED
  BY <1>2, <1>3, InitInv, Points DEF OInv, OwnedPoints

LEMMA OwnedAlways == Spec => []OInv
BY InitOwned, NextOwned, PTL DEF Spec

(* As long as truncate() has freed no zone in use and alloc_extent() has   *)
(* stored no word from an old load, minix_new_block(), alloc_extent() and  *)
(* truncate() keep each zone in one word of one inode, or in the hands of  *)
(* one call, and marked.                                                   *)
THEOREM OwnedOnceHolds == Spec => []OwnedOnce
<1>1. OInv => OwnedOnce
  BY DEF OInv
<1> QED
  BY <1>1, OwnedAlways, PTL

(* As long as no extent is stored over another, no zone leaks: one that is *)
(* marked is in an inode, in the hands of a get_block(), or among those    *)
(* that a truncate() has still to free, whose loop is long enough for an   *)
(* extent of any length.                                                   *)
THEOREM BusyAccountedHolds == Spec => []BusyAccounted
<1>1. OInv => BusyAccounted
  BY DEF OInv
<1> QED
  BY <1>1, OwnedAlways, PTL

LEMMA WordsChangedBy ==
  ASSUME Next
  PROVE  i_data' = i_data \/ \E p \in Process : Extend(p) \/ ZeroWord(p)
<1>1. ASSUME NEW p \in Process,
             \/ GetBlockValue(p) \/ NewBlock(p) \/ GetLastExtent(p) \/ ReloadLast(p)
             \/ MapBlock(p) \/ NoSpace(p) \/ LoadWord(p) \/ FreeZones(p)
      PROVE  i_data' = i_data
  BY <1>1 DEF GetBlockValue, NewBlock, GetLastExtent, ReloadLast, MapBlock, NoSpace,
              LoadWord, FreeZones
<1>2. ASSUME NEW p \in Process, NEW f \in File, Truncate(p, f) PROVE i_data' = i_data
  BY <1>2 DEF Truncate
<1>3. ASSUME NEW p \in Process, NEW op, NEW f \in File, NEW s, GetBlock(p, op, f, s)
      PROVE  i_data' = i_data
  BY <1>3 DEF GetBlock
<1> QED
  BY <1>1, <1>2, <1>3, Zenon DEF Next, Step

(* No step of another call, nor any of get_block(), takes a zone out of a  *)
(* file: only the loop of truncate() on that file does, or a late store.   *)
THEOREM KeepsZonesHolds == Spec => KeepsZones
<1> DEFINE Keeps ==
      \A f \in File :
        ~(Own(f) \subseteq Own(f)') =>
          \/ raced' \/ overrun'
          \/ \E p \in Process : call[p].file = f /\ call[p].pc = "zero"
<1>1. OInv /\ [Next]_vars => [Keeps]_vars
  <2> SUFFICES ASSUME OInv, Next, ~raced', ~overrun', NEW f \in File,
                      \A p \in Process : ~(call[p].file = f /\ call[p].pc = "zero")
               PROVE  Own(f) \subseteq Own(f)'
    OBVIOUS
  <2>1. ASSUME \A i \in Slot : Span(i_data[f][i]) \subseteq Span(i_data'[f][i])
        PROVE  Own(f) \subseteq Own(f)'
    <3>1. ASSUME NEW z \in Own(f) PROVE z \in Own(f)'
      <4>1. PICK i \in Slot : z \in Span(i_data[f][i])
        BY Zenon DEF Own
      <4>2. z \in Span(i_data'[f][i])
        BY <2>1, <4>1
      <4> QED
        BY <4>2, Zenon DEF Own
    <3> QED
      BY <3>1
  <2>2. CASE i_data' = i_data
    BY <2>1, <2>2
  <2>3. ASSUME NEW p \in Process, Extend(p) PROVE Own(f) \subseteq Own(f)'
    <3>1. \A i \in Slot : Span(i_data[f][i]) \subseteq Span(i_data'[f][i])
      BY <2>3, ExtendWord DEF OInv
    <3> QED
      BY <2>1, <3>1
  <2>4. ASSUME NEW p \in Process, ZeroWord(p) PROVE Own(f) \subseteq Own(f)'
    <3> DEFINE g == call[p].file
               j == call[p].slot
    <3>1. g # f /\ g \in File /\ j \in Slot
      BY <2>4, Record DEF OInv, ZeroWord, CallInv, Call
    <3>2. i_data \in [File -> [Slot -> Word]] /\ i_data' = [i_data EXCEPT ![g][j] = Free]
      BY <2>4 DEF OInv, IInv, TypeOK, ZeroWord
    <3> HIDE DEF g, j
    <3>3. i_data'[f] = i_data[f]
      BY <3>1, <3>2
    <3> QED
      BY <2>1, <3>3
  <2> QED
    BY <2>2, <2>3, <2>4, WordsChangedBy
<1> QED
  BY <1>1, OwnedAlways, PTL DEF Spec, KeepsZones
=============================================================================
