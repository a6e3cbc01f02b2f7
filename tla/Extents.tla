------------------------------ MODULE Extents ------------------------------
(***************************************************************************)
(* hw5_b/itree_common.c and bitmap.c: the block map of Minix V2 inodes by  *)
(* extents, and the bitmap of zones.                                       *)
(*                                                                         *)
(* An inode has DIRECT words, each an extent <bg, len>; bg = 0 is a free   *)
(* word.  A process is a call of the VFS: write_begin and setattr hold the *)
(* i_mutex of the inode, writepage and readpage do not; get_block is under *)
(* the lock of its page, truncate under none.  Each load and store of an   *)
(* inode word is a step, for nothing else orders them; the bitmap is       *)
(* searched and changed under bitmap_lock, in one step.                    *)
(*                                                                         *)
(* The histories are damaged: a zone was freed while it was in use;        *)
(* raced: an inode word was stored from a load that was no longer true;    *)
(* overrun: an extent was stored over another one.                         *)
(***************************************************************************)
EXTENDS Integers, FiniteSets

CONSTANTS
  File, NoFile,       (* regular files, and not one                        *)
  Process,            (* calls that run at the same time                   *)
  FirstZone, NZones,  (* s_firstdatazone, s_nzones                         *)
  DIRECT,             (* words of an inode                                 *)
  MAX_LEN,            (* 1 << LEN                                          *)
  Sector,             (* the sectors that are asked for                    *)
  SectorsPerPage      (* blocks of a page of the page cache                *)

ASSUME FileAssumption == NoFile \notin File
ASSUME ZoneAssumption ==
  /\ FirstZone \in Nat /\ FirstZone >= 2
  /\ NZones \in Nat /\ FirstZone < NZones
  /\ DIRECT \in Nat \ {0}
  /\ MAX_LEN \in Nat \ {0}
  /\ Sector \subseteq Nat
  /\ SectorsPerPage \in Nat \ {0}

VARIABLES
  zmap,               (* the zones whose bit is set                        *)
  i_data,             (* the words of each inode                           *)
  call,               (* the call each process is in, with its locals      *)
  damaged, raced, overrun

vars == <<zmap, i_data, call, damaged, raced, overrun>>

Zone == FirstZone .. NZones - 1
Slot == 0 .. DIRECT - 1
NBLOCKS_INODE_MAX == DIRECT * MAX_LEN
Free == [bg |-> 0, len |-> 0]
Word == {Free} \cup [bg : Zone, len : 0 .. MAX_LEN - 1]

(* The zones an extent maps: a new one has length 0 and one zone.          *)
Span(w) == IF w.bg = 0 THEN {} ELSE w.bg .. w.bg + w.len
Own(f) == UNION {Span(i_data[f][i]) : i \in Slot}

(* op is the VFS operation, zone is block_bg, or bg in truncate; todo is   *)
(* the zones truncate has still to free of an extent.                      *)
Idle ==
  [pc |-> "idle", op |-> "none", file |-> NoFile, sector |-> 0, slot |-> 0,
   sum |-> 0, zone |-> 0, last |-> Free, offset |-> -1, todo |-> 0]

Return(p) == call' = [call EXCEPT ![p] = Idle]

(* The zones that are allocated and not yet in an inode.                   *)
Allocating(p) == call[p].pc \in {"last", "reload", "extend"}
InFlight == {call[p].zone : p \in {q \in Process : Allocating(q)}}
InUse == InFlight \cup UNION {Own(f) : f \in File}

-----------------------------------------------------------------------------

(* An empty file system. mkfs sets the bits that stand for no zone.        *)
Init ==
  /\ zmap = {}
  /\ i_data = [f \in File |-> [i \in Slot |-> Free]]
  /\ call = [p \in Process |-> Idle]
  /\ damaged = FALSE
  /\ raced = FALSE
  /\ overrun = FALSE

(* Locks of the VFS.                                                       *)
MutexFree(f) ==
  \A q \in Process : call[q].op \in {"write", "truncate"} => call[q].file # f
PageFree(f, s) ==
  \A q \in Process :
    call[q].op \in {"write", "writepage", "read"} /\ call[q].file = f
      => call[q].sector \div SectorsPerPage # s \div SectorsPerPage

(* get_block() of write_begin, writepage or readpage; is_valid_block()     *)
(* turns the sectors beyond NBLOCKS_INODE_MAX away with -EIO.              *)
GetBlock(p, op, f, s) ==
  /\ call[p].pc = "idle"
  /\ op = "write" => MutexFree(f)
  /\ PageFree(f, s)
  /\ s <= NBLOCKS_INODE_MAX
  /\ call' = [call EXCEPT ![p].pc = "scan", ![p].op = op, ![p].file = f,
                          ![p].sector = s]
  /\ UNCHANGED <<zmap, i_data, damaged, raced, overrun>>

(* vmtruncate() of setattr, and of the last iput of a deleted file.        *)
Truncate(p, f) ==
  /\ call[p].pc = "idle"
  /\ MutexFree(f)
  /\ call' = [call EXCEPT ![p].pc = "truncate", ![p].op = "truncate", ![p].file = f]
  /\ UNCHANGED <<zmap, i_data, damaged, raced, overrun>>

-----------------------------------------------------------------------------
(* get_block()                                                             *)

(* Variant: the comparison accepts the sector after the extent.            *)
GetBlockValueAfterEnd(p) ==
  LET c == call[p]
      w == i_data[c.file][c.slot]
  IN  /\ c.pc = "scan"
      /\ call' = [call EXCEPT ![p].pc = "mapped",
                              ![p].zone = w.bg + c.sector - c.sum]
      /\ UNCHANGED <<zmap, i_data, damaged, raced, overrun>>

(* get_block_value(): a sector is in the first extent that ends after it.  *)
GetBlockValue(p) ==
  LET c == call[p]
      w == i_data[c.file][c.slot]
  IN  /\ c.pc = "scan"
      /\ \/ /\ c.sum + w.len > c.sector
            /\ call' = [call EXCEPT ![p].pc = "mapped", ![p].slot = 0, ![p].sum = 0,
                                    ![p].zone = w.bg + c.sector - c.sum]
         \/ /\ c.sum + w.len <= c.sector
            /\ c.slot + 1 < DIRECT
            /\ call' = [call EXCEPT ![p].slot = c.slot + 1,
                                    ![p].sum = c.sum + w.len]
         \/ /\ c.sum + w.len <= c.sector
            /\ c.slot + 1 = DIRECT
            /\ IF c.op = "read"
               THEN Return(p)
               ELSE call' = [call EXCEPT ![p].pc = "new", ![p].slot = 0, ![p].sum = 0]
      /\ UNCHANGED <<zmap, i_data, damaged, raced, overrun>>

(* Variant: the bitmap is searched before bitmap_lock is taken, so that    *)
(* a zone another call has just found may be found again.                  *)
NewBlockUnlocked(p) ==
  /\ call[p].pc = "new"
  /\ \E z \in Zone \ (zmap \ InFlight) :
       /\ \A y \in Zone \ (zmap \ InFlight) : z <= y
       /\ zmap' = zmap \cup {z}
       /\ call' = [call EXCEPT ![p].pc = "last", ![p].zone = z]
  /\ UNCHANGED <<i_data, damaged, raced, overrun>>

(* minix_new_block(): the first zone that is free, or 0.                   *)
NewBlock(p) ==
  /\ call[p].pc = "new"
  /\ \/ \E z \in Zone \ zmap :
          /\ \A y \in Zone \ zmap : z <= y
          /\ zmap' = zmap \cup {z}
          /\ call' = [call EXCEPT ![p].pc = "last", ![p].zone = z]
     \/ /\ Zone \subseteq zmap
        /\ call' = [call EXCEPT ![p].pc = "full"]
        /\ UNCHANGED zmap
  /\ UNCHANGED <<i_data, damaged, raced, overrun>>

(* get_last_extent(): the word before the first free one, which is loaded  *)
(* again.  None (offset -1) if all words are free, or none is.             *)
GetLastExtent(p) ==
  LET c == call[p]
      w == i_data[c.file][c.slot]
  IN  /\ c.pc = "last"
      /\ \/ /\ w.bg = 0 /\ c.slot > 0
            /\ call' = [call EXCEPT ![p].pc = "reload"]
         \/ /\ w.bg # 0 /\ c.slot + 1 < DIRECT
            /\ call' = [call EXCEPT ![p].slot = c.slot + 1]
         \/ /\ IF w.bg = 0 THEN c.slot = 0 ELSE c.slot + 1 = DIRECT
            /\ call' = [call EXCEPT ![p].pc = "extend", ![p].last = Free,
                                    ![p].offset = -1, ![p].slot = 0]
      /\ UNCHANGED <<zmap, i_data, damaged, raced, overrun>>

ReloadLast(p) ==
  LET c == call[p]
  IN  /\ c.pc = "reload"
      /\ call' = [call EXCEPT ![p].pc = "extend", ![p].slot = 0,
                              ![p].last = i_data[c.file][c.slot - 1],
                              ![p].offset = c.slot - 1]
      /\ UNCHANGED <<zmap, i_data, damaged, raced, overrun>>

(* What get_last_extent() returns if nobody interferes.                    *)
LastOffset(words) ==
  LET empty == {i \in Slot : words[i].bg = 0}
  IN  IF empty = {} THEN -1 ELSE (CHOOSE i \in empty : \A j \in empty : i <= j) - 1
LastWord(words) ==
  IF LastOffset(words) = -1 THEN Free ELSE words[LastOffset(words)]

(* alloc_extent() and update_inode(): the zone makes the last extent       *)
(* longer if it follows it, or is the first of the next one.               *)
Extend(p) ==
  LET c == call[p]
      contiguous == c.zone = c.last.bg + c.last.len + 1 /\ c.last.len + 1 < MAX_LEN
      slot == IF contiguous THEN c.offset ELSE c.offset + 1
      word == IF contiguous
              THEN [bg |-> c.last.bg, len |-> c.last.len + 1]
              ELSE [bg |-> c.zone, len |-> 0]
      old == i_data[c.file]
  IN  /\ c.pc = "extend"
      /\ i_data' = [i_data EXCEPT ![c.file][slot] = word]
      /\ call' = [call EXCEPT ![p].pc = "mapped", ![p].last = Free, ![p].offset = -1]
      /\ raced' = (raced \/ c.offset # LastOffset(old) \/ c.last # LastWord(old))
      /\ overrun' = (overrun \/ (~contiguous /\ old[slot].bg # 0))
      /\ UNCHANGED <<zmap, damaged>>

(* map_bh() and return 0                                                   *)
MapBlock(p) ==
  /\ call[p].pc = "mapped"
  /\ Return(p)
  /\ UNCHANGED <<zmap, i_data, damaged, raced, overrun>>

(* minix_free_block(): a number that is no data zone is ignored.           *)
FreeBlock(z) ==
  /\ zmap' = IF z \in Zone THEN zmap \ {z} ELSE zmap
  /\ damaged' = (damaged \/ z \in zmap \cap InUse)

(* Variant: the last extent is taken back, although nothing was added.     *)
NoSpaceTakesBack(p) ==
  LET f == call[p].file
  IN  /\ call[p].pc = "full"
      /\ FreeBlock(call[p].sector)
      /\ i_data' = [i_data EXCEPT ![f][0] = Free]
      /\ Return(p)
      /\ UNCHANGED <<raced, overrun>>

(* No zone is left: -ENOSPC.  The number that is freed is the sector's.    *)
(* write_begin, if it was beyond the end of the file, goes on to truncate. *)
NoSpace(p) ==
  /\ call[p].pc = "full"
  /\ FreeBlock(call[p].sector)
  /\ \/ Return(p)
     \/ /\ call[p].op = "write"
        /\ call' = [call EXCEPT ![p].pc = "truncate", ![p].op = "truncate",
                                ![p].sector = 0]
  /\ UNCHANGED <<i_data, raced, overrun>>

-----------------------------------------------------------------------------
(* truncate()                                                              *)

LoadWord(p) ==
  LET c == call[p]
      w == i_data[c.file][c.slot]
  IN  /\ c.pc = "truncate"
      /\ \/ /\ w.bg # 0
            /\ call' = [call EXCEPT ![p].pc = "zero", ![p].zone = w.bg]
         \/ /\ w.bg = 0 /\ c.slot + 1 < DIRECT
            /\ call' = [call EXCEPT ![p].slot = c.slot + 1]
         \/ /\ w.bg = 0 /\ c.slot + 1 = DIRECT
            /\ Return(p)
      /\ UNCHANGED <<zmap, i_data, damaged, raced, overrun>>

ZeroWord(p) ==
  LET c == call[p]
  IN  /\ c.pc = "zero"
      /\ i_data' = [i_data EXCEPT ![c.file][c.slot] = Free]
      /\ raced' = (raced \/ i_data[c.file][c.slot].bg # c.zone)
      /\ call' = [call EXCEPT ![p].pc = "free", ![p].todo = MAX_LEN + 2]
      /\ UNCHANGED <<zmap, damaged, overrun>>

(* Variant: only the first zone of an extent is freed.                     *)
FreeFirstZone(p) ==
  LET c == call[p]
  IN  /\ c.pc = "free"
      /\ FreeBlock(c.zone)
      /\ IF c.slot + 1 < DIRECT
         THEN call' = [call EXCEPT ![p].pc = "truncate", ![p].zone = 0,
                                   ![p].todo = 0, ![p].slot = c.slot + 1]
         ELSE Return(p)
      /\ UNCHANGED <<i_data, raced, overrun>>

(* i goes from -1 to MAX_LEN, whatever the length of the extent.           *)
FreeZones(p) ==
  LET c == call[p]
  IN  /\ c.pc = "free"
      /\ FreeBlock(c.zone)
      /\ IF c.todo > 1
         THEN call' = [call EXCEPT ![p].zone = c.zone + 1, ![p].todo = c.todo - 1]
         ELSE IF c.slot + 1 < DIRECT
              THEN call' = [call EXCEPT ![p].pc = "truncate", ![p].zone = 0,
                                        ![p].todo = 0, ![p].slot = c.slot + 1]
              ELSE Return(p)
      /\ UNCHANGED <<i_data, raced, overrun>>

-----------------------------------------------------------------------------

Step(p) ==
  \/ GetBlockValue(p) \/ NewBlock(p) \/ GetLastExtent(p) \/ ReloadLast(p)
  \/ Extend(p) \/ MapBlock(p) \/ NoSpace(p)
  \/ LoadWord(p) \/ ZeroWord(p) \/ FreeZones(p)

Next ==
  \E p \in Process :
    \/ Step(p)
    \/ \E f \in File : Truncate(p, f)
    \/ \E op \in {"write", "writepage", "read"}, f \in File, s \in Sector :
         GetBlock(p, op, f, s)

Spec == Init /\ [][Next]_vars

-----------------------------------------------------------------------------
(* Properties                                                              *)

(* The zone of a sector in the words of an inode: what get_block_value()   *)
(* returns if nobody interferes.                                           *)
Before(words) ==
  LET sum[i \in 0 .. DIRECT] == IF i = 0 THEN 0 ELSE sum[i - 1] + words[i - 1].len
  IN  sum
Found(words, s) ==
  LET sum == Before(words)
      in == {i \in Slot : sum[i] <= s /\ s < sum[i + 1]}
  IN  IF in = {} THEN 0
      ELSE LET i == CHOOSE i \in in : TRUE IN words[i].bg + s - sum[i]

(* Types: an extent is free or begins at a data zone, and its length fits  *)
(* the LEN bits of its word.                                               *)
TypeOK ==
  /\ zmap \subseteq Zone
  /\ i_data \in [File -> [Slot -> Word]]
  /\ call \in [Process ->
       [pc : {"idle", "scan", "new", "last", "reload", "extend", "mapped", "full",
              "truncate", "zero", "free"},
        op : {"none", "write", "writepage", "read", "truncate"},
        file : File \cup {NoFile}, sector : Sector \cup {0}, slot : Slot,
        sum : 0 .. NBLOCKS_INODE_MAX, zone : 0 .. NZones + MAX_LEN + 1, last : Word,
        offset : -1 .. DIRECT - 1, todo : 0 .. MAX_LEN + 2]]
  /\ {damaged, raced, overrun} \subseteq BOOLEAN

(* No call is given a block outside of the data zones, and no extent       *)
(* reaches out of them: even when words change between the loads of a      *)
(* search, when zones have been freed in use and extents been lost.        *)
InDataZones ==
  /\ \A f \in File : Own(f) \subseteq Zone
  /\ \A p \in Process : call[p].pc = "mapped" => call[p].zone \in Zone

(* While no zone has been freed in use, and no word been stored from an    *)
(* old load, every zone in use is marked busy and is in one place only:    *)
(* one word of one inode, or the hands of one call.                        *)
OwnedOnce ==
  ~damaged /\ ~raced =>
    /\ InUse \subseteq zmap
    /\ \A f, g \in File : \A i, j \in Slot :
         <<f, i>> # <<g, j>> => Span(i_data[f][i]) \cap Span(i_data[g][j]) = {}
    /\ \A p, q \in Process :
         Allocating(p) =>
           /\ \A f \in File : call[p].zone \notin Own(f)
           /\ Allocating(q) /\ p # q => call[p].zone # call[q].zone

(* One call at a time: the search of get_block_value() returns the block   *)
(* number `sector' of the blocks that the lengths of the extents count,    *)
(* and misses it only if they count fewer.                                 *)
SearchFinds ==
  [][\A p \in Process :
       LET c == call[p]
           found == Found(i_data[c.file], c.sector)
       IN  c.pc = "scan" =>
             /\ call'[p].pc = "mapped" => found # 0 /\ call'[p].zone = found
             /\ call'[p].pc \in {"new", "idle"} => found = 0]_vars

(* No zone leaks while no extent is stored over another one: what is       *)
(* marked busy is in use, or truncate is about to free it.                 *)
BusyAccounted ==
  ~raced /\ ~overrun =>
    \A z \in zmap :
      \/ z \in InUse
      \/ \E p \in Process :
           call[p].pc = "free" /\ z \in call[p].zone .. call[p].zone + call[p].todo - 1

(* A file keeps its zones until it is truncated, while no store is late    *)
(* and none hits an extent.                                                *)
KeepsZones ==
  [][\A f \in File :
       ~(Own(f) \subseteq Own(f)') =>
         \/ raced' \/ overrun'
         \/ \E p \in Process : call[p].file = f /\ call[p].pc = "zero"]_vars

(* DESIGN.txt, "truncate(): scane through the extents, delete all blocks   *)
(* in their regions": so no zone of another file is freed by it.           *)
OwnedAreBusy == \A f \in File : Own(f) \subseteq zmap

(* itree_common.c:271, "if not in inode, allocate a new one, and add it to *)
(* extent": the next get_block() of the sector finds the new block.        *)
FoundAgain ==
  [][\A p \in Process :
       call[p].pc = "extend" /\ call'[p].pc = "mapped" =>
         Found(i_data'[call[p].file], call[p].sector) = call[p].zone]_vars

=============================================================================
