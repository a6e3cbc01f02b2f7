---------------------------- MODULE IndirectTree ----------------------------
(***************************************************************************)
(* hw5/itree_common.c with the V1 block_to_path() of itree_v1.c: the block *)
(* map of one inode as a tree of indirect blocks, DEPTH = 3.               *)
(*                                                                         *)
(* get_block() runs for write() under i_mutex, for writepage under the     *)
(* lock of the page only, and for bmap() under no lock, while truncate()   *)
(* runs under i_mutex, when the pages behind the new end are gone.         *)
(* pointers_lock is held over what is one step here; the rest of           *)
(* truncate() clears pointers without it.  sb_bread() may fail, and        *)
(* minix_new_block() may find no block.  A page is one block.              *)
(***************************************************************************)
EXTENDS Integers, SequencesExt

CONSTANTS
  Process,
  NBlocks,                (* the data zones are 1 .. NBlocks               *)
  DIRECT,                 (* 7                                             *)
  PTRS,                   (* pointers in an indirect block: 512            *)
  Sector                  (* the sectors that calls ask for                *)

Block  == 1 .. NBlocks
NoBlock == 0
Inode  == 0                (* the container of the pointers in i_data      *)
DEPTH  == 3
NSectors == DIRECT + PTRS + PTRS * PTRS      (* s_max_size                 *)

ASSUME TreeAssumption ==
  /\ NBlocks \in Nat /\ DIRECT \in Nat \ {0} /\ PTRS \in Nat \ {0}
  /\ Sector \subseteq 0 .. NSectors - 1

Nobody == "nobody"
EIO == -1
EAGAIN == -2
ENOSPC == -3

ASSUME ProcessAssumption == Nobody \notin Process

VARIABLES
  zmap,                   (* the blocks in use                             *)
  mem,                    (* mem[c][o]: pointer o of container c; the      *)
                          (* contents of free blocks are not told apart    *)
  size,                   (* i_size, in blocks                             *)
  mutex,                  (* who holds i_mutex                             *)
  call,                   (* [pc, kind, sector, result]                    *)
  chain,                  (* the Indirects of get_branch: [at, key]        *)
  branch,                 (* the keys of alloc_branch                      *)
  tasks,                  (* what truncate has still to clear and to free  *)
  unread                  (* history: blocks that truncate has cut off     *)
                          (* because it could not read an indirect block   *)

vars == <<zmap, mem, size, mutex, call, chain, branch, tasks, unread>>

Pointer(c) == IF c = Inode THEN 0 .. DIRECT + DEPTH - 2 ELSE 0 .. PTRS - 1
At(a) == mem[a[1]][a[2]]
Stored(a, b) == [mem EXCEPT ![a[1]][a[2]] = b]
Zeroes == [o \in 0 .. PTRS - 1 |-> NoBlock]

(* block_to_path()                                                         *)
Path(t) ==
  IF t < DIRECT THEN <<t>>
  ELSE IF t - DIRECT < PTRS THEN <<DIRECT, t - DIRECT>>
  ELSE LET b == t - DIRECT - PTRS IN <<DIRECT + 1, b \div PTRS, b % PTRS>>

Idle == [pc |-> "idle", kind |-> "none", sector |-> 0, result |-> NoBlock]

Init ==
  /\ zmap = {}
  /\ mem = [c \in Block \cup {Inode} |-> [o \in Pointer(c) |-> NoBlock]]
  /\ size = 0
  /\ mutex = Nobody
  /\ call = [p \in Process |-> Idle]
  /\ chain = [p \in Process |-> <<>>]
  /\ branch = [p \in Process |-> <<>>]
  /\ tasks = [p \in Process |-> <<>>]
  /\ unread = {}

Go(p, pc) == call' = [call EXCEPT ![p].pc = pc]
Done(p, result) == call' = [call EXCEPT ![p].pc = "done", ![p].result = result]

-----------------------------------------------------------------------------
(* Calls.  A call that creates holds the lock of its page, and truncate()  *)
(* has waited for those behind the new end.                                *)

Creates(p) == call[p].kind \in {"write", "writepage"}

Begin(p, pc, kind, t) ==
  /\ call' = [call EXCEPT ![p] = [pc |-> pc, kind |-> kind, sector |-> t, result |-> NoBlock]]
  /\ chain' = [chain EXCEPT ![p] = <<>>]
  /\ UNCHANGED <<zmap, mem, branch, unread>>

CallGetBlock(p, kind, t) ==
  /\ call[p].pc = "idle"
  /\ kind # "bmap" => \A q \in Process : Creates(q) => call[q].sector # t
  /\ Begin(p, "branch", kind, t)
  /\ UNCHANGED <<size, tasks>>

Write(p, t) ==
  mutex = Nobody /\ mutex' = p /\ CallGetBlock(p, "write", t)
Writepage(p, t) ==
  t < size /\ UNCHANGED mutex /\ CallGetBlock(p, "writepage", t)
Bmap(p, t) ==
  UNCHANGED mutex /\ CallGetBlock(p, "bmap", t)

(* The pointers of i_data to whole subtrees from the fw-th on, the ends of *)
(* which truncate() frees last.                                            *)
Cells(c, from, to, depth) == [op |-> "cells", at |-> c, from |-> from, to |-> to, depth |-> depth]
IndirectsNext(fw) ==
  [i \in 1 .. DEPTH - 2 - fw |-> Cells(Inode, DIRECT + fw + i, DIRECT + fw + i + 1, fw + i + 1)]
Indirects(fw) ==
  [i \in 1 .. DEPTH - 1 - fw |-> Cells(Inode, DIRECT + fw + i - 1, DIRECT + fw + i, fw + i)]

(* The begin of truncate() at i_size = s.                                  *)
CallTruncate(p, s) ==
  LET n == IF s = NSectors THEN 0 ELSE Len(Path(s)) IN
  /\ size' = s
  /\ mutex' = p
  /\ Begin(p, CASE n = 0 -> "done" [] n = 1 -> "free" [] OTHER -> "branch", "truncate", s)
  /\ tasks' = [tasks EXCEPT ![p] =
       IF n = 1 THEN <<Cells(Inode, s, DIRECT, 0)>> \o Indirects(0) ELSE <<>>]

(* minix_setattr()                                                         *)
Truncate(p, s) ==
  /\ call[p].pc = "idle" /\ mutex = Nobody /\ s # size
  /\ \A q \in Process : Creates(q) => call[q].sector < s
  /\ CallTruncate(p, s)

(* minix_write_begin() without success behind the end of the file          *)
TakeBack(p) ==
  /\ call[p].pc = "done" /\ call[p].kind = "write"
  /\ call[p].result < 0 /\ call[p].sector >= size
  /\ CallTruncate(p, size)

Return(p) ==
  LET longer == call[p].kind = "write" /\ call[p].sector >= size IN
  /\ call[p].pc = "done"
  /\ longer => call[p].result > 0
  /\ size' = IF longer THEN call[p].sector + 1 ELSE size
  /\ call' = [call EXCEPT ![p] = Idle]
  /\ chain' = [chain EXCEPT ![p] = <<>>]
  /\ mutex' = IF mutex = p THEN Nobody ELSE mutex
  /\ UNCHANGED <<zmap, mem, branch, tasks, unread>>

-----------------------------------------------------------------------------
(* get_branch(): the first Indirect, then one per level, each taken under  *)
(* pointers_lock if the chain so far still holds.                          *)

Indirect(a) == [at |-> a, key |-> At(a)]
Verified(ch) == \A i \in DOMAIN ch : At(ch[i].at) = ch[i].key

(* How deep: all the way, or for find_shared() without the zeroes at the   *)
(* end of the path.                                                        *)
Depth(p) ==
  LET path == Path(call[p].sector) IN
  IF call[p].kind # "truncate" THEN Len(path)
  ELSE Max({1} \cup {k \in DOMAIN path : path[k] # 0})

(* get_block() and find_shared() with the answer of get_branch().          *)
Answer(p, ch, err) ==
  /\ IF call[p].kind = "truncate" THEN Go(p, "shared")
     ELSE IF err = EIO THEN Done(p, EIO)
     ELSE IF err = 0 /\ Last(ch).key # NoBlock THEN Done(p, Last(ch).key)
     ELSE IF ~ Creates(p) THEN Done(p, NoBlock)
     ELSE Go(p, IF err = EAGAIN THEN "branch" ELSE "alloc")
  /\ chain' = [chain EXCEPT ![p] = IF call'[p].pc \in {"shared", "alloc"} THEN ch ELSE <<>>]
  /\ UNCHANGED <<zmap, mem, size, mutex, branch, tasks, unread>>

Extended(p, ch) ==
  IF Last(ch).key = NoBlock \/ Len(ch) = Depth(p) THEN Answer(p, ch, 0)
  ELSE /\ chain' = [chain EXCEPT ![p] = ch]
       /\ UNCHANGED <<zmap, mem, size, mutex, call, branch, tasks, unread>>

FirstLevel(p) ==
  /\ call[p].pc = "branch" /\ chain[p] = <<>>
  /\ Extended(p, <<Indirect(<<Inode, Path(call[p].sector)[1]>>)>>)

NextLevelUnverified(p) ==
  /\ call[p].pc = "branch" /\ chain[p] # <<>>
  /\ LET a == <<Last(chain[p]).key, Path(call[p].sector)[Len(chain[p]) + 1]>> IN
     Extended(p, Append(chain[p], Indirect(a)))
NextLevel(p) ==
  /\ call[p].pc = "branch" /\ chain[p] # <<>>
  /\ LET a == <<Last(chain[p]).key, Path(call[p].sector)[Len(chain[p]) + 1]>> IN
     IF Verified(chain[p]) THEN Extended(p, Append(chain[p], Indirect(a)))
     ELSE Answer(p, chain[p], EAGAIN)

ReadFails(p) ==
  /\ call[p].pc = "branch" /\ chain[p] # <<>>
  /\ Answer(p, chain[p], EIO)

-----------------------------------------------------------------------------
(* alloc_branch() and splice_branch()                                      *)

Left(p) == Len(Path(call[p].sector)) - Len(chain[p]) + 1

(* minix_new_block() of the next level, the pointer to it in the new block *)
(* above, which is all zeroes else.                                        *)
Alloc(p) ==
  LET b == Min(Block \ zmap)
      o == Path(call[p].sector)[Len(chain[p]) + Len(branch[p])] IN
  /\ call[p].pc = "alloc" /\ Len(branch[p]) < Left(p)
  /\ Block \ zmap # {}
  /\ zmap' = zmap \cup {b}
  /\ branch' = [branch EXCEPT ![p] = Append(@, b)]
  /\ mem' = IF branch[p] = <<>> THEN mem
            ELSE [mem EXCEPT ![Last(branch[p])] = [Zeroes EXCEPT ![o] = b]]
  /\ UNCHANGED <<size, mutex, call, chain, tasks, unread>>

NoSpace(p) ==
  /\ call[p].pc = "alloc" /\ Len(branch[p]) < Left(p)
  /\ zmap = Block
  /\ call' = [call EXCEPT ![p].pc = "undo", ![p].result = ENOSPC]
  /\ UNCHANGED <<zmap, mem, size, mutex, chain, branch, tasks, unread>>

(* The place must still be there and vacant.                               *)
VacantUnverified(p) == At(Last(chain[p]).at) = NoBlock
Vacant(p) == Verified(Front(chain[p])) /\ At(Last(chain[p]).at) = NoBlock
Splice(p) ==
  /\ call[p].pc = "alloc" /\ Len(branch[p]) = Left(p)
  /\ IF Vacant(p)
     THEN /\ mem' = Stored(Last(chain[p]).at, Head(branch[p]))
          /\ branch' = [branch EXCEPT ![p] = <<>>]
          /\ Done(p, Last(branch[p]))
     ELSE Go(p, "undo") /\ UNCHANGED <<mem, branch>>
  /\ UNCHANGED <<zmap, size, mutex, chain, tasks, unread>>

(* minix_free_block()                                                      *)
Freed(b) ==
  /\ zmap' = zmap \ {b}
  /\ mem' = [mem EXCEPT ![b] = Zeroes]
  /\ unread' = unread \ {b}

(* Both give the blocks back, one by one; get_block() rereads after        *)
(* splice_branch().                                                        *)
Undo(p) ==
  /\ call[p].pc = "undo" /\ branch[p] # <<>>
  /\ Freed(Head(branch[p]))
  /\ branch' = [branch EXCEPT ![p] = Tail(@)]
  /\ UNCHANGED <<size, mutex, call, chain, tasks>>
Undone(p) ==
  /\ call[p].pc = "undo" /\ branch[p] = <<>>
  /\ Go(p, IF call[p].result = ENOSPC THEN "done" ELSE "branch")
  /\ chain' = [chain EXCEPT ![p] = <<>>]
  /\ UNCHANGED <<zmap, mem, size, mutex, branch, tasks, unread>>

-----------------------------------------------------------------------------
(* truncate()                                                              *)

Children(b) == {mem[b][o] : o \in Pointer(b)} \ {NoBlock}
Below(b, depth) ==
  LET below == IF depth = 0 THEN {} ELSE Children(b) IN
  {b} \cup below \cup IF depth < 2 THEN {} ELSE UNION {Children(c) : c \in below}

Whole(b, depth) == [op |-> "whole", at |-> b, depth |-> depth, read |-> FALSE]

AllZeroesButFirst(a) == \A o \in 1 .. a[2] - 1 : mem[a[1]][o] = NoBlock
AllZeroes(a) == \A o \in 0 .. a[2] - 1 : mem[a[1]][o] = NoBlock

(* find_shared() under the lock, and the stack of what truncate() then     *)
(* does: the subtree cut off, the ends of the indirect blocks on the       *)
(* shared branch from the lowest up, the remaining whole subtrees.         *)
FindShared(p) ==
  LET ch  == chain[p]
      n   == Len(Path(call[p].sector))
      grown == Last(ch).key = NoBlock /\ At(Last(ch).at) # NoBlock
      j   == IF grown THEN Len(ch)
             ELSE Max({1} \cup {i \in 2 .. Len(ch) : ~ AllZeroes(ch[i].at)})
      stays == ~ grown /\ j = Depth(p) /\ j > 1
      top == IF grown \/ stays THEN NoBlock ELSE At(ch[j].at)
      past(q) == ch[q].at[2] + IF q = j /\ stays THEN 0 ELSE 1
  IN
  /\ call[p].pc = "shared"
  /\ mem' = IF grown \/ stays THEN mem ELSE Stored(ch[j].at, NoBlock)
  /\ tasks' = [tasks EXCEPT ![p] =
       (IF top = NoBlock THEN <<>> ELSE <<Whole(top, n - j)>>)
       \o [i \in 1 .. j - 1 |-> Cells(ch[j + 1 - i].at[1], past(j + 1 - i), PTRS, n - (j + 1 - i))]
       \o Indirects(Path(call[p].sector)[1] + 1 - DIRECT)]
  /\ unread' = IF top # NoBlock /\ Len(ch) < Depth(p) /\ Last(ch).key # NoBlock
               THEN unread \cup Below(top, n - j) ELSE unread
  /\ Go(p, "free")
  /\ chain' = [chain EXCEPT ![p] = <<>>]
  /\ UNCHANGED <<zmap, size, mutex, branch>>

(* free_data() and free_branches(): the first pointer left is cleared, then*)
(* what it points to is read, emptied and freed.                           *)
Top(p) == Head(tasks[p])
Freeing(p, op) == call[p].pc = "free" /\ tasks[p] # <<>> /\ Top(p).op = op
Used(c, from, to) == {o \in from .. to - 1 : mem[c][o] # NoBlock}
Becomes(p, new) == tasks' = [tasks EXCEPT ![p] = new \o Tail(@)]

ClearPointer(p, t, from, to, depth) ==
  LET o == Min(Used(t.at, from, to)) IN
  /\ Used(t.at, from, to) # {}
  /\ mem' = Stored(<<t.at, o>>, NoBlock)
  /\ Becomes(p, <<Whole(mem[t.at][o], depth), t>>)
  /\ UNCHANGED <<zmap, size, mutex, call, chain, branch, unread>>

ClearEnds(p) ==
  Freeing(p, "cells") /\ ClearPointer(p, Top(p), Top(p).from, Top(p).to, Top(p).depth)
EndsClear(p) ==
  /\ Freeing(p, "cells") /\ Used(Top(p).at, Top(p).from, Top(p).to) = {}
  /\ Becomes(p, <<>>)
  /\ UNCHANGED <<zmap, mem, size, mutex, call, chain, branch, unread>>

ReadIndirect(p) ==
  /\ Freeing(p, "whole") /\ Top(p).depth > 0 /\ ~ Top(p).read
  /\ \/ Becomes(p, <<[Top(p) EXCEPT !.read = TRUE]>>) /\ UNCHANGED unread
     \/ Becomes(p, <<>>) /\ unread' = unread \cup Below(Top(p).at, Top(p).depth)
  /\ UNCHANGED <<zmap, mem, size, mutex, call, chain, branch>>
ClearIndirect(p) ==
  Freeing(p, "whole") /\ Top(p).read /\ ClearPointer(p, Top(p), 0, PTRS, Top(p).depth - 1)
FreeBlock(p) ==
  /\ Freeing(p, "whole")
  /\ Top(p).depth > 0 => Top(p).read /\ Used(Top(p).at, 0, PTRS) = {}
  /\ Freed(Top(p).at)
  /\ Becomes(p, <<>>)
  /\ UNCHANGED <<size, mutex, call, chain, branch>>

Truncated(p) ==
  /\ call[p].pc = "free" /\ tasks[p] = <<>>
  /\ Go(p, "done")
  /\ UNCHANGED <<zmap, mem, size, mutex, chain, branch, tasks, unread>>

-----------------------------------------------------------------------------
GetBlockStep(p) ==
  \/ FirstLevel(p) \/ NextLevel(p) \/ ReadFails(p)
  \/ Alloc(p) \/ NoSpace(p) \/ Splice(p) \/ Undo(p) \/ Undone(p)
TruncateStep(p) ==
  \/ FindShared(p) \/ ClearEnds(p) \/ EndsClear(p)
  \/ ReadIndirect(p) \/ ClearIndirect(p) \/ FreeBlock(p) \/ Truncated(p)

Next ==
  \E p \in Process :
    \/ \E t \in Sector : Write(p, t) \/ Writepage(p, t) \/ Bmap(p, t)
    \/ \E s \in {0} \cup Sector \cup {t + 1 : t \in Sector} : Truncate(p, s)
    \/ TakeBack(p) \/ Return(p) \/ GetBlockStep(p) \/ TruncateStep(p)

Spec == Init /\ [][Next]_vars

-----------------------------------------------------------------------------
(* Properties                                                              *)

(* Each variable has its type; a call that creates or truncates in the     *)
(* middle of a change of the size holds i_mutex.                           *)
TypeOK ==
  /\ zmap \subseteq Block /\ unread \subseteq zmap
  /\ \A c \in Block \cup {Inode} : mem[c] \in [Pointer(c) -> Block \cup {NoBlock}]
  /\ size \in 0 .. NSectors
  /\ mutex \in Process \cup {Nobody}
  /\ \A p \in Process :
       /\ call[p].pc \in {"idle", "branch", "alloc", "undo", "shared", "free", "done"}
       /\ call[p].result \in Block \cup {NoBlock, EIO, ENOSPC}
       /\ Range(branch[p]) \subseteq zmap /\ Len(branch[p]) <= DEPTH
       /\ Len(chain[p]) <= DEPTH
       /\ call[p].kind \in {"write", "truncate"} => mutex = p

(* The pointers of the tree.                                               *)
TreePointers ==
  {<<Inode, o>> : o \in Pointer(Inode)}
    \cup ((({mem[Inode][DIRECT], mem[Inode][DIRECT + 1]} \cup
            (IF mem[Inode][DIRECT + 1] = NoBlock THEN {} ELSE Children(mem[Inode][DIRECT + 1])))
           \ {NoBlock}) \X (0 .. PTRS - 1))
Holders(b) ==
  Cardinality({a \in TreePointers : At(a) = b})
    + Cardinality({p \in Process : call[p].pc \in {"alloc", "undo"} /\ b \in Range(branch[p])})
    + Cardinality({x \in Process \X (1 .. 4 * DEPTH) :
         /\ call[x[1]].pc = "free" /\ x[2] \in DOMAIN tasks[x[1]]
         /\ tasks[x[1]][x[2]].op = "whole"
         /\ b \in Below(tasks[x[1]][x[2]].at, tasks[x[1]][x[2]].depth)})

(* A block in use is held once: by a pointer of the tree, by the branch of *)
(* a call that has not spliced it yet, or by a truncate that is about to   *)
(* free it.  A free block is held by nobody.  Only blocks under an indirect*)
(* block that truncate could not read are lost.                            *)
OwnedOnce ==
  \A b \in Block :
    IF b \in zmap THEN Holders(b) = 1 \/ (Holders(b) = 0 /\ b \in unread)
    ELSE Holders(b) = 0

(* Where a walk over the tree ends.                                        *)
Lookup(t) ==
  LET path == Path(t)
      first == mem[Inode][path[1]]
      step(b, o) == IF b = NoBlock THEN NoBlock ELSE mem[b][o] IN
  CASE Len(path) = 1 -> first
    [] Len(path) = 2 -> step(first, path[2])
    [] OTHER -> step(step(first, path[2]), path[3])

(* Neither an allocation nor a truncate takes its block from a sector in   *)
(* front of the end, unless the indirect block above could not be read.    *)
KeepsBlocks ==
  [][\A t \in Sector :
       (t < size' /\ t < size /\ Lookup(t) # NoBlock)
         => (Lookup(t)' = Lookup(t) \/ Lookup(t) \in unread')]_vars

(* The block that get_block() has found or allocated is the one of this    *)
(* sector at that moment, whatever was cut off and put in meanwhile.       *)
MapsWhatItReturns ==
  [][\A p \in Process :
       (call[p].pc # "done" /\ call'[p].pc = "done" /\ call'[p].result \in Block)
         => Lookup(call[p].sector)' = call'[p].result]_vars

(* When truncate() is done, nothing is mapped behind the end of the file.  *)
TruncateDone ==
  \A p \in Process :
    (call[p].kind = "truncate" /\ call[p].pc = "done")
      => \A t \in 0 .. NSectors - 1 : t >= size => Lookup(t) = NoBlock

=============================================================================
