-------------------------------- MODULE P5 --------------------------------
(***************************************************************************)
(* hw5/p5.c: a file system in one process, over block.c.  It keeps its     *)
(* bitmaps, inodes, folders and tables on the device and reads them again  *)
(* in every call, so that the state below is what the device holds.        *)
(*                                                                         *)
(* Every function is one step but my_read and my_write, which go block by  *)
(* block.  A call that fails before it has changed anything is no step.    *)
(* The tables of indirect blocks are left out: an inode has its data       *)
(* blocks, and the blocks that its tables take.                            *)
(*                                                                         *)
(* fate is what has become of the device.  It is sound until a call does   *)
(* what C or block.c do not define, and nothing is followed from there:    *)
(*   damaged        an inode or a block is handed out while it is in use   *)
(*   overflow       a name is stored behind the last slot of a folder      *)
(*   exhausted      -1, for no inode or no block, is used as a number      *)
(*   beyond         a block behind the end of the device, or behind the    *)
(*                  last one of the map, is handed out                     *)
(*   unreturned     my_open or my_creat ends without a value, for every    *)
(*                  descriptor is in use                                   *)
(*   uninitialised  my_write starts behind the first block of a table,     *)
(*                  and uses its local copy of the table unread            *)
(*   stale          a descriptor is used whose file has lost its name      *)
(***************************************************************************)
EXTENDS Integers, Sequences, FiniteSets, SequencesExt

CONSTANTS
  Name, NoName,           (* names of files and folders                    *)
  MaxDepth,               (* names in a path                               *)
  NSlots,                 (* names in a folder                             *)
  MaxOpen,                (* open files                                    *)
  MaxSurplus,             (* bound of surplus                              *)
  INODE_NUM,
  BYTE, MAP, MAPS,        (* bits of a byte, bits of a map block, and the  *)
                          (* blocks of the block bitmap                    *)
  BLOCK_START,            (* the first block that is not metadata          *)
  DevSizes,               (* what dev_open() may return                    *)
  Clean,                  (* what `clean' of my_mkfs() may hold: sets of   *)
                          (* bits of a block                               *)
  DIRECT, IND,            (* direct blocks, blocks of a table              *)
  BLOCK_SIZE,
  Length, MaxLength,      (* lengths that are asked for, bound of the end  *)
  Source                  (* buffers that are written                      *)

ASSUME SizeAssumption ==
  /\ {NSlots, MaxOpen, MaxDepth, BYTE, MAPS, DIRECT, IND, BLOCK_SIZE} \subseteq Nat \ {0}
  /\ MAP \in Nat \ {0} /\ MAP % BYTE = 0
  /\ INODE_NUM \in Nat \ {0} /\ INODE_NUM % BYTE = 0
  /\ BLOCK_START \in 1 .. MAP - 1
ASSUME DataAssumption ==
  /\ NoName \notin Name /\ MaxSurplus \in Nat
  /\ Length \subseteq Nat
  /\ MaxLength \in Nat /\ MaxLength \div BLOCK_SIZE < DIRECT + IND + IND * IND
  /\ DevSizes \subseteq Nat
  /\ Clean \subseteq SUBSET (0 .. MAP - 1)

VARIABLES
  imap, bmap,             (* the bits that are set                         *)
  iwater, bwater,         (* highwatermarkforInode, highwatermarkforBlock  *)
  devsize,
  inode,                  (* [kind, block, first, second]                  *)
  folder,                 (* the slots of the folder of an inode           *)
  data,                   (* the bytes of a block of a file                *)
  openedFileNum, openedFiles, blockbuf,
  call,                   (* the my_read or my_write that runs             *)
  fate,
  wrapped,                (* history: a search passed its watermark        *)
  stale,                  (* history: descriptors whose file has no name   *)
  surplus,                (* history: closes of descriptors not in use     *)
  contents                (* history: the bytes written to each file       *)

maps  == <<imap, bmap, iwater, bwater, wrapped>>
tree  == <<inode, folder>>
files == <<openedFileNum, openedFiles, blockbuf, stale, surplus>>
vars  == <<maps, devsize, tree, data, files, call, fate, contents>>

Inode == 0 .. INODE_NUM - 1
Block == 0 .. MAP * MAPS - 1
Slot  == 1 .. NSlots
FD    == 0 .. MaxOpen - 1
Path  == UNION {[1 .. n -> Name] : n \in 1 .. MaxDepth}

NoByte  == <<>>
NoEntry == [name |-> NoName, inode |-> 0]

(* initInode(), initFolder()                                               *)
Blank  == [kind |-> "none", block |-> <<>>, first |-> 0, second |-> <<>>]
Empty  == [s \in Slot |-> NoEntry]
Unwritten == [p \in 0 .. MaxLength - 1 |-> NoByte]
Unread == [x \in 0 .. BLOCK_SIZE - 1 |-> NoByte]
Idle == [op |-> "none", fd |-> -1, i |-> 0, length |-> 0, source |-> NoName,
         block |-> 0, buffer |-> <<>>]

-----------------------------------------------------------------------------
(* Bitmaps.  code is a signed char, and its shift draws the sign bit in:   *)
(* SET_CODE >> k has bits 0 to k set, RESET_CODE >> k has them cleared.    *)

UpTo(p) == (p \div BYTE) * BYTE .. p
Set(map, p) == map \cup UpTo(p)
Reset(map, S) == map \ UNION {UpTo(p) : p \in S}

(* findAnEmptyInode(): in every byte from the watermark on, only the bits  *)
(* from the one of the watermark on; then from the beginning up to it.     *)
InodesAhead ==
  {i \in Inode \ imap :
     i \div BYTE >= iwater \div BYTE /\ i % BYTE >= iwater % BYTE}
InodesBehind == {i \in Inode \ imap : i <= iwater}
findAnEmptyInode ==
  IF InodesAhead # {} THEN Min(InodesAhead)
  ELSE IF InodesBehind # {} THEN Min(InodesBehind) ELSE -1

(* Variant: the search begins behind the metadata, not at the watermark.   *)
findAnEmptyBlockFromStart(map, water) ==
  LET unmarked == {b \in Block \ map : b >= BLOCK_START}
  IN  IF unmarked = {} THEN -1 ELSE Min(unmarked)

(* findAnEmptyBlock(), in a map with a watermark: so in the map block of   *)
(* the watermark; all bits of the ones after it, but for the last; then    *)
(* from the beginning.                                                     *)
BlocksAhead(map, water) ==
  {b \in Block \ map :
     /\ b \div MAP = water \div MAP
     /\ b \div BYTE >= water \div BYTE /\ b % BYTE >= water % BYTE}
BlocksLater(map, water) ==
  {b \in Block \ map : b \div MAP > water \div MAP /\ b \div MAP <= MAPS - 2}
BlocksBehind(map, water) ==
  {b \in Block \ map : b + 1 < water /\ b \div MAP <= MAPS - 2}
Wraps(map, water) ==
  water < MAP * MAPS /\ BlocksAhead(map, water) = {} /\ BlocksLater(map, water) = {}

(* Behind the last map block it reads the block of the root's inode, whose *)
(* first bytes are 0, for a map: the watermark itself is taken to be free. *)
findAnEmptyBlock(map, water) ==
  IF water >= MAP * MAPS THEN water
  ELSE IF BlocksAhead(map, water) # {} THEN Min(BlocksAhead(map, water))
  ELSE IF BlocksLater(map, water) # {} THEN Min(BlocksLater(map, water))
  ELSE IF BlocksBehind(map, water) # {} THEN Min(BlocksBehind(map, water))
  ELSE -1

(* n times findAnEmptyBlock() and blockCommand(SET).                       *)
TakeBlocks(n) ==
  LET take[k \in 0 .. n] ==
        IF k = 0
        THEN [got |-> <<>>, map |-> bmap, water |-> bwater, wrapped |-> wrapped]
        ELSE LET t == take[k - 1]
                 b == findAnEmptyBlock(t.map, t.water)
             IN  [got |-> Append(t.got, b),
                  map |-> IF b \in Block THEN Set(t.map, b) ELSE t.map,
                  water |-> IF b = -1 THEN t.water ELSE b + 1,
                  wrapped |-> t.wrapped \/ Wraps(t.map, t.water)]
  IN  take[n]

-----------------------------------------------------------------------------
(* Paths and folders                                                       *)

Holding(f, n) == {s \in Slot : f[s].name = n}

(* getInodeByFilePath(): the first slot with the name, at each level.      *)
Walk(fs, path) ==
  LET at[k \in 0 .. Len(path)] ==
        IF k = 0 THEN 0
        ELSE LET up == at[k - 1]
             IN  IF up = -1 \/ inode[up].kind # "folder" THEN -1
                 ELSE IF Holding(fs[up], path[k]) = {} THEN -1
                 ELSE LET down == fs[up][Min(Holding(fs[up], path[k]))].inode
                      IN  IF down = up THEN -1 ELSE down
  IN  at[Len(path)]
getInodeByFilePath(path) == Walk(folder, path)

IsFolder(i) == i # -1 /\ inode[i].kind = "folder"

(* The loops of my_creat, my_mkdir and my_rename over the names of a       *)
(* folder end at the first free slot: a name behind it is not compared.    *)
FreeSlots(f) == Holding(f, NoName)
Collides(f, n) == \E s \in Holding(f, n) : \A h \in FreeSlots(f) : s < h

(* What is in the tree below an inode, and the inode.                      *)
NamedIn(I) ==
  UNION {{folder[i][s].inode : s \in {s \in Slot : folder[i][s].name # NoName}} : i \in I}
Subtree(root) ==
  LET below[I \in SUBSET Inode] ==
        LET more == NamedIn(I) IN IF more \subseteq I THEN I ELSE below[I \cup more]
  IN  below[{root}]

Descriptors(I) == {fd \in FD : openedFiles[fd] \in I}

-----------------------------------------------------------------------------

(* my_mkfs(): `clean' is not initialised, and is written to all the maps.  *)
Init ==
  /\ \E clean \in Clean :
       /\ imap = Set(clean \cap Inode, 0)
       /\ bmap = Set({b \in Block : b % MAP \in clean}, BLOCK_START)
  /\ iwater = 0
  /\ bwater = BLOCK_START
  /\ devsize \in DevSizes
  /\ inode = [i \in Inode |->
                IF i = 0 THEN [Blank EXCEPT !.kind = "folder", !.block = <<BLOCK_START>>]
                ELSE Blank]
  /\ folder = [i \in Inode |-> Empty]
  /\ data = [b \in Block |-> Unread]
  /\ openedFileNum = 0
  /\ openedFiles = [fd \in FD |-> -1]
  /\ blockbuf = [fd \in FD |-> 0]
  /\ call = Idle
  /\ fate = "sound"
  /\ wrapped = FALSE
  /\ stale = {}
  /\ surplus = 0
  /\ contents = [i \in Inode |-> Unwritten]

-----------------------------------------------------------------------------
(* What is in use                                                          *)

Used == Subtree(0)
Entries == {<<i, s>> \in Used \X Slot :
              folder[i][s].name # NoName}
Owned(i) ==
  Range(inode[i].block) \cup Range(inode[i].second) \cup ({inode[i].first} \ {0})
InUse == 0 .. BLOCK_START - 1 \cup UNION {Owned(i) : i \in Used}

(* What becomes of the device when an inode and blocks are taken.          *)
FateOf(i, blocks) ==
  IF -1 \in {i} \cup blocks THEN "exhausted"
  ELSE IF i \in Used \/ blocks \cap InUse # {} THEN "damaged"
  ELSE IF \E b \in blocks : b >= devsize THEN "beyond" ELSE "sound"

Sound == fate = "sound"
Ready == Sound /\ call = Idle

-----------------------------------------------------------------------------
(* Folders                                                                 *)

Enter(parent, s, n, i) ==
  [folder EXCEPT ![parent][s] = [name |-> n, inode |-> i]]

(* The first free place in openedFiles, if there is one, whatever          *)
(* openedFileNum says; and f with x in it.                                 *)
FirstFree ==
  {fd \in FD : openedFiles[fd] = -1 /\ \A d \in FD : openedFiles[d] = -1 => fd <= d}
InFirstFree(f, x) == [fd \in FD |-> IF fd \in FirstFree THEN x ELSE f[fd]]

(* A folder is full: strcpy() behind its last name.                        *)
Overflow(parent, n) ==
  /\ IsFolder(parent)
  /\ FreeSlots(folder[parent]) = {} /\ ~Collides(folder[parent], n)
  /\ fate' = "overflow"
  /\ UNCHANGED <<maps, devsize, tree, data, files, call, contents>>

my_creat(path) ==
  LET parent == getInodeByFilePath(Front(path))
      n == Last(path)
      i == findAnEmptyInode
      s == Min(FreeSlots(folder[parent]))
  IN  /\ Ready
      /\ openedFileNum # MaxOpen
      /\ \/ Overflow(parent, n)
         \/ /\ IsFolder(parent)
            /\ FreeSlots(folder[parent]) # {} /\ ~Collides(folder[parent], n)
            /\ wrapped' = (wrapped \/ InodesAhead = {})
            /\ UNCHANGED <<bmap, bwater, devsize, data, call>>
            /\ \/ /\ i = -1
                  /\ folder' = Enter(parent, s, n, i)
                  /\ fate' = "exhausted"
                  /\ UNCHANGED <<imap, iwater, inode, files, contents>>
               \/ /\ i # -1
                  /\ iwater' = i + 1
                  /\ imap' = Set(imap, i)
                  /\ folder' = Enter(parent, s, n, i)
                  /\ inode' = [inode EXCEPT ![i] = [Blank EXCEPT !.kind = "file"]]
                  /\ contents' = [contents EXCEPT ![i] = Unwritten]
                  /\ openedFileNum' = openedFileNum + 1
                  /\ openedFiles' = InFirstFree(openedFiles, i)
                  /\ fate' = IF FirstFree = {} /\ FateOf(i, {}) = "sound"
                             THEN "unreturned" ELSE FateOf(i, {})
                  /\ UNCHANGED <<blockbuf, stale, surplus>>

(* The block is looked for before the inode, and marked after it.          *)
my_mkdir(path) ==
  LET parent == getInodeByFilePath(Front(path))
      n == Last(path)
      i == findAnEmptyInode
      t == TakeBlocks(1)
      s == Min(FreeSlots(folder[parent]))
  IN  /\ Ready
      /\ \/ Overflow(parent, n)
         \/ /\ IsFolder(parent)
            /\ FreeSlots(folder[parent]) # {} /\ ~Collides(folder[parent], n)
            /\ wrapped' = (t.wrapped \/ InodesAhead = {})
            /\ bwater' = t.water
            /\ UNCHANGED <<devsize, data, files, call, contents>>
            /\ \/ /\ i = -1
                  /\ folder' = Enter(parent, s, n, i)
                  /\ fate' = "exhausted"
                  /\ UNCHANGED <<imap, bmap, iwater, inode>>
               \/ /\ i # -1
                  /\ iwater' = i + 1
                  /\ imap' = Set(imap, i)
                  /\ bmap' = t.map
                  /\ folder' = [Enter(parent, s, n, i) EXCEPT ![i] = Empty]
                  /\ inode' = [inode EXCEPT ![i] =
                                 [Blank EXCEPT !.kind = "folder", !.block = t.got]]
                  /\ fate' = FateOf(i, Range(t.got))

(* The blocks of a file that freeInodeAndBlock() resets: for the second    *)
(* table, a leaf at a time until its first 0, and the loop over the blocks *)
(* of the file skips one more.  The second table and its leaves are kept.  *)
Leaf(i) == (i - DIRECT - IND) \div IND
FreedBlocks(i) ==
  LET n == Len(inode[i].block)
      leaves == {Leaf(k) : k \in {k \in DIRECT + IND .. n - 1 :
                                    (k - DIRECT - IND) % (IND + 1) = 0}}
  IN  {inode[i].block[k + 1] : k \in {k \in 0 .. n - 1 :
         k < DIRECT + IND \/ Leaf(k) \in leaves}}
      \cup ({inode[i].first} \ {0})

(* An entry leaves the tree, with all that is below it.  What its inodes   *)
(* and blocks hold is not read again, and forgotten here.                  *)
Detach(i, s) ==
  LET I == Subtree(folder[i][s].inode)
      blocks == UNION {Owned(j) : j \in I}
  IN  /\ folder' = [j \in Inode |-> IF j \in I THEN Empty
                      ELSE IF j = i THEN [folder[j] EXCEPT ![s] = NoEntry]
                      ELSE folder[j]]
      /\ inode' = [j \in Inode |-> IF j \in I THEN Blank ELSE inode[j]]
      /\ data' = [b \in Block |-> IF b \in blocks THEN Unread ELSE data[b]]
      /\ contents' = [j \in Inode |-> IF j \in I THEN Unwritten ELSE contents[j]]
      /\ stale' = stale \cup Descriptors(I)

(* my_remove() takes the name out and frees the tree below it, my_rmdir()  *)
(* does it the other way round; neither looks at what the name is of.      *)
my_remove(path) ==
  LET parent == getInodeByFilePath(Front(path))
      at == Holding(folder[parent], Last(path))
      I == Subtree(folder[parent][Min(at)].inode)
  IN  /\ Ready
      /\ IsFolder(parent) /\ at # {}
      /\ imap' = Reset(imap, I)
      /\ bmap' = Reset(bmap, UNION {FreedBlocks(i) : i \in I})
      /\ Detach(parent, Min(at))
      /\ UNCHANGED <<iwater, bwater, wrapped, devsize, openedFileNum, openedFiles,
                     blockbuf, surplus, call, fate>>
my_rmdir(path) == my_remove(path)

(* Variant: the new name is stored in the first slot, free or not.         *)
my_renameInFirstSlot(old, new) ==
  LET parent == getInodeByFilePath(Front(old))
      at == Holding(folder[parent], Last(old))
      target == folder[parent][Min(at)].inode
      out == [folder EXCEPT ![parent][Min(at)] = NoEntry]
      to == Walk(out, Front(new))
  IN  /\ Ready
      /\ IsFolder(parent) /\ at # {} /\ IsFolder(to)
      /\ folder' = [out EXCEPT ![to][1] = [name |-> Last(new), inode |-> target]]
      /\ UNCHANGED <<maps, devsize, inode, data, files, call, fate, contents>>

(* my_rename(): the old name is taken out first.  Then the new one is      *)
(* looked up: if it cannot be entered, the file is lost, for its inode is  *)
(* in no folder.                                                           *)
my_rename(old, new) ==
  LET parent == getInodeByFilePath(Front(old))
      at == Holding(folder[parent], Last(old))
      target == folder[parent][Min(at)].inode
      out == [folder EXCEPT ![parent][Min(at)] = NoEntry]
      to == Walk(out, Front(new))
      accepted == IsFolder(to) /\ FreeSlots(out[to]) # {} /\ ~Collides(out[to], Last(new))
  IN  /\ Ready
      /\ IsFolder(parent) /\ at # {}
      /\ \/ /\ accepted
            /\ folder' = [out EXCEPT ![to][Min(FreeSlots(out[to]))] =
                            [name |-> Last(new), inode |-> target]]
            /\ UNCHANGED <<inode, data, contents, stale>>
         \/ ~accepted /\ Detach(parent, Min(at))
      /\ UNCHANGED <<maps, devsize, openedFileNum, openedFiles, blockbuf, surplus, call, fate>>

-----------------------------------------------------------------------------
(* Open files                                                              *)

my_open(path) ==
  LET i == getInodeByFilePath(path)
  IN  /\ Ready
      /\ openedFileNum # MaxOpen
      /\ i # -1 /\ inode[i].kind = "file"
      /\ openedFileNum' = openedFileNum + 1
      /\ openedFiles' = InFirstFree(openedFiles, i)
      /\ blockbuf' = InFirstFree(blockbuf, 0)
      /\ fate' = IF FirstFree = {} THEN "unreturned" ELSE fate
      /\ UNCHANGED <<maps, devsize, tree, data, call, stale, surplus, contents>>

(* The count goes down with each call of my_close().                       *)
Closed(fd) ==
  /\ Ready
  /\ \/ openedFiles[fd] # -1 /\ UNCHANGED surplus
     \/ openedFiles[fd] = -1 /\ surplus < MaxSurplus /\ surplus' = surplus + 1
  /\ openedFileNum' = openedFileNum - 1
  /\ openedFiles' = [openedFiles EXCEPT ![fd] = -1]
  /\ stale' = stale \ {fd}
  /\ UNCHANGED <<maps, devsize, tree, data, call, fate, contents>>

(* Variant: the position of the descriptor is kept.                        *)
my_closeKeepsPosition(fd) == Closed(fd) /\ UNCHANGED blockbuf

(* my_close() does not look whether the descriptor is in use.              *)
my_close(fd) == Closed(fd) /\ blockbuf' = [blockbuf EXCEPT ![fd] = 0]

(* The blocks of the first table, but for the first one, are all the same  *)
(* one: my_write finds a block only for i = 4.                             *)
Aliased(i) == DIRECT < i /\ i < DIRECT + IND

(* Variant: the last block is taken to be full.                            *)
PieceWhole(pos, length, i) ==
  LET isFirst == i = pos \div BLOCK_SIZE
  IN  [block |-> IF isFirst THEN pos % BLOCK_SIZE ELSE 0,
       buffer |-> IF isFirst THEN 0 ELSE i * BLOCK_SIZE - pos,
       length |-> IF isFirst THEN BLOCK_SIZE - (pos % BLOCK_SIZE) ELSE BLOCK_SIZE]

(* The memcpy() of block i in a transfer: where in the block and in the    *)
(* buffer it begins, and its length.                                       *)
Piece(pos, length, i) ==
  LET isFirst == i = pos \div BLOCK_SIZE
      isLast == i = (pos + length) \div BLOCK_SIZE
  IN  [block |-> IF isFirst THEN pos % BLOCK_SIZE ELSE 0,
       buffer |-> IF isFirst THEN 0 ELSE i * BLOCK_SIZE - pos,
       length |-> IF isFirst /\ isLast THEN length
                  ELSE IF isFirst THEN BLOCK_SIZE - (pos % BLOCK_SIZE)
                  ELSE IF isLast THEN (pos + length) % BLOCK_SIZE
                  ELSE BLOCK_SIZE]

Start(op, fd, length, source) ==
  /\ Ready
  /\ openedFiles[fd] # -1
  /\ blockbuf[fd] + length <= MaxLength
  /\ fate' = IF fd \in stale THEN "stale"
             ELSE IF /\ op = "write"
                     /\ \/ Aliased(blockbuf[fd] \div BLOCK_SIZE)
                        \/ blockbuf[fd] \div BLOCK_SIZE > DIRECT + IND
             THEN "uninitialised" ELSE fate
  /\ call' = [Idle EXCEPT !.op = op, !.fd = fd, !.i = blockbuf[fd] \div BLOCK_SIZE,
                          !.length = length, !.source = source,
                          !.buffer = IF op = "read"
                                     THEN [k \in 0 .. length - 1 |-> NoByte] ELSE <<>>]
  /\ UNCHANGED <<maps, devsize, tree, data, files>>

my_write(fd, length, source) ==
  /\ Start("write", fd, length, source)
  /\ contents' = [contents EXCEPT ![openedFiles[fd]] =
       [p \in DOMAIN @ |->
          IF blockbuf[fd] <= p /\ p < blockbuf[fd] + length
          THEN <<source, p - blockbuf[fd]>> ELSE @[p]]]

my_read(fd, length) ==
  /\ Start("read", fd, length, NoName)
  /\ UNCHANGED contents

(* The loops                                                               *)
File == openedFiles[call.fd]
Ended == call.i > (blockbuf[call.fd] + call.length) \div BLOCK_SIZE
Running(op) == Sound /\ call.op = op

(* The memcpy() from the buffer, and write_block().                        *)
CopyIn(b, old) ==
  LET c == Piece(blockbuf[call.fd], call.length, call.i)
  IN  /\ data' = [data EXCEPT ![b] = [x \in DOMAIN @ |->
                    IF c.block <= x /\ x < c.block + c.length
                    THEN <<call.source, c.buffer + x - c.block>> ELSE old[x]]]
      /\ call' = [call EXCEPT !.i = @ + 1, !.block = b]

(* A block of the file.                                                    *)
Overwrite ==
  /\ Running("write") /\ ~Ended
  /\ call.i < Len(inode[File].block)
  /\ CopyIn(inode[File].block[call.i + 1], data[inode[File].block[call.i + 1]])
  /\ UNCHANGED <<maps, devsize, tree, files, fate, contents>>

(* The blocks that the tables need more for block i.                       *)
NewTables(i) ==
  IF i < DIRECT THEN 0
  ELSE IF i < DIRECT + IND THEN (IF inode[File].first = 0 THEN 1 ELSE 0)
  ELSE 2 + Leaf(i) - Len(inode[File].second)

(* A new block of the file: tables first, then the block, but that the     *)
(* blocks of the first table take the block of the round before.  What     *)
(* the block held stays around what is copied.                             *)
Extend ==
  LET i == call.i
      n == NewTables(i)
      t == TakeBlocks(n + (IF Aliased(i) THEN 0 ELSE 1))
      b == IF Aliased(i) THEN call.block ELSE Last(t.got)
      end == FateOf(INODE_NUM, Range(t.got))
  IN  /\ Running("write") /\ ~Ended
      /\ i >= Len(inode[File].block)
      /\ bmap' = t.map /\ bwater' = t.water /\ wrapped' = t.wrapped
      /\ fate' = end
      /\ inode' = [inode EXCEPT ![File] =
                     [@ EXCEPT !.block = Append(@, b),
                               !.first = IF n = 1 /\ i < DIRECT + IND THEN t.got[1] ELSE @,
                               !.second = IF i < DIRECT + IND THEN @
                                          ELSE @ \o SubSeq(t.got, 1, n)]]
      /\ \/ end = "sound" /\ CopyIn(b, IF Aliased(i) THEN data[b] ELSE Unread)
         \/ end # "sound" /\ UNCHANGED <<data, call>>
      /\ UNCHANGED <<imap, iwater, devsize, folder, files, contents>>

(* A block is read; -1 if the file has no such block.                      *)
ReadBlock ==
  LET c == Piece(blockbuf[call.fd], call.length, call.i)
      b == inode[File].block[call.i + 1]
  IN  /\ Running("read") /\ ~Ended
      /\ \/ /\ call.i >= Len(inode[File].block)
            /\ call' = Idle
         \/ /\ call.i < Len(inode[File].block)
            /\ call' = [call EXCEPT !.i = @ + 1, !.buffer = [k \in DOMAIN @ |->
                          IF c.buffer <= k /\ k < c.buffer + c.length
                          THEN data[b][c.block + k - c.buffer] ELSE @[k]]]
      /\ UNCHANGED <<maps, devsize, tree, data, files, fate, contents>>

Return ==
  /\ Sound /\ call # Idle /\ Ended
  /\ blockbuf' = [blockbuf EXCEPT ![call.fd] = @ + call.length]
  /\ call' = Idle
  /\ UNCHANGED <<maps, devsize, tree, data, openedFileNum, openedFiles, stale, surplus,
                 fate, contents>>

Next ==
  \/ \E path \in Path :
       \/ my_creat(path) \/ my_mkdir(path) \/ my_remove(path) \/ my_rmdir(path)
       \/ my_open(path)
       \/ \E new \in Path : my_rename(path, new)
  \/ \E fd \in FD :
       \/ my_close(fd)
       \/ \E length \in Length :
            my_read(fd, length) \/ \E source \in Source : my_write(fd, length, source)
  \/ Overwrite \/ Extend \/ ReadBlock \/ Return

Spec == Init /\ [][Next]_vars

-----------------------------------------------------------------------------
(* Properties                                                              *)

TypeOK ==
  /\ imap \subseteq Inode /\ bmap \subseteq Block
  /\ iwater \in 0 .. INODE_NUM /\ bwater \in Nat
  /\ devsize \in DevSizes
  /\ inode \in [Inode -> [kind : {"none", "file", "folder"}, block : Seq(Nat \cup {-1}),
                          first : Nat \cup {-1}, second : Seq(Nat \cup {-1})]]
  /\ folder \in [Inode -> [Slot -> [name : Name \cup {NoName}, inode : Inode \cup {-1}]]]
  /\ openedFileNum \in -MaxSurplus .. MaxOpen /\ surplus \in 0 .. MaxSurplus
  /\ openedFiles \in [FD -> Inode \cup {-1}]
  /\ blockbuf \in [FD -> 0 .. MaxLength]
  /\ fate \in {"sound", "overflow", "exhausted", "beyond", "unreturned", "damaged",
               "uninitialised", "stale"}
  /\ wrapped \in BOOLEAN
  /\ stale \subseteq FD

OwnBlocks(i) ==
  Cardinality({k \in 1 .. Len(inode[i].block) : ~Aliased(k - 1)})
    + Len(inode[i].second) + (IF inode[i].first = 0 THEN 0 ELSE 1)

(* Until a search has passed its watermark nothing is handed out that is   *)
(* in use, although each SET and RESET of a bit takes the ones before it   *)
(* along, and marks files in use as free.  And while nothing is, each      *)
(* inode has one name, and no block is in two places.                      *)
OwnedOnce ==
  /\ ~wrapped => fate # "damaged"
  /\ Sound =>
       /\ \A e, g \in Entries :
            folder[e[1]][e[2]].inode = folder[g[1]][g[2]].inode => e = g
       /\ \A i \in Used :
            /\ inode[i].kind # "none"
            /\ Cardinality(Owned(i)) = OwnBlocks(i)
            /\ \A j \in Used : i # j => Owned(i) \cap Owned(j) = {}

(* openedFileNum counts the descriptors in use, less one for each close of *)
(* a descriptor that was not, whatever the order of my_creat, my_open,     *)
(* my_close and of removals of open files; so that without such a close    *)
(* my_open and my_creat find a place whenever they look for one.  A        *)
(* descriptor leads to a file with a name unless that was removed or lost; *)
(* one that is not in use begins at 0.                                     *)
DescriptorsCounted ==
  /\ fate = "unreturned" => surplus # 0
  /\ Sound =>
       /\ openedFileNum = Cardinality({fd \in FD : openedFiles[fd] # -1}) - surplus
       /\ \A fd \in FD :
            /\ openedFiles[fd] = -1 => blockbuf[fd] = 0 /\ fd \notin stale
            /\ openedFiles[fd] # -1 /\ fd \notin stale =>
                 openedFiles[fd] \in Used /\ inode[openedFiles[fd]].kind = "file"

(* A step takes at most one name away, and with it no file but those below *)
(* it; the blocks and bytes of every file that stays are as before, but    *)
(* for the one that my_write writes to.                                    *)
KeepsFiles ==
  [][Sound' /\ <<tree, data>>' # <<tree, data>> =>
       LET now == Used
           later == Used'
           gone == {e \in (now \cap later) \X Slot : /\ folder[e[1]][e[2]] # folder'[e[1]][e[2]]
                                                  /\ folder[e[1]][e[2]].name # NoName}
       IN  /\ \A e, g \in gone : e = g
           /\ \A i \in now \ later :
                \E e \in gone : i \in Subtree(folder[e[1]][e[2]].inode)
           /\ \A i \in now \cap later :
                \/ inode'[i] = inode[i] /\ \A b \in Owned(i) : data'[b] = data[b]
                \/ call.op = "write" /\ i = File]_vars

(* testp5.c:186, "error at index %d (of %d), value %d, expected %d": a     *)
(* my_read() that succeeds returns the bytes that were written last.       *)
ReadsBackIn(Blocks) ==
  Sound /\ call.op = "read" /\ Ended =>
    \A k \in DOMAIN call.buffer :
      LET p == blockbuf[call.fd] + k
      IN  contents[File][p] # NoByte /\ p \div BLOCK_SIZE \in Blocks =>
            call.buffer[k] = contents[File][p]
ReadsBack == ReadsBackIn(Nat)

(* It does in the direct blocks and those of the second table, with any    *)
(* mix of offsets and lengths, overwriting and extending.                  *)
ReadsBackApart == ReadsBackIn({i \in Nat : i < DIRECT \/ i >= DIRECT + IND})

=============================================================================
