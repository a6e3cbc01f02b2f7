------------------------- MODULE IndirectTreeProofs -------------------------
(***************************************************************************)
(* IndirectTree for any number of processes, blocks and pointers: its      *)
(* inductive invariant, that no block is held twice, its types, that a     *)
(* file keeps its blocks, that a call returns what the tree maps, and that *)
(* a truncate leaves nothing behind the end.                               *)
(***************************************************************************)
EXTENDS IndirectTree, TLAPS, SequenceTheorems, FiniteSetTheorems, WellFoundedInduction

-----------------------------------------------------------------------------

(* What a block is for: a pointer of the tree, of what truncate has cut    *)
(* off or of what it has lost leads to it (o of the container c), it is in *)
(* the branch of a call, is to be freed whole by a truncate, is lost, or   *)
(* free.  lev is how many levels of blocks hang below it.                  *)
Tag(kind, c, o, lev) == [kind |-> kind, c |-> c, o |-> o, lev |-> lev]
Loose(kind, lev) == Tag(kind, Inode, 0, lev)
Tags == [kind : {"pointed", "branch", "whole", "lost", "free"},
         c : Block \cup {Inode}, o : Nat, lev : 0 .. 2]

IsTable(own, c) ==
  c = Inode \/ (own[c].kind \in {"pointed", "whole", "lost"} /\ own[c].lev > 0)
LevelOf(own, c, o) ==
  IF c # Inode THEN own[c].lev - 1 ELSE IF o < DIRECT THEN 0 ELSE o - DIRECT + 1

Container == Block \cup {Inode}

(* Pointers and blocks correspond.                                         *)
Links(own, m) ==
  /\ own \in [Block -> Tags]
  /\ m = [c \in Container |-> m[c]]
  /\ \A c \in Container : m[c] \in [Pointer(c) -> Block \cup {NoBlock}]
  /\ \A c \in Container : IsTable(own, c) =>
       \A o \in Pointer(c) :
         m[c][o] # NoBlock => own[m[c][o]] = Tag("pointed", c, o, LevelOf(own, c, o))
  /\ \A b \in Block : own[b].kind = "pointed" =>
       /\ IsTable(own, own[b].c)
       /\ own[b].o \in Pointer(own[b].c) /\ m[own[b].c][own[b].o] = b

(* What truncate has cut off because it could not read it stays together. *)
Cutoff(own, u) ==
  \A b \in Block :
    /\ own[b].kind = "lost" => b \in u
    /\ own[b].kind \in {"branch", "free"} => b \notin u
    /\ own[b].kind = "pointed" =>
         (b \in u <=> own[b].c # Inode /\ own[b].c \in u)

(* The path of a sector, and where the walk over it is after k steps.      *)
Hop(m, b, o) == IF b = NoBlock THEN NoBlock ELSE m[b][o]
Walk(m, t, k) ==
  LET path == Path(t)
      first == m[Inode][path[1]]
      second == Hop(m, first, path[2])
  IN  IF k = 0 THEN Inode ELSE IF k = 1 THEN first
      ELSE IF k = 2 THEN second ELSE Hop(m, second, path[3])

-----------------------------------------------------------------------------
(* What a call has, at each label                                          *)

Label == {"idle", "branch", "alloc", "undo", "shared", "free", "done"}
Task ==
  [op : {"whole"}, at : Block, depth : 0 .. 2, read : BOOLEAN]
    \cup [op : {"cells"}, at : Container, from : Nat, to : Nat, depth : 0 .. 2]

Types ==
  /\ zmap \subseteq Block
  /\ size \in 0 .. NSectors
  /\ call \in [Process -> [pc : Label, kind : {"none", "write", "writepage", "bmap", "truncate"},
                           sector : 0 .. NSectors, result : Block \cup {NoBlock, EIO, ENOSPC}]]
  /\ chain \in [Process -> Seq([at : Container \X Nat, key : Block \cup {NoBlock}])]
  /\ branch \in [Process -> Seq(Block)]
  /\ tasks \in [Process -> Seq(Task)]

(* Who holds i_mutex; which calls are where.                               *)
Discipline(p) ==
  LET c == call[p] IN
  /\ c.pc = "idle" <=> c.kind = "none"
  /\ mutex = p <=> c.kind \in {"write", "truncate"}
  /\ c.pc \in {"shared", "free"} => c.kind = "truncate"
  /\ c.pc \in {"alloc", "undo"} => Creates(p)
  /\ c.pc \in {"branch", "alloc", "undo", "shared", "free"} => c.sector < NSectors
  /\ Creates(p) => c.sector < NSectors
  /\ c.kind = "writepage" => c.sector < size
  /\ c.kind = "truncate" => c.sector = size /\ c.result = NoBlock
  /\ c.kind = "truncate" /\ c.pc \in {"branch", "shared"} => Len(Path(c.sector)) > 1
  /\ c.kind = "write" /\ c.pc = "done" => c.result # NoBlock
  /\ c.pc \notin {"alloc", "undo"} => branch[p] = <<>>
  /\ c.pc \in {"branch", "alloc", "undo", "shared"} => c.result \in {NoBlock, ENOSPC}

(* The Indirects of a call are where the path of its sector goes.          *)
ChainOf(ch, path) ==
  /\ Len(ch) <= Len(path)
  /\ \A i \in DOMAIN ch :
       /\ ch[i].at = <<IF i = 1 THEN Inode ELSE ch[i - 1].key, path[i]>>
       /\ i < Len(ch) => ch[i].key # NoBlock

ChainInv(p) ==
  LET ch == chain[p]
      pc == call[p].pc
      path == Path(call[p].sector) IN
  /\ pc \in {"branch", "alloc", "shared"} => ChainOf(ch, path)
  /\ pc \in {"alloc", "shared"} => ch # <<>>
  /\ pc \in {"branch", "shared"} => Len(ch) <= Depth(p)
  /\ pc = "branch" /\ ch # <<>> => Len(ch) < Depth(p) /\ ch[Len(ch)].key # NoBlock
  /\ pc = "alloc" => ch[Len(ch)].key = NoBlock
  /\ pc \in {"branch", "shared"} /\ call[p].kind = "truncate" =>
       \A i \in DOMAIN ch : ch[i].key # NoBlock => At(ch[i].at) = ch[i].key

(* The new blocks hang together, one below the other.                      *)
BranchInv(p) ==
  LET br == branch[p] IN
  /\ \A i, j \in DOMAIN br : br[i] = br[j] => i = j
  /\ call[p].pc = "alloc" =>
       /\ Len(br) <= Left(p)
       /\ \A i \in DOMAIN br : i < Len(br) =>
            mem[br[i]] = [Zeroes EXCEPT ![Path(call[p].sector)[Len(chain[p]) + i]] = br[i + 1]]

Apart == \A p, q \in Process :
  \A i \in DOMAIN branch[p], j \in DOMAIN branch[q] : branch[p][i] = branch[q][j] => p = q

(* The ends that truncate clears are those of the indirect blocks above    *)
(* the end of the file, and lie behind it.                                 *)
EndsAt(m, t, s) ==
  LET path == Path(s)
      k == Len(path) - t.depth IN
  IF t.at = Inode
  THEN /\ t.to <= DIRECT + DEPTH - 1
       /\ t.from > path[1] \/ (t.from = path[1] /\ Len(path) = 1)
       /\ \A o \in t.from .. t.to - 1 : LevelOf(<<>>, Inode, o) = t.depth
  ELSE /\ t.to = PTRS /\ k > 1
       /\ t.at = Walk(m, s, k - 1)
       /\ \/ t.from > path[k]
          \/ t.from = path[k] /\ \A i \in DOMAIN path : i > k => path[i] = 0

Before(t, u) ==
  IF t.op = u.op THEN t.depth < u.depth ELSE t.op = "whole"

TasksOk(m, ts, s) ==
  /\ \A i, j \in DOMAIN ts : i < j => Before(ts[i], ts[j])
  /\ \A i \in DOMAIN ts :
       /\ ts[i].op = "cells" => EndsAt(m, ts[i], s)
       /\ ts[i].op = "whole" => (ts[i].read => ts[i].depth > 0)

TasksInv(p) == call[p].pc = "free" => TasksOk(mem, tasks[p], size)

(* The tags of the blocks that calls hold, and of those nobody holds.      *)
Holds(own) ==
  /\ \A b \in Block : own[b].kind = "free" <=> b \notin zmap
  /\ \A p \in Process : \A i \in DOMAIN branch[p] : own[branch[p][i]].kind = "branch"
  /\ \A b \in Block : own[b].kind = "branch" => \E p \in Process : b \in Range(branch[p])
  /\ \A p \in Process : call[p].pc = "free" =>
       \A i \in DOMAIN tasks[p] : tasks[p][i].op = "whole" =>
         own[tasks[p][i].at] = Loose("whole", tasks[p][i].depth)
  /\ \A b \in Block : own[b].kind = "whole" =>
       \E p \in Process : call[p].pc = "free" /\
         \E i \in DOMAIN tasks[p] : tasks[p][i].op = "whole" /\ tasks[p][i].at = b

Forest(own) == Links(own, mem) /\ Holds(own) /\ Cutoff(own, unread)

CallInv(p) == Discipline(p) /\ ChainInv(p) /\ BranchInv(p) /\ TasksInv(p)

IInv ==
  /\ Types
  /\ \A p \in Process : CallInv(p)
  /\ Apart
  /\ \E own : Forest(own)

Along(t, s, k) ==
  Len(Path(t)) = Len(Path(s)) /\ \A i \in 1 .. k : Path(t)[i] = Path(s)[i]
Look(m, t) == Walk(m, t, Len(Path(t)))
Sectors == 0 .. NSectors - 1
-----------------------------------------------------------------------------
(* Numbers                                                                 *)

LEMMA Constants ==
  /\ NBlocks \in Nat /\ DIRECT \in Nat /\ DIRECT > 0 /\ PTRS \in Nat /\ PTRS > 0
  /\ NSectors \in Nat /\ NSectors = DIRECT + PTRS + PTRS * PTRS
  /\ Nobody \notin Process /\ Sector \subseteq Sectors
BY TreeAssumption, ProcessAssumption DEF NSectors, Sectors

(* The sectors of n full indirect blocks.                                  *)
Full(n) == PTRS * n

LEMMA FullGrows ==
  ASSUME NEW m \in Int, NEW n \in Int
  PROVE  /\ Full(m) \in Int /\ (m < n => Full(m) + PTRS <= Full(n))
         /\ (m >= 0 => Full(m) >= 0)
<1>1. PTRS \in Nat /\ PTRS > 0
  BY Constants
<1>2. Full(m) \in Int /\ Full(n) \in Int
  BY <1>1 DEF Full
<1>3. m < n => Full(m) + PTRS <= Full(n)
  <2>. SUFFICES ASSUME m < n PROVE Full(m) + PTRS <= Full(n)
    OBVIOUS
  <2>. PICK d \in Int : d = n - m /\ d >= 1
    OBVIOUS
  <2>1. PTRS * d >= PTRS
    BY <1>1
  <2>2. Full(n) = Full(m) + PTRS * d
    BY <1>1 DEF Full
  <2>. QED  BY <2>1, <2>2, <1>1, <1>2
<1>4. m >= 0 => Full(m) >= 0
  BY <1>1 DEF Full
<1>. QED  BY <1>2, <1>3, <1>4

LEMMA Quotient ==
  ASSUME NEW b \in Nat, b < PTRS * PTRS
  PROVE  /\ b \div PTRS \in 0 .. PTRS - 1 /\ b % PTRS \in 0 .. PTRS - 1
         /\ b = Full(b \div PTRS) + (b % PTRS)
<1>0. PTRS \in Nat /\ PTRS > 0
  BY Constants
<1>1. b \div PTRS \in Int /\ b % PTRS \in 0 .. PTRS - 1 /\ b = PTRS * (b \div PTRS) + (b % PTRS)
  BY <1>0
<1>. DEFINE q == b \div PTRS
            r == b % PTRS
<1>2. q \in Int /\ r \in 0 .. PTRS - 1 /\ b = Full(q) + r /\ b < Full(PTRS)
  BY <1>1 DEF Full
<1>3. (q < 0 => Full(q) + PTRS <= Full(0)) /\ Full(0) = 0 /\ Full(q) \in Int /\ Full(PTRS) \in Int
  BY <1>0, <1>1, FullGrows DEF Full
<1>4. PTRS < q => Full(PTRS) + PTRS <= Full(q)
  BY <1>0, <1>1, FullGrows
<1>. HIDE DEF q, r
<1>5. q \in 0 .. PTRS - 1
  BY <1>0, <1>2, <1>3, <1>4
<1>. QED  BY <1>2, <1>5 DEF q, r

(* The path p of sector t.                                                 *)
IsPath(p, t) ==
  /\ p \in Seq(Nat) /\ Len(p) \in 1 .. 3
  /\ p[1] \in 0 .. DIRECT + 1
  /\ Len(p) = IF p[1] < DIRECT THEN 1 ELSE p[1] - DIRECT + 2
  /\ Len(p) > 1 => p[2] \in 0 .. PTRS - 1
  /\ Len(p) = 3 => p[3] \in 0 .. PTRS - 1
  /\ Len(p) = 1 => t = p[1]
  /\ Len(p) = 2 => t = DIRECT + p[2]
  /\ Len(p) = 3 => t = DIRECT + PTRS + Full(p[2]) + p[3]

LEMMA PathShape ==
  ASSUME NEW t \in Sectors
  PROVE  IsPath(Path(t), t)
<1>. DEFINE b == t - DIRECT - PTRS
<1>0. t \in Nat /\ t < DIRECT + PTRS + PTRS * PTRS
  BY Constants DEF Sectors
<1>1. CASE t < DIRECT
  <2>1. Path(t) = <<t>>
    BY <1>1 DEF Path
  <2>. QED  BY <1>0, <1>1, <2>1, Constants DEF IsPath
<1>2. CASE ~ (t < DIRECT) /\ t - DIRECT < PTRS
  <2>1. Path(t) = <<DIRECT, t - DIRECT>>
    BY <1>2 DEF Path
  <2>. QED  BY <1>0, <1>2, <2>1, Constants DEF IsPath
<1>3. CASE ~ (t < DIRECT) /\ ~ (t - DIRECT < PTRS)
  <2>1. Path(t) = <<DIRECT + 1, b \div PTRS, b % PTRS>>
    BY <1>3 DEF Path
  <2>2. b \in Nat /\ b < PTRS * PTRS
    BY <1>0, <1>3, Constants
  <2>3. /\ b \div PTRS \in 0 .. PTRS - 1 /\ b % PTRS \in 0 .. PTRS - 1
        /\ b = Full(b \div PTRS) + (b % PTRS)
    BY <2>2, Quotient, Constants
  <2>. DEFINE q == b \div PTRS
              r == b % PTRS
  <2>4. q \in 0 .. PTRS - 1 /\ r \in 0 .. PTRS - 1 /\ t = DIRECT + PTRS + Full(q) + r
    <3>. DEFINE m == Full(q)
    <3>1. m \in Int
      BY <2>3, FullGrows, Constants
    <3>2. t - DIRECT - PTRS = m + r
      BY <2>3
    <3>. HIDE DEF m, q, r
    <3>3. t = DIRECT + PTRS + m + r
      BY <3>1, <3>2, <2>3, <1>0, Constants DEF q, r
    <3>. QED  BY <3>3, <2>3 DEF m, q, r
  <2>5. Path(t) = <<DIRECT + 1, q, r>>
    BY <2>1
  <2>. HIDE DEF q, r
  <2>6. PICK p : p = Path(t)
    OBVIOUS
  <2>7. /\ p \in Seq(Nat) /\ Len(p) = 3
        /\ p[1] = DIRECT + 1 /\ p[2] = q /\ p[3] = r
    BY <2>4, <2>5, <2>6, Constants
  <2>8. p[2] \in 0 .. PTRS - 1 /\ p[3] \in 0 .. PTRS - 1
    BY <2>7, <2>4
  <2>9. t = DIRECT + PTRS + Full(p[2]) + p[3]
    BY <2>7, <2>4
  <2>10. p[1] \in 0 .. DIRECT + 1 /\ Len(p) = IF p[1] < DIRECT THEN 1 ELSE p[1] - DIRECT + 2
    BY <2>7, Constants
  <2>11. Full(p[2]) \in Int /\ t \in Int
    BY <2>7, <2>4, FullGrows, <1>0
  <2>12. IsPath(p, t)
    BY <2>7, <2>8, <2>9, <2>10, <2>11, Constants DEF IsPath
  <2>. QED  BY <2>6, <2>12
<1>. QED  BY <1>1, <1>2, <1>3

(* Paths are in the order of their sectors.                                *)
LEMMA PathOrder ==
  ASSUME NEW t \in Sectors, NEW s \in Sectors, t < s
  PROVE  \/ Path(t)[1] < Path(s)[1]
         \/ \E k \in 1 .. Len(Path(s)) : Along(t, s, k - 1) /\ Path(t)[k] < Path(s)[k]
<1>. PICK p : p = Path(t)
  OBVIOUS
<1>. PICK q : q = Path(s)
  OBVIOUS
<1>1. IsPath(p, t) /\ IsPath(q, s) /\ t \in Nat /\ s \in Nat
  BY PathShape DEF Sectors
<1>. SUFFICES ASSUME p[1] >= q[1]
              PROVE  \E k \in 1 .. Len(q) : Along(t, s, k - 1) /\ p[k] < q[k]
  BY <1>1 DEF IsPath
<1>2. DIRECT \in Nat /\ PTRS \in Nat /\ DIRECT > 0 /\ PTRS > 0
  BY Constants
<1>0. /\ Len(p) > 1 => p[2] \in 0 .. PTRS - 1
      /\ Len(q) > 1 => q[2] \in 0 .. PTRS - 1
      /\ Len(p) = 3 => p[3] \in 0 .. PTRS - 1
      /\ Len(q) = 3 => q[3] \in 0 .. PTRS - 1
  BY <1>1 DEF IsPath
<1>3. Len(p) = 3 => Full(p[2]) \in Nat /\ t >= DIRECT + PTRS
  <2>. SUFFICES ASSUME Len(p) = 3 PROVE Full(p[2]) \in Nat /\ t >= DIRECT + PTRS
    OBVIOUS
  <2>1. Full(p[2]) \in Nat
    BY <1>0, <1>2, FullGrows
  <2>. QED  BY <2>1, <1>0, <1>1, <1>2 DEF IsPath
<1>9. Len(q) = 3 => Full(q[2]) \in Nat /\ s >= DIRECT + PTRS
  <2>. SUFFICES ASSUME Len(q) = 3 PROVE Full(q[2]) \in Nat /\ s >= DIRECT + PTRS
    OBVIOUS
  <2>1. Full(q[2]) \in Nat
    BY <1>0, <1>2, FullGrows
  <2>. QED  BY <2>1, <1>0, <1>1, <1>2 DEF IsPath
<1>4. p[1] = q[1] /\ Len(p) = Len(q) /\ Len(p) > 1
  <2>1. /\ p[1] \in 0 .. DIRECT + 1 /\ q[1] \in 0 .. DIRECT + 1
        /\ Len(p) \in 1 .. 3 /\ Len(q) \in 1 .. 3
        /\ Len(p) = IF p[1] < DIRECT THEN 1 ELSE p[1] - DIRECT + 2
        /\ Len(q) = IF q[1] < DIRECT THEN 1 ELSE q[1] - DIRECT + 2
        /\ Len(p) = 1 => t = p[1]
        /\ Len(q) = 1 => s = q[1]
        /\ Len(p) = 2 => t = DIRECT + p[2]
        /\ Len(q) = 2 => s = DIRECT + q[2]
    BY <1>1, <1>2 DEF IsPath
  <2>2. CASE Len(q) = 1
    <3>1. CASE Len(p) = 1
      BY <2>1, <2>2, <3>1, <1>1
    <3>2. CASE Len(p) = 2
      BY <2>1, <2>2, <3>2, <1>0, <1>1, <1>2
    <3>3. CASE Len(p) = 3
      <4>1. q[1] < DIRECT /\ s = q[1] /\ t >= DIRECT + PTRS
        BY <2>1, <2>2, <3>3, <1>2, <1>3
      <4>. QED  BY <4>1, <2>1, <1>1, <1>2
    <3>. QED  BY <3>1, <3>2, <3>3, <2>1
  <2>3. CASE Len(q) = 2
    <3>2. CASE Len(p) = 2
      BY <2>1, <2>3, <3>2, <1>2
    <3>3. CASE Len(p) = 3
      BY <2>1, <2>3, <3>3, <1>0, <1>1, <1>2, <1>3
    <3>. QED  BY <3>2, <3>3, <2>1, <2>3, <1>2
  <2>4. CASE Len(q) = 3
    BY <2>1, <2>4, <1>2
  <2>. QED  BY <2>1, <2>2, <2>3, <2>4
<1>5. CASE Len(p) = 2
  <2>1. p[2] < q[2]
    <3>1. t = DIRECT + p[2] /\ s = DIRECT + q[2]
      BY <1>1, <1>4, <1>5 DEF IsPath
    <3>. QED  BY <3>1, <1>0, <1>1, <1>2, <1>4, <1>5
  <2>2. Along(t, s, 1)
    BY <1>4 DEF Along
  <2>. QED  BY <2>1, <2>2, <1>4, <1>5
<1>6. CASE Len(p) = 3 /\ p[2] = q[2]
  <2>1. p[3] < q[3]
    BY <1>0, <1>1, <1>2, <1>3, <1>4, <1>6 DEF IsPath
  <2>3. Along(t, s, 2)
    BY <1>4, <1>6 DEF Along
  <2>. QED  BY <2>1, <2>3, <1>4, <1>6
<1>7. CASE Len(p) = 3 /\ p[2] # q[2]
  <2>1. p[2] < q[2]
    <3>. SUFFICES ASSUME q[2] < p[2] PROVE FALSE
      BY <1>0, <1>4, <1>7
    <3>1. Full(q[2]) + PTRS <= Full(p[2])
      BY <1>0, <1>2, <1>4, <1>7, FullGrows
    <3>2. t = DIRECT + PTRS + Full(p[2]) + p[3] /\ s = DIRECT + PTRS + Full(q[2]) + q[3]
      BY <1>1, <1>4, <1>7 DEF IsPath
    <3>. QED  BY <3>1, <3>2, <1>0, <1>1, <1>2, <1>3, <1>4, <1>7, <1>9
  <2>2. Along(t, s, 1)
    BY <1>4 DEF Along
  <2>. QED  BY <2>1, <2>2, <1>4, <1>7
<1>. QED  BY <1>1, <1>4, <1>5, <1>6, <1>7 DEF IsPath

LEMMA PathFacts ==
  ASSUME NEW t \in Sectors, NEW own
  PROVE  /\ Path(t) \in Seq(Nat) /\ Len(Path(t)) \in 1 .. 3
         /\ DOMAIN Path(t) = 1 .. Len(Path(t))
         /\ Path(t)[1] \in Pointer(Inode)
         /\ LevelOf(own, Inode, Path(t)[1]) = Len(Path(t)) - 1
         /\ \A i \in 2 .. Len(Path(t)) : Path(t)[i] \in 0 .. PTRS - 1
         /\ \A i \in 1 .. Len(Path(t)) : Path(t)[i] \in Nat
<1>. PICK p : p = Path(t)
  OBVIOUS
<1>1. IsPath(p, t)
  BY PathShape
<1>2. DIRECT \in Nat /\ DIRECT > 0 /\ PTRS \in Nat
  BY Constants
<1>3. p \in Seq(Nat) /\ Len(p) \in 1 .. 3 /\ DOMAIN p = 1 .. Len(p)
  BY <1>1, LenProperties DEF IsPath
<1>4. p[1] \in Pointer(Inode)
  BY <1>1, <1>2 DEF IsPath, Pointer, DEPTH
<1>5. LevelOf(own, Inode, p[1]) = Len(p) - 1
  <2>1. CASE p[1] < DIRECT
    BY <1>1, <1>2, <2>1 DEF IsPath, LevelOf
  <2>2. CASE ~ (p[1] < DIRECT)
    BY <1>1, <1>2, <2>2 DEF IsPath, LevelOf
  <2>. QED  BY <2>1, <2>2
<1>6. \A i \in 2 .. Len(p) : p[i] \in 0 .. PTRS - 1
  <2>1. \A i \in 2 .. Len(p) : i = 2 \/ (i = 3 /\ Len(p) = 3)
    BY <1>3
  <2>. QED  BY <2>1, <1>1, <1>3 DEF IsPath
<1>7. \A i \in 1 .. Len(p) : p[i] \in Nat
  BY <1>3, ElementOfSeq
<1>. QED  BY <1>3, <1>4, <1>5, <1>6, <1>7

LEMMA PathLen ==
  ASSUME NEW t \in Sectors
  PROVE  /\ Len(Path(t)) \in 1 .. 3 /\ Len(Path(t)) \in Nat
         /\ \A k \in 1 .. Len(Path(t)) : k \in 1 .. 3 /\ k \in Nat
<1>1. Len(Path(t)) \in 1 .. 3
  BY PathShape DEF IsPath
<1>2. PICK n : n = Len(Path(t))
  OBVIOUS
<1>3. \A k \in 1 .. n : k \in 1 .. 3 /\ k \in Nat
  BY <1>1, <1>2
<1>. QED  BY <1>1, <1>2, <1>3

LEMMA MaxOf ==
  ASSUME NEW S, S \subseteq 1 .. 3, S # {}
  PROVE  Max(S) \in S /\ \A x \in S : x <= Max(S)
<1>1. \E m \in S : \A x \in S : m >= x
  <2>1. CASE 3 \in S
    BY <2>1
  <2>2. CASE 3 \notin S /\ 2 \in S
    <3>1. \A x \in S : x = 1 \/ x = 2
      BY <2>2
    <3>. QED  BY <2>2, <3>1
  <2>3. CASE 3 \notin S /\ 2 \notin S
    <3>1. \A x \in S : x = 1
      BY <2>3
    <3>2. PICK x \in S : TRUE
      OBVIOUS
    <3>3. x = 1
      BY <3>1
    <3>. QED  BY <3>1, <3>3
  <2>. QED  BY <2>1, <2>2, <2>3
<1>. DEFINE m == CHOOSE m \in S : \A x \in S : m >= x
<1>2. m \in S /\ \A x \in S : m >= x
  BY <1>1
<1>3. \A x \in S : x <= m
  <2>. HIDE DEF m
  <2>. QED  BY <1>2
<1>. QED  BY <1>2, <1>3, Zenon DEF Max

LEMMA MinOf ==
  ASSUME NEW S, S \subseteq Nat, S # {}
  PROVE  Min(S) \in S /\ \A x \in S : Min(S) <= x
<1>1. PICK m \in S : \A x \in S : ~ (<<x, m>> \in OpToRel(<, Nat))
  BY NatLessThanWellFounded, WFMin
<1>2. \A x \in S : m <= x
  <2>. SUFFICES ASSUME NEW x \in S, x < m PROVE FALSE
    OBVIOUS
  <2>1. <<x, m>> \in OpToRel(<, Nat)
    BY DEF OpToRel
  <2>. QED  BY <1>1, <2>1
<1>3. \E n \in S : \A x \in S : n =< x
  BY <1>2
<1>. QED  BY <1>3, Zenon DEF Min

(* How deep get_branch() goes.                                             *)
DepthOf(kind, path) ==
  IF kind # "truncate" THEN Len(path) ELSE Max({1} \cup {k \in DOMAIN path : path[k] # 0})

LEMMA DepthIs ==
  ASSUME NEW p
  PROVE  /\ Depth(p) = DepthOf(call[p].kind, Path(call[p].sector))
         /\ Depth(p)' = DepthOf(call'[p].kind, Path(call'[p].sector))
BY Zenon DEF Depth, DepthOf

LEMMA DepthShape ==
  ASSUME NEW t \in Sectors, NEW kind
  PROVE  /\ DepthOf(kind, Path(t)) \in 1 .. Len(Path(t))
         /\ kind # "truncate" => DepthOf(kind, Path(t)) = Len(Path(t))
         /\ kind = "truncate" =>
              /\ \A i \in DOMAIN Path(t) : i > DepthOf(kind, Path(t)) => Path(t)[i] = 0
              /\ DepthOf(kind, Path(t)) = 1 \/ Path(t)[DepthOf(kind, Path(t))] # 0
<1>. PICK path : path = Path(t)
  OBVIOUS
<1>. DEFINE d == DepthOf(kind, path)
<1>1. path \in Seq(Nat) /\ Len(path) \in 1 .. 3 /\ DOMAIN path = 1 .. Len(path)
  BY PathFacts
<1>2. CASE kind # "truncate"
  <2>1. d = Len(path)
    BY <1>2 DEF DepthOf
  <2>2. d \in 1 .. Len(path)
    BY <1>1, <2>1
  <2>. QED  BY <1>2, <2>1, <2>2, Zenon
<1>3. CASE kind = "truncate"
  <2>. DEFINE S == {1} \cup {k \in DOMAIN path : path[k] # 0}
  <2>1. S \subseteq 1 .. 3 /\ S # {}
    BY <1>1
  <2>2. d = Max(S)
    BY <1>3 DEF DepthOf
  <2>3. Max(S) \in S /\ \A x \in S : x <= Max(S)
    BY <2>1, MaxOf
  <2>4. Max(S) \in 1 .. Len(path)
    BY <2>3, <1>1
  <2>5. ASSUME NEW i \in DOMAIN path, i > Max(S) PROVE path[i] = 0
    <3>1. i \notin S
      BY <2>3, <2>4, <2>5, <1>1
    <3>. QED  BY <3>1
  <2>6. Max(S) = 1 \/ path[Max(S)] # 0
    BY <2>3
  <2>. QED  BY <1>3, <2>2, <2>4, <2>5, <2>6
<1>. QED  BY <1>2, <1>3

(* The walk over the path of a sector.                                     *)
LEMMA LookIs ==
  ASSUME NEW t \in Sectors
  PROVE  Lookup(t) = Look(mem, t)
<1>1. Len(Path(t)) = 1 \/ Len(Path(t)) = 2 \/ Len(Path(t)) = 3
  BY PathFacts
<1>2. CASE Len(Path(t)) = 1
  BY <1>2 DEF Lookup, Look, Walk
<1>3. CASE Len(Path(t)) = 2
  BY <1>3 DEF Lookup, Look, Walk, Hop
<1>4. CASE Len(Path(t)) = 3
  BY <1>4 DEF Lookup, Look, Walk, Hop
<1>. QED  BY <1>1, <1>2, <1>3, <1>4

-----------------------------------------------------------------------------
(* Pointers and blocks                                                     *)

LEMMA BlockFacts ==
  /\ Inode \notin Block /\ NoBlock \notin Block /\ Inode \in Container
  /\ Block \subseteq Container /\ Inode = NoBlock /\ Block \subseteq Nat
  /\ \A c \in Container : c # Inode => c \in Block
  /\ Nobody \notin Process
BY Constants DEF Container, Block, Inode, NoBlock

LEMMA Pointed ==
  ASSUME NEW own, NEW m, Links(own, m), NEW c \in Container, IsTable(own, c),
         NEW o \in Pointer(c), m[c][o] # NoBlock
  PROVE  /\ m[c][o] \in Block
         /\ own[m[c][o]] = Tag("pointed", c, o, LevelOf(own, c, o))
         /\ own[m[c][o]].kind = "pointed" /\ own[m[c][o]].c = c
         /\ own[m[c][o]].o = o /\ own[m[c][o]].lev = LevelOf(own, c, o)
<1>1. m[c][o] \in Block
  BY DEF Links
<1>2. own[m[c][o]] = Tag("pointed", c, o, LevelOf(own, c, o))
  BY DEF Links
<1>. QED  BY <1>1, <1>2 DEF Tag

(* How an update of the tags leaves the tables what they are.              *)
LEMMA SameLevels ==
  ASSUME NEW own, NEW own2, NEW c \in Container, NEW o,
         c # Inode => own2[c].lev = own[c].lev
  PROVE  LevelOf(own2, c, o) = LevelOf(own, c, o)
BY DEF LevelOf

(* A block that is cut off is to be freed whole.                           *)
LEMMA Cut ==
  ASSUME NEW own, NEW m, Links(own, m), NEW c \in Container, IsTable(own, c),
         NEW o \in Pointer(c), m[c][o] # NoBlock
  PROVE  Links([own EXCEPT ![m[c][o]] = Loose("whole", LevelOf(own, c, o))],
               [m EXCEPT ![c][o] = NoBlock])
<1>. DEFINE b == m[c][o]
            own2 == [own EXCEPT ![b] = Loose("whole", LevelOf(own, c, o))]
            m2 == [m EXCEPT ![c][o] = NoBlock]
<1>1. /\ b \in Block /\ own[b].kind = "pointed" /\ own[b].c = c /\ own[b].o = o
      /\ own[b].lev = LevelOf(own, c, o)
  BY Pointed
<1>2. own \in [Block -> Tags] /\ LevelOf(own, c, o) \in 0 .. 2
  BY <1>1 DEF Links, Tags
<1>3. /\ own2 \in [Block -> Tags]
      /\ \A x \in Block : x # b => own2[x] = own[x]
      /\ own2[b].kind = "whole" /\ own2[b].lev = own[b].lev
  BY <1>1, <1>2, BlockFacts DEF Loose, Tag, Tags
<1>4. /\ m2 = [x \in Container |-> m2[x]]
      /\ \A x \in Container : x # c => m2[x] = m[x]
      /\ \A y : y # o => m2[c][y] = m[c][y]
      /\ m2[c] \in [Pointer(c) -> Block \cup {NoBlock}] /\ m2[c][o] = NoBlock
  BY DEF Links
<1>. HIDE DEF own2, m2
<1>5. \A x \in Container : IsTable(own2, x) <=> IsTable(own, x)
  BY <1>1, <1>3, BlockFacts DEF IsTable
<1>6. \A x \in Container : \A y : LevelOf(own2, x, y) = LevelOf(own, x, y)
  BY <1>3, BlockFacts DEF LevelOf
<1>7. ASSUME NEW x \in Container, IsTable(own2, x), NEW y \in Pointer(x), m2[x][y] # NoBlock
      PROVE  own2[m2[x][y]] = Tag("pointed", x, y, LevelOf(own2, x, y))
  <2>1. m2[x][y] = m[x][y] /\ (x # c \/ y # o)
    BY <1>4, <1>7
  <2>2. /\ m[x][y] \in Block /\ own[m[x][y]].c = x /\ own[m[x][y]].o = y
        /\ own[m[x][y]] = Tag("pointed", x, y, LevelOf(own, x, y))
    BY <2>1, <1>5, <1>7, Pointed
  <2>3. m[x][y] # b
    BY <2>1, <2>2, <1>1
  <2>. QED  BY <2>1, <2>2, <2>3, <1>3, <1>6
<1>8. ASSUME NEW x \in Block, own2[x].kind = "pointed"
      PROVE  /\ IsTable(own2, own2[x].c)
             /\ own2[x].o \in Pointer(own2[x].c) /\ m2[own2[x].c][own2[x].o] = x
  <2>1. x # b /\ own2[x] = own[x]
    BY <1>3, <1>8
  <2>2. /\ IsTable(own, own[x].c) /\ own[x].c \in Container
        /\ own[x].o \in Pointer(own[x].c) /\ m[own[x].c][own[x].o] = x
    BY <2>1, <1>2, <1>8 DEF Links, Tags, Container
  <2>3. own[x].c # c \/ own[x].o # o
    BY <2>1, <2>2
  <2>. QED  BY <2>1, <2>2, <2>3, <1>4, <1>5
<1>9. \A x \in Container : m2[x] \in [Pointer(x) -> Block \cup {NoBlock}]
  BY <1>4 DEF Links
<1>10. Links(own2, m2)
  BY <1>3, <1>4, <1>7, <1>8, <1>9 DEF Links
<1>. QED  BY <1>10 DEF own2, m2

(* What truncate could not read is lost.                                   *)
LEMMA Lose ==
  ASSUME NEW own, NEW m, Links(own, m), NEW b \in Block, own[b].kind = "whole"
  PROVE  Links([own EXCEPT ![b] = Loose("lost", own[b].lev)], m)
<1>. DEFINE own2 == [own EXCEPT ![b] = Loose("lost", own[b].lev)]
<1>1. own \in [Block -> Tags]
  BY DEF Links
<1>2. /\ own2 \in [Block -> Tags]
      /\ \A x \in Block : x # b => own2[x] = own[x]
      /\ own2[b].kind = "lost" /\ own2[b].lev = own[b].lev
  BY <1>1, BlockFacts DEF Loose, Tag, Tags
<1>. HIDE DEF own2
<1>3. \A x \in Container : IsTable(own2, x) <=> IsTable(own, x)
  BY <1>2, BlockFacts DEF IsTable
<1>4. \A x \in Container : \A y : LevelOf(own2, x, y) = LevelOf(own, x, y)
  BY <1>2, BlockFacts DEF LevelOf
<1>5. ASSUME NEW x \in Container, IsTable(own2, x), NEW y \in Pointer(x), m[x][y] # NoBlock
      PROVE  own2[m[x][y]] = Tag("pointed", x, y, LevelOf(own2, x, y))
  <2>1. /\ m[x][y] \in Block /\ own[m[x][y]].kind = "pointed"
        /\ own[m[x][y]] = Tag("pointed", x, y, LevelOf(own, x, y))
    BY <1>3, <1>5, Pointed
  <2>. QED  BY <2>1, <1>2, <1>4
<1>6. ASSUME NEW x \in Block, own2[x].kind = "pointed"
      PROVE  /\ IsTable(own2, own2[x].c)
             /\ own2[x].o \in Pointer(own2[x].c) /\ m[own2[x].c][own2[x].o] = x
  <2>1. x # b /\ own2[x] = own[x]
    BY <1>2, <1>6
  <2>2. /\ IsTable(own, own[x].c) /\ own[x].c \in Container
        /\ own[x].o \in Pointer(own[x].c) /\ m[own[x].c][own[x].o] = x
    BY <2>1, <1>1, <1>6 DEF Links, Tags, Container
  <2>. QED  BY <2>1, <2>2, <1>3
<1>7. Links(own2, m)
  BY <1>2, <1>5, <1>6 DEF Links
<1>. QED  BY <1>7 DEF own2

Tables(m) ==
  /\ m = [c \in Container |-> m[c]]
  /\ \A c \in Container : m[c] \in [Pointer(c) -> Block \cup {NoBlock}]
TablesKept(own, b, m, m2) ==
  \A x \in Container : x # b /\ IsTable(own, x) => m2[x] = m[x]

(* A block with no pointer to it and no pointer in it becomes free or one  *)
(* of a branch; the contents of what is not a table do not matter.         *)
LEMMA Retag ==
  ASSUME NEW own, NEW m, Links(own, m), NEW b \in Block, own[b].kind # "pointed",
         IsTable(own, b) => \A o \in Pointer(b) : m[b][o] = NoBlock,
         NEW kind \in {"free", "branch"}, NEW m2, Tables(m2), TablesKept(own, b, m, m2)
  PROVE  Links([own EXCEPT ![b] = Loose(kind, 0)], m2)
<1>. DEFINE own2 == [own EXCEPT ![b] = Loose(kind, 0)]
<1>1. own \in [Block -> Tags]
  BY DEF Links
<1>2. /\ own2 \in [Block -> Tags]
      /\ \A x \in Block : x # b => own2[x] = own[x]
      /\ own2[b].kind = kind /\ own2[b].lev = 0
  BY <1>1, BlockFacts DEF Loose, Tag, Tags
<1>. HIDE DEF own2
<1>0. /\ m2 = [x \in Container |-> m2[x]]
      /\ \A x \in Container : m2[x] \in [Pointer(x) -> Block \cup {NoBlock}]
      /\ \A x \in Container : x # b /\ IsTable(own, x) => m2[x] = m[x]
  BY DEF Tables, TablesKept
<1>3. \A x \in Container : x # b => (IsTable(own2, x) <=> IsTable(own, x))
  BY <1>2, BlockFacts DEF IsTable
<1>4. ~ IsTable(own2, b)
  BY <1>2, BlockFacts DEF IsTable
<1>5. \A x \in Container : \A y : x # b => LevelOf(own2, x, y) = LevelOf(own, x, y)
  BY <1>2, BlockFacts DEF LevelOf
<1>6. ASSUME NEW x \in Container, IsTable(own2, x), NEW y \in Pointer(x), m2[x][y] # NoBlock
      PROVE  own2[m2[x][y]] = Tag("pointed", x, y, LevelOf(own2, x, y))
  <2>1. x # b /\ IsTable(own, x) /\ m2[x] = m[x]
    BY <1>0, <1>3, <1>4, <1>6
  <2>2. /\ m[x][y] \in Block /\ own[m[x][y]].kind = "pointed"
        /\ own[m[x][y]] = Tag("pointed", x, y, LevelOf(own, x, y))
    BY <1>6, <2>1, Pointed
  <2>. QED  BY <2>1, <2>2, <1>2, <1>5
<1>7. ASSUME NEW x \in Block, own2[x].kind = "pointed"
      PROVE  /\ IsTable(own2, own2[x].c)
             /\ own2[x].o \in Pointer(own2[x].c) /\ m2[own2[x].c][own2[x].o] = x
  <2>1. x # b /\ own2[x] = own[x]
    BY <1>2, <1>7
  <2>2. /\ IsTable(own, own[x].c) /\ own[x].c \in Container
        /\ own[x].o \in Pointer(own[x].c) /\ m[own[x].c][own[x].o] = x
    BY <2>1, <1>1, <1>7 DEF Links, Tags, Container
  <2>3. own[x].c # b
    BY <2>2, BlockFacts
  <2>. QED  BY <2>1, <2>2, <2>3, <1>0, <1>3
<1>8. Links(own2, m2)
  BY <1>0, <1>2, <1>6, <1>7 DEF Links
<1>. QED  BY <1>8 DEF own2

(* A branch is hung up at a vacant place.                                  *)
Hung(own, own2, c, o, br, off) ==
  /\ \A x \in Block : (\A i \in 1 .. Len(br) : br[i] # x) => own2[x] = own[x]
  /\ \A i \in 1 .. Len(br) :
       own2[br[i]] = Tag("pointed", IF i = 1 THEN c ELSE br[i - 1],
                         IF i = 1 THEN o ELSE off[i - 1], Len(br) - i)

AllBranch(own, br) == \A i \in 1 .. Len(br) : own[br[i]].kind = "branch"
Strung(own, m, c, o, br, off) ==
  /\ Len(br) = LevelOf(own, c, o) + 1 /\ Len(br) \in 1 .. 3
  /\ \A i, j \in 1 .. Len(br) : br[i] = br[j] => i = j
  /\ \A i \in 1 .. Len(br) - 1 :
       off[i] \in 0 .. PTRS - 1 /\ m[br[i]] = [Zeroes EXCEPT ![off[i]] = br[i + 1]]

LEMMA Hang ==
  ASSUME NEW own, NEW m, Links(own, m), NEW c \in Container, IsTable(own, c),
         NEW o \in Pointer(c), m[c][o] = NoBlock,
         NEW br \in Seq(Block), NEW off, AllBranch(own, br), Strung(own, m, c, o, br, off)
  PROVE  \E own2 : Hung(own, own2, c, o, br, off) /\ Links(own2, [m EXCEPT ![c][o] = br[1]])
<1>. USE DEF Strung, AllBranch
<1>. DEFINE n == Len(br)
            tag(i) == Tag("pointed", IF i = 1 THEN c ELSE br[i - 1],
                          IF i = 1 THEN o ELSE off[i - 1], n - i)
            at(x) == CHOOSE i \in 1 .. n : br[i] = x
            own2 == [x \in Block |-> IF \E i \in 1 .. n : br[i] = x THEN tag(at(x)) ELSE own[x]]
            m2 == [m EXCEPT ![c][o] = br[1]]
<1>1. \A i \in 1 .. n : br[i] \in Block
  BY ElementOfSeq
<1>2. own \in [Block -> Tags]
  BY DEF Links
<1>3. Hung(own, own2, c, o, br, off)
  <2>1. ASSUME NEW i \in 1 .. n PROVE at(br[i]) = i
    <3>1. at(br[i]) \in 1 .. n /\ br[at(br[i])] = br[i]
      OBVIOUS
    <3>. QED  BY <3>1
  <2>2. ASSUME NEW i \in 1 .. n PROVE own2[br[i]] = tag(i)
    <3>1. own2[br[i]] = tag(at(br[i]))
      BY <1>1
    <3>. QED  BY <3>1, <2>1
  <2>3. ASSUME NEW x \in Block, \A i \in 1 .. n : br[i] # x PROVE own2[x] = own[x]
    BY <2>3
  <2>. QED  BY <2>2, <2>3 DEF Hung
<1>4. PICK w : w = own2
  OBVIOUS
<1>5. Hung(own, w, c, o, br, off) /\ w = [x \in Block |-> w[x]]
  BY <1>3, <1>4
<1>. HIDE DEF own2
<1>6. /\ m2 = [x \in Container |-> m2[x]]
      /\ \A x \in Container : x # c => m2[x] = m[x]
      /\ \A y : y # o => m2[c][y] = m[c][y]
      /\ m2[c] \in [Pointer(c) -> Block \cup {NoBlock}] /\ m2[c][o] = br[1]
  BY <1>1 DEF Links
<1>. HIDE DEF m2
<1>7. \A i \in 1 .. n - 1 : /\ m[br[i]][off[i]] = br[i + 1] /\ off[i] \in Pointer(br[i])
                            /\ \A y : y \in Pointer(br[i]) /\ y # off[i] => m[br[i]][y] = NoBlock
  <2>. SUFFICES ASSUME NEW i \in 1 .. n - 1
                PROVE  /\ m[br[i]][off[i]] = br[i + 1] /\ off[i] \in Pointer(br[i])
                       /\ \A y : y \in Pointer(br[i]) /\ y # off[i] => m[br[i]][y] = NoBlock
    OBVIOUS
  <2>1. off[i] \in 0 .. PTRS - 1 /\ m[br[i]] = [Zeroes EXCEPT ![off[i]] = br[i + 1]]
    OBVIOUS
  <2>2. br[i] \in Block
    BY <1>1
  <2>3. Pointer(br[i]) = 0 .. PTRS - 1
    BY <2>2, BlockFacts DEF Pointer
  <2>. QED  BY <2>1, <2>3 DEF Zeroes
<1>8. \A i \in 1 .. n : br[i] # c /\ ~ IsTable(own, br[i])
  BY <1>1, BlockFacts DEF IsTable
<1>9. \A i \in 1 .. n : /\ w[br[i]].kind = "pointed" /\ w[br[i]].lev = n - i
                        /\ w[br[i]].c = IF i = 1 THEN c ELSE br[i - 1]
                        /\ w[br[i]].o = IF i = 1 THEN o ELSE off[i - 1]
                        /\ w[br[i]] = tag(i)
  <2>. HIDE DEF Strung, AllBranch
  <2>. QED  BY <1>5 DEF Hung, Tag
<1>10. o \in Nat /\ c \in Container /\ LevelOf(own, c, o) \in Int
  <2>1. o \in Nat
    BY Constants DEF Pointer, DEPTH
  <2>2. c # Inode => own[c].lev \in 0 .. 2
    BY <1>2, BlockFacts DEF Tags
  <2>. QED  BY <2>1, <2>2, Constants DEF LevelOf
<1>11. w \in [Block -> Tags]
  <2>1. \A i \in 1 .. n : tag(i) \in Tags
    <3>. SUFFICES ASSUME NEW i \in 1 .. n PROVE tag(i) \in Tags
      OBVIOUS
    <3>1. n - i \in 0 .. 2
      OBVIOUS
    <3>2. CASE i = 1
      BY <3>1, <3>2, <1>10 DEF Tag, Tags, Container
    <3>3. CASE i # 1
      <4>1. i - 1 \in 1 .. n - 1
        BY <3>3
      <4>2. off[i - 1] \in 0 .. PTRS - 1
        BY <4>1
      <4>3. off[i - 1] \in Nat
        BY <4>2, Constants
      <4>4. br[i - 1] \in Block
        BY <4>1, <1>1
      <4>. QED  BY <3>1, <3>3, <4>3, <4>4 DEF Tag, Tags, Container
    <3>. QED  BY <3>2, <3>3
  <2>2. \A x \in Block : w[x] \in Tags
    <3>. SUFFICES ASSUME NEW x \in Block PROVE w[x] \in Tags
      OBVIOUS
    <3>1. CASE \E i \in 1 .. n : br[i] = x
      BY <3>1, <1>9, <2>1
    <3>2. CASE \A i \in 1 .. n : br[i] # x
      BY <3>2, <1>2, <1>5 DEF Hung
    <3>. QED  BY <3>1, <3>2
  <2>. QED  BY <2>2, <1>5
<1>12. \A x \in Container : (\A i \in 1 .. n : br[i] # x) =>
         /\ IsTable(w, x) <=> IsTable(own, x)
         /\ \A y : LevelOf(w, x, y) = LevelOf(own, x, y)
  BY <1>5, BlockFacts DEF Hung, IsTable, LevelOf
<1>13. \A i \in 1 .. n : /\ IsTable(w, br[i]) <=> i < n
                         /\ \A y : LevelOf(w, br[i], y) = n - i - 1
  BY <1>1, <1>9, BlockFacts DEF IsTable, LevelOf
<1>14. ASSUME NEW x \in Container, IsTable(w, x), NEW y \in Pointer(x), m2[x][y] # NoBlock
       PROVE  w[m2[x][y]] = Tag("pointed", x, y, LevelOf(w, x, y))
  <2>1. CASE x = c /\ y = o
    <3>0. \A i \in 1 .. n : br[i] # c
      BY <1>8
    <3>1. LevelOf(w, c, o) = LevelOf(own, c, o)
      BY <3>0, <1>12
    <3>4. LevelOf(w, c, o) = n - 1
      BY <3>1, <1>10
    <3>2. w[br[1]] = tag(1)
      BY <1>9
    <3>. QED  BY <2>1, <3>4, <3>2, <1>6
  <2>2. CASE ~ (x = c /\ y = o) /\ \E i \in 1 .. n : br[i] = x
    <3>1. PICK i \in 1 .. n : br[i] = x
      BY <2>2
    <3>2. i \in 1 .. n - 1 /\ x # c
      BY <3>1, <1>8, <1>13, <1>14
    <3>3. y = off[i] /\ m2[x][y] = br[i + 1]
      BY <3>1, <3>2, <1>6, <1>7, <1>14
    <3>4. i + 1 \in 1 .. n /\ i + 1 # 1 /\ (i + 1) - 1 = i
      BY <3>2
    <3>5. w[br[i + 1]] = Tag("pointed", br[i], off[i], n - (i + 1))
      <4>. HIDE DEF Strung, AllBranch
      <4>. QED  BY <3>4, <1>9
    <3>6. LevelOf(w, x, y) = n - (i + 1)
      BY <3>1, <1>13
    <3>. QED  BY <3>1, <3>3, <3>5, <3>6
  <2>3. CASE ~ (x = c /\ y = o) /\ \A i \in 1 .. n : br[i] # x
    <3>1. IsTable(own, x) /\ m2[x][y] = m[x][y] /\ LevelOf(w, x, y) = LevelOf(own, x, y)
      BY <2>3, <1>6, <1>12, <1>14
    <3>2. /\ m[x][y] \in Block /\ own[m[x][y]].kind = "pointed"
          /\ own[m[x][y]] = Tag("pointed", x, y, LevelOf(own, x, y))
      BY <3>1, <1>14, Pointed
    <3>3. w[m[x][y]] = own[m[x][y]]
      BY <3>2, <1>5 DEF Hung
    <3>. QED  BY <3>1, <3>2, <3>3
  <2>. QED  BY <2>1, <2>2, <2>3
<1>15. ASSUME NEW x \in Block, w[x].kind = "pointed"
       PROVE  /\ IsTable(w, w[x].c)
              /\ w[x].o \in Pointer(w[x].c) /\ m2[w[x].c][w[x].o] = x
  <2>1. CASE \A i \in 1 .. n : br[i] # x
    <3>1. w[x] = own[x]
      BY <2>1, <1>5 DEF Hung
    <3>2. /\ IsTable(own, own[x].c) /\ own[x].c \in Container
          /\ own[x].o \in Pointer(own[x].c) /\ m[own[x].c][own[x].o] = x
      BY <3>1, <1>2, <1>15 DEF Links, Tags, Container
    <3>3. \A i \in 1 .. n : br[i] # own[x].c
      BY <3>2, <1>8
    <3>4. own[x].c # c \/ own[x].o # o
      BY <3>2, BlockFacts
    <3>. QED  BY <3>1, <3>2, <3>3, <3>4, <1>6, <1>12
  <2>2. CASE x = br[1]
    <3>1. w[x].c = c /\ w[x].o = o
      BY <2>2, <1>9
    <3>. QED  BY <2>2, <3>1, <1>6, <1>8, <1>12
  <2>3. ASSUME NEW i \in 1 .. n, i # 1, x = br[i]
        PROVE  /\ IsTable(w, w[x].c)
               /\ w[x].o \in Pointer(w[x].c) /\ m2[w[x].c][w[x].o] = x
    <3>1. i - 1 \in 1 .. n - 1 /\ i - 1 \in 1 .. n /\ i - 1 < n
      BY <2>3
    <3>2. w[x].c = br[i - 1] /\ w[x].o = off[i - 1]
      BY <2>3, <1>9
    <3>3. IsTable(w, br[i - 1])
      BY <3>1, <1>13
    <3>4. /\ m[br[i - 1]][off[i - 1]] = br[(i - 1) + 1]
          /\ off[i - 1] \in Pointer(br[i - 1])
      BY <3>1, <1>7
    <3>5. br[i - 1] # c
      BY <3>1, <1>8
    <3>6. br[i - 1] \in Container
      BY <3>1, <1>1 DEF Container
    <3>7. m2[br[i - 1]] = m[br[i - 1]]
      BY <3>5, <3>6, <1>6
    <3>8. (i - 1) + 1 = i
      OBVIOUS
    <3>. QED  BY <2>3, <3>2, <3>3, <3>4, <3>7, <3>8
  <2>. QED  BY <2>1, <2>2, <2>3
<1>16. \A x \in Container : m2[x] \in [Pointer(x) -> Block \cup {NoBlock}]
  BY <1>6 DEF Links
<1>17. Links(w, m2)
  BY <1>11, <1>6, <1>14, <1>15, <1>16 DEF Links
<1>. QED  BY <1>5, <1>17 DEF m2

-----------------------------------------------------------------------------
(* Walks                                                                   *)

LEMMA WalkStep ==
  ASSUME NEW m, NEW t, NEW k \in 1 .. 3
  PROVE  Walk(m, t, k) = IF k > 1 /\ Walk(m, t, k - 1) = NoBlock THEN NoBlock
                         ELSE m[Walk(m, t, k - 1)][Path(t)[k]]
<1>1. CASE k = 1
  BY <1>1 DEF Walk
<1>2. CASE k = 2
  BY <1>2 DEF Walk, Hop
<1>3. CASE k = 3
  BY <1>3 DEF Walk, Hop
<1>. QED  BY <1>1, <1>2, <1>3

(* The place of step k of the walk to a sector.                            *)
OnWalk(own, m, t, k) ==
  LET c == Walk(m, t, k - 1)
      o == Path(t)[k] IN
  /\ c \in Container /\ IsTable(own, c) /\ o \in Pointer(c)
  /\ LevelOf(own, c, o) = Len(Path(t)) - k
  /\ k = 1 <=> c = Inode
  /\ c # Inode => own[c].kind = "pointed" /\ own[c].lev = Len(Path(t)) - k + 1
  /\ Walk(m, t, k) = m[c][o]

LEMMA WalkOn ==
  ASSUME NEW own, NEW m, Links(own, m), NEW t \in Sectors,
         NEW k \in 1 .. Len(Path(t)), k = 1 \/ Walk(m, t, k - 1) # NoBlock
  PROVE  OnWalk(own, m, t, k)
<1>. DEFINE n == Len(Path(t))
<1>1. /\ n \in 1 .. 3 /\ Path(t)[1] \in Pointer(Inode)
      /\ LevelOf(own, Inode, Path(t)[1]) = n - 1
      /\ \A i \in 2 .. n : Path(t)[i] \in 0 .. PTRS - 1
  BY PathFacts
<1>2. OnWalk(own, m, t, 1)
  <2>1. Walk(m, t, 1) = m[Inode][Path(t)[1]] /\ Walk(m, t, 0) = Inode
    BY DEF Walk
  <2>. QED  BY <1>1, <2>1, BlockFacts DEF OnWalk, IsTable
<1>3. ASSUME NEW i \in 2 .. n, Walk(m, t, i - 1) # NoBlock, OnWalk(own, m, t, i - 1)
      PROVE  OnWalk(own, m, t, i)
  <2>. DEFINE c == Walk(m, t, i - 2)
              o == Path(t)[i - 1]
              b == Walk(m, t, i - 1)
  <2>1. /\ c \in Container /\ IsTable(own, c) /\ o \in Pointer(c)
        /\ LevelOf(own, c, o) = n - (i - 1) /\ b = m[c][o]
    <3>1. (i - 1) - 1 = i - 2
      OBVIOUS
    <3>. QED  BY <1>3, <3>1 DEF OnWalk
  <2>2. b \in Block /\ own[b].kind = "pointed" /\ own[b].lev = n - i + 1
    BY <2>1, <1>3, <1>1, Pointed
  <2>3. b \in Container /\ b # Inode /\ IsTable(own, b) /\ Pointer(b) = 0 .. PTRS - 1
    BY <2>2, <1>1, BlockFacts DEF IsTable, Pointer
  <2>4. LevelOf(own, b, Path(t)[i]) = n - i
    BY <2>2, <2>3, <1>1 DEF LevelOf
  <2>5. Walk(m, t, i) = m[b][Path(t)[i]]
    <3>1. i \in 1 .. 3
      BY <1>1
    <3>. QED  BY <3>1, <1>3, WalkStep
  <2>6. Path(t)[i] \in Pointer(b)
    BY <2>3, <1>1
  <2>7. i # 1 /\ i \in Nat /\ n \in Nat
    BY <1>1, PathLen
  <2>. QED  BY <2>2, <2>3, <2>4, <2>5, <2>6, <2>7 DEF OnWalk
<1>4. CASE k = 1
  BY <1>2, <1>4
<1>5. CASE k = 2
  BY <1>2, <1>3, <1>5
<1>6. CASE k = 3
  <2>1. Walk(m, t, 1) # NoBlock
    <3>1. Walk(m, t, 2) = IF Walk(m, t, 1) = NoBlock THEN NoBlock
                          ELSE m[Walk(m, t, 1)][Path(t)[2]]
      BY WalkStep
    <3>. QED  BY <1>6, <3>1
  <2>2. OnWalk(own, m, t, 2)
    BY <1>2, <1>3, <1>6, <2>1
  <2>. QED  BY <1>3, <1>6, <2>2
<1>. QED  BY <1>1, <1>4, <1>5, <1>6

LEMMA WalkPointed ==
  ASSUME NEW own, NEW m, Links(own, m), NEW t \in Sectors,
         NEW k \in 1 .. Len(Path(t)), Walk(m, t, k) # NoBlock
  PROVE  /\ OnWalk(own, m, t, k)
         /\ Walk(m, t, k) \in Block
         /\ own[Walk(m, t, k)] = Tag("pointed", Walk(m, t, k - 1), Path(t)[k], Len(Path(t)) - k)
<1>1. k \in 1 .. 3
  BY PathLen
<1>2. k = 1 \/ Walk(m, t, k - 1) # NoBlock
  <2>1. Walk(m, t, k) = IF k > 1 /\ Walk(m, t, k - 1) = NoBlock THEN NoBlock
                        ELSE m[Walk(m, t, k - 1)][Path(t)[k]]
    BY <1>1, WalkStep
  <2>. QED  BY <2>1, <1>1
<1>3. OnWalk(own, m, t, k)
  BY <1>2, WalkOn
<1>4. /\ Walk(m, t, k - 1) \in Container /\ IsTable(own, Walk(m, t, k - 1))
      /\ Path(t)[k] \in Pointer(Walk(m, t, k - 1))
      /\ Walk(m, t, k) = m[Walk(m, t, k - 1)][Path(t)[k]]
      /\ LevelOf(own, Walk(m, t, k - 1), Path(t)[k]) = Len(Path(t)) - k
  BY <1>3 DEF OnWalk
<1>. QED  BY <1>3, <1>4, Pointed

(* Once it has ended the walk stays there.                                 *)
LEMMA WalkEnds ==
  ASSUME NEW m, NEW t, NEW k \in 1 .. 3, NEW j \in 1 .. k, Walk(m, t, k) # NoBlock
  PROVE  Walk(m, t, j) # NoBlock
<1>1. \A i \in 2 .. 3 : Walk(m, t, i) # NoBlock => Walk(m, t, i - 1) # NoBlock
  <2>. SUFFICES ASSUME NEW i \in 2 .. 3, Walk(m, t, i) # NoBlock
                PROVE  Walk(m, t, i - 1) # NoBlock
    OBVIOUS
  <2>1. Walk(m, t, i) = IF i > 1 /\ Walk(m, t, i - 1) = NoBlock THEN NoBlock
                        ELSE m[Walk(m, t, i - 1)][Path(t)[i]]
    BY WalkStep
  <2>. QED  BY <2>1
<1>2. (Walk(m, t, 3) # NoBlock => Walk(m, t, 2) # NoBlock) /\ (Walk(m, t, 2) # NoBlock => Walk(m, t, 1) # NoBlock)
  <2>1. Walk(m, t, 3) # NoBlock => Walk(m, t, 3 - 1) # NoBlock
    BY <1>1
  <2>2. Walk(m, t, 2) # NoBlock => Walk(m, t, 2 - 1) # NoBlock
    BY <1>1
  <2>. QED  BY <2>1, <2>2
<1>3. k = j \/ (k = 2 /\ j = 1) \/ (k = 3 /\ j = 2) \/ (k = 3 /\ j = 1)
  OBVIOUS
<1>. QED  BY <1>2, <1>3

(* Two walks that meet have come the same way.                             *)
LEMMA WalksMeet ==
  ASSUME NEW own, NEW m, Links(own, m), NEW t \in Sectors, NEW s \in Sectors,
         NEW j \in 1 .. Len(Path(t)), NEW k \in 1 .. Len(Path(s)),
         Walk(m, t, j) = Walk(m, s, k), Walk(m, t, j) # NoBlock
  PROVE  /\ j = k /\ Len(Path(t)) = Len(Path(s))
         /\ \A i \in 1 .. k : Path(t)[i] = Path(s)[i] /\ Walk(m, t, i) = Walk(m, s, i)
<1>. DEFINE Same(i, l) == /\ Walk(m, t, i) = Walk(m, s, l)
                          /\ Path(t)[i] = Path(s)[l]
                          /\ Len(Path(t)) - i = Len(Path(s)) - l
                          /\ i = 1 <=> l = 1
                          /\ Walk(m, t, i - 1) = Walk(m, s, l - 1)
<1>1. Len(Path(t)) \in 1 .. 3 /\ Len(Path(s)) \in 1 .. 3
  BY PathFacts
<1>2. ASSUME NEW i \in 1 .. Len(Path(t)), NEW l \in 1 .. Len(Path(s)),
             Walk(m, t, i) = Walk(m, s, l), Walk(m, t, i) # NoBlock
      PROVE  Same(i, l)
  <2>1. own[Walk(m, t, i)] = Tag("pointed", Walk(m, t, i - 1), Path(t)[i], Len(Path(t)) - i)
    BY <1>2, WalkPointed
  <2>2. own[Walk(m, t, i)] = Tag("pointed", Walk(m, s, l - 1), Path(s)[l], Len(Path(s)) - l)
    BY <1>2, WalkPointed
  <2>3. (i = 1 <=> Walk(m, t, i - 1) = Inode)
    BY <1>2, WalkPointed DEF OnWalk
  <2>4. (l = 1 <=> Walk(m, s, l - 1) = Inode)
    BY <1>2, WalkPointed DEF OnWalk
  <2>. QED  BY <1>2, <2>1, <2>2, <2>3, <2>4 DEF Tag
<1>3. ASSUME NEW i \in 2 .. Len(Path(t)), NEW l \in 2 .. Len(Path(s)),
             Walk(m, t, i) # NoBlock, Same(i, l)
      PROVE  Same(i - 1, l - 1) /\ Walk(m, t, i - 1) # NoBlock
  <2>1. Walk(m, t, i - 1) # NoBlock
    <3>0. i \in 1 .. Len(Path(t))
      BY <1>1
    <3>1. i \in 1 .. 3 /\ i - 1 \in 1 .. i
      BY <3>0, <1>3, PathLen
    <3>. QED  BY <3>1, <1>3, WalkEnds
  <2>2. i - 1 \in 1 .. Len(Path(t)) /\ l - 1 \in 1 .. Len(Path(s))
    BY <1>1
  <2>. QED  BY <2>1, <2>2, <1>2, <1>3
<1>4. Same(j, k)
  BY <1>2
<1>. HIDE DEF Same
<1>5. CASE j = 1 \/ k = 1
  <2>1. j = 1 /\ k = 1
    BY <1>4, <1>5 DEF Same
  <2>2. \A i \in 1 .. k : i = 1
    BY <2>1
  <2>. QED  BY <1>1, <1>4, <2>1, <2>2 DEF Same
<1>6. CASE j > 1 /\ k > 1
  <2>1. j \in 2 .. Len(Path(t)) /\ k \in 2 .. Len(Path(s))
    BY <1>6
  <2>2. Same(j - 1, k - 1) /\ Walk(m, t, j - 1) # NoBlock
    BY <1>3, <1>4, <2>1
  <2>3. CASE j = 2 \/ k = 2
    <3>1. j = 2 /\ k = 2
      BY <1>1, <2>2, <2>1, <2>3 DEF Same
    <3>2. \A i \in 1 .. k : i = 1 \/ i = 2
      BY <3>1
    <3>3. Same(1, 1) /\ Same(2, 2)
      BY <1>4, <2>2, <3>1
    <3>. QED  BY <1>1, <3>1, <3>2, <3>3 DEF Same
  <2>4. CASE j > 2 /\ k > 2
    <3>0. j \in 1 .. 3 /\ k \in 1 .. 3
      BY PathLen
    <3>1. j = 3 /\ k = 3 /\ Len(Path(t)) = 3 /\ Len(Path(s)) = 3
      <4>1. j = 3 /\ k = 3
        BY <2>4, <3>0
      <4>. PICK n : n = Len(Path(t))
        OBVIOUS
      <4>. PICK l : l = Len(Path(s))
        OBVIOUS
      <4>2. n \in 1 .. 3 /\ 3 \in 1 .. n /\ l \in 1 .. 3 /\ 3 \in 1 .. l
        BY <4>1, <1>1
      <4>. QED  BY <4>1, <4>2
    <3>2. Same(2, 2) /\ Walk(m, t, 2) # NoBlock
      BY <2>2, <3>1
    <3>3. Same(2 - 1, 2 - 1)
      BY <3>1, <3>2, <1>3
    <3>4. \A i \in 1 .. k : i = 1 \/ i = 2 \/ i = 3
      BY <3>1
    <3>5. Same(1, 1) /\ Same(3, 3)
      BY <3>3, <1>4, <3>1
    <3>. QED  BY <3>1, <3>2, <3>4, <3>5 DEF Same
  <2>. QED  BY <2>1, <2>3, <2>4
<1>. QED  BY <1>5, <1>6

(* A walk on which nothing changes.                                        *)
LEMMA WalkKept ==
  ASSUME NEW m, NEW m2, NEW t, NEW k \in 0 .. 3,
         \A i \in 1 .. k : (i = 1 \/ Walk(m, t, i - 1) # NoBlock) =>
           m2[Walk(m, t, i - 1)][Path(t)[i]] = m[Walk(m, t, i - 1)][Path(t)[i]]
  PROVE  \A i \in 0 .. k : Walk(m2, t, i) = Walk(m, t, i)
<1>0. Walk(m2, t, 0) = Walk(m, t, 0)
  BY DEF Walk
<1>1. ASSUME NEW i \in 1 .. k, Walk(m2, t, i - 1) = Walk(m, t, i - 1)
      PROVE  Walk(m2, t, i) = Walk(m, t, i)
  <2>1. Walk(m, t, i) = IF i > 1 /\ Walk(m, t, i - 1) = NoBlock THEN NoBlock
                        ELSE m[Walk(m, t, i - 1)][Path(t)[i]]
    BY WalkStep
  <2>2. Walk(m2, t, i) = IF i > 1 /\ Walk(m2, t, i - 1) = NoBlock THEN NoBlock
                         ELSE m2[Walk(m2, t, i - 1)][Path(t)[i]]
    BY WalkStep
  <2>. QED  BY <1>1, <2>1, <2>2
<1>2. k >= 1 => Walk(m2, t, 1) = Walk(m, t, 1)
  <2>1. k >= 1 => (Walk(m2, t, 1 - 1) = Walk(m, t, 1 - 1) => Walk(m2, t, 1) = Walk(m, t, 1))
    BY <1>1
  <2>. QED  BY <1>0, <2>1
<1>3. k >= 2 => Walk(m2, t, 2) = Walk(m, t, 2)
  <2>1. k >= 2 => (Walk(m2, t, 2 - 1) = Walk(m, t, 2 - 1) => Walk(m2, t, 2) = Walk(m, t, 2))
    BY <1>1
  <2>. QED  BY <1>2, <2>1
<1>4. k = 3 => Walk(m2, t, 3) = Walk(m, t, 3)
  <2>1. k = 3 => (Walk(m2, t, 3 - 1) = Walk(m, t, 3 - 1) => Walk(m2, t, 3) = Walk(m, t, 3))
    BY <1>1
  <2>. QED  BY <1>3, <2>1
<1>5. \A i \in 0 .. k : i = 0 \/ (i = 1 /\ k >= 1) \/ (i = 2 /\ k >= 2) \/ (i = 3 /\ k = 3)
  OBVIOUS
<1>. QED  BY <1>0, <1>2, <1>3, <1>4, <1>5

(* The Indirects that still hold are the walk.                             *)
Holding(m, ch, n) == \A i \in 1 .. n : m[ch[i].at[1]][ch[i].at[2]] = ch[i].key

LEMMA ChainWalk ==
  ASSUME NEW m, NEW t \in Sectors, NEW ch, ChainOf(ch, Path(t)),
         Len(ch) \in Nat, DOMAIN ch = 1 .. Len(ch),
         NEW n \in 0 .. Len(ch), Holding(m, ch, n)
  PROVE  /\ \A i \in 1 .. n : ch[i].key = Walk(m, t, i)
         /\ \A i \in 1 .. Len(ch) : i <= n + 1 =>
              /\ ch[i].at = <<Walk(m, t, i - 1), Path(t)[i]>>
              /\ i = 1 \/ Walk(m, t, i - 1) # NoBlock
<1>1. Len(ch) \in 0 .. 3
  BY PathLen DEF ChainOf
<1>2. \A i \in 1 .. Len(ch) :
        /\ ch[i].at = <<IF i = 1 THEN Inode ELSE ch[i - 1].key, Path(t)[i]>>
        /\ i < Len(ch) => ch[i].key # NoBlock
  BY DEF ChainOf
<1>3. \A i \in 1 .. n : i \in 1 .. Len(ch) /\ i \in 1 .. 3 /\ m[ch[i].at[1]][ch[i].at[2]] = ch[i].key
  BY <1>1 DEF Holding
<1>. DEFINE P(i) == /\ ch[i].at = <<Walk(m, t, i - 1), Path(t)[i]>>
                    /\ i = 1 \/ Walk(m, t, i - 1) # NoBlock
            Q(i) == ch[i].key = Walk(m, t, i)
<1>4. \A i \in 1 .. n : P(i) => Q(i)
  <2>. SUFFICES ASSUME NEW i \in 1 .. n, P(i) PROVE Q(i)
    OBVIOUS
  <2>1. i \in 1 .. 3 /\ m[ch[i].at[1]][ch[i].at[2]] = ch[i].key
    BY <1>3
  <2>2. Walk(m, t, i) = IF i > 1 /\ Walk(m, t, i - 1) = NoBlock THEN NoBlock
                        ELSE m[Walk(m, t, i - 1)][Path(t)[i]]
    BY <2>1, WalkStep
  <2>. QED  BY <2>1, <2>2
<1>5. \A i \in 1 .. n : (i + 1 <= Len(ch) /\ Q(i)) => P(i + 1)
  <2>. SUFFICES ASSUME NEW i \in 1 .. n, i + 1 <= Len(ch), Q(i) PROVE P(i + 1)
    OBVIOUS
  <2>1. i \in 1 .. Len(ch) /\ i + 1 \in 1 .. Len(ch) /\ i + 1 # 1 /\ (i + 1) - 1 = i /\ i < Len(ch)
    BY <1>1
  <2>2. ch[i + 1].at = <<ch[i].key, Path(t)[i + 1]>> /\ ch[i].key # NoBlock
    BY <1>2, <2>1
  <2>. QED  BY <2>1, <2>2
<1>6. Len(ch) >= 1 => P(1)
  <2>. SUFFICES ASSUME Len(ch) >= 1 PROVE P(1)
    OBVIOUS
  <2>1. ch[1].at = <<Inode, Path(t)[1]>>
    BY <1>1, <1>2
  <2>. QED  BY <2>1 DEF Walk
<1>. HIDE DEF P, Q
<1>7. \A i \in 1 .. Len(ch) : i <= n + 1 => P(i)
  <2>1. Len(ch) >= 2 /\ n >= 1 => P(2)
    <3>. SUFFICES ASSUME Len(ch) >= 2, n >= 1 PROVE P(1 + 1)
      OBVIOUS
    <3>. QED  BY <1>1, <1>4, <1>5, <1>6
  <2>2. Len(ch) >= 3 /\ n >= 2 => P(3)
    <3>. SUFFICES ASSUME Len(ch) >= 3, n >= 2 PROVE P(2 + 1)
      OBVIOUS
    <3>. QED  BY <1>1, <1>4, <1>5, <2>1
  <2>3. \A i \in 1 .. Len(ch) : i = 1 \/ (i = 2 /\ Len(ch) >= 2) \/ (i = 3 /\ Len(ch) >= 3)
    BY <1>1
  <2>. QED  BY <1>1, <1>6, <2>1, <2>2, <2>3
<1>8. \A i \in 1 .. n : Q(i)
  BY <1>1, <1>4, <1>7
<1>. QED  BY <1>7, <1>8 DEF P, Q

-----------------------------------------------------------------------------
(* What truncate could not read                                            *)

BelowOf(m, b, depth) ==
  LET children(x) == {m[x][o] : o \in Pointer(x)} \ {NoBlock}
      below == IF depth = 0 THEN {} ELSE children(b) IN
  {b} \cup below \cup IF depth < 2 THEN {} ELSE UNION {children(c) : c \in below}

LEMMA BelowIs ==
  ASSUME NEW b, NEW depth PROVE Below(b, depth) = BelowOf(mem, b, depth)
BY Zenon DEF Below, BelowOf, Children

(* A subtree is closed under both directions of a pointer.                 *)
LEMMA BelowClosed ==
  ASSUME NEW own, NEW m, Links(own, m), NEW b \in Block, own[b].kind \in {"whole", "lost"}
  PROVE  /\ b \in BelowOf(m, b, own[b].lev) /\ BelowOf(m, b, own[b].lev) \subseteq Block
         /\ \A x \in BelowOf(m, b, own[b].lev) : x = b \/ own[x].kind = "pointed"
         /\ \A x \in Block : own[x].kind = "pointed" =>
              (x \in BelowOf(m, b, own[b].lev) <=>
                 own[x].c # Inode /\ own[x].c \in BelowOf(m, b, own[b].lev))
<1>. DEFINE depth == own[b].lev
            children(x) == {m[x][o] : o \in Pointer(x)} \ {NoBlock}
            one == IF depth = 0 THEN {} ELSE children(b)
            two == IF depth < 2 THEN {} ELSE UNION {children(c) : c \in one}
            B == BelowOf(m, b, depth)
<1>1. B = {b} \cup one \cup two
  BY Zenon DEF BelowOf
<1>2. depth \in 0 .. 2 /\ own \in [Block -> Tags]
  BY DEF Links, Tags
<1>3. ASSUME NEW x \in Container, IsTable(own, x), NEW y \in children(x)
      PROVE  /\ y \in Block /\ own[y].kind = "pointed" /\ own[y].c = x
             /\ x # Inode => own[y].lev = own[x].lev - 1
  <2>1. PICK o \in Pointer(x) : y = m[x][o] /\ m[x][o] # NoBlock
    OBVIOUS
  <2>. QED  BY <1>3, <2>1, Pointed DEF LevelOf
<1>4. ASSUME NEW y \in Block, own[y].kind = "pointed"
      PROVE  /\ own[y].c \in Container /\ IsTable(own, own[y].c) /\ y \in children(own[y].c)
             /\ own[y].c # Inode => own[y].lev = own[own[y].c].lev - 1
  <2>1. own[y].c \in Container /\ IsTable(own, own[y].c) /\ own[y].o \in Pointer(own[y].c)
        /\ m[own[y].c][own[y].o] = y
    BY <1>2, <1>4 DEF Links, Tags, Container
  <2>2. y \in children(own[y].c)
    BY <2>1, BlockFacts
  <2>. QED  BY <2>1, <2>2, <1>3
<1>5. b \in Container /\ (depth > 0 => IsTable(own, b)) /\ b # Inode
  BY BlockFacts DEF IsTable
<1>6. \A x \in one : /\ x \in Block /\ own[x].kind = "pointed" /\ own[x].c = b
                     /\ own[x].lev = depth - 1 /\ depth > 0
  BY <1>2, <1>3, <1>5
<1>7. \A x \in two : /\ x \in Block /\ own[x].kind = "pointed" /\ own[x].c \in one
                     /\ own[x].lev = 0 /\ depth = 2
  <2>. SUFFICES ASSUME NEW x \in two
                PROVE  /\ x \in Block /\ own[x].kind = "pointed" /\ own[x].c \in one
                       /\ own[x].lev = 0 /\ depth = 2
    OBVIOUS
  <2>1. depth = 2
    BY <1>2
  <2>2. PICK c \in one : x \in children(c)
    BY <2>1
  <2>3. c \in Block /\ own[c].kind = "pointed" /\ own[c].lev = 1
    BY <1>6, <2>1
  <2>4. c \in Container /\ IsTable(own, c) /\ c # Inode
    BY <2>3, BlockFacts DEF IsTable
  <2>. QED  BY <1>3, <2>1, <2>2, <2>3, <2>4
<1>8. ASSUME NEW x \in Block, own[x].kind = "pointed", own[x].c # Inode, own[x].c \in B
      PROVE  x \in B
  <2>. DEFINE c == own[x].c
  <2>1. c \in Container /\ IsTable(own, c) /\ x \in children(c) /\ own[x].lev = own[c].lev - 1
        /\ own[x].lev \in 0 .. 2
    BY <1>2, <1>4, <1>8 DEF Tags
  <2>2. CASE c = b
    BY <2>1, <2>2, <1>1, <1>2
  <2>3. CASE c \in one
    <3>1. own[c].lev = depth - 1 /\ depth = 2
      BY <2>1, <2>3, <1>2, <1>6
    <3>. QED  BY <2>1, <2>3, <3>1, <1>1
  <2>4. CASE c \in two
    <3>1. own[c].lev = 0
      BY <2>4, <1>7
    <3>. HIDE DEF c, B, two
    <3>. QED  BY <2>1, <3>1
  <2>. QED  BY <2>2, <2>3, <2>4, <1>1, <1>8
<1>9. ASSUME NEW x \in Block, own[x].kind = "pointed", x \in B
      PROVE  own[x].c # Inode /\ own[x].c \in B
  <2>1. x # b
    BY <1>9
  <2>2. CASE x \in one
    BY <2>2, <1>5, <1>6, <1>1
  <2>3. CASE x \in two
    <3>1. own[x].c \in one
      BY <2>3, <1>7
    <3>2. own[x].c \in Block
      BY <3>1, <1>6
    <3>. QED  BY <3>1, <3>2, BlockFacts, <1>1
  <2>. QED  BY <2>1, <2>2, <2>3, <1>1, <1>9
<1>10. B \subseteq Block /\ b \in B /\ \A x \in B : x = b \/ own[x].kind = "pointed"
  BY <1>1, <1>6, <1>7
<1>. QED  BY <1>8, <1>9, <1>10

LEMMA CutoffBelow ==
  ASSUME NEW own, NEW m, Links(own, m), NEW b \in Block, own[b].kind = "whole",
         NEW u, Cutoff(own, u)
  PROVE  /\ Cutoff(own, u \cup BelowOf(m, b, own[b].lev))
         /\ Cutoff([own EXCEPT ![b] = Loose("lost", own[b].lev)], u \cup BelowOf(m, b, own[b].lev))
<1>. PICK B : B = BelowOf(m, b, own[b].lev)
  OBVIOUS
<1>1. /\ b \in B /\ B \subseteq Block
      /\ \A x \in B : x = b \/ own[x].kind = "pointed"
      /\ \A x \in Block : own[x].kind = "pointed" =>
           (x \in B <=> own[x].c # Inode /\ own[x].c \in B)
  BY BelowClosed
<1>2. Cutoff(own, u \cup B)
  BY <1>1 DEF Cutoff
<1>. DEFINE own2 == [own EXCEPT ![b] = Loose("lost", own[b].lev)]
<1>3. (\A x \in Block : x # b => own2[x] = own[x]) /\ own2[b].kind = "lost"
  BY DEF Links, Loose, Tag
<1>. HIDE DEF own2
<1>4. Cutoff(own2, u \cup B)
  BY <1>1, <1>2, <1>3 DEF Cutoff
<1>. QED  BY <1>2, <1>4 DEF own2

LEMMA CutoffCut ==
  ASSUME NEW own, NEW m, Links(own, m), NEW b \in Block, NEW u, Cutoff(own, u), NEW lev
  PROVE  Cutoff([own EXCEPT ![b] = Loose("whole", lev)], u)
<1>. DEFINE own2 == [own EXCEPT ![b] = Loose("whole", lev)]
<1>1. (\A x \in Block : x # b => own2[x] = own[x]) /\ own2[b].kind = "whole"
  BY DEF Links, Loose, Tag
<1>. HIDE DEF own2
<1>2. Cutoff(own2, u)
  BY <1>1 DEF Cutoff
<1>. QED  BY <1>2 DEF own2

LEMMA CutoffRetag ==
  ASSUME NEW own, NEW m, Links(own, m), NEW b \in Block, own[b].kind # "pointed",
         IsTable(own, b) => \A o \in Pointer(b) : m[b][o] = NoBlock,
         NEW kind \in {"free", "branch"}, NEW u, Cutoff(own, u)
  PROVE  Cutoff([own EXCEPT ![b] = Loose(kind, 0)], u \ {b})
<1>. DEFINE own2 == [own EXCEPT ![b] = Loose(kind, 0)]
<1>1. (\A x \in Block : x # b => own2[x] = own[x]) /\ own2[b].kind \in {"free", "branch"}
  BY DEF Links, Loose, Tag
<1>2. ASSUME NEW x \in Block, own[x].kind = "pointed" PROVE own[x].c # b
  <2>1. /\ IsTable(own, own[x].c) /\ own[x].o \in Pointer(own[x].c)
        /\ m[own[x].c][own[x].o] = x
    BY <1>2 DEF Links
  <2>. QED  BY <2>1, BlockFacts
<1>. HIDE DEF own2
<1>3. Cutoff(own2, u \ {b})
  BY <1>1, <1>2 DEF Cutoff
<1>. QED  BY <1>3 DEF own2

LEMMA CutoffHung ==
  ASSUME NEW own, NEW own2, NEW c \in Container, NEW o, NEW br \in Seq(Block), NEW off,
         Hung(own, own2, c, o, br, off), NEW u, Cutoff(own, u),
         c # Inode => c \notin u,
         AllBranch(own, br)
  PROVE  Cutoff(own2, u)
<1>. USE DEF AllBranch
<1>1. \A i \in 1 .. Len(br) : br[i] \in Block /\ br[i] \notin u
  BY ElementOfSeq DEF Cutoff
<1>2. \A i \in 1 .. Len(br) : /\ own2[br[i]].kind = "pointed"
                              /\ own2[br[i]].c = IF i = 1 THEN c ELSE br[i - 1]
  <2>. SUFFICES ASSUME NEW i \in 1 .. Len(br)
                PROVE  /\ own2[br[i]].kind = "pointed"
                       /\ own2[br[i]].c = IF i = 1 THEN c ELSE br[i - 1]
    OBVIOUS
  <2>. PICK d : d = IF i = 1 THEN c ELSE br[i - 1]
    OBVIOUS
  <2>. PICK e : e = IF i = 1 THEN o ELSE off[i - 1]
    OBVIOUS
  <2>1. own2[br[i]] = Tag("pointed", d, e, Len(br) - i)
    BY DEF Hung
  <2>. QED  BY <2>1 DEF Tag
<1>3. ASSUME NEW i \in 1 .. Len(br) PROVE own2[br[i]].c # Inode => own2[br[i]].c \notin u
  <2>1. CASE i = 1
    BY <2>1, <1>2
  <2>2. CASE i # 1
    <3>1. i - 1 \in 1 .. Len(br)
      BY <2>2, LenProperties
    <3>. QED  BY <2>2, <3>1, <1>1, <1>2
  <2>. QED  BY <2>1, <2>2
<1>4. ASSUME NEW x \in Block
      PROVE  /\ own2[x].kind = "lost" => x \in u
             /\ own2[x].kind \in {"branch", "free"} => x \notin u
             /\ own2[x].kind = "pointed" =>
                  (x \in u <=> own2[x].c # Inode /\ own2[x].c \in u)
  <2>1. CASE \E i \in 1 .. Len(br) : br[i] = x
    BY <2>1, <1>1, <1>2, <1>3
  <2>2. CASE \A i \in 1 .. Len(br) : br[i] # x
    BY <2>2 DEF Hung, Cutoff
  <2>. QED  BY <2>1, <2>2
<1>. QED  BY <1>4 DEF Cutoff

(* The blocks on a walk are not among them.                                *)
LEMMA CutoffWalk ==
  ASSUME NEW own, NEW m, Links(own, m), NEW u, Cutoff(own, u), NEW t \in Sectors,
         NEW k \in 1 .. Len(Path(t)), Walk(m, t, k) # NoBlock
  PROVE  Walk(m, t, k) \notin u
<1>1. k \in 1 .. 3
  BY PathLen
<1>2. \A i \in 1 .. k : Walk(m, t, i) # NoBlock
  BY <1>1, WalkEnds
<1>3. ASSUME NEW i \in 1 .. k
      PROVE  /\ Walk(m, t, i) \in Block
             /\ own[Walk(m, t, i)].kind = "pointed" /\ own[Walk(m, t, i)].c = Walk(m, t, i - 1)
             /\ i = 1 => Walk(m, t, i - 1) = Inode
  <2>1. i \in 1 .. Len(Path(t))
    BY PathLen
  <2>2. /\ Walk(m, t, i) \in Block
        /\ own[Walk(m, t, i)] = Tag("pointed", Walk(m, t, i - 1), Path(t)[i], Len(Path(t)) - i)
    BY <1>2, <2>1, WalkPointed
  <2>. QED  BY <2>2 DEF Tag, Walk
<1>4. Walk(m, t, 1) \notin u
  BY <1>1, <1>3 DEF Cutoff
<1>5. k >= 2 => Walk(m, t, 2) \notin u
  <2>1. k >= 2 => /\ Walk(m, t, 2) \in Block
                  /\ own[Walk(m, t, 2)].kind = "pointed" /\ own[Walk(m, t, 2)].c = Walk(m, t, 2 - 1)
    BY <1>1, <1>3
  <2>. QED  BY <1>4, <2>1 DEF Cutoff
<1>6. k >= 3 => Walk(m, t, 3) \notin u
  <2>1. k >= 3 => /\ Walk(m, t, 3) \in Block
                  /\ own[Walk(m, t, 3)].kind = "pointed" /\ own[Walk(m, t, 3)].c = Walk(m, t, 3 - 1)
    BY <1>1, <1>3
  <2>. QED  BY <1>1, <1>5, <2>1 DEF Cutoff
<1>. QED  BY <1>1, <1>4, <1>5, <1>6

-----------------------------------------------------------------------------
(* What a step leaves to the other calls                                   *)

(* No pointer of the tree that is set changes.                             *)
Keeps(own, m, m2) ==
  \A c \in Container : IsTable(own, c) /\ (c = Inode \/ own[c].kind = "pointed") =>
    \A o \in Pointer(c) : m[c][o] # NoBlock => m2[c][o] = m[c][o]

LEMMA WalkKeeps ==
  ASSUME NEW own, NEW m, Links(own, m), NEW m2, Keeps(own, m, m2), NEW t \in Sectors,
         NEW k \in 0 .. Len(Path(t)), k = 0 \/ Walk(m, t, k) # NoBlock
  PROVE  \A i \in 0 .. k : Walk(m2, t, i) = Walk(m, t, i)
<1>1. k \in 0 .. 3
  BY PathLen
<1>2. ASSUME NEW i \in 1 .. k
      PROVE  m2[Walk(m, t, i - 1)][Path(t)[i]] = m[Walk(m, t, i - 1)][Path(t)[i]]
  <2>1. k \in 1 .. 3 /\ i \in 1 .. Len(Path(t)) /\ k # 0
    BY <1>1, PathLen
  <2>2. Walk(m, t, i) # NoBlock
    BY <2>1, <1>2, WalkEnds
  <2>3. OnWalk(own, m, t, i)
    BY <2>1, <2>2, WalkPointed
  <2>. QED  BY <2>2, <2>3 DEF OnWalk, Keeps
<1>3. \A i \in 1 .. k : (i = 1 \/ Walk(m, t, i - 1) # NoBlock) =>
        m2[Walk(m, t, i - 1)][Path(t)[i]] = m[Walk(m, t, i - 1)][Path(t)[i]]
  BY <1>2
<1>. QED  BY <1>1, <1>3, WalkKept

ChainType == Seq([at : Container \X Nat, key : Block \cup {NoBlock}])

LEMMA TypesOf ==
  ASSUME Types, NEW p \in Process
  PROVE  /\ chain[p] \in ChainType /\ Len(chain[p]) \in Nat
         /\ DOMAIN chain[p] = 1 .. Len(chain[p])
         /\ \A i \in 1 .. Len(chain[p]) :
              chain[p][i] \in [at : Container \X Nat, key : Block \cup {NoBlock}]
         /\ branch[p] \in Seq(Block) /\ Len(branch[p]) \in Nat
         /\ DOMAIN branch[p] = 1 .. Len(branch[p])
         /\ \A i \in 1 .. Len(branch[p]) : branch[p][i] \in Block
         /\ tasks[p] \in Seq(Task) /\ Len(tasks[p]) \in Nat
         /\ DOMAIN tasks[p] = 1 .. Len(tasks[p])
         /\ \A i \in 1 .. Len(tasks[p]) : tasks[p][i] \in Task
         /\ call[p] \in [pc : Label, kind : {"none", "write", "writepage", "bmap", "truncate"},
                         sector : 0 .. NSectors, result : Block \cup {NoBlock, EIO, ENOSPC}]
         /\ size \in 0 .. NSectors /\ size \in Nat
<1>1. chain[p] \in ChainType /\ branch[p] \in Seq(Block) /\ tasks[p] \in Seq(Task)
  BY DEF Types, ChainType
<1>2. /\ Len(chain[p]) \in Nat /\ DOMAIN chain[p] = 1 .. Len(chain[p])
      /\ \A i \in 1 .. Len(chain[p]) :
           chain[p][i] \in [at : Container \X Nat, key : Block \cup {NoBlock}]
  BY <1>1, LenProperties, ElementOfSeq DEF ChainType
<1>3. /\ Len(branch[p]) \in Nat /\ DOMAIN branch[p] = 1 .. Len(branch[p])
      /\ \A i \in 1 .. Len(branch[p]) : branch[p][i] \in Block
  BY <1>1, LenProperties, ElementOfSeq
<1>4. /\ Len(tasks[p]) \in Nat /\ DOMAIN tasks[p] = 1 .. Len(tasks[p])
      /\ \A i \in 1 .. Len(tasks[p]) : tasks[p][i] \in Task
  BY <1>1, LenProperties, ElementOfSeq
<1>5. size \in 0 .. NSectors /\ size \in Nat
  BY Constants DEF Types
<1>6. call[p] \in [pc : Label, kind : {"none", "write", "writepage", "bmap", "truncate"},
                   sector : 0 .. NSectors, result : Block \cup {NoBlock, EIO, ENOSPC}]
  BY DEF Types
<1>. QED  BY <1>1, <1>2, <1>3, <1>4, <1>5, <1>6

(* The places of the chain of a truncate are on the walk.                  *)
LEMMA ChainHolds ==
  ASSUME NEW own, NEW m, Links(own, m), NEW t \in Sectors, NEW ch \in ChainType,
         ChainOf(ch, Path(t)),
         \A i \in DOMAIN ch : ch[i].key # NoBlock => m[ch[i].at[1]][ch[i].at[2]] = ch[i].key
  PROVE  \A i \in DOMAIN ch :
           /\ i \in 1 .. Len(Path(t)) /\ ch[i].at = <<Walk(m, t, i - 1), Path(t)[i]>>
           /\ i = 1 \/ Walk(m, t, i - 1) # NoBlock
           /\ OnWalk(own, m, t, i)
           /\ ch[i].key # NoBlock => ch[i].key = Walk(m, t, i)
<1>1. Len(ch) \in Nat /\ DOMAIN ch = 1 .. Len(ch)
  BY LenProperties DEF ChainType
<1>0. PICK l \in Nat : l = Len(ch)
  BY <1>1
<1>2. PICK n \in 0 .. l : n + 1 >= l /\ (n = l => (l = 0 \/ ch[l].key # NoBlock))
  <2>1. CASE l = 0 \/ ch[l].key # NoBlock
    <3>. WITNESS l \in 0 .. l
    <3>. QED  BY <2>1
  <2>2. CASE ~ (l = 0 \/ ch[l].key # NoBlock)
    <3>1. l - 1 \in 0 .. l
      BY <2>2
    <3>. WITNESS l - 1 \in 0 .. l
    <3>. QED  BY <2>2
  <2>. QED  BY <2>1, <2>2
<1>3. \A i \in 1 .. n : ch[i].key # NoBlock
  <2>. SUFFICES ASSUME NEW i \in 1 .. n PROVE ch[i].key # NoBlock
    OBVIOUS
  <2>0. i \in 1 .. l
    BY <1>2
  <2>1. i \in DOMAIN ch /\ (i < l => ch[i].key # NoBlock)
    BY <1>0, <1>1, <2>0 DEF ChainOf
  <2>2. CASE i < l
    BY <2>1, <2>2
  <2>3. CASE ~ (i < l)
    <3>1. i = l /\ n = l /\ l # 0
      BY <1>2, <2>3
    <3>. QED  BY <1>2, <3>1
  <2>. QED  BY <2>2, <2>3
<1>4. Holding(m, ch, n)
  <2>. SUFFICES ASSUME NEW i \in 1 .. n PROVE m[ch[i].at[1]][ch[i].at[2]] = ch[i].key
    BY DEF Holding
  <2>0. i \in 1 .. l
    BY <1>2
  <2>1. i \in DOMAIN ch
    BY <1>0, <1>1, <2>0
  <2>. QED  BY <1>3, <2>1
<1>5. \A i \in 1 .. Len(ch) : i <= n + 1 =>
        /\ ch[i].at = <<Walk(m, t, i - 1), Path(t)[i]>>
        /\ i = 1 \/ Walk(m, t, i - 1) # NoBlock
  BY <1>0, <1>1, <1>2, <1>4, ChainWalk
<1>. SUFFICES ASSUME NEW i \in DOMAIN ch
              PROVE  /\ i \in 1 .. Len(Path(t)) /\ ch[i].at = <<Walk(m, t, i - 1), Path(t)[i]>>
                     /\ i = 1 \/ Walk(m, t, i - 1) # NoBlock
                     /\ OnWalk(own, m, t, i)
                     /\ ch[i].key # NoBlock => ch[i].key = Walk(m, t, i)
  OBVIOUS
<1>6. i \in 1 .. Len(ch) /\ i <= n + 1
  BY <1>0, <1>1, <1>2
<1>7. i \in 1 .. Len(Path(t))
  BY <1>6, <1>1, PathLen DEF ChainOf
<1>8. ch[i].at = <<Walk(m, t, i - 1), Path(t)[i]>> /\ (i = 1 \/ Walk(m, t, i - 1) # NoBlock)
  BY <1>5, <1>6
<1>9. OnWalk(own, m, t, i)
  BY <1>7, <1>8, WalkOn
<1>10. ch[i].key # NoBlock => ch[i].key = Walk(m, t, i)
  <2>1. Walk(m, t, i) = m[Walk(m, t, i - 1)][Path(t)[i]]
    BY <1>9 DEF OnWalk
  <2>. QED  BY <1>8, <2>1
<1>. QED  BY <1>7, <1>8, <1>9, <1>10

(* The invariant of a call lives through the steps of others that keep     *)
(* the tree (while it holds i_mutex) and the blocks of its branch.         *)
LEMMA OthersKeep ==
  ASSUME Types, NEW q \in Process, CallInv(q), NEW own, Links(own, mem),
         call'[q] = call[q], chain'[q] = chain[q],
         branch'[q] = branch[q], tasks'[q] = tasks[q],
         mutex' = q <=> mutex = q,
         call[q].kind = "writepage" => call[q].sector < size',
         mutex = q => size' = size /\ Keeps(own, mem, mem'),
         \A i \in DOMAIN branch[q] : mem'[branch[q][i]] = mem[branch[q][i]]
  PROVE  CallInv(q)'
<1>. DEFINE c == call[q]
            ch == chain[q]
<1>1. Discipline(q)'
  <2>1. call[q].kind = "truncate" => size' = size
    BY DEF CallInv, Discipline
  <2>. QED  BY <2>1 DEF CallInv, Discipline, Creates
<1>2. BranchInv(q)'
  <2>1. Left(q)' = Left(q)
    BY DEF Left
  <2>2. BranchInv(q)
    BY DEF CallInv
  <2>3. ASSUME c.pc = "alloc", NEW i \in DOMAIN branch[q], i < Len(branch[q])
        PROVE  mem'[branch[q][i]] =
                 [Zeroes EXCEPT ![Path(c.sector)[Len(ch) + i]] = branch[q][i + 1]]
    <3>1. mem'[branch[q][i]] = mem[branch[q][i]]
      OBVIOUS
    <3>2. mem[branch[q][i]] = [Zeroes EXCEPT ![Path(c.sector)[Len(ch) + i]] = branch[q][i + 1]]
      BY <2>2, <2>3 DEF BranchInv
    <3>. QED  BY <3>1, <3>2
  <2>. QED  BY <2>1, <2>2, <2>3 DEF BranchInv
<1>3. ChainInv(q)'
  <2>1. Depth(q)' = Depth(q)
    BY DEF Depth
  <2>2. ASSUME c.pc \in {"branch", "shared"}, c.kind = "truncate",
               NEW i \in DOMAIN ch, ch[i].key # NoBlock
        PROVE  At(ch[i].at)' = ch[i].key
    <3>1. /\ mutex = q /\ c.sector < NSectors
          /\ ChainOf(ch, Path(c.sector))
          /\ \A j \in DOMAIN ch : ch[j].key # NoBlock => mem[ch[j].at[1]][ch[j].at[2]] = ch[j].key
      BY <2>2 DEF CallInv, Discipline, ChainInv, At
    <3>2. c.sector \in Sectors
      BY <3>1, TypesOf, Constants DEF Sectors
    <3>3. ch \in ChainType
      BY TypesOf
    <3>4. ch[i].at = <<Walk(mem, c.sector, i - 1), Path(c.sector)[i]>> /\ OnWalk(own, mem, c.sector, i)
      BY <3>1, <3>2, <3>3, ChainHolds
    <3>5. mem'[ch[i].at[1]][ch[i].at[2]] = mem[ch[i].at[1]][ch[i].at[2]]
      <4>. PICK d : d = Walk(mem, c.sector, i - 1)
        OBVIOUS
      <4>. PICK o : o = Path(c.sector)[i]
        OBVIOUS
      <4>1. /\ d \in Container /\ IsTable(own, d) /\ o \in Pointer(d)
            /\ d # Inode => own[d].kind = "pointed"
        BY <3>4 DEF OnWalk
      <4>2. ch[i].at[1] = d /\ ch[i].at[2] = o
        BY <3>4
      <4>3. mem[d][o] # NoBlock
        BY <2>2, <3>1, <4>2
      <4>4. Keeps(own, mem, mem')
        BY <3>1
      <4>5. mem'[d][o] = mem[d][o]
        BY <4>1, <4>3, <4>4 DEF Keeps
      <4>. QED  BY <4>2, <4>5
    <3>. QED  BY <2>2, <3>1, <3>5 DEF At
  <2>3. c.pc \in {"branch", "shared"} /\ c.kind = "truncate" =>
          \A i \in DOMAIN ch : ch[i].key # NoBlock => At(ch[i].at)' = ch[i].key
    BY <2>2
  <2>. QED  BY <2>1, <2>3 DEF CallInv, ChainInv, At
<1>4. TasksInv(q)'
  <2>1. ASSUME c.pc = "free", NEW i \in DOMAIN tasks[q], tasks[q][i].op = "cells"
        PROVE  EndsAt(mem', tasks[q][i], size')
    <3>. PICK t : t = tasks[q][i]
      OBVIOUS
    <3>1. mutex = q /\ size' = size /\ Keeps(own, mem, mem') /\ EndsAt(mem, t, size)
      BY <2>1 DEF CallInv, Discipline, TasksInv, TasksOk
    <3>. PICK s : s = size
      OBVIOUS
    <3>2. CASE t.at = Inode
      BY <3>1, <3>2 DEF EndsAt
    <3>3. CASE t.at # Inode
      <4>. PICK k : k = Len(Path(s)) - t.depth
        OBVIOUS
      <4>1. k > 1 /\ t.at = Walk(mem, s, k - 1)
        BY <3>1, <3>3 DEF EndsAt
      <4>2. t \in Task /\ t.depth \in 0 .. 2
        BY TypesOf, <2>1 DEF Task
      <4>3. s \in Sectors
        <5>1. c.sector < NSectors /\ c.sector = size
          BY <2>1 DEF CallInv, Discipline
        <5>. QED  BY <5>1, TypesOf, Constants DEF Sectors
      <4>4. k - 1 \in 0 .. Len(Path(s)) /\ k - 1 # 0
        BY <4>1, <4>2, <4>3, PathLen
      <4>5. Walk(mem, s, k - 1) # NoBlock
        BY <4>1, <3>3, BlockFacts
      <4>6. \A j \in 0 .. k - 1 : Walk(mem', s, j) = Walk(mem, s, j)
        BY <3>1, <4>3, <4>4, <4>5, WalkKeeps
      <4>7. Walk(mem', s, k - 1) = Walk(mem, s, k - 1)
        BY <4>4, <4>6
      <4>. QED  BY <3>1, <3>3, <4>7 DEF EndsAt
    <3>. QED  BY <3>2, <3>3
  <2>2. \A i \in DOMAIN tasks[q] : c.pc = "free" /\ tasks[q][i].op = "cells" => EndsAt(mem', tasks[q][i], size')
    BY <2>1
  <2>. QED  BY <2>2 DEF CallInv, TasksInv, TasksOk
<1>. QED  BY <1>1, <1>2, <1>3, <1>4 DEF CallInv

(* A step of p that leaves the blocks, and has no subtrees to free.        *)
Cellular(ts) == \A i \in DOMAIN ts : ts[i].op # "whole"

LEMMA ForestQuiet ==
  ASSUME NEW p \in Process, NEW own, Forest(own),
         zmap' = zmap, mem' = mem, branch' = branch, unread' = unread,
         \A q \in Process : q # p => call'[q] = call[q] /\ tasks'[q] = tasks[q],
         call[p].pc = "free" => Cellular(tasks[p]),
         call'[p].pc = "free" => Cellular(tasks'[p])
  PROVE  Forest(own)'
<1>1. Links(own, mem)' /\ Cutoff(own, unread)'
  BY DEF Forest
<1>2. /\ \A b \in Block : own[b].kind = "free" <=> b \notin zmap
      /\ \A q \in Process : \A i \in DOMAIN branch[q] : own[branch[q][i]].kind = "branch"
      /\ \A b \in Block : own[b].kind = "branch" => \E q \in Process : b \in Range(branch[q])
  BY DEF Forest, Holds
<1>3. ASSUME NEW q \in Process, call'[q].pc = "free", NEW i \in DOMAIN tasks'[q], tasks'[q][i].op = "whole"
      PROVE  own[tasks'[q][i].at] = Loose("whole", tasks'[q][i].depth)
  <2>1. q # p
    BY <1>3 DEF Cellular
  <2>. QED  BY <1>3, <2>1 DEF Forest, Holds
<1>4. ASSUME NEW b \in Block, own[b].kind = "whole"
      PROVE  \E q \in Process : call'[q].pc = "free" /\
               \E i \in DOMAIN tasks'[q] : tasks'[q][i].op = "whole" /\ tasks'[q][i].at = b
  <2>1. PICK q \in Process : call[q].pc = "free" /\
               \E i \in DOMAIN tasks[q] : tasks[q][i].op = "whole" /\ tasks[q][i].at = b
    BY <1>4 DEF Forest, Holds
  <2>2. q # p
    BY <2>1 DEF Cellular
  <2>. QED  BY <2>1, <2>2
<1>5. Holds(own)'
  <2>1. \A q \in Process : call'[q].pc = "free" =>
          \A i \in DOMAIN tasks'[q] : tasks'[q][i].op = "whole" =>
            own[tasks'[q][i].at] = Loose("whole", tasks'[q][i].depth)
    BY <1>3
  <2>2. \A b \in Block : own[b].kind = "whole" =>
          \E q \in Process : call'[q].pc = "free" /\
            \E i \in DOMAIN tasks'[q] : tasks'[q][i].op = "whole" /\ tasks'[q][i].at = b
    BY <1>4
  <2>. QED  BY <1>2, <2>1, <2>2 DEF Holds
<1>. QED  BY <1>1, <1>5 DEF Forest

LEMMA ApartQuiet ==
  ASSUME Apart, branch' = branch
  PROVE  Apart'
BY DEF Apart

LEMMA CreatesIs ==
  ASSUME NEW p
  PROVE  /\ Creates(p) <=> call[p].kind \in {"write", "writepage"}
         /\ Creates(p)' <=> call'[p].kind \in {"write", "writepage"}
BY DEF Creates

-----------------------------------------------------------------------------
(* Calls                                                                   *)

LEMMA CallGetBlockInv ==
  ASSUME IInv, NEW p \in Process, NEW t \in Sector,
         Write(p, t) \/ Writepage(p, t) \/ Bmap(p, t)
  PROVE  IInv'
<1>. PICK kind \in {"write", "writepage", "bmap"} :
       /\ CallGetBlock(p, kind, t)
       /\ kind = "write" => mutex = Nobody /\ mutex' = p
       /\ kind # "write" => mutex' = mutex
       /\ kind = "writepage" => t < size
  BY DEF Write, Writepage, Bmap
<1>. DEFINE c == [pc |-> "branch", kind |-> kind, sector |-> t, result |-> NoBlock]
<1>1. /\ call[p].pc = "idle"
      /\ call' = [call EXCEPT ![p] = c] /\ chain' = [chain EXCEPT ![p] = <<>>]
      /\ UNCHANGED <<zmap, mem, branch, unread, size, tasks>>
  BY DEF CallGetBlock, Begin
<1>2. Types /\ CallInv(p) /\ Apart
  BY DEF IInv
<1>3. /\ call'[p] = c /\ chain'[p] = <<>>
      /\ \A q \in Process : q # p => call'[q] = call[q] /\ chain'[q] = chain[q]
  BY <1>1, <1>2 DEF Types
<1>4. t \in Sectors /\ t < NSectors /\ t \in 0 .. NSectors
  BY Constants DEF Sectors
<1>5. Types'
  <2>1. c \in [pc : Label, kind : {"none", "write", "writepage", "bmap", "truncate"},
               sector : 0 .. NSectors, result : Block \cup {NoBlock, EIO, ENOSPC}]
    BY <1>4 DEF Label
  <2>2. <<>> \in Seq([at : Container \X Nat, key : Block \cup {NoBlock}])
    OBVIOUS
  <2>. QED  BY <1>1, <1>2, <2>1, <2>2 DEF Types
<1>6. mutex # p /\ branch[p] = <<>>
  BY <1>1, <1>2 DEF CallInv, Discipline
<1>7. CallInv(p)'
  <2>1. Discipline(p)'
    BY <1>1, <1>3, <1>4, <1>6 DEF Discipline, Creates
  <2>2. ChainInv(p)'
    <3>1. Depth(p)' \in 1 .. Len(Path(t)) /\ Len(Path(t)) \in 1 .. 3
      BY <1>3, <1>4, DepthIs, DepthShape, PathLen
    <3>2. ChainOf(<<>>, Path(t))
      BY <3>1 DEF ChainOf
    <3>. QED  BY <1>3, <3>1, <3>2 DEF ChainInv
  <2>3. BranchInv(p)' /\ TasksInv(p)'
    BY <1>1, <1>3, <1>6 DEF BranchInv, TasksInv
  <2>. QED  BY <2>1, <2>2, <2>3 DEF CallInv
<1>8. PICK own : Forest(own)
  BY DEF IInv
<1>9. ASSUME NEW q \in Process, q # p PROVE CallInv(q)'
  <2>1. mutex' = q <=> mutex = q
    BY <1>9, BlockFacts
  <2>2. call'[q] = call[q] /\ chain'[q] = chain[q] /\ branch'[q] = branch[q] /\ tasks'[q] = tasks[q]
    BY <1>1, <1>3, <1>9
  <2>3. call[q].kind = "writepage" => call[q].sector < size'
    BY <1>1 DEF IInv, CallInv, Discipline
  <2>4. size' = size /\ Keeps(own, mem, mem') /\ mem' = mem
    BY <1>1 DEF Keeps
  <2>5. CallInv(q) /\ Types /\ Links(own, mem)
    BY <1>8 DEF IInv, Forest
  <2>. QED  BY <2>1, <2>2, <2>3, <2>4, <2>5, OthersKeep
<1>10. Forest(own)'
  BY <1>1, <1>3, <1>8, ForestQuiet
<1>11. Apart'
  BY <1>1, <1>2, ApartQuiet
<1>. QED  BY <1>5, <1>7, <1>9, <1>10, <1>11 DEF IInv

(* What truncate has to clear, put together.                               *)
LEMMA ConcatTasks ==
  ASSUME NEW a \in Seq(Task), NEW b \in Seq(Task), NEW m, NEW s,
         TasksOk(m, a, s), TasksOk(m, b, s),
         \A i \in DOMAIN a, j \in DOMAIN b : Before(a[i], b[j])
  PROVE  a \o b \in Seq(Task) /\ TasksOk(m, a \o b, s)
<1>. DEFINE c == a \o b
<1>1. /\ c \in Seq(Task) /\ Len(c) = Len(a) + Len(b)
      /\ \A i \in 1 .. Len(c) : c[i] = IF i <= Len(a) THEN a[i] ELSE b[i - Len(a)]
  BY ConcatProperties
<1>2. /\ DOMAIN a = 1 .. Len(a) /\ DOMAIN b = 1 .. Len(b) /\ DOMAIN c = 1 .. Len(c)
      /\ Len(a) \in Nat /\ Len(b) \in Nat
  BY <1>1, LenProperties
<1>. HIDE DEF c
<1>3. ASSUME NEW i \in DOMAIN c
      PROVE  \/ i \in DOMAIN a /\ c[i] = a[i]
             \/ i - Len(a) \in DOMAIN b /\ c[i] = b[i - Len(a)] /\ i > Len(a)
  <2>1. i \in 1 .. Len(a) + Len(b)
    BY <1>1, <1>2
  <2>2. CASE i <= Len(a)
    BY <1>1, <1>2, <2>1, <2>2
  <2>3. CASE ~ (i <= Len(a))
    <3>1. i - Len(a) \in 1 .. Len(b)
      BY <1>2, <2>1, <2>3
    <3>. QED  BY <1>1, <1>2, <2>1, <2>3, <3>1
  <2>. QED  BY <2>2, <2>3
<1>4. ASSUME NEW i \in DOMAIN c, NEW j \in DOMAIN c, i < j PROVE Before(c[i], c[j])
  <2>1. i \in Int /\ j \in Int
    BY <1>2
  <2>2. CASE i \in DOMAIN a /\ c[i] = a[i]
    BY <1>3, <1>4, <2>2 DEF TasksOk
  <2>3. CASE i - Len(a) \in DOMAIN b /\ c[i] = b[i - Len(a)] /\ i > Len(a)
    <3>1. j \notin DOMAIN a
      BY <1>2, <1>4, <2>1, <2>3
    <3>2. j - Len(a) \in DOMAIN b /\ c[j] = b[j - Len(a)]
      BY <1>3, <3>1
    <3>3. i - Len(a) < j - Len(a)
      BY <1>2, <1>4, <2>1
    <3>. QED  BY <2>3, <3>2, <3>3 DEF TasksOk
  <2>. QED  BY <1>3, <2>2, <2>3
<1>5. ASSUME NEW i \in DOMAIN c
      PROVE  /\ c[i].op = "cells" => EndsAt(m, c[i], s)
             /\ c[i].op = "whole" => (c[i].read => c[i].depth > 0)
  BY <1>3 DEF TasksOk
<1>6. TasksOk(m, c, s)
  BY <1>4, <1>5 DEF TasksOk
<1>. QED  BY <1>1, <1>6 DEF c

LEMMA SingleTask ==
  ASSUME NEW t \in Task, NEW m, NEW s,
         t.op = "cells" => EndsAt(m, t, s),
         t.op = "whole" => (t.read => t.depth > 0)
  PROVE  <<t>> \in Seq(Task) /\ TasksOk(m, <<t>>, s) /\ DOMAIN <<t>> = {1} /\ <<t>>[1] = t
<1>1. <<t>> \in Seq(Task) /\ DOMAIN <<t>> = {1} /\ <<t>>[1] = t
  OBVIOUS
<1>2. \A i, j \in DOMAIN <<t>> : ~ (i < j)
  BY <1>1
<1>. QED  BY <1>1, <1>2 DEF TasksOk

(* The whole subtrees behind the one of the end.                           *)
LEMMA IndirectsOk ==
  ASSUME NEW s \in Sectors, NEW m
  PROVE  /\ Indirects(Len(Path(s)) - 1) \in Seq(Task)
         /\ TasksOk(m, Indirects(Len(Path(s)) - 1), s)
         /\ DOMAIN Indirects(Len(Path(s)) - 1) = 1 .. 3 - Len(Path(s))
         /\ \A i \in 1 .. 3 - Len(Path(s)) :
              Indirects(Len(Path(s)) - 1)[i] =
                Cells(Inode, DIRECT + Len(Path(s)) + i - 2, DIRECT + Len(Path(s)) + i - 1,
                      Len(Path(s)) + i - 1)
<1>. PICK n : n = Len(Path(s))
  OBVIOUS
<1>. DEFINE ts == Indirects(n - 1)
            f(i) == Cells(Inode, DIRECT + n + i - 2, DIRECT + n + i - 1, n + i - 1)
<1>1. n \in 1 .. 3 /\ LevelOf(<<>>, Inode, Path(s)[1]) = n - 1 /\ Path(s)[1] \in Nat
  <2>1. 1 \in 1 .. Len(Path(s))
    BY PathLen
  <2>. QED  BY <2>1, PathFacts
<1>2. DIRECT \in Nat /\ DIRECT > 0
  BY Constants
<1>3. Path(s)[1] < DIRECT \/ Path(s)[1] = DIRECT + n - 2
  BY <1>1, <1>2 DEF LevelOf
<1>4. ts = [i \in 1 .. 3 - n |-> f(i)]
  <2>1. \A i \in 1 .. 3 - n : f(i) = Cells(Inode, DIRECT + (n - 1) + i - 1, DIRECT + (n - 1) + i, (n - 1) + i)
    <3>. SUFFICES ASSUME NEW i \in 1 .. 3 - n
                  PROVE  f(i) = Cells(Inode, DIRECT + (n - 1) + i - 1, DIRECT + (n - 1) + i, (n - 1) + i)
      OBVIOUS
    <3>1. /\ DIRECT + n + i - 2 = DIRECT + (n - 1) + i - 1
          /\ DIRECT + n + i - 1 = DIRECT + (n - 1) + i /\ n + i - 1 = (n - 1) + i
      BY <1>1, <1>2
    <3>. QED  BY <3>1
  <2>2. DEPTH - 1 - (n - 1) = 3 - n
    BY <1>1 DEF DEPTH
  <2>. QED  BY <2>1, <2>2 DEF Indirects
<1>. HIDE DEF ts
<1>5. ASSUME NEW i \in 1 .. 3 - n
      PROVE  /\ f(i) \in Task /\ f(i).op = "cells" /\ f(i).depth = n + i - 1
             /\ EndsAt(m, f(i), s)
  <2>. PICK t : t = f(i)
    OBVIOUS
  <2>. PICK d \in 1 .. 2 : d = n + i - 1
    BY <1>1
  <2>1. t = [op |-> "cells", at |-> Inode, from |-> DIRECT + d - 1, to |-> DIRECT + d, depth |-> d]
    <3>1. DIRECT + n + i - 2 = DIRECT + d - 1 /\ DIRECT + n + i - 1 = DIRECT + d
      BY <1>1, <1>2
    <3>. QED  BY <3>1 DEF Cells
  <2>2. t \in Task
    BY <2>1, <1>2, BlockFacts DEF Task
  <2>3. \A o \in t.from .. t.to - 1 : LevelOf(<<>>, Inode, o) = t.depth
    BY <2>1, <1>2 DEF LevelOf
  <2>4. t.from > Path(s)[1]
    BY <2>1, <1>1, <1>2, <1>3
  <2>5. EndsAt(m, t, s)
    BY <2>1, <2>3, <2>4, <1>2 DEF EndsAt, DEPTH
  <2>. QED  BY <2>1, <2>2, <2>5
<1>. HIDE DEF f
<1>6. ts \in Seq(Task) /\ DOMAIN ts = 1 .. 3 - n
  BY <1>1, <1>4, <1>5
<1>7. TasksOk(m, ts, s)
  <2>1. ASSUME NEW i \in DOMAIN ts, NEW j \in DOMAIN ts, i < j PROVE Before(ts[i], ts[j])
    <3>1. /\ ts[i].op = "cells" /\ ts[j].op = "cells"
          /\ ts[i].depth = n + i - 1 /\ ts[j].depth = n + j - 1
      BY <1>4, <1>5, <1>6
    <3>2. i \in Int /\ j \in Int
      BY <1>6
    <3>. QED  BY <1>1, <2>1, <3>1, <3>2 DEF Before
  <2>2. ASSUME NEW i \in DOMAIN ts PROVE ts[i].op = "cells" /\ EndsAt(m, ts[i], s)
    BY <1>4, <1>5, <1>6
  <2>. QED  BY <2>1, <2>2 DEF TasksOk
<1>8. \A i \in 1 .. 3 - n : ts[i] = f(i)
  BY <1>4
<1>. QED  BY <1>6, <1>7, <1>8 DEF ts, f

(* The begin of a truncate, from whatever p did before.                    *)
LEMMA CallTruncateInv ==
  ASSUME IInv, NEW p \in Process, NEW s \in 0 .. NSectors, CallTruncate(p, s),
         call[p].pc \in {"idle", "done"}, mutex \in {Nobody, p},
         \A q \in Process : q # p /\ call[q].kind = "writepage" => call[q].sector < s
  PROVE  IInv'
<1>. DEFINE n == IF s = NSectors THEN 0 ELSE Len(Path(s))
            pc == CASE n = 0 -> "done" [] n = 1 -> "free" [] OTHER -> "branch"
            c == [pc |-> pc, kind |-> "truncate", sector |-> s, result |-> NoBlock]
            ts == IF n = 1 THEN <<Cells(Inode, s, DIRECT, 0)>> \o Indirects(0) ELSE <<>>
<1>1. /\ size' = s /\ mutex' = p
      /\ call' = [call EXCEPT ![p] = c] /\ chain' = [chain EXCEPT ![p] = <<>>]
      /\ tasks' = [tasks EXCEPT ![p] = ts]
      /\ UNCHANGED <<zmap, mem, branch, unread>>
  BY Zenon DEF CallTruncate, Begin
<1>2. Types /\ CallInv(p) /\ Apart
  BY DEF IInv
<1>3. /\ call'[p] = c /\ chain'[p] = <<>> /\ tasks'[p] = ts
      /\ \A q \in Process : q # p =>
           call'[q] = call[q] /\ chain'[q] = chain[q] /\ tasks'[q] = tasks[q]
  BY <1>1, <1>2 DEF Types
<1>4. \/ s = NSectors /\ n = 0 /\ pc = "done"
      \/ s \in Sectors /\ n = 1 /\ n = Len(Path(s)) /\ pc = "free"
      \/ s \in Sectors /\ n \in 2 .. 3 /\ n = Len(Path(s)) /\ pc = "branch"
  <2>1. CASE s = NSectors
    BY <2>1
  <2>2. CASE s # NSectors
    <3>1. s \in Sectors
      BY <2>2, Constants DEF Sectors
    <3>2. n \in 1 .. 3 /\ n = Len(Path(s))
      BY <2>2, <3>1, PathLen
    <3>3. (n = 1 => pc = "free") /\ (n \in 2 .. 3 => pc = "branch")
      OBVIOUS
    <3>. HIDE DEF n, pc
    <3>4. n = 1 \/ n \in 2 .. 3
      BY <3>2
    <3>. QED  BY <3>1, <3>2, <3>3, <3>4
  <2>. QED  BY <2>1, <2>2
<1>. HIDE DEF n, pc
<1>5. s \in Sectors => s < NSectors
  BY Constants DEF Sectors
<1>6. /\ ts \in Seq(Task) /\ Cellular(ts) /\ (pc = "free" => TasksOk(mem, ts, s))
      /\ (pc # "free" => ts = <<>>)
  <2>1. CASE n # 1
    BY <2>1, <1>4 DEF Cellular
  <2>2. CASE n = 1
    <3>1. s \in Sectors /\ Len(Path(s)) = 1 /\ pc = "free"
      BY <2>2, <1>4
    <3>2. s = Path(s)[1] /\ s < DIRECT /\ s \in Nat
      <4>1. IsPath(Path(s), s)
        BY <3>1, PathShape
      <4>. QED  BY <3>1, <4>1, Constants DEF IsPath
    <3>. PICK t : t = Cells(Inode, s, DIRECT, 0)
      OBVIOUS
    <3>3. t = [op |-> "cells", at |-> Inode, from |-> s, to |-> DIRECT, depth |-> 0]
      BY DEF Cells
    <3>4. t \in Task
      BY <3>2, <3>3, Constants, BlockFacts DEF Task
    <3>5. EndsAt(mem, t, s)
      BY <3>1, <3>2, <3>3, Constants DEF EndsAt, LevelOf, DEPTH
    <3>6. <<t>> \in Seq(Task) /\ TasksOk(mem, <<t>>, s) /\ DOMAIN <<t>> = {1} /\ <<t>>[1] = t
      BY <3>3, <3>4, <3>5, SingleTask
    <3>. PICK u : u = Indirects(0)
      OBVIOUS
    <3>7. /\ u \in Seq(Task) /\ TasksOk(mem, u, s) /\ DOMAIN u = 1 .. 2
          /\ \A i \in 1 .. 2 : u[i] = Cells(Inode, DIRECT + 1 + i - 2, DIRECT + 1 + i - 1, 1 + i - 1)
      <4>1. 1 - 1 = 0 /\ 3 - 1 = 2
        OBVIOUS
      <4>. QED  BY <3>1, <4>1, IndirectsOk
    <3>8. \A j \in 1 .. 2 : u[j].op = "cells" /\ u[j].depth > 0
      BY <3>7 DEF Cells
    <3>9. \A i \in DOMAIN <<t>>, j \in DOMAIN u : Before(<<t>>[i], u[j])
      BY <3>3, <3>6, <3>7, <3>8 DEF Before
    <3>10. ts = <<t>> \o u
      BY <2>2
    <3>11. ts \in Seq(Task) /\ TasksOk(mem, ts, s)
      BY <3>6, <3>7, <3>9, <3>10, ConcatTasks
    <3>. PICK v : v = ts
      OBVIOUS
    <3>13. v = <<t>> \o u /\ v \in Seq(Task)
      BY <3>10, <3>11
    <3>. HIDE DEF ts
    <3>12. Cellular(v)
      <4>1. Len(v) = 3 /\ DOMAIN v = 1 .. 3
        BY <3>6, <3>7, <3>13, ConcatProperties, LenProperties
      <4>2. \A i \in 1 .. 3 : v[i] = IF i <= 1 THEN t ELSE u[i - 1]
        BY <3>6, <3>7, <3>13, <4>1, ConcatProperties, LenProperties
      <4>3. \A i \in 1 .. 3 : v[i].op = "cells"
        <5>. SUFFICES ASSUME NEW i \in 1 .. 3 PROVE v[i].op = "cells"
          OBVIOUS
        <5>1. CASE i <= 1
          <6>1. v[i] = t
            BY <4>2, <5>1
          <6>. QED  BY <3>3, <6>1
        <5>2. CASE ~ (i <= 1)
          <6>1. v[i] = u[i - 1] /\ i - 1 \in 1 .. 2
            BY <4>2, <5>2
          <6>. QED  BY <3>8, <6>1
        <5>. QED  BY <5>1, <5>2
      <4>. QED  BY <4>1, <4>3 DEF Cellular
    <3>. QED  BY <3>1, <3>11, <3>12
  <2>. QED  BY <2>1, <2>2
<1>. HIDE DEF ts
<1>7. Types'
  <2>1. c \in [pc : Label, kind : {"none", "write", "writepage", "bmap", "truncate"},
               sector : 0 .. NSectors, result : Block \cup {NoBlock, EIO, ENOSPC}]
    BY <1>4 DEF Label
  <2>2. <<>> \in Seq([at : Container \X Nat, key : Block \cup {NoBlock}])
    OBVIOUS
  <2>. QED  BY <1>1, <1>2, <1>6, <2>1, <2>2 DEF Types
<1>8. branch[p] = <<>>
  BY <1>2 DEF CallInv, Discipline
<1>9. CallInv(p)'
  <2>1. Discipline(p)'
    BY <1>1, <1>3, <1>4, <1>5, <1>8 DEF Discipline, Creates
  <2>2. ChainInv(p)'
    <3>1. CASE pc = "branch"
      <4>1. s \in Sectors
        BY <3>1, <1>4
      <4>2. Depth(p)' \in 1 .. Len(Path(s)) /\ Len(Path(s)) \in 1 .. 3
        BY <1>3, <4>1, DepthIs, DepthShape, PathLen
      <4>3. ChainOf(<<>>, Path(s))
        BY <4>2 DEF ChainOf
      <4>. QED  BY <1>3, <4>2, <4>3, <3>1 DEF ChainInv
    <3>2. CASE pc # "branch"
      BY <1>3, <1>4, <3>2 DEF ChainInv
    <3>. QED  BY <3>1, <3>2
  <2>3. BranchInv(p)'
    BY <1>1, <1>3, <1>4, <1>8 DEF BranchInv
  <2>4. TasksInv(p)'
    BY <1>1, <1>3, <1>6 DEF TasksInv
  <2>. QED  BY <2>1, <2>2, <2>3, <2>4 DEF CallInv
<1>10. PICK own : Forest(own)
  BY DEF IInv
<1>11. ASSUME NEW q \in Process, q # p PROVE CallInv(q)'
  <2>1. mutex # q /\ mutex' # q
    BY <1>1, <1>11, BlockFacts
  <2>2. call'[q] = call[q] /\ chain'[q] = chain[q] /\ branch'[q] = branch[q] /\ tasks'[q] = tasks[q]
    BY <1>1, <1>3, <1>11
  <2>3. call[q].kind = "writepage" => call[q].sector < size'
    BY <1>1, <1>11
  <2>4. mem' = mem
    BY <1>1
  <2>5. CallInv(q) /\ Types /\ Links(own, mem)
    BY <1>10 DEF IInv, Forest
  <2>. QED  BY <2>1, <2>2, <2>3, <2>4, <2>5, OthersKeep
<1>12. Forest(own)'
  <2>1. call[p].pc # "free"
    OBVIOUS
  <2>. QED  BY <1>1, <1>3, <1>6, <1>10, <2>1, ForestQuiet
<1>13. Apart'
  BY <1>1, <1>2, ApartQuiet
<1>. QED  BY <1>7, <1>9, <1>11, <1>12, <1>13 DEF IInv

LEMMA TruncateInv ==
  ASSUME IInv, NEW p \in Process,
         NEW s \in {0} \cup Sector \cup {t + 1 : t \in Sector}, Truncate(p, s)
  PROVE  IInv'
<1>1. s \in 0 .. NSectors
  <2>1. \A t \in Sector : t \in Nat /\ t < NSectors
    BY Constants DEF Sectors
  <2>. QED  BY <2>1, Constants
<1>2. /\ call[p].pc = "idle" /\ mutex = Nobody /\ CallTruncate(p, s)
      /\ \A q \in Process : Creates(q) => call[q].sector < s
  BY DEF Truncate
<1>3. \A q \in Process : call[q].kind = "writepage" => call[q].sector < s
  BY <1>2, CreatesIs
<1>. QED  BY <1>1, <1>2, <1>3, CallTruncateInv

LEMMA TakeBackInv ==
  ASSUME IInv, NEW p \in Process, TakeBack(p)
  PROVE  IInv'
<1>1. call[p].pc = "done" /\ call[p].kind = "write" /\ CallTruncate(p, size)
  BY DEF TakeBack
<1>2. size \in 0 .. NSectors
  BY DEF IInv, Types
<1>3. mutex = p
  BY <1>1 DEF IInv, CallInv, Discipline
<1>4. \A q \in Process : call[q].kind = "writepage" => call[q].sector < size
  BY DEF IInv, CallInv, Discipline
<1>. QED  BY <1>1, <1>2, <1>3, <1>4, CallTruncateInv

LEMMA ReturnInv ==
  ASSUME IInv, NEW p \in Process, Return(p)
  PROVE  IInv'
<1>. DEFINE longer == call[p].kind = "write" /\ call[p].sector >= size
<1>1. /\ call[p].pc = "done"
      /\ size' = IF longer THEN call[p].sector + 1 ELSE size
      /\ call' = [call EXCEPT ![p] = Idle] /\ chain' = [chain EXCEPT ![p] = <<>>]
      /\ mutex' = IF mutex = p THEN Nobody ELSE mutex
      /\ UNCHANGED <<zmap, mem, branch, tasks, unread>>
  BY Zenon DEF Return
<1>2. Types /\ CallInv(p) /\ Apart
  BY DEF IInv
<1>3. /\ call'[p] = Idle /\ chain'[p] = <<>>
      /\ \A q \in Process : q # p => call'[q] = call[q] /\ chain'[q] = chain[q]
  BY <1>1, <1>2 DEF Types
<1>4. size' \in 0 .. NSectors /\ size' >= size /\ (mutex # p => size' = size)
  <2>1. longer => mutex = p /\ call[p].sector < NSectors
    BY <1>2 DEF CallInv, Discipline, Creates
  <2>2. call[p].sector \in Nat /\ size \in Nat /\ size <= NSectors
    BY <1>2, TypesOf, Constants
  <2>. QED  BY <1>1, <2>1, <2>2, Constants
<1>5. Types'
  <2>1. Idle \in [pc : Label, kind : {"none", "write", "writepage", "bmap", "truncate"},
               sector : 0 .. NSectors, result : Block \cup {NoBlock, EIO, ENOSPC}]
    BY Constants DEF Label, Idle
  <2>2. <<>> \in Seq([at : Container \X Nat, key : Block \cup {NoBlock}])
    OBVIOUS
  <2>. QED  BY <1>1, <1>2, <1>4, <2>1, <2>2 DEF Types
<1>6. mutex' # p /\ branch[p] = <<>>
  BY <1>1, <1>2, BlockFacts DEF CallInv, Discipline
<1>7. CallInv(p)'
  <2>1. Discipline(p)'
    BY <1>1, <1>3, <1>6 DEF Discipline, Creates, Idle
  <2>2. ChainInv(p)' /\ BranchInv(p)' /\ TasksInv(p)'
    BY <1>1, <1>3, <1>6 DEF ChainInv, BranchInv, TasksInv, Idle
  <2>. QED  BY <2>1, <2>2 DEF CallInv
<1>8. PICK own : Forest(own)
  BY DEF IInv
<1>9. ASSUME NEW q \in Process, q # p PROVE CallInv(q)'
  <2>1. (mutex' = q <=> mutex = q) /\ (mutex = q => size' = size)
    BY <1>1, <1>4, <1>9, BlockFacts
  <2>2. call'[q] = call[q] /\ chain'[q] = chain[q] /\ branch'[q] = branch[q] /\ tasks'[q] = tasks[q]
    BY <1>1, <1>3, <1>9
  <2>3. call[q].kind = "writepage" => call[q].sector < size'
    <3>1. call[q].kind = "writepage" => call[q].sector < size
      BY DEF IInv, CallInv, Discipline
    <3>. QED  BY <3>1, <1>2, <1>4, TypesOf, Constants
  <2>4. Keeps(own, mem, mem') /\ mem' = mem
    BY <1>1 DEF Keeps
  <2>5. CallInv(q) /\ Types /\ Links(own, mem)
    BY <1>8 DEF IInv, Forest
  <2>. QED  BY <2>1, <2>2, <2>3, <2>4, <2>5, OthersKeep
<1>10. Forest(own)'
  <2>1. call[p].pc # "free" /\ call'[p].pc # "free"
    BY <1>1, <1>3 DEF Idle
  <2>. QED  BY <1>1, <1>3, <1>8, <2>1, ForestQuiet
<1>11. Apart'
  BY <1>1, <1>2, ApartQuiet
<1>. QED  BY <1>5, <1>7, <1>9, <1>10, <1>11 DEF IInv

-----------------------------------------------------------------------------
(* get_branch()                                                            *)

CallType == [pc : Label, kind : {"none", "write", "writepage", "bmap", "truncate"},
             sector : 0 .. NSectors, result : Block \cup {NoBlock, EIO, ENOSPC}]

LEMMA Moves ==
  ASSUME Types, NEW p \in Process, NEW pc \in Label,
         NEW r \in Block \cup {NoBlock, EIO, ENOSPC},
         \/ Go(p, pc) /\ r = call[p].result
         \/ call' = [call EXCEPT ![p].pc = pc, ![p].result = r]
  PROVE  /\ call' \in [Process -> CallType]
         /\ call'[p].pc = pc /\ call'[p].kind = call[p].kind
         /\ call'[p].sector = call[p].sector /\ call'[p].result = r
         /\ \A q \in Process : q # p => call'[q] = call[q]
<1>1. call \in [Process -> CallType]
  BY DEF Types, CallType
<1>2. CASE Go(p, pc) /\ r = call[p].result
  <2>1. call' = [call EXCEPT ![p] = [call[p] EXCEPT !.pc = pc]]
    BY <1>1, <1>2 DEF Go
  <2>2. [call[p] EXCEPT !.pc = pc] \in CallType
    BY <1>1 DEF CallType
  <2>. QED  BY <1>1, <1>2, <2>1, <2>2 DEF CallType
<1>3. CASE call' = [call EXCEPT ![p].pc = pc, ![p].result = r]
  <2>1. call' = [call EXCEPT ![p] = [call[p] EXCEPT !.pc = pc, !.result = r]]
    BY <1>1, <1>3
  <2>2. [call[p] EXCEPT !.pc = pc, !.result = r] \in CallType
    BY <1>1 DEF CallType
  <2>. QED  BY <1>1, <1>3, <2>1, <2>2 DEF CallType
<1>. QED  BY <1>2, <1>3

(* What is left when a step only moves p within get_block().               *)
LEMMA QuietInv ==
  ASSUME IInv, NEW p \in Process, call' \in [Process -> CallType],
         \A q \in Process : q # p => call'[q] = call[q],
         chain' \in [Process -> ChainType],
         \A q \in Process : q # p => chain'[q] = chain[q],
         UNCHANGED <<zmap, mem, size, mutex, branch, tasks, unread>>,
         call[p].pc # "free" \/ tasks[p] = <<>>, call'[p].pc # "free",
         Discipline(p)', ChainInv(p)', BranchInv(p)'
  PROVE  IInv'
<1>1. Types /\ Apart
  BY DEF IInv
<1>2. Types'
  BY <1>1 DEF Types, CallType, ChainType
<1>3. CallInv(p)'
  BY DEF CallInv, TasksInv
<1>4. PICK own : Forest(own)
  BY DEF IInv
<1>5. ASSUME NEW q \in Process, q # p PROVE CallInv(q)'
  <2>1. call'[q] = call[q] /\ chain'[q] = chain[q] /\ branch'[q] = branch[q] /\ tasks'[q] = tasks[q]
    BY <1>5
  <2>2. call[q].kind = "writepage" => call[q].sector < size'
    BY DEF IInv, CallInv, Discipline
  <2>3. size' = size /\ Keeps(own, mem, mem') /\ mem' = mem /\ mutex' = mutex
    BY DEF Keeps
  <2>4. CallInv(q) /\ Types /\ Links(own, mem)
    BY <1>4 DEF IInv, Forest
  <2>. QED  BY <2>1, <2>2, <2>3, <2>4, OthersKeep
<1>6. Forest(own)'
  <2>1. call[p].pc = "free" => Cellular(tasks[p])
    BY DEF Cellular
  <2>. QED  BY <1>4, <2>1, ForestQuiet
<1>7. Apart'
  BY <1>1, ApartQuiet
<1>. QED  BY <1>2, <1>3, <1>5, <1>6, <1>7 DEF IInv

(* The chain ch that a step of p in get_branch() has read.                 *)
ChainRead(p, ch) ==
  /\ ch \in ChainType /\ ch # <<>> /\ ChainOf(ch, Path(call[p].sector))
  /\ Len(ch) <= Depth(p)
  /\ call[p].kind = "truncate" =>
       \A i \in DOMAIN ch : ch[i].key # NoBlock => At(ch[i].at) = ch[i].key

LEMMA AnswerInv ==
  ASSUME IInv, NEW p \in Process, call[p].pc = "branch", NEW ch, ChainRead(p, ch),
         NEW err \in {0, EIO, EAGAIN}, Answer(p, ch, err)
  PROVE  IInv'
<1>1. Types /\ CallInv(p)
  BY DEF IInv
<1>2. /\ ch \in ChainType /\ Len(ch) \in Nat /\ Len(ch) > 0 /\ DOMAIN ch = 1 .. Len(ch)
      /\ Last(ch) = ch[Len(ch)] /\ ch[Len(ch)].key \in Block \cup {NoBlock}
  <2>1. ch \in Seq([at : Container \X Nat, key : Block \cup {NoBlock}]) /\ ch # <<>>
    BY DEF ChainRead, ChainType
  <2>2. Len(ch) \in Nat /\ Len(ch) > 0 /\ DOMAIN ch = 1 .. Len(ch)
    BY <2>1, EmptySeq, LenProperties
  <2>3. Len(ch) \in 1 .. Len(ch)
    BY <2>2
  <2>4. ch[Len(ch)] \in [at : Container \X Nat, key : Block \cup {NoBlock}]
    BY <2>1, <2>3, ElementOfSeq
  <2>5. Last(ch) = ch[Len(ch)]
    BY DEF Last
  <2>6. ch[Len(ch)].key \in Block \cup {NoBlock}
    BY <2>4
  <2>. QED  BY <2>1, <2>2, <2>5, <2>6 DEF ChainType
<1>3. /\ chain' = [chain EXCEPT ![p] = IF call'[p].pc \in {"shared", "alloc"} THEN ch ELSE <<>>]
      /\ UNCHANGED <<zmap, mem, size, mutex, branch, tasks, unread>>
  BY DEF Answer
<1>4. chain' \in [Process -> ChainType] /\ \A q \in Process : q # p => chain'[q] = chain[q]
  <2>1. PICK x : x = IF call'[p].pc \in {"shared", "alloc"} THEN ch ELSE <<>>
    OBVIOUS
  <2>2. <<>> \in ChainType
    BY DEF ChainType
  <2>3. x \in ChainType /\ chain' = [chain EXCEPT ![p] = x]
    BY <1>2, <1>3, <2>1, <2>2
  <2>4. chain \in [Process -> ChainType]
    BY <1>1 DEF Types, ChainType
  <2>. QED  BY <2>3, <2>4
<1>5. chain'[p] = IF call'[p].pc \in {"shared", "alloc"} THEN ch ELSE <<>>
  BY <1>1, <1>3 DEF Types
<1>6. /\ branch[p] = <<>> /\ call[p].sector < NSectors /\ call[p].result \in {NoBlock, ENOSPC}
      /\ call[p].kind # "none"
  BY <1>1 DEF CallInv, Discipline
<1>7. call[p] \in CallType
  BY <1>1 DEF Types, CallType
<1>8. call[p].sector \in Sectors /\ Len(Path(call[p].sector)) \in 1 .. 3
  <2>1. call[p].sector \in Sectors
    BY <1>6, <1>7, Constants DEF CallType, Sectors
  <2>. QED  BY <2>1, PathLen
<1>9. PICK pc \in {"shared", "done", "branch", "alloc"}, r \in Block \cup {NoBlock, EIO, ENOSPC} :
        /\ \/ Go(p, pc) /\ r = call[p].result
           \/ call' = [call EXCEPT ![p].pc = pc, ![p].result = r]
        /\ call[p].kind = "truncate" => pc = "shared" /\ r = call[p].result
        /\ pc = "shared" => call[p].kind = "truncate"
        /\ pc \in {"branch", "alloc"} => Creates(p) /\ r = call[p].result
        /\ pc = "alloc" => ch[Len(ch)].key = NoBlock
        /\ pc = "done" /\ Creates(p) => r # NoBlock
  <2>1. CASE call[p].kind = "truncate"
    <3>1. Go(p, "shared")
      BY <2>1 DEF Answer
    <3>2. call[p].result \in Block \cup {NoBlock, EIO, ENOSPC} /\ ~ Creates(p)
      BY <1>7, <2>1 DEF CallType, Creates
    <3>. QED  BY <2>1, <3>1, <3>2
  <2>2. CASE call[p].kind # "truncate" /\ err = EIO
    <3>1. call' = [call EXCEPT ![p].pc = "done", ![p].result = EIO]
      BY <2>2 DEF Answer, Done
    <3>2. EIO # NoBlock
      BY DEF EIO, NoBlock
    <3>. QED  BY <2>2, <3>1, <3>2
  <2>3. CASE call[p].kind # "truncate" /\ err # EIO /\ (err = 0 /\ Last(ch).key # NoBlock)
    <3>1. call' = [call EXCEPT ![p].pc = "done", ![p].result = Last(ch).key]
      BY <2>3 DEF Answer, Done
    <3>. QED  BY <2>3, <3>1, <1>2
  <2>4. CASE call[p].kind # "truncate" /\ err # EIO /\ ~ (err = 0 /\ Last(ch).key # NoBlock) /\ ~ Creates(p)
    <3>1. call' = [call EXCEPT ![p].pc = "done", ![p].result = NoBlock]
      BY <2>4 DEF Answer, Done
    <3>. QED  BY <2>4, <3>1
  <2>5. CASE call[p].kind # "truncate" /\ err # EIO /\ ~ (err = 0 /\ Last(ch).key # NoBlock) /\ Creates(p)
    <3>1. Go(p, IF err = EAGAIN THEN "branch" ELSE "alloc")
      BY <2>5 DEF Answer
    <3>2. err # EAGAIN => ch[Len(ch)].key = NoBlock
      BY <2>5, <1>2
    <3>3. call[p].result \in Block \cup {NoBlock, EIO, ENOSPC}
      BY <1>7 DEF CallType
    <3>4. CASE err = EAGAIN
      BY <2>5, <3>1, <3>3, <3>4
    <3>5. CASE err # EAGAIN
      BY <2>5, <3>1, <3>2, <3>3, <3>5
    <3>. QED  BY <3>4, <3>5
  <2>. QED  BY <2>1, <2>2, <2>3, <2>4, <2>5
<1>10. /\ call' \in [Process -> CallType]
       /\ call'[p].pc = pc /\ call'[p].kind = call[p].kind
       /\ call'[p].sector = call[p].sector /\ call'[p].result = r
       /\ \A q \in Process : q # p => call'[q] = call[q]
  <2>1. pc \in Label
    BY DEF Label
  <2>. QED  BY <1>1, <1>9, <2>1, Moves
<1>11. Discipline(p)'
  <2>1. Discipline(p)
    BY <1>1 DEF CallInv
  <2>. QED  BY <1>3, <1>6, <1>9, <1>10, <2>1 DEF Discipline, Creates
<1>12. Depth(p)' = Depth(p) /\ Depth(p) \in 1 .. Len(Path(call[p].sector))
  BY <1>8, <1>10, DepthIs, DepthShape
<1>13. ChainInv(p)'
  <2>1. CASE pc = "alloc"
    BY <2>1, <1>2, <1>5, <1>10, <1>9 DEF ChainInv, ChainRead
  <2>2. CASE pc = "shared"
    <3>1. \A i \in DOMAIN ch : ch[i].key # NoBlock => At(ch[i].at)' = ch[i].key
      BY <2>2, <1>3, <1>9 DEF ChainRead, At
    <3>2. chain'[p] = ch /\ ch # <<>> /\ Len(ch) <= Depth(p)' /\ ChainOf(ch, Path(call'[p].sector))
      BY <2>2, <1>5, <1>10, <1>12 DEF ChainRead
    <3>. QED  BY <2>2, <3>1, <3>2, <1>10 DEF ChainInv
  <2>3. CASE pc = "branch"
    <3>1. chain'[p] = <<>>
      BY <2>3, <1>5, <1>10
    <3>2. ChainOf(<<>>, Path(call[p].sector)) /\ 0 <= Depth(p)
      BY <1>8, <1>12 DEF ChainOf
    <3>3. Len(<<>>) = 0 /\ DOMAIN <<>> = {}
      OBVIOUS
    <3>. QED  BY <2>3, <3>1, <3>2, <3>3, <1>10, <1>12 DEF ChainInv
  <2>4. CASE pc = "done"
    BY <2>4, <1>10 DEF ChainInv
  <2>. QED  BY <2>1, <2>2, <2>3, <2>4, <1>9
<1>14. BranchInv(p)'
  <2>1. pc = "alloc" => Left(p)' >= 0
    <3>. SUFFICES ASSUME pc = "alloc" PROVE Left(p)' >= 0
      OBVIOUS
    <3>1. Left(p)' = Len(Path(call[p].sector)) - Len(ch) + 1
      BY <1>5, <1>10 DEF Left
    <3>. QED  BY <3>1, <1>2, <1>8, <1>12 DEF ChainRead
  <2>2. branch'[p] = <<>> /\ Len(<<>>) = 0
    BY <1>3, <1>6
  <2>. QED  BY <2>1, <2>2, <1>10 DEF BranchInv
<1>15. call'[p].pc # "free"
  BY <1>10, <1>9
<1>. QED  BY <1>3, <1>4, <1>10, <1>11, <1>13, <1>14, <1>15, QuietInv

LEMMA ExtendedInv ==
  ASSUME IInv, NEW p \in Process, call[p].pc = "branch", NEW ch, ChainRead(p, ch), Extended(p, ch)
  PROVE  IInv'
<1>1. CASE Last(ch).key = NoBlock \/ Len(ch) = Depth(p)
  <2>1. Answer(p, ch, 0)
    BY <1>1 DEF Extended
  <2>. QED  BY <2>1, AnswerInv
<1>2. CASE ~ (Last(ch).key = NoBlock \/ Len(ch) = Depth(p))
  <2>1. chain' = [chain EXCEPT ![p] = ch] /\ UNCHANGED <<zmap, mem, size, mutex, call, branch, tasks, unread>>
    BY <1>2 DEF Extended
  <2>2. Types /\ CallInv(p)
    BY DEF IInv
  <2>3. ch \in ChainType /\ ch # <<>> /\ ChainOf(ch, Path(call[p].sector)) /\ Len(ch) <= Depth(p)
    BY DEF ChainRead
  <2>4. Len(ch) \in Nat /\ Len(ch) > 0 /\ DOMAIN ch = 1 .. Len(ch) /\ Last(ch) = ch[Len(ch)]
    BY <2>3, EmptySeq, LenProperties DEF ChainType, Last
  <2>5. chain' \in [Process -> ChainType] /\ chain'[p] = ch /\ \A q \in Process : q # p => chain'[q] = chain[q]
    BY <2>1, <2>2, <2>3 DEF Types, ChainType
  <2>6. Discipline(p)' /\ BranchInv(p)'
    <3>1. Discipline(p) /\ BranchInv(p)
      BY <2>2 DEF CallInv
    <3>2. Discipline(p)'
      BY <2>1, <3>1 DEF Discipline, Creates
    <3>3. BranchInv(p)'
      BY <2>1, <3>1 DEF BranchInv
    <3>. QED  BY <3>2, <3>3
  <2>7. Depth(p)' = Depth(p) /\ Depth(p) \in Nat
    <3>1. call[p].sector \in Sectors
      BY <2>2, TypesOf, Constants DEF CallInv, Discipline, Sectors
    <3>2. Depth(p) \in 1 .. Len(Path(call[p].sector)) /\ Len(Path(call[p].sector)) \in Nat
      BY <3>1, DepthIs, DepthShape, PathLen
    <3>. QED  BY <2>1, <3>2, DepthIs
  <2>8. ChainInv(p)'
    <3>1. call[p].kind = "truncate" =>
            \A i \in DOMAIN ch : ch[i].key # NoBlock => At(ch[i].at)' = ch[i].key
      BY <2>1 DEF ChainRead, At
    <3>2. Len(ch) < Depth(p) /\ ch[Len(ch)].key # NoBlock
      BY <1>2, <2>3, <2>4, <2>7
    <3>. QED  BY <2>1, <2>3, <2>5, <2>7, <3>1, <3>2 DEF ChainInv
  <2>9. call' \in [Process -> CallType]
    BY <2>1, <2>2 DEF Types, CallType
  <2>. QED  BY <2>1, <2>5, <2>6, <2>8, <2>9, QuietInv
<1>. QED  BY <1>1, <1>2

LEMMA FirstChain ==
  ASSUME IInv, NEW p \in Process, FirstLevel(p)
  PROVE  \E ch : /\ call[p].pc = "branch" /\ Extended(p, ch) /\ ChainRead(p, ch)
                 /\ Holding(mem, ch, Len(ch))
<1>. DEFINE t == call[p].sector
            a == <<Inode, Path(t)[1]>>
<1>1. call[p].pc = "branch" /\ Extended(p, <<Indirect(a)>>)
  BY DEF FirstLevel
<1>2. t \in Sectors
  BY <1>1, TypesOf, Constants DEF IInv, CallInv, Discipline, Sectors
<1>3. PICK own : Links(own, mem)
  BY DEF IInv, Forest
<1>4. PICK x : x = Indirect(a)
  OBVIOUS
<1>5. Path(t)[1] \in Pointer(Inode) /\ Path(t)[1] \in Nat /\ Len(Path(t)) \in 1 .. 3
  <2>1. 1 \in 1 .. Len(Path(t))
    BY <1>2, PathLen
  <2>. QED  BY <1>2, <2>1, PathFacts
<1>6. x.at = a /\ x.key = mem[Inode][Path(t)[1]] /\ x = [at |-> x.at, key |-> x.key]
  BY <1>4 DEF Indirect, At
<1>7. x.key \in Block \cup {NoBlock} /\ x.at \in Container \X Nat
  BY <1>3, <1>5, <1>6, BlockFacts DEF Links
<1>8. <<x>> \in ChainType /\ <<x>> # <<>> /\ Len(<<x>>) = 1 /\ DOMAIN <<x>> = {1} /\ <<x>>[1] = x
  <2>1. x \in [at : Container \X Nat, key : Block \cup {NoBlock}]
    BY <1>6, <1>7
  <2>. QED  BY <2>1 DEF ChainType
<1>9. ChainOf(<<x>>, Path(t))
  BY <1>5, <1>6, <1>8 DEF ChainOf
<1>10. 1 <= Depth(p)
  BY <1>2, <1>5, DepthIs, DepthShape
<1>11. At(x.at) = x.key
  BY <1>6 DEF At
<1>12. ChainRead(p, <<x>>)
  BY <1>8, <1>9, <1>10, <1>11 DEF ChainRead
<1>13. Holding(mem, <<x>>, Len(<<x>>))
  BY <1>6, <1>8 DEF Holding
<1>. QED  BY <1>1, <1>4, <1>12, <1>13

LEMMA FirstLevelInv ==
  ASSUME IInv, NEW p \in Process, FirstLevel(p)
  PROVE  IInv'
BY FirstChain, ExtendedInv

(* The chain of get_branch() one level further.                            *)
NextIndirect(m, path, ch) ==
  [at |-> <<ch[Len(ch)].key, path[Len(ch) + 1]>>,
   key |-> m[ch[Len(ch)].key][path[Len(ch) + 1]]]

LEMMA Appended ==
  ASSUME NEW own, NEW m, Links(own, m), NEW t \in Sectors, NEW ch \in ChainType,
         ChainOf(ch, Path(t)), ch # <<>>, Len(ch) < Len(Path(t)), ch[Len(ch)].key # NoBlock,
         Holding(m, ch, Len(ch)),
         NEW w, w = Append(ch, NextIndirect(m, Path(t), ch))
  PROVE  /\ w \in ChainType /\ w # <<>>
         /\ ChainOf(w, Path(t)) /\ Len(w) = Len(ch) + 1
         /\ Holding(m, w, Len(ch) + 1)
<1>. PICK x : x = NextIndirect(m, Path(t), ch)
  OBVIOUS
<1>. PICK a : a = <<ch[Len(ch)].key, Path(t)[Len(ch) + 1]>>
  OBVIOUS
<1>0. x = [at |-> a, key |-> m[a[1]][a[2]]]
  BY DEF NextIndirect
<1>1. /\ Len(ch) \in Nat /\ Len(ch) > 0 /\ DOMAIN ch = 1 .. Len(ch)
      /\ ch \in Seq([at : Container \X Nat, key : Block \cup {NoBlock}])
  BY EmptySeq, LenProperties DEF ChainType
<1>. PICK n \in Nat : n = Len(ch)
  BY <1>1
<1>2. Len(Path(t)) \in 1 .. 3
  BY PathLen
<1>3. ch[n].key = Walk(m, t, n)
  <2>1. n \in 0 .. Len(ch) /\ n \in 1 .. n
    BY <1>1
  <2>. QED  BY <2>1, <1>1, ChainWalk
<1>4. n + 1 \in 1 .. Len(Path(t)) /\ (n + 1) - 1 = n /\ n + 1 \in 2 .. Len(Path(t))
  BY <1>1, <1>2
<1>5. OnWalk(own, m, t, n + 1)
  BY <1>3, <1>4, WalkOn
<1>6. /\ a = <<Walk(m, t, n), Path(t)[n + 1]>>
      /\ Walk(m, t, n) \in Container /\ Path(t)[n + 1] \in Pointer(Walk(m, t, n))
      /\ Path(t)[n + 1] \in Nat
  <2>1. Path(t)[n + 1] \in Nat
    BY <1>4, PathFacts
  <2>. QED  BY <1>3, <1>4, <1>5, <2>1 DEF OnWalk
<1>7. x \in [at : Container \X Nat, key : Block \cup {NoBlock}] /\ x.at = a /\ x.key = m[a[1]][a[2]]
  <2>1. m[a[1]][a[2]] \in Block \cup {NoBlock}
    BY <1>6 DEF Links
  <2>. QED  BY <2>1, <1>0, <1>6
<1>8. /\ w \in Seq([at : Container \X Nat, key : Block \cup {NoBlock}]) /\ Len(w) = n + 1
      /\ \A i \in 1 .. n : w[i] = ch[i]
      /\ w[n + 1] = x
  BY <1>1, <1>7, AppendProperties
<1>9. DOMAIN w = 1 .. n + 1 /\ w # <<>>
  BY <1>8, LenProperties
<1>10. ASSUME NEW i \in 1 .. n + 1
       PROVE  /\ w[i].at = <<IF i = 1 THEN Inode ELSE w[i - 1].key, Path(t)[i]>>
              /\ i < n + 1 => w[i].key # NoBlock
              /\ m[w[i].at[1]][w[i].at[2]] = w[i].key
  <2>1. CASE i \in 1 .. n
    <3>1. w[i] = ch[i]
      BY <1>8, <2>1
    <3>2. ch[i].at = <<IF i = 1 THEN Inode ELSE ch[i - 1].key, Path(t)[i]>>
      BY <1>1, <2>1 DEF ChainOf
    <3>3. i # 1 => w[i - 1] = ch[i - 1]
      BY <1>8, <2>1
    <3>4. ch[i].key # NoBlock
      <4>1. i < n => ch[i].key # NoBlock
        BY <1>1, <2>1 DEF ChainOf
      <4>. QED  BY <4>1, <2>1
    <3>5. m[ch[i].at[1]][ch[i].at[2]] = ch[i].key
      BY <2>1 DEF Holding
    <3>. QED  BY <3>1, <3>2, <3>3, <3>4, <3>5
  <2>2. CASE i = n + 1
    <3>1. w[i] = x /\ w[i - 1] = ch[n] /\ i # 1
      BY <1>1, <1>8, <2>2
    <3>. QED  BY <3>1, <2>2, <1>7, <1>8
  <2>. QED  BY <2>1, <2>2
<1>11. ChainOf(w, Path(t))
  BY <1>4, <1>8, <1>9, <1>10 DEF ChainOf
<1>12. Holding(m, w, n + 1)
  BY <1>10 DEF Holding
<1>. QED  BY <1>8, <1>9, <1>11, <1>12 DEF ChainType

(* In get_branch() behind the first level.                                 *)
LEMMA InBranch ==
  ASSUME IInv, NEW p \in Process, call[p].pc = "branch", chain[p] # <<>>
  PROVE  /\ call[p].sector \in Sectors /\ ChainRead(p, chain[p])
         /\ Len(chain[p]) < Depth(p) /\ Depth(p) \in 1 .. Len(Path(call[p].sector))
         /\ Last(chain[p]) = chain[p][Len(chain[p])]
         /\ chain[p][Len(chain[p])].key # NoBlock
<1>1. Types /\ CallInv(p)
  BY DEF IInv
<1>2. call[p].sector \in Sectors
  BY <1>1, TypesOf, Constants DEF CallInv, Discipline, Sectors
<1>3. ChainRead(p, chain[p])
  BY <1>1, TypesOf DEF CallInv, ChainInv, ChainRead
<1>4. Depth(p) \in 1 .. Len(Path(call[p].sector))
  BY <1>2, DepthIs, DepthShape
<1>5. Len(chain[p]) < Depth(p) /\ chain[p][Len(chain[p])].key # NoBlock
  BY <1>1 DEF CallInv, ChainInv
<1>6. Last(chain[p]) = chain[p][Len(chain[p])]
  BY DEF Last
<1>. QED  BY <1>2, <1>3, <1>4, <1>5, <1>6

LEMMA NextChain ==
  ASSUME IInv, NEW p \in Process, NextLevel(p), Verified(chain[p])
  PROVE  \E ch : /\ call[p].pc = "branch" /\ Extended(p, ch) /\ ChainRead(p, ch)
                 /\ Holding(mem, ch, Len(ch))
<1>. DEFINE t == call[p].sector
            a == <<Last(chain[p]).key, Path(t)[Len(chain[p]) + 1]>>
<1>a. /\ call[p].pc = "branch" /\ chain[p] # <<>>
      /\ IF Verified(chain[p]) THEN Extended(p, Append(chain[p], Indirect(a)))
         ELSE Answer(p, chain[p], EAGAIN)
  BY Zenon DEF NextLevel
<1>b. /\ t \in Sectors /\ ChainRead(p, chain[p])
      /\ Len(chain[p]) < Depth(p) /\ Depth(p) \in 1 .. Len(Path(t))
      /\ Last(chain[p]) = chain[p][Len(chain[p])]
      /\ chain[p][Len(chain[p])].key # NoBlock
  BY <1>a, InBranch
<1>. PICK ch : ch = chain[p]
  OBVIOUS
<1>. PICK x : x = Indirect(a)
  OBVIOUS
<1>0. Extended(p, Append(ch, x))
  BY <1>a
<1>1. PICK own : Links(own, mem)
  BY DEF IInv, Forest
<1>2. ch \in ChainType /\ ChainOf(ch, Path(t)) /\ ch # <<>> /\ ch[Len(ch)].key # NoBlock
  BY <1>b DEF ChainRead
<1>3. Len(ch) < Len(Path(t)) /\ Len(ch) \in Nat /\ DOMAIN ch = 1 .. Len(ch) /\ Len(ch) + 1 <= Depth(p)
  <2>1. Len(ch) \in Nat /\ DOMAIN ch = 1 .. Len(ch)
    BY <1>2, LenProperties DEF ChainType
  <2>2. Len(Path(t)) \in Nat
    BY <1>b, PathLen
  <2>. QED  BY <2>1, <2>2, <1>b
<1>4. Holding(mem, ch, Len(ch))
  BY <1>3 DEF Verified, Holding, At
<1>5. x = [at |-> a, key |-> mem[a[1]][a[2]]]
  BY DEF Indirect, At
<1>6. x = NextIndirect(mem, Path(t), ch)
  BY <1>b, <1>5 DEF NextIndirect
<1>. PICK w : w = Append(ch, x)
  OBVIOUS
<1>. HIDE DEF t, a
<1>12. w = Append(ch, NextIndirect(mem, Path(t), ch))
  BY <1>6
<1>13. t \in Sectors
  BY <1>b
<1>14. Len(ch) < Len(Path(t))
  BY <1>3
<1>7. /\ w \in ChainType /\ w # <<>>
      /\ ChainOf(w, Path(t)) /\ Len(w) = Len(ch) + 1
      /\ Holding(mem, w, Len(ch) + 1)
  <2>1. w \in ChainType
    BY <1>13, <1>1, <1>2, <1>14, <1>4, <1>12, Appended, Zenon
  <2>2. ChainOf(w, Path(t))
    BY <1>13, <1>1, <1>2, <1>14, <1>4, <1>12, Appended, Zenon
  <2>3. Len(w) = Len(ch) + 1
    <3>2. ch \in Seq([at : Container \X Nat, key : Block \cup {NoBlock}])
      BY <1>2 DEF ChainType
    <3>3. DOMAIN w = 1 .. Len(ch) + 1
      BY <3>2, <1>12 DEF Append
    <3>4. DOMAIN w = 1 .. Len(w) /\ Len(w) \in Nat
      BY <2>1, LenProperties DEF ChainType
    <3>. QED  BY <3>3, <3>4, <1>3
  <2>4. Holding(mem, w, Len(ch) + 1)
    BY <1>13, <1>1, <1>2, <1>14, <1>4, <1>12, Appended, Zenon
  <2>5. w # <<>>
    BY <2>1, <2>3, <1>3, EmptySeq
  <2>. QED  BY <2>1, <2>2, <2>3, <2>4, <2>5
<1>8. \A i \in DOMAIN w : At(w[i].at) = w[i].key
  <2>1. DOMAIN w = 1 .. Len(ch) + 1
    BY <1>7, LenProperties DEF ChainType
  <2>. QED  BY <1>7, <2>1 DEF Holding, At
<1>9. ChainRead(p, w)
  BY <1>3, <1>7, <1>8 DEF ChainRead, t
<1>10. Holding(mem, w, Len(w))
  BY <1>7
<1>. QED  BY <1>a, <1>0, <1>9, <1>10

LEMMA NextLevelInv ==
  ASSUME IInv, NEW p \in Process, NextLevel(p)
  PROVE  IInv'
<1>1. CASE Verified(chain[p])
  BY <1>1, NextChain, ExtendedInv
<1>2. CASE ~ Verified(chain[p])
  <2>1. call[p].pc = "branch" /\ chain[p] # <<>> /\ Answer(p, chain[p], EAGAIN)
    BY <1>2, Zenon DEF NextLevel
  <2>2. ChainRead(p, chain[p])
    BY <2>1, InBranch
  <2>. QED  BY <2>1, <2>2, AnswerInv
<1>. QED  BY <1>1, <1>2

LEMMA ReadFailsInv ==
  ASSUME IInv, NEW p \in Process, ReadFails(p)
  PROVE  IInv'
<1>1. call[p].pc = "branch" /\ chain[p] # <<>> /\ Answer(p, chain[p], EIO)
  BY DEF ReadFails
<1>2. ChainRead(p, chain[p])
  BY <1>1, InBranch
<1>. QED  BY <1>1, <1>2, AnswerInv

-----------------------------------------------------------------------------
(* alloc_branch() and splice_branch()                                      *)

LEMMA NoSpaceInv ==
  ASSUME IInv, NEW p \in Process, NoSpace(p)
  PROVE  IInv'
<1>1. /\ call[p].pc = "alloc"
      /\ call' = [call EXCEPT ![p].pc = "undo", ![p].result = ENOSPC]
      /\ UNCHANGED <<zmap, mem, size, mutex, chain, branch, tasks, unread>>
  BY DEF NoSpace
<1>2. Types /\ CallInv(p)
  BY DEF IInv
<1>3. /\ call' \in [Process -> CallType]
      /\ call'[p].pc = "undo" /\ call'[p].kind = call[p].kind
      /\ call'[p].sector = call[p].sector /\ call'[p].result = ENOSPC
      /\ \A q \in Process : q # p => call'[q] = call[q]
  <2>1. "undo" \in Label /\ ENOSPC \in Block \cup {NoBlock, EIO, ENOSPC}
    BY DEF Label
  <2>. QED  BY <1>1, <1>2, <2>1, Moves
<1>4. chain' \in [Process -> ChainType]
  BY <1>1, <1>2 DEF Types, ChainType
<1>5. Discipline(p)'
  <2>1. Discipline(p)
    BY <1>2 DEF CallInv
  <2>2. ENOSPC # NoBlock
    BY DEF ENOSPC, NoBlock
  <2>. QED  BY <1>1, <1>3, <2>1, <2>2 DEF Discipline, Creates
<1>6. ChainInv(p)'
  BY <1>3 DEF ChainInv
<1>7. BranchInv(p)'
  BY <1>1, <1>2, <1>3 DEF CallInv, BranchInv
<1>. QED  BY <1>1, <1>3, <1>4, <1>5, <1>6, <1>7, QuietInv

LEMMA UndoneInv ==
  ASSUME IInv, NEW p \in Process, Undone(p)
  PROVE  IInv'
<1>1. /\ call[p].pc = "undo" /\ branch[p] = <<>>
      /\ Go(p, IF call[p].result = ENOSPC THEN "done" ELSE "branch")
      /\ chain' = [chain EXCEPT ![p] = <<>>]
      /\ UNCHANGED <<zmap, mem, size, mutex, branch, tasks, unread>>
  BY DEF Undone
<1>2. Types /\ CallInv(p)
  BY DEF IInv
<1>. PICK pc : pc = IF call[p].result = ENOSPC THEN "done" ELSE "branch"
  OBVIOUS
<1>3. /\ call' \in [Process -> CallType]
      /\ call'[p].pc = pc /\ call'[p].kind = call[p].kind
      /\ call'[p].sector = call[p].sector /\ call'[p].result = call[p].result
      /\ \A q \in Process : q # p => call'[q] = call[q]
  <2>1. pc \in Label
    BY DEF Label
  <2>2. call[p].result \in Block \cup {NoBlock, EIO, ENOSPC}
    BY <1>2, TypesOf
  <2>. PICK r : r = call[p].result
    OBVIOUS
  <2>3. Go(p, pc) /\ r \in Block \cup {NoBlock, EIO, ENOSPC}
    BY <1>1, <2>2
  <2>. QED  BY <1>2, <2>1, <2>3, Moves
<1>4. chain' \in [Process -> ChainType] /\ chain'[p] = <<>> /\ \A q \in Process : q # p => chain'[q] = chain[q]
  <2>1. <<>> \in ChainType
    BY DEF ChainType
  <2>2. chain \in [Process -> ChainType]
    BY <1>2 DEF Types, ChainType
  <2>. QED  BY <1>1, <2>1, <2>2
<1>5. Discipline(p)'
  <2>1. Discipline(p)
    BY <1>2 DEF CallInv
  <2>2. ENOSPC # NoBlock
    BY DEF ENOSPC, NoBlock
  <2>. QED  BY <1>1, <1>3, <2>1, <2>2 DEF Discipline, Creates
<1>6. ChainInv(p)'
  <2>1. call[p].sector \in Sectors
    BY <1>1, <1>2, TypesOf, Constants DEF CallInv, Discipline, Sectors
  <2>2. Depth(p)' \in 1 .. Len(Path(call[p].sector)) /\ Len(Path(call[p].sector)) \in 1 .. 3
    BY <1>3, <2>1, DepthIs, DepthShape, PathLen
  <2>3. ChainOf(<<>>, Path(call[p].sector)) /\ 0 <= Depth(p)'
    BY <2>2 DEF ChainOf
  <2>4. Len(<<>>) = 0 /\ DOMAIN <<>> = {}
    OBVIOUS
  <2>. QED  BY <1>3, <1>4, <2>3, <2>4 DEF ChainInv
<1>7. BranchInv(p)'
  BY <1>1, <1>3 DEF BranchInv
<1>8. call[p].pc # "free" /\ call'[p].pc # "free"
  BY <1>1, <1>3
<1>. QED  BY <1>1, <1>3, <1>4, <1>5, <1>6, <1>7, <1>8, QuietInv

(* A step with one block of the branch of p.                               *)
LEMMA HoldsBranch ==
  ASSUME NEW own \in [Block -> Tags], Holds(own), NEW p \in Process, NEW b \in Block,
         NEW kind \in {"free", "branch"}, own[b].kind \in {"free", "branch"},
         UNCHANGED <<call, tasks>>,
         \A x \in Block : x # b => (x \in zmap' <=> x \in zmap),
         kind = "free" <=> b \notin zmap',
         \A q \in Process : q # p =>
           branch'[q] = branch[q] /\ \A i \in DOMAIN branch[q] : branch[q][i] # b,
         \A x \in Block : x # b /\ x \in Range(branch[p]) => x \in Range(branch'[p]),
         kind = "branch" => b \in Range(branch'[p]),
         \A i \in DOMAIN branch'[p] :
           IF branch'[p][i] = b THEN kind = "branch" ELSE own[branch'[p][i]].kind = "branch",
         NEW own2, own2 = [own EXCEPT ![b] = Loose(kind, 0)]
  PROVE  Holds(own2)'
<1>1. /\ own2[b].kind = kind /\ own2[b] = Loose(kind, 0)
      /\ \A x : x # b => own2[x] = own[x]
  BY DEF Loose, Tag
<1>2. \A x \in Block : own2[x].kind = "free" <=> x \notin zmap'
  BY <1>1 DEF Holds
<1>3. ASSUME NEW q \in Process, NEW i \in DOMAIN branch'[q] PROVE own2[branch'[q][i]].kind = "branch"
  <2>1. CASE q = p
    BY <1>1, <1>3, <2>1
  <2>2. CASE q # p
    BY <1>1, <1>3, <2>2 DEF Holds
  <2>. QED  BY <2>1, <2>2
<1>4. ASSUME NEW x \in Block, own2[x].kind = "branch"
      PROVE  \E q \in Process : x \in Range(branch'[q])
  <2>1. CASE x = b
    BY <1>1, <1>4, <2>1
  <2>2. CASE x # b
    <3>1. own[x].kind = "branch"
      BY <1>1, <1>4, <2>2
    <3>2. PICK q \in Process : x \in Range(branch[q])
      BY <3>1 DEF Holds
    <3>3. x \in Range(branch'[q])
      BY <2>2, <3>2
    <3>. QED  BY <3>3
  <2>. QED  BY <2>1, <2>2
<1>5. ASSUME NEW q \in Process, call'[q].pc = "free", NEW i \in DOMAIN tasks'[q], tasks'[q][i].op = "whole"
      PROVE  own2[tasks'[q][i].at] = Loose("whole", tasks'[q][i].depth)
  <2>1. own[tasks[q][i].at] = Loose("whole", tasks[q][i].depth)
    BY <1>5 DEF Holds
  <2>2. tasks[q][i].at # b
    BY <2>1 DEF Loose, Tag
  <2>. QED  BY <2>1, <2>2, <1>1
<1>6. ASSUME NEW x \in Block, own2[x].kind = "whole"
      PROVE  \E q \in Process : call'[q].pc = "free" /\
               \E i \in DOMAIN tasks'[q] : tasks'[q][i].op = "whole" /\ tasks'[q][i].at = x
  <2>1. x # b /\ own[x].kind = "whole"
    BY <1>1, <1>6
  <2>. QED  BY <2>1 DEF Holds
<1>. QED  BY <1>2, <1>3, <1>4, <1>5, <1>6 DEF Holds

(* What a step of p on its branch has to show.                             *)
LEMMA BranchStep ==
  ASSUME IInv, NEW p \in Process, call[p].pc \in {"alloc", "undo"},
         NEW own, Forest(own), NEW b \in Block,
         \/ own[b].kind = "free"
         \/ own[b].kind = "branch" /\ b \in Range(branch[p]),
         NEW kind \in {"free", "branch"},
         UNCHANGED <<size, mutex, call, chain, tasks>>,
         zmap' \subseteq Block, \A x \in Block : x # b => (x \in zmap' <=> x \in zmap),
         kind = "free" <=> b \notin zmap',
         branch' \in [Process -> Seq(Block)],
         \A q \in Process : q # p => branch'[q] = branch[q],
         \A i \in DOMAIN branch'[p] : branch'[p][i] = b \/ branch'[p][i] \in Range(branch[p]),
         kind = "free" => \A i \in DOMAIN branch'[p] : branch'[p][i] # b,
         kind = "branch" => b \in Range(branch'[p]),
         \A x \in Block : x # b /\ x \in Range(branch[p]) => x \in Range(branch'[p]),
         unread' = unread \ {b},
         Tables(mem'),
         \A c \in Container : mem'[c] = mem[c] \/ c = b \/ (c # Inode /\ c \in Range(branch[p])),
         BranchInv(p)'
  PROVE  IInv'
<1>1. Types /\ CallInv(p) /\ Apart
  BY DEF IInv
<1>2. Links(own, mem) /\ Holds(own) /\ Cutoff(own, unread) /\ own \in [Block -> Tags]
  BY DEF Forest, Links
<1>3. own[b].kind \in {"free", "branch"}
  OBVIOUS
<1>4. \A x \in Range(branch[p]) : x \in Block /\ own[x].kind = "branch"
  BY <1>1, <1>2, TypesOf DEF Holds, Range
<1>. PICK own2 : own2 = [own EXCEPT ![b] = Loose(kind, 0)]
  OBVIOUS
<1>5. b # Inode /\ b \in Container /\ ~ IsTable(own, b)
  BY <1>3, BlockFacts DEF IsTable
<1>6. \A c \in Container : IsTable(own, c) => mem'[c] = mem[c]
  BY <1>4, <1>5 DEF IsTable
<1>7. Links(own2, mem')
  <2>. PICK m2 : m2 = mem'
    OBVIOUS
  <2>1. Tables(m2) /\ TablesKept(own, b, mem, m2)
    BY <1>6 DEF TablesKept
  <2>3. own[b].kind # "pointed" /\ (IsTable(own, b) => \A o \in Pointer(b) : mem[b][o] = NoBlock)
    BY <1>3, <1>5
  <2>2. Links([own EXCEPT ![b] = Loose(kind, 0)], m2)
    BY <1>2, <2>1, <2>3, Retag
  <2>. QED  BY <2>2
<1>8. Cutoff(own2, unread')
  BY <1>2, <1>3, <1>5, CutoffRetag
<1>9. ASSUME NEW q \in Process, q # p, NEW i \in DOMAIN branch[q]
      PROVE  branch[q][i] # b /\ branch[q][i] \notin Range(branch[p]) /\ branch[q][i] \in Block
  <2>1. own[branch[q][i]].kind = "branch" /\ branch[q][i] \in Block
    BY <1>1, <1>2, TypesOf DEF Holds
  <2>2. branch[q][i] \notin Range(branch[p])
    BY <1>1, <1>9 DEF Apart, Range
  <2>. QED  BY <2>1, <2>2
<1>10. \A i \in DOMAIN branch'[p] : IF branch'[p][i] = b THEN kind = "branch" ELSE own[branch'[p][i]].kind = "branch"
  BY <1>4
<1>11. Holds(own2)'
  <2>1. \A q \in Process : q # p => branch'[q] = branch[q] /\ \A i \in DOMAIN branch[q] : branch[q][i] # b
    BY <1>9
  <2>. QED  BY <1>2, <1>3, <1>10, <2>1, HoldsBranch
<1>12. Forest(own2)'
  BY <1>7, <1>8, <1>11 DEF Forest
<1>13. Types'
  BY <1>1 DEF Types
<1>14. CallInv(p)'
  <2>1. Discipline(p)' /\ ChainInv(p)' /\ TasksInv(p)'
    <3>1. Discipline(p) /\ ChainInv(p)
      BY <1>1 DEF CallInv
    <3>2. Discipline(p)'
      BY <3>1 DEF Discipline, Creates
    <3>3. ChainInv(p)'
      BY <3>1 DEF ChainInv
    <3>4. TasksInv(p)'
      BY DEF TasksInv
    <3>. QED  BY <3>2, <3>3, <3>4
  <2>. QED  BY <2>1 DEF CallInv
<1>15. ASSUME NEW q \in Process, q # p PROVE CallInv(q)'
  <2>1. call'[q] = call[q] /\ chain'[q] = chain[q] /\ branch'[q] = branch[q] /\ tasks'[q] = tasks[q]
    BY <1>15
  <2>2. call[q].kind = "writepage" => call[q].sector < size'
    BY DEF IInv, CallInv, Discipline
  <2>3. size' = size /\ Keeps(own, mem, mem') /\ mutex' = mutex
    BY <1>6 DEF Keeps
  <2>4. CallInv(q) /\ Types /\ Links(own, mem)
    BY <1>2 DEF IInv
  <2>5. \A i \in DOMAIN branch[q] : mem'[branch[q][i]] = mem[branch[q][i]]
    BY <1>9, <1>15, BlockFacts
  <2>. QED  BY <2>1, <2>2, <2>3, <2>4, <2>5, OthersKeep
<1>16. Apart'
  <2>1. ASSUME NEW q \in Process, q # p, NEW i \in DOMAIN branch'[q], NEW j \in DOMAIN branch'[p]
        PROVE  branch'[q][i] # branch'[p][j]
    BY <1>9, <2>1
  <2>2. ASSUME NEW q \in Process, NEW r \in Process, NEW i \in DOMAIN branch'[q], NEW j \in DOMAIN branch'[r],
               branch'[q][i] = branch'[r][j]
        PROVE  q = r
    <3>1. CASE q = p
      BY <2>1, <2>2, <3>1
    <3>2. CASE r = p
      BY <2>1, <2>2, <3>2
    <3>3. CASE q # p /\ r # p
      BY <1>1, <2>2, <3>3 DEF Apart
    <3>. QED  BY <3>1, <3>2, <3>3
  <2>. QED  BY <2>2 DEF Apart
<1>. QED  BY <1>12, <1>13, <1>14, <1>15, <1>16 DEF IInv

LEMMA AllocInv ==
  ASSUME IInv, NEW p \in Process, Alloc(p)
  PROVE  IInv'
<1>. DEFINE t == call[p].sector
            n == Len(chain[p])
<1>. PICK br : br = branch[p]
  OBVIOUS
<1>. PICK b : b = Min(Block \ zmap)
  OBVIOUS
<1>. PICK o : o = Path(t)[n + Len(br)]
  OBVIOUS
<1>1. /\ call[p].pc = "alloc" /\ Len(br) < Left(p) /\ Block \ zmap # {}
      /\ zmap' = zmap \cup {b} /\ branch' = [branch EXCEPT ![p] = Append(br, b)]
      /\ mem' = IF br = <<>> THEN mem ELSE [mem EXCEPT ![Last(br)] = [Zeroes EXCEPT ![o] = b]]
      /\ UNCHANGED <<size, mutex, call, chain, tasks, unread>>
  BY Zenon DEF Alloc
<1>2. Types /\ CallInv(p)
  BY DEF IInv
<1>3. b \in Block /\ b \notin zmap
  <2>1. Block \ zmap \subseteq Nat
    BY BlockFacts
  <2>. QED  BY <1>1, <2>1, MinOf
<1>4. PICK own : Forest(own)
  BY DEF IInv
<1>5. own[b].kind = "free" /\ b \notin unread /\ Links(own, mem)
  BY <1>3, <1>4 DEF Forest, Holds, Cutoff
<1>6. /\ br \in Seq(Block) /\ Len(br) \in Nat /\ DOMAIN br = 1 .. Len(br)
      /\ n \in Nat /\ t \in Sectors /\ \A i \in 1 .. Len(br) : br[i] \in Block
  <2>1. t \in Sectors
    BY <1>1, <1>2, TypesOf, Constants DEF CallInv, Discipline, Sectors
  <2>. QED  BY <1>2, <2>1, TypesOf
<1>. PICK w : w = Append(br, b)
  OBVIOUS
<1>7. /\ w \in Seq(Block) /\ Len(w) = Len(br) + 1 /\ DOMAIN w = 1 .. Len(br) + 1
      /\ \A i \in 1 .. Len(br) : w[i] = br[i]
      /\ w[Len(br) + 1] = b
  BY <1>3, <1>6, AppendProperties
<1>8. branch' \in [Process -> Seq(Block)] /\ branch'[p] = w /\ \A q \in Process : q # p => branch'[q] = branch[q]
  BY <1>1, <1>2, <1>7 DEF Types
<1>9. \A i \in 1 .. Len(br) : own[br[i]].kind = "branch" /\ br[i] # b
  BY <1>4, <1>5, <1>6 DEF Forest, Holds
<1>10. br # <<>> => /\ Last(br) = br[Len(br)] /\ Len(br) \in 1 .. Len(br) /\ Last(br) \in Block
                    /\ Last(br) \in Range(br) /\ Last(br) # Inode
  <2>. SUFFICES ASSUME br # <<>>
                PROVE /\ Last(br) = br[Len(br)] /\ Len(br) \in 1 .. Len(br) /\ Last(br) \in Block
                      /\ Last(br) \in Range(br) /\ Last(br) # Inode
    OBVIOUS
  <2>1. Last(br) = br[Len(br)]
    BY DEF Last
  <2>2. Len(br) \in 1 .. Len(br)
    BY <1>6, EmptySeq
  <2>. QED  BY <1>6, <2>1, <2>2, BlockFacts DEF Range
<1>11. /\ mem' = [c \in Container |-> mem'[c]]
       /\ \A c \in Container : mem'[c] \in [Pointer(c) -> Block \cup {NoBlock}]
       /\ \A c \in Container : mem'[c] = mem[c] \/ (c = Last(br) /\ br # <<>>)
       /\ br # <<>> => mem'[Last(br)] = [Zeroes EXCEPT ![o] = b]
  <2>1. CASE br = <<>>
    BY <1>1, <1>5, <2>1 DEF Links
  <2>2. CASE br # <<>>
    <3>1. Pointer(Last(br)) = 0 .. PTRS - 1
      BY <1>10, <2>2 DEF Pointer
    <3>. PICK z : z = [Zeroes EXCEPT ![o] = b]
      OBVIOUS
    <3>2. z \in [Pointer(Last(br)) -> Block \cup {NoBlock}]
      BY <1>3, <3>1 DEF Zeroes
    <3>3. mem' = [mem EXCEPT ![Last(br)] = z] /\ Last(br) \in Container
      BY <1>1, <1>10, <2>2, BlockFacts
    <3>4. mem = [c \in Container |-> mem[c]]
      BY <1>5 DEF Links
    <3>. QED  BY <1>5, <2>2, <3>2, <3>3, <3>4 DEF Links
  <2>. QED  BY <2>1, <2>2
<1>12. \A c \in Container : mem'[c] = mem[c] \/ c = b \/ (c # Inode /\ c \in Range(branch[p]))
  BY <1>10, <1>11
<1>13. BranchInv(p)'
  <2>1. BranchInv(p)
    BY <1>2 DEF CallInv
  <2>2. ASSUME NEW i \in DOMAIN w, NEW j \in DOMAIN w, w[i] = w[j] PROVE i = j
    <3>1. CASE i \in 1 .. Len(br) /\ j \in 1 .. Len(br)
      BY <1>6, <1>7, <2>1, <2>2, <3>1 DEF BranchInv
    <3>2. CASE i = Len(br) + 1 \/ j = Len(br) + 1
      <4>1. \A k \in DOMAIN w : k \in 1 .. Len(br) \/ k = Len(br) + 1
        BY <1>6, <1>7
      <4>. QED  BY <1>7, <1>9, <2>2, <3>2, <4>1
    <3>3. \A k \in DOMAIN w : k \in 1 .. Len(br) \/ k = Len(br) + 1
      BY <1>6, <1>7
    <3>. QED  BY <3>1, <3>2, <3>3
  <2>3. Left(p)' = Left(p) /\ Left(p) \in Int
    <3>1. Len(Path(t)) \in Nat
      BY <1>6, PathLen
    <3>. QED  BY <1>1, <1>6, <3>1 DEF Left
  <2>4. Len(w) <= Left(p)
    BY <1>1, <1>6, <1>7, <2>3
  <2>5. ASSUME NEW i \in DOMAIN w, i < Len(w)
        PROVE  mem'[w[i]] = [Zeroes EXCEPT ![Path(t)[n + i]] = w[i + 1]]
    <3>1. i \in 1 .. Len(br) /\ br # <<>> /\ i \in Nat
      BY <1>6, <1>7, <2>5
    <3>2. CASE i = Len(br)
      <4>1. w[i] = Last(br) /\ w[i + 1] = b
        BY <1>7, <1>10, <3>1, <3>2
      <4>. QED  BY <1>11, <3>1, <3>2, <4>1
    <3>3. CASE i # Len(br)
      <4>1. i < Len(br) /\ i + 1 \in 1 .. Len(br)
        BY <1>6, <3>1, <3>3
      <4>2. mem[br[i]] = [Zeroes EXCEPT ![Path(t)[n + i]] = br[i + 1]]
        BY <1>1, <1>6, <2>1, <3>1, <4>1 DEF BranchInv
      <4>3. br[i] # Last(br)
        BY <1>6, <1>10, <2>1, <3>1, <3>3 DEF BranchInv
      <4>4. mem'[br[i]] = mem[br[i]]
        BY <1>6, <1>11, <3>1, <4>3, BlockFacts
      <4>. QED  BY <1>7, <3>1, <4>1, <4>2, <4>4
    <3>. QED  BY <3>2, <3>3
  <2>6. \A i \in DOMAIN branch'[p] : i < Len(branch'[p]) =>
          mem'[branch'[p][i]] = [Zeroes EXCEPT ![Path(call'[p].sector)[Len(chain'[p]) + i]] = branch'[p][i + 1]]
    BY <1>1, <1>8, <2>5
  <2>7. \A i, j \in DOMAIN branch'[p] : branch'[p][i] = branch'[p][j] => i = j
    BY <1>8, <2>2
  <2>8. Len(branch'[p]) <= Left(p)'
    BY <1>8, <2>3, <2>4
  <2>. QED  BY <2>6, <2>7, <2>8 DEF BranchInv
<1>14. /\ zmap' \subseteq Block /\ b \in zmap'
       /\ \A x \in Block : x # b => (x \in zmap' <=> x \in zmap)
       /\ unread' = unread \ {b}
  BY <1>1, <1>2, <1>3, <1>5 DEF Types
<1>15. /\ \A i \in DOMAIN branch'[p] : branch'[p][i] = b \/ branch'[p][i] \in Range(branch[p])
       /\ b \in Range(branch'[p])
       /\ \A x \in Block : x # b /\ x \in Range(branch[p]) => x \in Range(branch'[p])
  <2>1. \A k \in DOMAIN w : k \in 1 .. Len(br) \/ k = Len(br) + 1
    BY <1>6, <1>7
  <2>2. Len(br) + 1 \in DOMAIN w /\ \A k \in 1 .. Len(br) : k \in DOMAIN w
    BY <1>6, <1>7
  <2>. QED  BY <1>6, <1>7, <1>8, <2>1, <2>2 DEF Range
<1>17. Tables(mem')
  BY <1>11 DEF Tables
<1>. PICK kind : kind = "branch"
  OBVIOUS
<1>16. /\ kind \in {"free", "branch"}
       /\ call[p].pc \in {"alloc", "undo"}
       /\ \/ own[b].kind = "free"
          \/ own[b].kind = "branch" /\ b \in Range(branch[p])
       /\ UNCHANGED <<size, mutex, call, chain, tasks>>
       /\ kind = "free" <=> b \notin zmap'
       /\ kind = "free" => \A i \in DOMAIN branch'[p] : branch'[p][i] # b
       /\ kind = "branch" => b \in Range(branch'[p])
       /\ \A q \in Process : q # p => branch'[q] = branch[q]
  BY <1>1, <1>5, <1>8, <1>14, <1>15
<1>. QED  BY <1>3, <1>4, <1>8, <1>12, <1>13, <1>14, <1>15, <1>16, <1>17, BranchStep

LEMMA UndoInv ==
  ASSUME IInv, NEW p \in Process, Undo(p)
  PROVE  IInv'
<1>. PICK br : br = branch[p]
  OBVIOUS
<1>. PICK b : b = Head(br)
  OBVIOUS
<1>. PICK w : w = Tail(br)
  OBVIOUS
<1>1. /\ call[p].pc = "undo" /\ br # <<>>
      /\ zmap' = zmap \ {b} /\ mem' = [mem EXCEPT ![b] = Zeroes] /\ unread' = unread \ {b}
      /\ branch' = [branch EXCEPT ![p] = w]
      /\ UNCHANGED <<size, mutex, call, chain, tasks>>
  BY DEF Undo, Freed
<1>2. Types /\ CallInv(p)
  BY DEF IInv
<1>3. /\ br \in Seq(Block) /\ Len(br) \in Nat /\ DOMAIN br = 1 .. Len(br)
      /\ \A i \in 1 .. Len(br) : br[i] \in Block
  BY <1>2, TypesOf
<1>4. /\ w \in Seq(Block) /\ Len(br) > 0 /\ Len(w) = Len(br) - 1 /\ b = br[1] /\ DOMAIN w = 1 .. Len(br) - 1
      /\ \A i \in 1 .. Len(br) - 1 : w[i] = br[i + 1]
  BY <1>1, <1>3, HeadTailProperties, EmptySeq
<1>5. b \in Block /\ b \in Range(br) /\ b # Inode
  <2>1. 1 \in 1 .. Len(br)
    BY <1>3, <1>4
  <2>. QED  BY <1>3, <1>4, <2>1, BlockFacts DEF Range
<1>6. PICK own : Forest(own)
  BY DEF IInv
<1>7. own[b].kind = "branch" /\ Links(own, mem)
  BY <1>5, <1>6 DEF Forest, Holds, Range
<1>8. branch' \in [Process -> Seq(Block)] /\ branch'[p] = w /\ \A q \in Process : q # p => branch'[q] = branch[q]
  BY <1>1, <1>2, <1>4 DEF Types
<1>9. \A i \in 1 .. Len(br) - 1 : i + 1 \in 1 .. Len(br) /\ i + 1 # 1 /\ i \in Nat
  BY <1>3
<1>10. BranchInv(p)
  BY <1>2 DEF CallInv
<1>11. \A i \in DOMAIN w : w[i] \in Range(br) /\ w[i] # b
  <2>. SUFFICES ASSUME NEW i \in 1 .. Len(br) - 1 PROVE w[i] \in Range(br) /\ w[i] # b
    BY <1>4
  <2>1. w[i] = br[i + 1] /\ i + 1 \in DOMAIN br /\ i + 1 # 1 /\ 1 \in DOMAIN br
    BY <1>3, <1>4, <1>9
  <2>. QED  BY <2>1, <1>4, <1>10 DEF Range, BranchInv
<1>12. \A x \in Block : x # b /\ x \in Range(br) => x \in Range(w)
  <2>. SUFFICES ASSUME NEW i \in DOMAIN br, br[i] # b PROVE br[i] \in Range(w)
    BY DEF Range
  <2>1. i - 1 \in 1 .. Len(br) - 1 /\ (i - 1) + 1 = i
    BY <1>3, <1>4
  <2>2. w[i - 1] = br[i]
    BY <1>4, <2>1
  <2>. QED  BY <1>4, <2>1, <2>2 DEF Range
<1>13. Tables(mem')
  <2>1. Pointer(b) = 0 .. PTRS - 1
    BY <1>5 DEF Pointer
  <2>2. Zeroes \in [Pointer(b) -> Block \cup {NoBlock}]
    BY <2>1 DEF Zeroes
  <2>. QED  BY <1>1, <1>7, <2>2 DEF Links, Tables
<1>14. \A c \in Container : mem'[c] = mem[c] \/ c = b \/ (c # Inode /\ c \in Range(branch[p]))
  BY <1>1, <1>7 DEF Links
<1>15. BranchInv(p)'
  <2>1. ASSUME NEW i \in DOMAIN w, NEW j \in DOMAIN w, w[i] = w[j] PROVE i = j
    <3>1. i + 1 \in DOMAIN br /\ j + 1 \in DOMAIN br /\ i \in Nat /\ j \in Nat
      BY <1>3, <1>4, <1>9
    <3>2. br[i + 1] = br[j + 1]
      BY <1>4, <2>1
    <3>3. i + 1 = j + 1
      BY <1>10, <3>1, <3>2 DEF BranchInv
    <3>. QED  BY <3>1, <3>3
  <2>. QED  BY <1>1, <1>8, <2>1 DEF BranchInv
<1>. PICK kind : kind = "free"
  OBVIOUS
<1>16. /\ kind \in {"free", "branch"}
       /\ call[p].pc \in {"alloc", "undo"}
       /\ \/ own[b].kind = "free"
          \/ own[b].kind = "branch" /\ b \in Range(branch[p])
       /\ UNCHANGED <<size, mutex, call, chain, tasks>>
       /\ kind = "free" <=> b \notin zmap'
       /\ kind = "free" => \A i \in DOMAIN branch'[p] : branch'[p][i] # b
       /\ kind = "branch" => b \in Range(branch'[p])
       /\ \A q \in Process : q # p => branch'[q] = branch[q]
  BY <1>1, <1>5, <1>7, <1>8, <1>11
<1>17. /\ zmap' \subseteq Block
       /\ \A x \in Block : x # b => (x \in zmap' <=> x \in zmap)
       /\ unread' = unread \ {b}
       /\ \A i \in DOMAIN branch'[p] : branch'[p][i] = b \/ branch'[p][i] \in Range(branch[p])
       /\ \A x \in Block : x # b /\ x \in Range(branch[p]) => x \in Range(branch'[p])
  BY <1>1, <1>2, <1>8, <1>11, <1>12 DEF Types
<1>. QED  BY <1>5, <1>6, <1>8, <1>13, <1>14, <1>15, <1>16, <1>17, BranchStep

LEMMA LeftOf ==
  ASSUME NEW n \in Nat, NEW l \in 1 .. 3, n + 1 \in 1 .. l
  PROVE  l - (n + 1) + 1 = l - n /\ l - n \in 1 .. 3
OBVIOUS

LEMMA HungTags ==
  ASSUME NEW own, NEW own2, NEW c, NEW o, NEW br, NEW off, Hung(own, own2, c, o, br, off)
  PROVE  /\ \A i \in 1 .. Len(br) : own2[br[i]].kind = "pointed"
         /\ \A x \in Block : (\A i \in 1 .. Len(br) : br[i] # x) => own2[x] = own[x]
<1>1. ASSUME NEW i \in 1 .. Len(br) PROVE own2[br[i]].kind = "pointed"
  <2>. PICK d : d = IF i = 1 THEN c ELSE br[i - 1]
    OBVIOUS
  <2>. PICK e : e = IF i = 1 THEN o ELSE off[i - 1]
    OBVIOUS
  <2>1. own2[br[i]] = Tag("pointed", d, e, Len(br) - i)
    BY DEF Hung
  <2>. QED  BY <2>1 DEF Tag
<1>. QED  BY <1>1 DEF Hung

(* What splice_branch() finds and does: n Indirects above the place.       *)
SpliceAt(p, own, n) ==
  LET t == call[p].sector
      br == branch[p]
      c == Walk(mem, t, n)
      o == Path(t)[n + 1] IN
  /\ t \in Sectors /\ n + 1 \in 1 .. Len(Path(t)) /\ (n = 0 \/ c # NoBlock)
  /\ c \in Container /\ IsTable(own, c) /\ o \in Pointer(c)
  /\ LevelOf(own, c, o) = Len(Path(t)) - (n + 1)
  /\ c # Inode => own[c].kind = "pointed"
  /\ mem[c][o] = NoBlock /\ mem' = [mem EXCEPT ![c][o] = br[1]]
  /\ Len(br) = Len(Path(t)) - n /\ Len(br) \in 1 .. 3
  /\ \A i, j \in 1 .. Len(br) : br[i] = br[j] => i = j
  /\ \A i \in 1 .. Len(br) : br[i] \in Block /\ own[br[i]].kind = "branch"
  /\ \A i \in 1 .. Len(br) - 1 :
       /\ Path(t)[n + 1 + i] \in 0 .. PTRS - 1
       /\ mem[br[i]] = [Zeroes EXCEPT ![Path(t)[n + 1 + i]] = br[i + 1]]
  /\ branch' = [branch EXCEPT ![p] = <<>>]
  /\ call' = [call EXCEPT ![p].pc = "done", ![p].result = br[Len(br)]]

(* A branch that is spliced is strung on a vacant pointer of the tree.      *)
LEMMA Spliced ==
  ASSUME IInv, NEW p \in Process, Splice(p), Vacant(p), NEW own, Forest(own)
  PROVE  \E n \in 0 .. 2 : SpliceAt(p, own, n)
<1>. DEFINE t == call[p].sector
<1>. PICK br : br = branch[p]
  OBVIOUS
<1>. PICK ch : ch = chain[p]
  OBVIOUS
<1>16. /\ call[p].pc = "alloc" /\ Len(br) = Left(p)
       /\ mem' = Stored(Last(ch).at, Head(br))
       /\ branch' = [branch EXCEPT ![p] = <<>>]
       /\ Done(p, Last(br))
       /\ UNCHANGED <<zmap, size, mutex, chain, tasks, unread>>
  BY DEF Splice
<1>17. Types /\ CallInv(p) /\ Apart
  BY DEF IInv
<1>1. /\ mem' = Stored(Last(ch).at, Head(br))
      /\ branch' = [branch EXCEPT ![p] = <<>>]
      /\ call' = [call EXCEPT ![p].pc = "done", ![p].result = Last(br)]
  BY <1>16 DEF Done
<1>2. t \in Sectors
  BY <1>16, <1>17, TypesOf, Constants DEF CallInv, Discipline, Sectors
<1>3. /\ ch \in ChainType /\ Len(ch) \in Nat /\ DOMAIN ch = 1 .. Len(ch)
      /\ br \in Seq(Block) /\ Len(br) \in Nat /\ DOMAIN br = 1 .. Len(br)
      /\ \A i \in 1 .. Len(br) : br[i] \in Block
  BY <1>17, TypesOf
<1>4. /\ ChainOf(ch, Path(t)) /\ ch # <<>> /\ ch[Len(ch)].key = NoBlock
      /\ Last(ch) = ch[Len(ch)] /\ Len(ch) > 0 /\ Len(ch) <= Len(Path(t))
  <2>1. ChainOf(ch, Path(t)) /\ ch # <<>> /\ ch[Len(ch)].key = NoBlock
    BY <1>16, <1>17 DEF CallInv, ChainInv
  <2>2. Last(ch) = ch[Len(ch)]
    BY DEF Last
  <2>3. Len(ch) > 0
    BY <1>3, <2>1, EmptySeq DEF ChainType
  <2>. QED  BY <2>1, <2>2, <2>3 DEF ChainOf
<1>. PICK n \in Nat : Len(ch) = n + 1
  <2>. PICK k \in Nat : k = Len(ch)
    BY <1>3
  <2>1. k - 1 \in Nat /\ k = (k - 1) + 1
    BY <1>4
  <2>. QED  BY <2>1
<1>5. Holding(mem, ch, n)
  <2>1. Front(ch) = [i \in 1 .. n |-> ch[i]]
    BY <1>3 DEF Front
  <2>2. Verified(Front(ch)) /\ DOMAIN Front(ch) = 1 .. n /\ \A i \in 1 .. n : Front(ch)[i] = ch[i]
    BY <2>1 DEF Vacant
  <2>. QED  BY <2>2 DEF Verified, Holding, At
<1>6. Links(own, mem) /\ Holds(own) /\ Cutoff(own, unread) /\ own \in [Block -> Tags]
  BY DEF Forest, Links
<1>. PICK l \in 1 .. 3 : l = Len(Path(t))
  BY <1>2, PathLen
<1>7. n + 1 \in 1 .. l /\ n + 1 - 1 = n /\ n \in 0 .. Len(ch) /\ n + 1 \in 1 .. Len(ch)
  BY <1>3, <1>4
<1>. PICK c : c = Walk(mem, t, n)
  OBVIOUS
<1>. PICK o : o = Path(t)[n + 1]
  OBVIOUS
<1>8. ch[n + 1].at = <<c, o>> /\ (n + 1 = 1 \/ c # NoBlock)
  <2>1. \A i \in 1 .. Len(ch) : i <= n + 1 =>
          /\ ch[i].at = <<Walk(mem, t, i - 1), Path(t)[i]>>
          /\ i = 1 \/ Walk(mem, t, i - 1) # NoBlock
    <3>1. /\ t \in Sectors /\ ChainOf(ch, Path(t)) /\ Len(ch) \in Nat /\ DOMAIN ch = 1 .. Len(ch)
          /\ n \in 0 .. Len(ch) /\ Holding(mem, ch, n)
      BY <1>2, <1>3, <1>4, <1>5, <1>7
    <3>. HIDE DEF t
    <3>. QED  BY <3>1, ChainWalk, Zenon
  <2>2. n + 1 <= n + 1
    OBVIOUS
  <2>. QED  BY <1>7, <2>1, <2>2
<1>9. /\ c \in Container /\ IsTable(own, c) /\ o \in Pointer(c)
      /\ LevelOf(own, c, o) = l - (n + 1)
      /\ c # Inode => own[c].kind = "pointed"
  <2>1. OnWalk(own, mem, t, n + 1)
    BY <1>2, <1>6, <1>7, <1>8, WalkOn
  <2>. QED  BY <2>1, <1>7 DEF OnWalk
<1>10. mem[c][o] = NoBlock /\ mem' = [mem EXCEPT ![c][o] = Head(br)]
  BY <1>1, <1>4, <1>8 DEF Vacant, At, Stored
<1>11. Len(br) = l - n /\ Len(br) \in 1 .. 3 /\ Len(br) = LevelOf(own, c, o) + 1
  <2>1. Len(br) = l - (n + 1) + 1
    BY <1>16 DEF Left
  <2>. PICK k : k = Len(br)
    OBVIOUS
  <2>2. k = l - (n + 1) + 1 /\ n + 1 \in 1 .. l
    BY <2>1, <1>7
  <2>3. k = l - n /\ k \in 1 .. 3
    BY <2>2, LeftOf
  <2>. QED  BY <2>2, <2>3, <1>9
<1>12. Head(br) = br[1] /\ Last(br) = br[Len(br)] /\ Len(br) \in DOMAIN br
  <2>1. Last(br) = br[Len(br)]
    BY DEF Last
  <2>. QED  BY <1>3, <1>11, <2>1
<1>13. \A i, j \in 1 .. Len(br) : br[i] = br[j] => i = j
  BY <1>17, <1>3 DEF CallInv, BranchInv
<1>14. \A i \in 1 .. Len(br) : own[br[i]].kind = "branch"
  BY <1>3, <1>6 DEF Holds
<1>15. \A i \in 1 .. Len(br) - 1 :
         Path(t)[n + 1 + i] \in 0 .. PTRS - 1 /\ mem[br[i]] = [Zeroes EXCEPT ![Path(t)[n + 1 + i]] = br[i + 1]]
  <2>. SUFFICES ASSUME NEW i \in 1 .. Len(br) - 1
                PROVE  Path(t)[n + 1 + i] \in 0 .. PTRS - 1 /\ mem[br[i]] = [Zeroes EXCEPT ![Path(t)[n + 1 + i]] = br[i + 1]]
    OBVIOUS
  <2>1. i \in 1 .. 3 /\ i \in DOMAIN br /\ i < Len(br) /\ n + 1 + i \in 2 .. l
    BY <1>3, <1>7, <1>11
  <2>3. mem[br[i]] = [Zeroes EXCEPT ![Path(t)[n + 1 + i]] = br[i + 1]]
    BY <1>16, <1>17, <2>1 DEF CallInv, BranchInv
  <2>4. Path(t)[n + 1 + i] \in 0 .. PTRS - 1
    BY <1>2, <2>1, PathFacts
  <2>. QED  BY <2>3, <2>4
<1>18. n \in 0 .. 2
  BY <1>7
<1>19. n + 1 \in 1 .. Len(Path(t)) /\ (n = 0 \/ c # NoBlock)
  BY <1>7, <1>8
<1>20. LevelOf(own, c, o) = Len(Path(t)) - (n + 1) /\ Len(br) = Len(Path(t)) - n
  BY <1>9, <1>11
<1>21. mem' = [mem EXCEPT ![c][o] = br[1]] /\ call' = [call EXCEPT ![p].pc = "done", ![p].result = br[Len(br)]]
  BY <1>1, <1>10, <1>12
<1>22. \A i \in 1 .. Len(br) : br[i] \in Block /\ own[br[i]].kind = "branch"
  BY <1>3, <1>14
<1>23. SpliceAt(p, own, n)
  BY <1>1, <1>2, <1>9, <1>10, <1>11, <1>13, <1>15, <1>19, <1>20, <1>21, <1>22, Zenon DEF SpliceAt
<1>. QED  BY <1>18, <1>23

LEMMA SpliceInv ==
  ASSUME IInv, NEW p \in Process, Splice(p)
  PROVE  IInv'
<1>. DEFINE t == call[p].sector
<1>. PICK br : br = branch[p]
  OBVIOUS
<1>. PICK ch : ch = chain[p]
  OBVIOUS
<1>1. /\ call[p].pc = "alloc" /\ Len(br) = Left(p)
      /\ IF Vacant(p)
         THEN /\ mem' = Stored(Last(ch).at, Head(br))
              /\ branch' = [branch EXCEPT ![p] = <<>>]
              /\ Done(p, Last(br))
         ELSE Go(p, "undo") /\ UNCHANGED <<mem, branch>>
      /\ UNCHANGED <<zmap, size, mutex, chain, tasks, unread>>
  BY DEF Splice
<1>2. Types /\ CallInv(p) /\ Apart
  BY DEF IInv
<1>3. CASE ~ Vacant(p)
  <2>1. Go(p, "undo") /\ UNCHANGED <<mem, branch>>
    BY <1>1, <1>3
  <2>2. /\ call' \in [Process -> CallType]
        /\ call'[p].pc = "undo" /\ call'[p].kind = call[p].kind
        /\ call'[p].sector = call[p].sector /\ call'[p].result = call[p].result
        /\ \A q \in Process : q # p => call'[q] = call[q]
    <3>. PICK r : r = call[p].result
      OBVIOUS
    <3>1. r \in Block \cup {NoBlock, EIO, ENOSPC} /\ "undo" \in Label
      BY <1>2, TypesOf DEF Label
    <3>. QED  BY <1>2, <2>1, <3>1, Moves
  <2>3. chain' \in [Process -> ChainType]
    BY <1>1, <1>2 DEF Types, ChainType
  <2>4. Discipline(p)'
    <3>1. Discipline(p)
      BY <1>2 DEF CallInv
    <3>. QED  BY <1>1, <2>1, <2>2, <3>1 DEF Discipline, Creates
  <2>5. ChainInv(p)'
    BY <2>2 DEF ChainInv
  <2>6. BranchInv(p)'
    BY <2>1, <2>2, <1>2 DEF CallInv, BranchInv
  <2>. QED  BY <1>1, <2>1, <2>2, <2>3, <2>4, <2>5, <2>6, QuietInv
<1>4. CASE Vacant(p)
  <2>. PICK own : Forest(own)
    BY DEF IInv
  <2>. PICK n \in 0 .. 2 : SpliceAt(p, own, n)
    BY <1>4, Spliced
  <2>. PICK l \in 1 .. 3 : l = Len(Path(t))
    BY PathLen DEF SpliceAt
  <2>. PICK c : c = Walk(mem, t, n)
    OBVIOUS
  <2>. PICK o : o = Path(t)[n + 1]
    OBVIOUS
  <2>1. branch' = [branch EXCEPT ![p] = <<>>] /\ call' = [call EXCEPT ![p].pc = "done", ![p].result = br[Len(br)]]
    BY DEF SpliceAt
  <2>2. t \in Sectors
    BY DEF SpliceAt
  <2>3. /\ br \in Seq(Block) /\ Len(br) \in Nat /\ DOMAIN br = 1 .. Len(br)
        /\ \A i \in 1 .. Len(br) : br[i] \in Block
    BY <1>2, TypesOf
  <2>6. Links(own, mem) /\ Holds(own) /\ Cutoff(own, unread) /\ own \in [Block -> Tags]
    BY DEF Forest, Links
  <2>7. n + 1 \in 1 .. l
    BY DEF SpliceAt
  <2>8. n = 0 \/ c # NoBlock
    BY DEF SpliceAt
  <2>9. /\ c \in Container /\ IsTable(own, c) /\ o \in Pointer(c)
        /\ LevelOf(own, c, o) = l - (n + 1)
        /\ c # Inode => own[c].kind = "pointed"
    BY DEF SpliceAt
  <2>10. mem[c][o] = NoBlock /\ mem' = [mem EXCEPT ![c][o] = br[1]]
    BY DEF SpliceAt
  <2>11. Len(br) = l - n /\ Len(br) \in 1 .. 3 /\ Len(br) = LevelOf(own, c, o) + 1
    <3>1. Len(br) = l - n /\ Len(br) \in 1 .. 3
      BY DEF SpliceAt
    <3>. PICK k : k = Len(br)
      OBVIOUS
    <3>2. k = l - n /\ n + 1 \in 1 .. l
      BY <2>7, <3>1
    <3>3. k = l - (n + 1) + 1
      BY <3>2, LeftOf
    <3>. QED  BY <2>9, <3>1, <3>3
  <2>12. Len(br) \in DOMAIN br
    BY <2>3, <2>11
  <2>. PICK off : off = [i \in 1 .. 3 |-> Path(t)[n + 1 + i]]
    OBVIOUS
  <2>13. \A i, j \in 1 .. Len(br) : br[i] = br[j] => i = j
    BY Zenon DEF SpliceAt
  <2>14. \A i \in 1 .. Len(br) : own[br[i]].kind = "branch"
    BY Zenon DEF SpliceAt
  <2>15. \A i \in 1 .. Len(br) - 1 :
           off[i] \in 0 .. PTRS - 1 /\ mem[br[i]] = [Zeroes EXCEPT ![off[i]] = br[i + 1]]
    <3>1. \A i \in 1 .. Len(br) - 1 :
            /\ Path(t)[n + 1 + i] \in 0 .. PTRS - 1
            /\ mem[br[i]] = [Zeroes EXCEPT ![Path(t)[n + 1 + i]] = br[i + 1]]
      BY Zenon DEF SpliceAt
    <3>2. \A i \in 1 .. Len(br) - 1 : off[i] = Path(t)[n + 1 + i]
      BY <2>11
    <3>. QED  BY <3>1, <3>2
  <2>16. PICK own2 : Hung(own, own2, c, o, br, off) /\ Links(own2, [mem EXCEPT ![c][o] = br[1]])
    <3>1. AllBranch(own, br) /\ Strung(own, mem, c, o, br, off)
      BY <2>11, <2>13, <2>14, <2>15 DEF AllBranch, Strung
    <3>. QED  BY <3>1, <2>3, <2>6, <2>9, <2>10, Hang
  <2>17. Links(own2, mem')
    BY <2>10, <2>12, <2>16
  <2>18. c # Inode => c \notin unread
    <3>. SUFFICES ASSUME c # Inode PROVE c \notin unread
      OBVIOUS
    <3>1. n \in 1 .. l /\ Walk(mem, t, n) # NoBlock
      <4>1. n # 0
        BY DEF Walk
      <4>. QED  BY <4>1, <2>7, <2>8
    <3>. QED  BY <3>1, <2>2, <2>6, CutoffWalk
  <2>19. Cutoff(own2, unread')
    <3>1. Cutoff(own2, unread)
      <4>1. AllBranch(own, br)
        BY <2>14 DEF AllBranch
      <4>. QED  BY <2>3, <2>6, <2>9, <2>16, <2>18, <4>1, CutoffHung
    <3>. QED  BY <3>1, <1>1
  <2>20. /\ \A x \in Block : x \notin Range(br) => own2[x] = own[x]
         /\ \A x \in Range(br) : x \in Block /\ own[x].kind = "branch" /\ own2[x].kind = "pointed"
    <3>1. ASSUME NEW x \in Block, x \notin Range(br) PROVE own2[x] = own[x]
      <4>1. \A i \in 1 .. Len(br) : br[i] # x
        BY <2>3, <3>1 DEF Range
      <4>. QED  BY <4>1, <2>16 DEF Hung
    <3>2. ASSUME NEW i \in 1 .. Len(br)
          PROVE  br[i] \in Block /\ own[br[i]].kind = "branch" /\ own2[br[i]].kind = "pointed"
      BY <2>3, <2>14, <2>16, HungTags
    <3>. QED  BY <3>1, <3>2, <2>3 DEF Range
  <2>21. branch' \in [Process -> Seq(Block)] /\ branch'[p] = <<>> /\ \A q \in Process : q # p => branch'[q] = branch[q]
    BY <1>2, <2>1 DEF Types
  <2>. PICK r : r = br[Len(br)]
    OBVIOUS
  <2>22. r \in Block /\ r # NoBlock /\ r \in Block \cup {NoBlock, EIO, ENOSPC}
    BY <2>3, <2>12, BlockFacts
  <2>23. /\ call' \in [Process -> CallType]
         /\ call'[p].pc = "done" /\ call'[p].kind = call[p].kind
         /\ call'[p].sector = call[p].sector /\ call'[p].result = r
         /\ \A q \in Process : q # p => call'[q] = call[q]
    <3>1. "done" \in Label
      BY DEF Label
    <3>2. call' = [call EXCEPT ![p].pc = "done", ![p].result = r]
      BY <2>1
    <3>3. Types /\ r \in Block \cup {NoBlock, EIO, ENOSPC}
      BY <1>2, <2>22
    <3>4. call' \in [Process -> CallType]
      BY <3>1, <3>2, <3>3, Moves, Zenon
    <3>5. call'[p].pc = "done"
      BY <3>1, <3>2, <3>3, Moves, Zenon
    <3>6. call'[p].kind = call[p].kind
      BY <3>1, <3>2, <3>3, Moves, Zenon
    <3>7. call'[p].sector = call[p].sector
      BY <3>1, <3>2, <3>3, Moves, Zenon
    <3>8. call'[p].result = r
      <4>1. call \in [Process -> CallType]
        BY <3>3 DEF Types, CallType
      <4>2. call' = [call EXCEPT ![p] = [call[p] EXCEPT !.pc = "done", !.result = r]]
        BY <3>2, <4>1
      <4>3. call'[p] = [call[p] EXCEPT !.pc = "done", !.result = r]
        BY <4>1, <4>2
      <4>. QED  BY <4>1, <4>3 DEF CallType
    <3>9. \A q \in Process : q # p => call'[q] = call[q]
      BY <3>1, <3>2, <3>3, Moves, Zenon
    <3>. QED  BY <3>4, <3>5, <3>6, <3>7, <3>8, <3>9
  <2>24. ASSUME NEW q \in Process, q # p, NEW i \in DOMAIN branch[q]
         PROVE  branch[q][i] \notin Range(br) /\ branch[q][i] \in Block /\ own[branch[q][i]].kind = "branch"
    <3>1. branch[q][i] \in Block /\ own[branch[q][i]].kind = "branch"
      BY <1>2, <2>6, <2>24, TypesOf DEF Holds
    <3>2. branch[q][i] \notin Range(br)
      BY <1>2, <2>24 DEF Apart, Range
    <3>. QED  BY <3>1, <3>2
  <2>25. Holds(own2)'
    <3>1. \A b \in Block : own2[b].kind = "free" <=> b \notin zmap'
      BY <1>1, <2>6, <2>20 DEF Holds
    <3>2. \A q \in Process : \A i \in DOMAIN branch'[q] : own2[branch'[q][i]].kind = "branch"
      <4>. SUFFICES ASSUME NEW q \in Process, NEW i \in DOMAIN branch'[q] PROVE own2[branch'[q][i]].kind = "branch"
        OBVIOUS
      <4>1. q # p
        BY <2>21
      <4>2. branch'[q] = branch[q]
        BY <2>21, <4>1
      <4>3. /\ branch[q][i] \notin Range(br) /\ branch[q][i] \in Block
            /\ own[branch[q][i]].kind = "branch"
        BY <4>1, <4>2, <2>24
      <4>. QED  BY <4>2, <4>3, <2>20
    <3>3. \A b \in Block : own2[b].kind = "branch" => \E q \in Process : b \in Range(branch'[q])
      <4>. SUFFICES ASSUME NEW b \in Block, own2[b].kind = "branch" PROVE \E q \in Process : b \in Range(branch'[q])
        OBVIOUS
      <4>1. b \notin Range(br) /\ own[b].kind = "branch"
        BY <2>20
      <4>2. PICK q \in Process : b \in Range(branch[q])
        BY <2>6, <4>1 DEF Holds
      <4>3. q # p
        BY <4>1, <4>2
      <4>. QED  BY <4>2, <4>3, <2>21
    <3>4. ASSUME NEW q \in Process, call'[q].pc = "free", NEW i \in DOMAIN tasks'[q], tasks'[q][i].op = "whole"
          PROVE own2[tasks'[q][i].at] = Loose("whole", tasks'[q][i].depth)
      <4>1. q # p /\ call[q].pc = "free" /\ tasks'[q] = tasks[q]
        BY <3>4, <2>23, <1>1
      <4>2. own[tasks[q][i].at] = Loose("whole", tasks[q][i].depth)
        BY <2>6, <3>4, <4>1 DEF Holds
      <4>3. tasks[q][i].at \in Block
        BY <1>2, <3>4, <4>1, TypesOf DEF Task
      <4>4. tasks[q][i].at \notin Range(br)
        BY <2>20, <4>2 DEF Loose, Tag
      <4>. QED  BY <2>20, <4>1, <4>2, <4>3, <4>4
    <3>5. ASSUME NEW b \in Block, own2[b].kind = "whole"
          PROVE \E q \in Process : call'[q].pc = "free" /\
                  \E i \in DOMAIN tasks'[q] : tasks'[q][i].op = "whole" /\ tasks'[q][i].at = b
      <4>1. own[b].kind = "whole"
        BY <2>20, <3>5
      <4>2. PICK q \in Process : call[q].pc = "free" /\
                  \E i \in DOMAIN tasks[q] : tasks[q][i].op = "whole" /\ tasks[q][i].at = b
        BY <2>6, <4>1 DEF Holds
      <4>3. q # p
        BY <4>2, <1>1
      <4>. QED  BY <4>2, <4>3, <2>23, <1>1
    <3>. QED  BY <3>1, <3>2, <3>3, <3>4, <3>5 DEF Holds
  <2>26. Forest(own2)'
    BY <2>17, <2>19, <2>25 DEF Forest
  <2>27. Types'
    BY <1>1, <1>2, <2>21, <2>23 DEF Types, CallType
  <2>28. CallInv(p)'
    <3>1. Discipline(p)'
      <4>1. Discipline(p)
        BY <1>2 DEF CallInv
      <4>. QED  BY <1>1, <2>21, <2>22, <2>23, <4>1 DEF Discipline, Creates
    <3>2. ChainInv(p)' /\ BranchInv(p)' /\ TasksInv(p)'
      BY <2>21, <2>23 DEF ChainInv, BranchInv, TasksInv
    <3>. QED  BY <3>1, <3>2 DEF CallInv
  <2>29. Keeps(own, mem, mem')
    <3>1. \A x \in Container : \A y \in Pointer(x) : (x # c \/ y # o) => mem'[x][y] = mem[x][y]
      BY <2>6, <2>10 DEF Links
    <3>. QED  BY <2>10, <3>1 DEF Keeps
  <2>30. ASSUME NEW q \in Process, q # p PROVE CallInv(q)'
    <3>1. call'[q] = call[q] /\ chain'[q] = chain[q] /\ branch'[q] = branch[q] /\ tasks'[q] = tasks[q]
      BY <2>30, <2>21, <2>23, <1>1
    <3>2. call[q].kind = "writepage" => call[q].sector < size'
      BY <1>1 DEF IInv, CallInv, Discipline
    <3>3. size' = size /\ mutex' = mutex
      BY <1>1
    <3>4. CallInv(q) /\ Types /\ Links(own, mem)
      BY <2>6 DEF IInv
    <3>5. \A i \in DOMAIN branch[q] : mem'[branch[q][i]] = mem[branch[q][i]]
      <4>. SUFFICES ASSUME NEW i \in DOMAIN branch[q] PROVE mem'[branch[q][i]] = mem[branch[q][i]]
        OBVIOUS
      <4>1. branch[q][i] # c
        BY <2>9, <2>24, <2>30, BlockFacts
      <4>. QED  BY <2>10, <4>1
    <3>. QED  BY <3>1, <3>2, <3>3, <3>4, <3>5, <2>29, OthersKeep
  <2>31. Apart'
    <3>1. ASSUME NEW q \in Process, NEW x \in Process, NEW i \in DOMAIN branch'[q], NEW j \in DOMAIN branch'[x],
                 branch'[q][i] = branch'[x][j]
          PROVE  q = x
      <4>1. q # p /\ x # p
        BY <2>21
      <4>2. branch'[q] = branch[q] /\ branch'[x] = branch[x]
        BY <2>21, <4>1
      <4>. QED  BY <1>2, <3>1, <4>2 DEF Apart
    <3>. QED  BY <3>1 DEF Apart
  <2>. QED  BY <2>26, <2>27, <2>28, <2>30, <2>31 DEF IInv
<1>. QED  BY <1>3, <1>4

-----------------------------------------------------------------------------
(* truncate()                                                              *)

LEMMA TruncatedInv ==
  ASSUME IInv, NEW p \in Process, Truncated(p)
  PROVE  IInv'
<1>1. /\ call[p].pc = "free" /\ tasks[p] = <<>> /\ Go(p, "done")
      /\ UNCHANGED <<zmap, mem, size, mutex, chain, branch, tasks, unread>>
  BY DEF Truncated
<1>2. Types /\ CallInv(p)
  BY DEF IInv
<1>3. /\ call' \in [Process -> CallType]
      /\ call'[p].pc = "done" /\ call'[p].kind = call[p].kind
      /\ call'[p].sector = call[p].sector /\ call'[p].result = call[p].result
      /\ \A q \in Process : q # p => call'[q] = call[q]
  <2>. PICK r : r = call[p].result
    OBVIOUS
  <2>1. r \in Block \cup {NoBlock, EIO, ENOSPC} /\ "done" \in Label
    BY <1>2, TypesOf DEF Label
  <2>. QED  BY <1>1, <1>2, <2>1, Moves
<1>4. chain' \in [Process -> ChainType]
  BY <1>1, <1>2 DEF Types, ChainType
<1>5. Discipline(p)'
  <2>1. Discipline(p)
    BY <1>2 DEF CallInv
  <2>. QED  BY <1>1, <1>3, <2>1 DEF Discipline, Creates
<1>6. ChainInv(p)'
  BY <1>3 DEF ChainInv
<1>7. BranchInv(p)'
  BY <1>1, <1>2, <1>3 DEF CallInv, BranchInv
<1>. QED  BY <1>1, <1>3, <1>4, <1>5, <1>6, <1>7, QuietInv

(* The blocks to be freed whole are those of the tasks ts.                 *)
WholeOf(own, ts) ==
  /\ \A i \in DOMAIN ts : ts[i].op = "whole" => own[ts[i].at] = Loose("whole", ts[i].depth)
  /\ \A b \in Block : own[b].kind = "whole" =>
       \E i \in DOMAIN ts : ts[i].op = "whole" /\ ts[i].at = b

(* Only the holder of i_mutex has tasks.                                   *)
LEMMA TasksAlone ==
  ASSUME IInv, NEW p \in Process, call[p].pc \in {"shared", "free"}, NEW own, Forest(own)
  PROVE  /\ mutex = p /\ call[p].kind = "truncate" /\ branch[p] = <<>>
         /\ \A q \in Process : q # p => call[q].pc # "free" /\ mutex # q
         /\ call[p].pc = "free" => WholeOf(own, tasks[p])
         /\ call[p].pc = "shared" => \A b \in Block : own[b].kind # "whole"
         /\ size \in Sectors /\ call[p].sector = size
<1>1. \A q \in Process : CallInv(q)
  BY DEF IInv
<1>2. call[p].kind = "truncate" /\ mutex = p /\ branch[p] = <<>>
  BY <1>1 DEF CallInv, Discipline
<1>3. \A q \in Process : q # p => call[q].pc # "free" /\ mutex # q
  <2>. SUFFICES ASSUME NEW q \in Process, q # p PROVE call[q].pc # "free" /\ mutex # q
    OBVIOUS
  <2>1. Discipline(q)
    BY <1>1 DEF CallInv
  <2>. QED  BY <1>2, <2>1 DEF Discipline
<1>4. \A b \in Block : own[b].kind = "whole" => call[p].pc = "free" /\
        \E i \in DOMAIN tasks[p] : tasks[p][i].op = "whole" /\ tasks[p][i].at = b
  <2>. SUFFICES ASSUME NEW b \in Block, own[b].kind = "whole"
                PROVE  call[p].pc = "free" /\
                         \E i \in DOMAIN tasks[p] : tasks[p][i].op = "whole" /\ tasks[p][i].at = b
    OBVIOUS
  <2>1. PICK q \in Process : call[q].pc = "free" /\
          \E i \in DOMAIN tasks[q] : tasks[q][i].op = "whole" /\ tasks[q][i].at = b
    BY DEF Forest, Holds
  <2>2. q = p
    BY <1>3, <2>1
  <2>. QED  BY <2>1, <2>2
<1>5. call[p].pc = "free" => WholeOf(own, tasks[p])
  BY <1>4 DEF WholeOf, Forest, Holds
<1>6. call[p].sector = size /\ call[p].sector < NSectors
  BY <1>1, <1>2 DEF CallInv, Discipline
<1>7. size \in Sectors
  <2>1. size \in 0 .. NSectors /\ size < NSectors
    BY <1>6 DEF IInv, Types
  <2>. QED  BY <2>1, Constants DEF Sectors
<1>. QED  BY <1>2, <1>3, <1>4, <1>5, <1>6, <1>7

(* What a step of truncate() has to show.                                  *)
LEMMA TruncStep ==
  ASSUME IInv, NEW p \in Process, call[p].pc \in {"shared", "free"},
         NEW own, Forest(own),
         UNCHANGED <<size, mutex, branch>>, zmap' \subseteq Block,
         call' \in [Process -> CallType], \A q \in Process : q # p => call'[q] = call[q],
         chain' \in [Process -> ChainType], \A q \in Process : q # p => chain'[q] = chain[q],
         tasks' \in [Process -> Seq(Task)], \A q \in Process : q # p => tasks'[q] = tasks[q],
         \A b \in Block : own[b].kind = "branch" => mem'[b] = mem[b],
         Discipline(p)', call'[p].pc = "free", TasksOk(mem', tasks'[p], size),
         NEW own2, Links(own2, mem'), Cutoff(own2, unread'),
         \A b \in Block : own2[b].kind = "free" <=> b \notin zmap',
         \A b \in Block : own2[b].kind = "branch" <=> own[b].kind = "branch",
         WholeOf(own2, tasks'[p])
  PROVE  IInv'
<1>1. Types /\ Apart /\ \A q \in Process : CallInv(q)
  BY DEF IInv
<1>2. /\ mutex = p /\ branch[p] = <<>>
      /\ \A q \in Process : q # p => call[q].pc # "free" /\ mutex # q
  BY TasksAlone
<1>3. Types'
  BY <1>1 DEF Types, CallType, ChainType
<1>4. CallInv(p)'
  <2>1. ChainInv(p)'
    BY DEF ChainInv
  <2>2. BranchInv(p)'
    BY <1>2 DEF BranchInv
  <2>3. TasksInv(p)'
    BY DEF TasksInv
  <2>. QED  BY <2>1, <2>2, <2>3 DEF CallInv
<1>5. Links(own, mem) /\ Holds(own)
  BY DEF Forest
<1>6. ASSUME NEW q \in Process, q # p PROVE CallInv(q)'
  <2>1. call'[q] = call[q] /\ chain'[q] = chain[q] /\ branch'[q] = branch[q] /\ tasks'[q] = tasks[q]
    BY <1>6
  <2>2. call[q].kind = "writepage" => call[q].sector < size'
    BY <1>1 DEF CallInv, Discipline
  <2>3. mutex # q /\ mutex' = mutex
    BY <1>2, <1>6
  <2>4. \A i \in DOMAIN branch[q] : mem'[branch[q][i]] = mem[branch[q][i]]
    <3>. SUFFICES ASSUME NEW i \in DOMAIN branch[q] PROVE mem'[branch[q][i]] = mem[branch[q][i]]
      OBVIOUS
    <3>1. own[branch[q][i]].kind = "branch" /\ branch[q][i] \in Block
      BY <1>1, <1>5, TypesOf DEF Holds
    <3>. QED  BY <3>1
  <2>5. CallInv(q)
    BY <1>1
  <2>. QED  BY <1>1, <1>5, <2>1, <2>2, <2>3, <2>4, <2>5, OthersKeep
<1>7. Apart'
  BY <1>1, ApartQuiet
<1>8. Holds(own2)'
  <2>1. \A q \in Process : \A i \in DOMAIN branch'[q] : own2[branch'[q][i]].kind = "branch"
    <3>. SUFFICES ASSUME NEW q \in Process, NEW i \in DOMAIN branch[q] PROVE own2[branch[q][i]].kind = "branch"
      OBVIOUS
    <3>1. own[branch[q][i]].kind = "branch" /\ branch[q][i] \in Block
      BY <1>1, <1>5, TypesOf DEF Holds
    <3>. QED  BY <3>1
  <2>2. \A b \in Block : own2[b].kind = "branch" => \E q \in Process : b \in Range(branch'[q])
    BY <1>5 DEF Holds
  <2>3. \A q \in Process : call'[q].pc = "free" => q = p
    BY <1>2
  <2>4. \A q \in Process : call'[q].pc = "free" =>
          \A i \in DOMAIN tasks'[q] : tasks'[q][i].op = "whole" =>
            own2[tasks'[q][i].at] = Loose("whole", tasks'[q][i].depth)
    BY <2>3 DEF WholeOf
  <2>5. \A b \in Block : own2[b].kind = "whole" =>
          \E q \in Process : call'[q].pc = "free" /\
            \E i \in DOMAIN tasks'[q] : tasks'[q][i].op = "whole" /\ tasks'[q][i].at = b
    BY DEF WholeOf
  <2>. QED  BY <2>1, <2>2, <2>4, <2>5 DEF Holds
<1>9. Forest(own2)'
  BY <1>8 DEF Forest
<1>. QED  BY <1>3, <1>4, <1>6, <1>7, <1>9 DEF IInv

(* The ends that are still to clear, while no pointer above them changes.  *)
LEMMA EndsKept ==
  ASSUME NEW own, NEW m, Links(own, m), NEW m2, Keeps(own, m, m2), NEW s \in Sectors,
         NEW t \in Task, EndsAt(m, t, s)
  PROVE  EndsAt(m2, t, s)
<1>1. CASE t.at = Inode
  BY <1>1 DEF EndsAt
<1>2. CASE t.at # Inode
  <2>. PICK k : k = Len(Path(s)) - t.depth
    OBVIOUS
  <2>1. k > 1 /\ t.at = Walk(m, s, k - 1)
    BY <1>2 DEF EndsAt
  <2>2. t.depth \in 0 .. 2
    BY DEF Task
  <2>3. k - 1 \in 0 .. Len(Path(s)) /\ k - 1 # 0
    BY <2>1, <2>2, PathLen
  <2>4. Walk(m, s, k - 1) # NoBlock
    BY <1>2, <2>1, BlockFacts
  <2>5. \A j \in 0 .. k - 1 : Walk(m2, s, j) = Walk(m, s, j)
    BY <2>3, <2>4, WalkKeeps
  <2>6. Walk(m2, s, k - 1) = Walk(m, s, k - 1)
    BY <2>3, <2>5
  <2>. QED  BY <1>2, <2>6 DEF EndsAt
<1>. QED  BY <1>1, <1>2

(* The first of the tasks of p and the others.                             *)
Rest(p) == Tail(tasks[p])

TopFacts(p, own) ==
  /\ Top(p) \in Task /\ Rest(p) \in Seq(Task) /\ TasksOk(mem, Rest(p), size)
  /\ Top(p).op = "cells" => EndsAt(mem, Top(p), size)
  /\ Top(p).op = "whole" => /\ Top(p).read => Top(p).depth > 0
                            /\ own[Top(p).at] = Loose("whole", Top(p).depth)
  /\ \A j \in DOMAIN Rest(p) :
       /\ Before(Top(p), Rest(p)[j]) /\ Rest(p)[j] \in Task
       /\ Rest(p)[j].op = "whole" => /\ own[Rest(p)[j].at] = Loose("whole", Rest(p)[j].depth)
                                     /\ Top(p).op = "whole" /\ Rest(p)[j].at # Top(p).at
  /\ \A b \in Block : own[b].kind = "whole" =>
       \/ Top(p).op = "whole" /\ Top(p).at = b
       \/ \E j \in DOMAIN Rest(p) : Rest(p)[j].op = "whole" /\ Rest(p)[j].at = b

LEMMA TopTask ==
  ASSUME IInv, NEW p \in Process, call[p].pc = "free", tasks[p] # <<>>, NEW own, Forest(own)
  PROVE  TopFacts(p, own)
<1>. PICK ts : ts = tasks[p]
  OBVIOUS
<1>. PICK h : h = Top(p)
  OBVIOUS
<1>. PICK r : r = Rest(p)
  OBVIOUS
<1>1. Types /\ CallInv(p)
  BY DEF IInv
<1>2. ts \in Seq(Task) /\ Len(ts) \in Nat /\ DOMAIN ts = 1 .. Len(ts) /\ \A i \in 1 .. Len(ts) : ts[i] \in Task
  BY <1>1, TypesOf
<1>3. /\ h = ts[1] /\ r \in Seq(Task) /\ Len(ts) > 0 /\ DOMAIN r = 1 .. Len(ts) - 1
      /\ \A j \in 1 .. Len(ts) - 1 : r[j] = ts[j + 1]
  BY <1>2, HeadTailProperties, EmptySeq DEF Top, Rest
<1>4. TasksOk(mem, ts, size)
  BY <1>1 DEF CallInv, TasksInv
<1>5. WholeOf(own, ts)
  BY TasksAlone
<1>6. 1 \in DOMAIN ts /\ \A j \in DOMAIN r : j + 1 \in DOMAIN ts /\ 1 < j + 1 /\ r[j] = ts[j + 1] /\ j \in Nat
  BY <1>2, <1>3
<1>7. h \in Task
  BY <1>2, <1>3, <1>6
<1>8. TasksOk(mem, r, size)
  <2>1. ASSUME NEW i \in DOMAIN r, NEW j \in DOMAIN r, i < j PROVE Before(r[i], r[j])
    <3>1. i + 1 < j + 1
      BY <1>6, <2>1
    <3>. QED  BY <3>1, <1>4, <1>6 DEF TasksOk
  <2>. QED  BY <2>1, <1>4, <1>6 DEF TasksOk
<1>9. /\ h.op = "cells" => EndsAt(mem, h, size)
      /\ h.op = "whole" => /\ h.read => h.depth > 0
                           /\ own[h.at] = Loose("whole", h.depth)
  BY <1>3, <1>4, <1>5, <1>6 DEF TasksOk, WholeOf
<1>10. ASSUME NEW j \in DOMAIN r
       PROVE  /\ Before(h, r[j]) /\ r[j] \in Task
              /\ r[j].op = "whole" => /\ own[r[j].at] = Loose("whole", r[j].depth)
                                      /\ h.op = "whole" /\ r[j].at # h.at
  <2>1. Before(h, r[j]) /\ r[j] \in Task
    BY <1>2, <1>3, <1>4, <1>6 DEF TasksOk
  <2>2. ASSUME r[j].op = "whole"
        PROVE  own[r[j].at] = Loose("whole", r[j].depth) /\ h.op = "whole" /\ r[j].at # h.at
    <3>1. own[r[j].at] = Loose("whole", r[j].depth)
      BY <2>2, <1>5, <1>6 DEF WholeOf
    <3>2. h.op = "whole"
      BY <2>1, <2>2 DEF Before
    <3>3. h.depth < r[j].depth
      BY <2>1, <2>2, <3>2 DEF Before
    <3>4. own[r[j].at].lev = r[j].depth /\ own[h.at].lev = h.depth
      BY <3>1, <3>2, <1>9 DEF Loose, Tag
    <3>5. h.depth \in Nat
      BY <3>2, <1>7 DEF Task
    <3>6. r[j].at # h.at
      <4>. SUFFICES ASSUME r[j].at = h.at PROVE FALSE
        OBVIOUS
      <4>1. r[j].depth = h.depth
        BY <3>4
      <4>. QED  BY <4>1, <3>3, <3>5
    <3>. QED  BY <3>1, <3>2, <3>6
  <2>. QED  BY <2>1, <2>2
<1>11. ASSUME NEW b \in Block, own[b].kind = "whole"
       PROVE  \/ h.op = "whole" /\ h.at = b
              \/ \E j \in DOMAIN r : r[j].op = "whole" /\ r[j].at = b
  <2>1. PICK i \in DOMAIN ts : ts[i].op = "whole" /\ ts[i].at = b
    BY <1>5, <1>11 DEF WholeOf
  <2>2. CASE i = 1
    BY <2>1, <2>2, <1>3
  <2>3. CASE i # 1
    <3>1. i - 1 \in DOMAIN r /\ (i - 1) + 1 = i
      BY <1>2, <1>3, <2>3
    <3>2. r[i - 1] = ts[i]
      BY <1>6, <3>1
    <3>. QED  BY <2>1, <3>1, <3>2
  <2>. QED  BY <2>2, <2>3
<1>. QED  BY <1>3, <1>7, <1>8, <1>9, <1>10, <1>11 DEF TopFacts

LEMMA WholeConcat ==
  ASSUME NEW own, NEW a \in Seq(Task), NEW b \in Seq(Task),
         \A i \in DOMAIN a : a[i].op = "whole" => own[a[i].at] = Loose("whole", a[i].depth),
         \A i \in DOMAIN b : b[i].op = "whole" => own[b[i].at] = Loose("whole", b[i].depth),
         \A x \in Block : own[x].kind = "whole" =>
           \/ \E i \in DOMAIN a : a[i].op = "whole" /\ a[i].at = x
           \/ \E i \in DOMAIN b : b[i].op = "whole" /\ b[i].at = x
  PROVE  WholeOf(own, a \o b)
<1>. PICK c : c = a \o b
  OBVIOUS
<1>1. /\ c \in Seq(Task) /\ Len(c) = Len(a) + Len(b)
      /\ \A i \in 1 .. Len(c) : c[i] = IF i <= Len(a) THEN a[i] ELSE b[i - Len(a)]
  BY ConcatProperties
<1>2. /\ DOMAIN a = 1 .. Len(a) /\ DOMAIN b = 1 .. Len(b) /\ DOMAIN c = 1 .. Len(c)
      /\ Len(a) \in Nat /\ Len(b) \in Nat
  BY <1>1, LenProperties
<1>3. ASSUME NEW i \in DOMAIN c
      PROVE  \/ i \in DOMAIN a /\ c[i] = a[i]
             \/ i - Len(a) \in DOMAIN b /\ c[i] = b[i - Len(a)]
  <2>1. i \in 1 .. Len(a) + Len(b)
    BY <1>1, <1>2
  <2>2. CASE i <= Len(a)
    BY <1>1, <1>2, <2>1, <2>2
  <2>3. CASE ~ (i <= Len(a))
    <3>1. i - Len(a) \in 1 .. Len(b)
      BY <1>2, <2>1, <2>3
    <3>. QED  BY <1>1, <1>2, <2>1, <2>3, <3>1
  <2>. QED  BY <2>2, <2>3
<1>4. \A i \in DOMAIN a : i \in DOMAIN c /\ c[i] = a[i]
  BY <1>1, <1>2
<1>5. \A i \in DOMAIN b : i + Len(a) \in DOMAIN c /\ c[i + Len(a)] = b[i]
  <2>. SUFFICES ASSUME NEW i \in DOMAIN b PROVE i + Len(a) \in DOMAIN c /\ c[i + Len(a)] = b[i]
    OBVIOUS
  <2>1. i + Len(a) \in 1 .. Len(c) /\ ~ (i + Len(a) <= Len(a)) /\ (i + Len(a)) - Len(a) = i
    BY <1>1, <1>2
  <2>. QED  BY <2>1, <1>1, <1>2
<1>6. ASSUME NEW x \in Block, own[x].kind = "whole"
      PROVE  \E i \in DOMAIN c : c[i].op = "whole" /\ c[i].at = x
  BY <1>4, <1>5, <1>6
<1>7. \A i \in DOMAIN c : c[i].op = "whole" => own[c[i].at] = Loose("whole", c[i].depth)
  BY <1>3
<1>. QED  BY <1>6, <1>7 DEF WholeOf

(* A step of free_data() or free_branches(): new instead of the first.     *)
NewTasks(p, own2, new) ==
  /\ new \in Seq(Task) /\ TasksOk(mem', new, size)
  /\ \A i \in DOMAIN new : /\ new[i].op = "whole" => own2[new[i].at] = Loose("whole", new[i].depth)
                           /\ \A j \in DOMAIN Rest(p) : Before(new[i], Rest(p)[j])
  /\ \A j \in DOMAIN Rest(p) : Rest(p)[j].op = "whole" =>
       own2[Rest(p)[j].at] = Loose("whole", Rest(p)[j].depth)
  /\ \A x \in Block : own2[x].kind = "whole" =>
       \/ \E i \in DOMAIN new : new[i].op = "whole" /\ new[i].at = x
       \/ \E j \in DOMAIN Rest(p) : Rest(p)[j].op = "whole" /\ Rest(p)[j].at = x

LEMMA FreeStep ==
  ASSUME IInv, NEW p \in Process, call[p].pc = "free", tasks[p] # <<>>,
         NEW own, Forest(own), NEW new, Becomes(p, new),
         UNCHANGED <<size, mutex, call, chain, branch>>, zmap' \subseteq Block,
         \A b \in Block : own[b].kind = "branch" => mem'[b] = mem[b],
         NEW own2, Links(own2, mem'), Cutoff(own2, unread'),
         \A b \in Block : own2[b].kind = "free" <=> b \notin zmap',
         \A b \in Block : own2[b].kind = "branch" <=> own[b].kind = "branch",
         NewTasks(p, own2, new), TasksOk(mem', Rest(p), size)
  PROVE  IInv'
<1>1. Types /\ CallInv(p)
  BY DEF IInv
<1>2. TopFacts(p, own)
  BY TopTask
<1>. PICK r : r = Rest(p)
  OBVIOUS
<1>3. r \in Seq(Task) /\ new \in Seq(Task)
  BY <1>2 DEF TopFacts, NewTasks
<1>. PICK ts : ts = new \o r
  OBVIOUS
<1>4. tasks' = [tasks EXCEPT ![p] = ts]
  BY DEF Becomes, Rest
<1>5. ts \in Seq(Task) /\ TasksOk(mem', ts, size)
  <2>. PICK m2 : m2 = mem'
    OBVIOUS
  <2>1. TasksOk(m2, new, size) /\ TasksOk(m2, r, size) /\ \A i \in DOMAIN new, j \in DOMAIN r : Before(new[i], r[j])
    BY DEF NewTasks
  <2>2. new \o r \in Seq(Task) /\ TasksOk(m2, new \o r, size)
    BY <1>3, <2>1, ConcatTasks
  <2>. QED  BY <2>2
<1>6. tasks' \in [Process -> Seq(Task)] /\ tasks'[p] = ts /\ \A q \in Process : q # p => tasks'[q] = tasks[q]
  BY <1>1, <1>4, <1>5 DEF Types
<1>7. WholeOf(own2, tasks'[p])
  <2>1. WholeOf(own2, new \o r)
    BY <1>3, WholeConcat DEF NewTasks
  <2>. QED  BY <2>1, <1>6
<1>8. call' \in [Process -> CallType] /\ chain' \in [Process -> ChainType]
  BY <1>1 DEF Types, CallType, ChainType
<1>9. Discipline(p)'
  <2>1. Discipline(p)
    BY <1>1 DEF CallInv
  <2>. QED  BY <2>1 DEF Discipline, Creates
<1>10. TasksOk(mem', tasks'[p], size) /\ call'[p].pc = "free"
  BY <1>5, <1>6
<1>. QED  BY <1>6, <1>7, <1>8, <1>9, <1>10, TruncStep

LEMMA RestKept ==
  ASSUME IInv, NEW p \in Process, call[p].pc = "free", tasks[p] # <<>>,
         NEW own, Forest(own), Keeps(own, mem, mem')
  PROVE  TasksOk(mem', Rest(p), size)
<1>. PICK r : r = Rest(p)
  OBVIOUS
<1>1. r \in Seq(Task) /\ TasksOk(mem, r, size) /\ \A j \in DOMAIN r : r[j] \in Task
  BY TopTask DEF TopFacts
<1>2. size \in Sectors /\ Links(own, mem)
  BY TasksAlone DEF Forest
<1>3. \A j \in DOMAIN r : r[j].op = "cells" => EndsAt(mem', r[j], size)
  BY <1>1, <1>2, EndsKept DEF TasksOk
<1>4. TasksOk(mem', r, size)
  BY <1>1, <1>3 DEF TasksOk
<1>. QED  BY <1>4

LEMMA NoTasks ==
  ASSUME NEW m, NEW s
  PROVE  <<>> \in Seq(Task) /\ TasksOk(m, <<>>, s) /\ DOMAIN <<>> = {}
<1>1. <<>> \in Seq(Task) /\ DOMAIN <<>> = {}
  OBVIOUS
<1>. QED  BY <1>1 DEF TasksOk

LEMMA EndsClearInv ==
  ASSUME IInv, NEW p \in Process, EndsClear(p)
  PROVE  IInv'
<1>1. /\ call[p].pc = "free" /\ tasks[p] # <<>> /\ Top(p).op = "cells" /\ Becomes(p, <<>>)
      /\ UNCHANGED <<zmap, mem, size, mutex, call, chain, branch, unread>>
  BY DEF EndsClear, Freeing
<1>2. PICK own : Forest(own)
  BY DEF IInv
<1>3. TopFacts(p, own)
  BY <1>1, <1>2, TopTask
<1>4. Links(own, mem') /\ Cutoff(own, unread') /\ Keeps(own, mem, mem')
  BY <1>1, <1>2 DEF Forest, Keeps
<1>5. TasksOk(mem', Rest(p), size)
  BY <1>1, <1>2, <1>4, RestKept
<1>6. NewTasks(p, own, <<>>)
  <2>1. <<>> \in Seq(Task) /\ TasksOk(mem', <<>>, size) /\ DOMAIN <<>> = {}
    BY NoTasks
  <2>. QED  BY <1>1, <1>3, <2>1 DEF NewTasks, TopFacts
<1>7. \A b \in Block : own[b].kind = "free" <=> b \notin zmap'
  BY <1>1, <1>2 DEF Forest, Holds
<1>8. \A b \in Block : own[b].kind = "branch" => mem'[b] = mem[b]
  BY <1>1
<1>9. zmap' \subseteq Block
  BY <1>1 DEF IInv, Types
<1>. PICK new : new = <<>>
  OBVIOUS
<1>. PICK own2 : own2 = own
  OBVIOUS
<1>10. /\ Becomes(p, new) /\ NewTasks(p, own2, new) /\ Links(own2, mem') /\ Cutoff(own2, unread')
       /\ \A b \in Block : own2[b].kind = "free" <=> b \notin zmap'
       /\ \A b \in Block : own2[b].kind = "branch" <=> own[b].kind = "branch"
  BY <1>1, <1>4, <1>6, <1>7
<1>. QED  BY <1>1, <1>2, <1>5, <1>8, <1>9, <1>10, FreeStep

LEMMA ReadIndirectInv ==
  ASSUME IInv, NEW p \in Process, ReadIndirect(p)
  PROVE  IInv'
<1>. PICK h : h = Top(p)
  OBVIOUS
<1>1. /\ call[p].pc = "free" /\ tasks[p] # <<>> /\ h.op = "whole" /\ h.depth > 0
      /\ \/ Becomes(p, <<[h EXCEPT !.read = TRUE]>>) /\ UNCHANGED unread
         \/ Becomes(p, <<>>) /\ unread' = unread \cup Below(h.at, h.depth)
      /\ UNCHANGED <<zmap, mem, size, mutex, call, chain, branch>>
  BY DEF ReadIndirect, Freeing
<1>2. PICK own : Forest(own)
  BY DEF IInv
<1>3. TopFacts(p, own)
  BY <1>1, <1>2, TopTask
<1>4. Links(own, mem') /\ Links(own, mem) /\ Cutoff(own, unread) /\ Keeps(own, mem, mem')
  BY <1>1, <1>2 DEF Forest, Keeps
<1>5. TasksOk(mem', Rest(p), size)
  BY <1>1, <1>2, <1>4, RestKept
<1>6. \A b \in Block : own[b].kind = "free" <=> b \notin zmap'
  BY <1>1, <1>2 DEF Forest, Holds
<1>7. /\ \A b \in Block : own[b].kind = "branch" => mem'[b] = mem[b]
      /\ zmap' \subseteq Block
  BY <1>1 DEF IInv, Types
<1>8. h \in Task /\ h.at \in Block /\ h \in [op : {"whole"}, at : Block, depth : 0 .. 2, read : BOOLEAN]
  BY <1>1, <1>3 DEF TopFacts, Task
<1>9. own[h.at] = Loose("whole", h.depth) /\ own[h.at].kind = "whole" /\ own[h.at].lev = h.depth
  BY <1>1, <1>3 DEF TopFacts, Loose, Tag
<1>10. CASE Becomes(p, <<[h EXCEPT !.read = TRUE]>>) /\ UNCHANGED unread
  <2>. PICK g : g = [h EXCEPT !.read = TRUE]
    OBVIOUS
  <2>. PICK new : new = <<g>>
    OBVIOUS
  <2>1. g \in Task /\ g.op = "whole" /\ g.at = h.at /\ g.depth = h.depth /\ g.depth > 0
    BY <1>1, <1>8 DEF Task
  <2>2. new \in Seq(Task) /\ TasksOk(mem', new, size) /\ DOMAIN new = {1} /\ new[1] = g
    BY <2>1, SingleTask
  <2>3. \A j \in DOMAIN Rest(p) : Before(h, Rest(p)[j])
    BY <1>3 DEF TopFacts
  <2>4. \A j \in DOMAIN Rest(p) : Before(g, Rest(p)[j])
    BY <2>1, <2>3, <1>1 DEF Before
  <2>5. /\ \A j \in DOMAIN Rest(p) : Rest(p)[j].op = "whole" => own[Rest(p)[j].at] = Loose("whole", Rest(p)[j].depth)
        /\ \A x \in Block : own[x].kind = "whole" =>
             \/ h.at = x
             \/ \E j \in DOMAIN Rest(p) : Rest(p)[j].op = "whole" /\ Rest(p)[j].at = x
    BY <1>3 DEF TopFacts
  <2>6. NewTasks(p, own, new)
    <3>1. \A i \in DOMAIN new : new[i] = g
      BY <2>2
    <3>2. own[g.at] = Loose("whole", g.depth)
      BY <1>9, <2>1
    <3>3. /\ \A i \in DOMAIN new : /\ new[i].op = "whole" => own[new[i].at] = Loose("whole", new[i].depth)
                                   /\ \A j \in DOMAIN Rest(p) : Before(new[i], Rest(p)[j])
      BY <2>4, <3>1, <3>2
    <3>4. \A x \in Block : own[x].kind = "whole" =>
             \/ \E i \in DOMAIN new : new[i].op = "whole" /\ new[i].at = x
             \/ \E j \in DOMAIN Rest(p) : Rest(p)[j].op = "whole" /\ Rest(p)[j].at = x
      <4>1. 1 \in DOMAIN new /\ new[1].op = "whole" /\ new[1].at = h.at
        BY <2>1, <2>2
      <4>. QED  BY <4>1, <2>5
    <3>. QED  BY <2>2, <2>5, <3>3, <3>4 DEF NewTasks
  <2>. PICK own2 : own2 = own
    OBVIOUS
  <2>7. /\ Becomes(p, new) /\ NewTasks(p, own2, new) /\ Links(own2, mem') /\ Cutoff(own2, unread')
        /\ \A b \in Block : own2[b].kind = "free" <=> b \notin zmap'
        /\ \A b \in Block : own2[b].kind = "branch" <=> own[b].kind = "branch"
    BY <1>4, <1>6, <1>10, <2>6
  <2>. QED  BY <1>1, <1>2, <1>5, <1>7, <2>7, FreeStep
<1>11. CASE Becomes(p, <<>>) /\ unread' = unread \cup Below(h.at, h.depth)
  <2>. PICK b : b = h.at
    OBVIOUS
  <2>0. PICK own2 : own2 = [own EXCEPT ![b] = Loose("lost", own[b].lev)]
    OBVIOUS
  <2>. PICK new : new = <<>>
    OBVIOUS
  <2>1. b \in Block /\ own[b].kind = "whole" /\ own[b].lev = h.depth /\ own \in [Block -> Tags]
    BY <1>4, <1>8, <1>9 DEF Links
  <2>2. own2[b].kind = "lost" /\ \A x : x # b => own2[x] = own[x]
    BY <2>0, <2>1 DEF Loose, Tag
  <2>3. Links(own2, mem')
    <3>1. Links(own2, mem)
      BY <2>0, <2>1, <1>4, Lose
    <3>. QED  BY <3>1, <1>1
  <2>4. Cutoff(own2, unread')
    <3>1. Cutoff(own2, unread \cup BelowOf(mem, b, own[b].lev))
      BY <2>0, <2>1, <1>4, CutoffBelow
    <3>2. Below(h.at, h.depth) = BelowOf(mem, b, own[b].lev)
      BY <2>1, BelowIs
    <3>. QED  BY <3>1, <3>2, <1>11
  <2>5. /\ \A x \in Block : own2[x].kind = "free" <=> x \notin zmap'
        /\ \A x \in Block : own2[x].kind = "branch" <=> own[x].kind = "branch"
    BY <1>6, <2>1, <2>2
  <2>6. NewTasks(p, own2, new)
    <3>1. new \in Seq(Task) /\ TasksOk(mem', new, size) /\ DOMAIN new = {}
      BY NoTasks
    <3>2. \A j \in DOMAIN Rest(p) : Rest(p)[j].op = "whole" =>
            own[Rest(p)[j].at] = Loose("whole", Rest(p)[j].depth) /\ Rest(p)[j].at # b
      BY <1>3 DEF TopFacts
    <3>3. \A j \in DOMAIN Rest(p) : Rest(p)[j].op = "whole" => own2[Rest(p)[j].at] = Loose("whole", Rest(p)[j].depth)
      BY <3>2, <2>2
    <3>4. \A x \in Block : own2[x].kind = "whole" =>
            \E j \in DOMAIN Rest(p) : Rest(p)[j].op = "whole" /\ Rest(p)[j].at = x
      <4>. SUFFICES ASSUME NEW x \in Block, own2[x].kind = "whole"
                    PROVE  \E j \in DOMAIN Rest(p) : Rest(p)[j].op = "whole" /\ Rest(p)[j].at = x
        OBVIOUS
      <4>1. x # b /\ own[x].kind = "whole"
        BY <2>2
      <4>. QED  BY <4>1, <1>3 DEF TopFacts
    <3>. QED  BY <3>1, <3>3, <3>4 DEF NewTasks
  <2>7. Becomes(p, new)
    BY <1>11
  <2>8. UNCHANGED <<size, mutex, call, chain, branch>> /\ call[p].pc = "free" /\ tasks[p] # <<>>
    BY <1>1
  <2>. QED  BY <1>2, <1>5, <1>7, <2>3, <2>4, <2>5, <2>6, <2>7, <2>8, FreeStep, Zenon
<1>. QED  BY <1>1, <1>10, <1>11

LEMMA FreeBlockInv ==
  ASSUME IInv, NEW p \in Process, FreeBlock(p)
  PROVE  IInv'
<1>. PICK h : h = Top(p)
  OBVIOUS
<1>. PICK b : b = h.at
  OBVIOUS
<1>1. /\ call[p].pc = "free" /\ tasks[p] # <<>> /\ h.op = "whole"
      /\ h.depth > 0 => Used(b, 0, PTRS) = {}
      /\ zmap' = zmap \ {b} /\ mem' = [mem EXCEPT ![b] = Zeroes] /\ unread' = unread \ {b}
      /\ Becomes(p, <<>>)
      /\ UNCHANGED <<size, mutex, call, chain, branch>>
  BY DEF FreeBlock, Freeing, Freed
<1>2. PICK own : Forest(own)
  BY DEF IInv
<1>3. TopFacts(p, own)
  BY <1>1, <1>2, TopTask
<1>4. Links(own, mem) /\ Cutoff(own, unread) /\ own \in [Block -> Tags]
  BY <1>2 DEF Forest, Links
<1>5. h \in Task /\ b \in Block /\ h.depth \in 0 .. 2
  BY <1>1, <1>3 DEF TopFacts, Task
<1>6. own[b] = Loose("whole", h.depth) /\ own[b].kind = "whole" /\ own[b].lev = h.depth
  BY <1>1, <1>3 DEF TopFacts, Loose, Tag
<1>7. IsTable(own, b) => \A o \in Pointer(b) : mem[b][o] = NoBlock
  <2>. SUFFICES ASSUME IsTable(own, b), NEW o \in Pointer(b) PROVE mem[b][o] = NoBlock
    OBVIOUS
  <2>1. Used(b, 0, PTRS) = {} /\ o \in 0 .. PTRS - 1
    BY <1>1, <1>5, <1>6, BlockFacts DEF IsTable, Pointer
  <2>. QED  BY <2>1 DEF Used
<1>. PICK kind : kind = "free"
  OBVIOUS
<1>0. PICK own2 : own2 = [own EXCEPT ![b] = Loose(kind, 0)]
  OBVIOUS
<1>. PICK m2 : m2 = mem'
  OBVIOUS
<1>8. own2[b].kind = "free" /\ \A x : x # b => own2[x] = own[x]
  BY <1>0, <1>4, <1>5 DEF Loose, Tag
<1>9. Tables(m2) /\ TablesKept(own, b, mem, m2)
  <2>1. Pointer(b) = 0 .. PTRS - 1
    BY <1>5, BlockFacts DEF Pointer
  <2>2. Zeroes \in [Pointer(b) -> Block \cup {NoBlock}]
    BY <2>1 DEF Zeroes
  <2>. QED  BY <1>1, <1>4, <2>2 DEF Links, Tables, TablesKept
<1>10. own[b].kind # "pointed" /\ kind \in {"free", "branch"}
  BY <1>6
<1>11. Links(own2, m2)
  BY <1>0, <1>4, <1>5, <1>7, <1>9, <1>10, Retag
<1>12. Cutoff(own2, unread')
  BY <1>0, <1>1, <1>4, <1>5, <1>7, <1>10, CutoffRetag
<1>13. Keeps(own, mem, mem')
  <2>1. \A c \in Container : c # b => mem'[c] = mem[c]
    BY <1>1, <1>4 DEF Links
  <2>2. \A c \in Container : c = Inode \/ own[c].kind = "pointed" => c # b
    BY <1>5, <1>6, BlockFacts
  <2>. QED  BY <2>1, <2>2 DEF Keeps
<1>14. TasksOk(mem', Rest(p), size)
  BY <1>1, <1>2, <1>13, RestKept
<1>15. /\ \A x \in Block : own2[x].kind = "free" <=> x \notin zmap'
       /\ \A x \in Block : own2[x].kind = "branch" <=> own[x].kind = "branch"
  BY <1>1, <1>2, <1>6, <1>8 DEF Forest, Holds
<1>16. /\ \A x \in Block : own[x].kind = "branch" => mem'[x] = mem[x]
       /\ zmap' \subseteq Block
  <2>1. \A x \in Block : x # b => mem'[x] = mem[x]
    BY <1>1, <1>4, BlockFacts DEF Links
  <2>. QED  BY <1>1, <1>6, <2>1 DEF IInv, Types
<1>. PICK new : new = <<>>
  OBVIOUS
<1>17. NewTasks(p, own2, new)
  <2>1. new \in Seq(Task) /\ TasksOk(mem', new, size) /\ DOMAIN new = {}
    BY NoTasks
  <2>2. \A j \in DOMAIN Rest(p) : Rest(p)[j].op = "whole" =>
          own[Rest(p)[j].at] = Loose("whole", Rest(p)[j].depth) /\ Rest(p)[j].at # b
    BY <1>3 DEF TopFacts
  <2>3. \A j \in DOMAIN Rest(p) : Rest(p)[j].op = "whole" => own2[Rest(p)[j].at] = Loose("whole", Rest(p)[j].depth)
    BY <2>2, <1>8
  <2>4. \A x \in Block : own2[x].kind = "whole" =>
          \E j \in DOMAIN Rest(p) : Rest(p)[j].op = "whole" /\ Rest(p)[j].at = x
    <3>. SUFFICES ASSUME NEW x \in Block, own2[x].kind = "whole"
                  PROVE  \E j \in DOMAIN Rest(p) : Rest(p)[j].op = "whole" /\ Rest(p)[j].at = x
      OBVIOUS
    <3>1. x # b /\ own[x].kind = "whole"
      BY <1>8
    <3>. QED  BY <3>1, <1>3 DEF TopFacts
  <2>. QED  BY <2>1, <2>3, <2>4 DEF NewTasks
<1>18. Becomes(p, new) /\ Links(own2, mem')
  BY <1>1, <1>11
<1>19. UNCHANGED <<size, mutex, call, chain, branch>> /\ call[p].pc = "free" /\ tasks[p] # <<>>
  BY <1>1
<1>. QED  BY <1>2, <1>12, <1>14, <1>15, <1>16, <1>17, <1>18, <1>19, FreeStep, Zenon

(* A walk up to the pointer that is cleared, and one past it.              *)
LEMMA WalkCut ==
  ASSUME NEW own, NEW m, Links(own, m), NEW s \in Sectors, NEW k \in 1 .. Len(Path(s)),
         k = 1 \/ Walk(m, s, k - 1) # NoBlock, NEW m2,
         \A x \in Container : x # Walk(m, s, k - 1) => m2[x] = m[x]
  PROVE  \A i \in 0 .. k - 1 : Walk(m2, s, i) = Walk(m, s, i)
<1>. PICK l \in 1 .. 3 : l = Len(Path(s))
  BY PathLen
<1>. PICK c : c = Walk(m, s, k - 1)
  OBVIOUS
<1>1. k \in 1 .. l /\ k - 1 \in 0 .. 3 /\ k \in Nat
  OBVIOUS
<1>2. OnWalk(own, m, s, k)
  BY WalkOn
<1>3. ASSUME NEW i \in 1 .. k - 1, i = 1 \/ Walk(m, s, i - 1) # NoBlock
      PROVE  m2[Walk(m, s, i - 1)][Path(s)[i]] = m[Walk(m, s, i - 1)][Path(s)[i]]
  <2>1. i \in 1 .. l /\ i < k /\ i \in Nat
    BY <1>1
  <2>2. OnWalk(own, m, s, i)
    BY <1>3, <2>1, WalkOn
  <2>. PICK d : d = Walk(m, s, i - 1)
    OBVIOUS
  <2>3. d \in Container /\ (i = 1 <=> d = Inode) /\ (d # Inode => own[d].lev = l - i + 1)
    BY <2>2 DEF OnWalk
  <2>4. (k = 1 <=> c = Inode) /\ (c # Inode => own[c].lev = l - k + 1)
    BY <1>2 DEF OnWalk
  <2>5. d # c
    <3>1. k # 1 /\ l - i + 1 # l - k + 1
      BY <2>1, <1>1
    <3>. QED  BY <2>3, <2>4, <3>1
  <2>. QED  BY <2>3, <2>5
<1>4. \A i \in 0 .. k - 1 : Walk(m2, s, i) = Walk(m, s, i)
  BY <1>1, <1>3, WalkKept
<1>. QED  BY <1>4

LEMMA WalkPast ==
  ASSUME NEW own, NEW m, Links(own, m), NEW s \in Sectors, NEW m2,
         \A x \in Container : x # Inode => m2[x] = m[x],
         m2[Inode][Path(s)[1]] = m[Inode][Path(s)[1]]
  PROVE  \A i \in 0 .. Len(Path(s)) : Walk(m2, s, i) = Walk(m, s, i)
<1>. PICK l \in 1 .. 3 : l = Len(Path(s))
  BY PathLen
<1>1. ASSUME NEW i \in 1 .. l, i = 1 \/ Walk(m, s, i - 1) # NoBlock
      PROVE  m2[Walk(m, s, i - 1)][Path(s)[i]] = m[Walk(m, s, i - 1)][Path(s)[i]]
  <2>. PICK d : d = Walk(m, s, i - 1)
    OBVIOUS
  <2>1. OnWalk(own, m, s, i)
    BY <1>1, WalkOn
  <2>2. d \in Container /\ (i = 1 <=> d = Inode)
    BY <2>1 DEF OnWalk
  <2>3. CASE i = 1
    BY <2>2, <2>3
  <2>4. CASE i # 1
    BY <2>2, <2>4
  <2>. QED  BY <2>3, <2>4
<1>2. l \in 0 .. 3
  OBVIOUS
<1>3. \A i \in 0 .. l : Walk(m2, s, i) = Walk(m, s, i)
  BY <1>1, <1>2, WalkKept
<1>. QED  BY <1>3

(* Where the ends are that are to clear.                                   *)
LEMMA EndsOn ==
  ASSUME NEW own, NEW m, Links(own, m), NEW s \in Sectors, NEW t \in Task,
         t.op = "cells", EndsAt(m, t, s), NEW o \in t.from .. t.to - 1
  PROVE  /\ t.at \in Container /\ IsTable(own, t.at) /\ o \in Pointer(t.at)
         /\ LevelOf(own, t.at, o) = t.depth
         /\ t.at = Inode => o # Path(s)[1] \/ Len(Path(s)) = 1
         /\ t.at # Inode => /\ Len(Path(s)) - t.depth \in 2 .. Len(Path(s))
                            /\ t.at = Walk(m, s, Len(Path(s)) - t.depth - 1)
                            /\ own[t.at].kind = "pointed"
<1>. PICK l \in 1 .. 3 : l = Len(Path(s))
  BY PathLen
<1>1. t.at \in Container /\ t.depth \in 0 .. 2 /\ t.from \in Nat /\ t.to \in Nat /\ o \in Nat
  BY DEF Task
<1>2. DIRECT \in Nat /\ PTRS \in Nat
  BY Constants
<1>3. Path(s)[1] \in Nat
  <2>1. 1 \in 1 .. l
    OBVIOUS
  <2>. QED  BY <2>1, PathFacts
<1>4. CASE t.at = Inode
  <2>1. o \in Pointer(Inode)
    <3>1. t.to <= DIRECT + DEPTH - 1
      BY <1>4 DEF EndsAt
    <3>. QED  BY <3>1, <1>1, <1>2 DEF Pointer, DEPTH
  <2>2. LevelOf(<<>>, Inode, o) = t.depth
    BY <1>4 DEF EndsAt
  <2>3. LevelOf(own, Inode, o) = t.depth
    BY <2>2 DEF LevelOf
  <2>4. o # Path(s)[1] \/ l = 1
    <3>1. t.from > Path(s)[1] \/ l = 1
      BY <1>4 DEF EndsAt
    <3>. QED  BY <3>1, <1>1, <1>3
  <2>. QED  BY <1>1, <1>4, <2>1, <2>3, <2>4 DEF IsTable
<1>5. CASE t.at # Inode
  <2>. PICK k : k = l - t.depth
    OBVIOUS
  <2>1. t.to = PTRS /\ k > 1 /\ t.at = Walk(m, s, k - 1)
    BY <1>5 DEF EndsAt
  <2>2. k \in 2 .. l /\ k \in 1 .. l /\ l - k = t.depth
    BY <1>1, <2>1
  <2>3. OnWalk(own, m, s, k)
    BY <1>5, <2>1, <2>2, BlockFacts, WalkOn
  <2>4. IsTable(own, t.at) /\ own[t.at].kind = "pointed" /\ own[t.at].lev = l - k + 1
    BY <1>5, <2>1, <2>3 DEF OnWalk
  <2>5. LevelOf(own, t.at, o) = t.depth
    BY <1>5, <2>2, <2>4 DEF LevelOf
  <2>6. o \in Pointer(t.at)
    BY <1>1, <1>5, <2>1, <1>2 DEF Pointer
  <2>. QED  BY <1>1, <1>5, <2>1, <2>2, <2>4, <2>5, <2>6
<1>. QED  BY <1>4, <1>5

(* The ends further up when a pointer at an end is cleared.                *)
LEMMA EndsCut ==
  ASSUME NEW own, NEW m, Links(own, m), NEW s \in Sectors, NEW t \in Task,
         t.op = "cells", EndsAt(m, t, s), NEW o \in t.from .. t.to - 1,
         NEW u \in Task, EndsAt(m, u, s), t.depth <= u.depth
  PROVE  EndsAt([m EXCEPT ![t.at][o] = NoBlock], u, s)
<1>4. PICK m2 : m2 = [m EXCEPT ![t.at][o] = NoBlock]
  OBVIOUS
<1>5. SUFFICES EndsAt(m2, u, s)
  BY <1>4
<1>0. PICK l : l = Len(Path(s))
  OBVIOUS
<1>3. l \in 1 .. 3
  BY <1>0, PathLen
<1>1. CASE u.at = Inode
  BY <1>1 DEF EndsAt
<1>2. CASE u.at # Inode
  <2>0. PICK k : k = l - u.depth
    OBVIOUS
  <2>1. k > 1 /\ u.at = Walk(m, s, k - 1)
    BY <1>0, <1>2, <2>0 DEF EndsAt
  <2>2. u.depth \in 0 .. 2 /\ t.depth \in 0 .. 2
    BY DEF Task
  <2>3. k \in 2 .. l /\ k - 1 \in 0 .. l
    BY <1>3, <2>0, <2>1, <2>2
  <2>4. /\ t.at \in Container /\ o \in Pointer(t.at)
        /\ t.at = Inode => o # Path(s)[1] \/ l = 1
        /\ t.at # Inode => l - t.depth \in 2 .. l /\ t.at = Walk(m, s, l - t.depth - 1)
    BY <1>0, EndsOn
  <2>5. /\ \A x \in Container : x # t.at => m2[x] = m[x]
        /\ \A y : y # o => m2[t.at][y] = m[t.at][y]
    BY <1>4, <2>4 DEF Links
  <2>6. Walk(m2, s, k - 1) = Walk(m, s, k - 1)
    <3>1. CASE t.at = Inode
      <4>1. m2[Inode][Path(s)[1]] = m[Inode][Path(s)[1]]
        BY <3>1, <2>3, <2>4, <2>5
      <4>2. \A i \in 0 .. Len(Path(s)) : Walk(m2, s, i) = Walk(m, s, i)
        BY <3>1, <4>1, <2>5, WalkPast
      <4>. QED  BY <1>0, <4>2, <2>3
    <3>2. CASE t.at # Inode
      <4>0. PICK j : j = l - t.depth
        OBVIOUS
      <4>1. j \in 2 .. l /\ j \in 1 .. l /\ t.at = Walk(m, s, j - 1) /\ k <= j
        BY <1>3, <2>0, <2>3, <4>0, <3>2, <2>2, <2>4
      <4>2. \A i \in 0 .. j - 1 : Walk(m2, s, i) = Walk(m, s, i)
        <5>1. Walk(m, s, j - 1) # NoBlock
          BY <3>2, <4>1, BlockFacts
        <5>2. \A x \in Container : x # Walk(m, s, j - 1) => m2[x] = m[x]
          BY <2>5, <4>1
        <5>3. j \in 1 .. Len(Path(s)) /\ (j = 1 \/ Walk(m, s, j - 1) # NoBlock)
          BY <1>0, <4>1, <5>1
        <5>4. \A i \in 0 .. j - 1 : Walk(m2, s, i) = Walk(m, s, i)
          BY <5>2, <5>3, WalkCut, Zenon
        <5>. QED  BY <5>4
      <4>3. k - 1 \in 0 .. j - 1
        BY <4>1, <2>3
      <4>. QED  BY <4>2, <4>3
    <3>. QED  BY <3>1, <3>2
  <2>. QED  BY <1>0, <1>2, <2>0, <2>6 DEF EndsAt
<1>. QED  BY <1>1, <1>2

(* Before, from the task that clears the pointer to the one it makes.      *)
LEMMA NewBefore ==
  ASSUME NEW h \in Task, NEW u \in Task, NEW w \in Task, Before(h, u),
         w.op = "whole", h.op = "whole" => w.depth < h.depth
  PROVE  Before(w, u) /\ Before(w, h)
<1>1. h.depth \in Nat /\ u.depth \in Nat /\ w.depth \in Nat
  BY DEF Task
<1>2. Before(w, h)
  BY DEF Before
<1>3. CASE u.op = "whole"
  <2>1. h.op = "whole"
    BY <1>3 DEF Before
  <2>2. h.depth < u.depth
    BY <1>3, <2>1 DEF Before
  <2>3. w.depth < u.depth
    BY <1>1, <2>1, <2>2
  <2>. QED  BY <1>2, <1>3, <2>3 DEF Before
<1>4. CASE u.op # "whole"
  BY <1>2, <1>4 DEF Before
<1>. QED  BY <1>3, <1>4

(* A pointer is cleared; what it pointed to is to be freed whole.          *)
LEMMA ClearStep ==
  ASSUME IInv, NEW p \in Process, call[p].pc = "free", tasks[p] # <<>>,
         NEW own, Forest(own), NEW c \in Container, IsTable(own, c),
         NEW o \in Pointer(c), mem[c][o] # NoBlock,
         mem' = [mem EXCEPT ![c][o] = NoBlock],
         Becomes(p, <<Whole(mem[c][o], LevelOf(own, c, o)), Top(p)>>),
         UNCHANGED <<zmap, size, mutex, call, chain, branch, unread>>,
         TasksOk(mem', Rest(p), size),
         Top(p).op = "cells" => EndsAt(mem', Top(p), size),
         Top(p).op = "whole" => LevelOf(own, c, o) < Top(p).depth
  PROVE  IInv'
<1>1. PICK h : h = Top(p)
  OBVIOUS
<1>2. PICK d : d = LevelOf(own, c, o)
  OBVIOUS
<1>3. PICK b : b = mem[c][o]
  OBVIOUS
<1>4. PICK w : w = Whole(b, d)
  OBVIOUS
<1>5. PICK new : new = <<w, h>>
  OBVIOUS
<1>6. PICK own2 : own2 = [own EXCEPT ![b] = Loose("whole", d)]
  OBVIOUS
<1>7. Links(own, mem) /\ Cutoff(own, unread) /\ Holds(own) /\ own \in [Block -> Tags]
  BY DEF Forest, Links
<1>8. b \in Block /\ own[b].kind = "pointed" /\ own[b].lev = d /\ d \in 0 .. 2
  <2>1. b \in Block /\ own[b].kind = "pointed" /\ own[b].lev = d
    BY <1>2, <1>3, <1>7, Pointed
  <2>2. own[b] \in Tags
    BY <1>7, <2>1
  <2>. QED  BY <2>1, <2>2 DEF Tags
<1>9. /\ own2[b] = Loose("whole", d) /\ own2[b].kind = "whole"
      /\ \A x : x # b => own2[x] = own[x]
  BY <1>6, <1>7, <1>8 DEF Loose, Tag
<1>10. Links(own2, mem')
  <2>1. Links(own2, [mem EXCEPT ![c][o] = NoBlock])
    BY <1>2, <1>3, <1>6, <1>7, Cut
  <2>. QED  BY <2>1
<1>11. Cutoff(own2, unread')
  <2>1. Cutoff(own2, unread)
    BY <1>6, <1>7, <1>8, CutoffCut
  <2>. QED  BY <2>1
<1>12. /\ \A x \in Block : own2[x].kind = "free" <=> x \notin zmap'
       /\ \A x \in Block : own2[x].kind = "branch" <=> own[x].kind = "branch"
  BY <1>7, <1>8, <1>9 DEF Holds
<1>13. /\ \A x \in Block : own[x].kind = "branch" => mem'[x] = mem[x]
       /\ zmap' \subseteq Block
  <2>1. \A x \in Block : own[x].kind = "branch" => x # c
    BY BlockFacts DEF IsTable
  <2>2. \A x \in Block : x # c => mem'[x] = mem[x]
    BY <1>7, BlockFacts DEF Links
  <2>. QED  BY <2>1, <2>2 DEF IInv, Types
<1>14. TopFacts(p, own)
  BY TopTask
<1>15. /\ h \in Task
       /\ h.op = "cells" => EndsAt(mem', h, size)
       /\ h.op = "whole" => /\ h.read => h.depth > 0
                            /\ own[h.at] = Loose("whole", h.depth)
                            /\ d < h.depth
       /\ \A j \in DOMAIN Rest(p) :
            /\ Before(h, Rest(p)[j]) /\ Rest(p)[j] \in Task
            /\ Rest(p)[j].op = "whole" => own[Rest(p)[j].at] = Loose("whole", Rest(p)[j].depth)
       /\ \A x \in Block : own[x].kind = "whole" =>
            \/ h.op = "whole" /\ h.at = x
            \/ \E j \in DOMAIN Rest(p) : Rest(p)[j].op = "whole" /\ Rest(p)[j].at = x
  BY <1>1, <1>2, <1>14 DEF TopFacts
<1>16. /\ w \in Task /\ w.op = "whole" /\ w.at = b /\ w.depth = d /\ w.read = FALSE
  BY <1>4, <1>8 DEF Whole, Task
<1>17. /\ new \in Seq(Task) /\ DOMAIN new = {1, 2} /\ new[1] = w /\ new[2] = h
  BY <1>5, <1>15, <1>16
<1>18. Before(w, h)
  BY <1>15, <1>16 DEF Before
<1>19. \A j \in DOMAIN Rest(p) : Before(w, Rest(p)[j])
  BY <1>15, <1>16, NewBefore
<1>20. TasksOk(mem', new, size)
  <2>1. ASSUME NEW i \in DOMAIN new, NEW j \in DOMAIN new, i < j PROVE Before(new[i], new[j])
    <3>1. i = 1 /\ j = 2
      BY <1>17, <2>1
    <3>. QED  BY <3>1, <1>17, <1>18
  <2>2. ASSUME NEW i \in DOMAIN new
        PROVE  /\ new[i].op = "cells" => EndsAt(mem', new[i], size)
               /\ new[i].op = "whole" => (new[i].read => new[i].depth > 0)
    <3>1. CASE i = 1
      BY <3>1, <1>16, <1>17
    <3>2. CASE i = 2
      BY <3>2, <1>15, <1>17
    <3>. QED  BY <3>1, <3>2, <1>17
  <2>. QED  BY <2>1, <2>2 DEF TasksOk
<1>21. \A x : own[x].kind = "whole" => own2[x] = own[x]
  BY <1>8, <1>9
<1>22. ASSUME NEW y, NEW lev, own[y] = Loose("whole", lev) PROVE own2[y] = own[y]
  BY <1>21, <1>22 DEF Loose, Tag
<1>23. NewTasks(p, own2, new)
  <2>1. ASSUME NEW i \in DOMAIN new
        PROVE  /\ new[i].op = "whole" => own2[new[i].at] = Loose("whole", new[i].depth)
               /\ \A j \in DOMAIN Rest(p) : Before(new[i], Rest(p)[j])
    <3>1. CASE i = 1
      BY <3>1, <1>9, <1>16, <1>17, <1>19
    <3>2. CASE i = 2
      BY <3>2, <1>15, <1>17, <1>22
    <3>. QED  BY <3>1, <3>2, <1>17
  <2>2. \A j \in DOMAIN Rest(p) : Rest(p)[j].op = "whole" =>
          own2[Rest(p)[j].at] = Loose("whole", Rest(p)[j].depth)
    BY <1>15, <1>22
  <2>3. ASSUME NEW x \in Block, own2[x].kind = "whole"
        PROVE  \/ \E i \in DOMAIN new : new[i].op = "whole" /\ new[i].at = x
               \/ \E j \in DOMAIN Rest(p) : Rest(p)[j].op = "whole" /\ Rest(p)[j].at = x
    <3>1. 1 \in DOMAIN new /\ 2 \in DOMAIN new
      BY <1>17
    <3>2. CASE x = b
      BY <3>1, <3>2, <1>16, <1>17
    <3>3. CASE x # b
      <4>1. own[x].kind = "whole"
        BY <1>9, <2>3, <3>3
      <4>2. \/ h.op = "whole" /\ h.at = x
            \/ \E j \in DOMAIN Rest(p) : Rest(p)[j].op = "whole" /\ Rest(p)[j].at = x
        BY <4>1, <1>15
      <4>. QED  BY <3>1, <4>2, <1>17
    <3>. QED  BY <3>2, <3>3
  <2>. QED  BY <1>17, <1>20, <2>1, <2>2, <2>3 DEF NewTasks
<1>24. Becomes(p, new)
  BY <1>1, <1>2, <1>3, <1>4, <1>5
<1>25. UNCHANGED <<size, mutex, call, chain, branch>>
  OBVIOUS
<1>. QED  BY <1>10, <1>11, <1>12, <1>13, <1>23, <1>24, <1>25, FreeStep, Zenon

LEMMA CutKeeps ==
  ASSUME NEW own, NEW m, Links(own, m), NEW b \in Block, own[b].kind = "whole", NEW o
  PROVE  Keeps(own, m, [m EXCEPT ![b][o] = NoBlock])
<1>. DEFINE m2 == [m EXCEPT ![b][o] = NoBlock]
<1>1. \A c \in Container : c # b => m2[c] = m[c]
  BY DEF Links
<1>2. \A c \in Container : c = Inode \/ own[c].kind = "pointed" => c # b
  BY BlockFacts
<1>. HIDE DEF m2
<1>3. Keeps(own, m, m2)
  BY <1>1, <1>2 DEF Keeps
<1>. QED  BY <1>3 DEF m2

(* The first of the pointers left.                                         *)
LEMMA FirstUsed ==
  ASSUME NEW c, NEW from \in Nat, NEW to \in Nat, Used(c, from, to) # {}
  PROVE  /\ Min(Used(c, from, to)) \in from .. to - 1
         /\ mem[c][Min(Used(c, from, to))] # NoBlock
<1>. PICK S : S = Used(c, from, to)
  OBVIOUS
<1>1. S \subseteq Nat /\ S # {} /\ \A o \in S : o \in from .. to - 1 /\ mem[c][o] # NoBlock
  BY DEF Used
<1>2. Min(S) \in S
  BY <1>1, MinOf
<1>. QED  BY <1>1, <1>2

LEMMA ClearIndirectInv ==
  ASSUME IInv, NEW p \in Process, ClearIndirect(p)
  PROVE  IInv'
<1>1. PICK h : h = Top(p)
  OBVIOUS
<1>2. PICK b : b = h.at
  OBVIOUS
<1>3. PICK o : o = Min(Used(b, 0, PTRS))
  OBVIOUS
<1>4. /\ call[p].pc = "free" /\ tasks[p] # <<>> /\ h.op = "whole" /\ h.read
      /\ Used(b, 0, PTRS) # {}
      /\ mem' = [mem EXCEPT ![b][o] = NoBlock]
      /\ Becomes(p, <<Whole(mem[b][o], h.depth - 1), h>>)
      /\ UNCHANGED <<zmap, size, mutex, call, chain, branch, unread>>
  BY <1>1, <1>2, <1>3 DEF ClearIndirect, ClearPointer, Freeing, Stored
<1>5. PICK own : Forest(own)
  BY DEF IInv
<1>6. TopFacts(p, own)
  BY <1>4, <1>5, TopTask
<1>7. h \in Task /\ h.depth > 0 /\ own[h.at] = Loose("whole", h.depth)
  BY <1>1, <1>4, <1>6 DEF TopFacts
<1>8. b \in Block /\ h.depth \in 0 .. 2
  BY <1>2, <1>4, <1>7 DEF Task
<1>9. own[b].kind = "whole" /\ own[b].lev = h.depth
  BY <1>2, <1>7 DEF Loose, Tag
<1>10. b \in Container /\ b # Inode /\ IsTable(own, b) /\ Pointer(b) = 0 .. PTRS - 1
  BY <1>7, <1>8, <1>9, BlockFacts DEF IsTable, Pointer
<1>11. LevelOf(own, b, o) = h.depth - 1
  BY <1>9, <1>10 DEF LevelOf
<1>12. o \in Pointer(b) /\ mem[b][o] # NoBlock
  BY <1>3, <1>4, <1>10, FirstUsed, Constants
<1>13. Links(own, mem)
  BY <1>5 DEF Forest
<1>14. Keeps(own, mem, mem')
  <2>1. Keeps(own, mem, [mem EXCEPT ![b][o] = NoBlock])
    BY <1>8, <1>9, <1>13, CutKeeps
  <2>. QED  BY <1>4, <2>1
<1>15. TasksOk(mem', Rest(p), size)
  BY <1>4, <1>5, <1>14, RestKept
<1>16. Becomes(p, <<Whole(mem[b][o], LevelOf(own, b, o)), Top(p)>>)
  BY <1>1, <1>4, <1>11
<1>17. /\ Top(p).op = "cells" => EndsAt(mem', Top(p), size)
       /\ Top(p).op = "whole" => LevelOf(own, b, o) < Top(p).depth
  BY <1>1, <1>4, <1>8, <1>11
<1>18. /\ call[p].pc = "free" /\ tasks[p] # <<>> /\ mem' = [mem EXCEPT ![b][o] = NoBlock]
       /\ UNCHANGED <<zmap, size, mutex, call, chain, branch, unread>>
  BY <1>4
<1>. QED  BY <1>5, <1>10, <1>12, <1>15, <1>16, <1>17, <1>18, ClearStep, Zenon

LEMMA ClearEndsInv ==
  ASSUME IInv, NEW p \in Process, ClearEnds(p)
  PROVE  IInv'
<1>1. PICK h : h = Top(p)
  OBVIOUS
<1>2. PICK c : c = h.at
  OBVIOUS
<1>3. PICK o : o = Min(Used(c, h.from, h.to))
  OBVIOUS
<1>4. /\ call[p].pc = "free" /\ tasks[p] # <<>> /\ h.op = "cells"
      /\ Used(c, h.from, h.to) # {}
      /\ mem' = [mem EXCEPT ![c][o] = NoBlock]
      /\ Becomes(p, <<Whole(mem[c][o], h.depth), h>>)
      /\ UNCHANGED <<zmap, size, mutex, call, chain, branch, unread>>
  BY <1>1, <1>2, <1>3 DEF ClearEnds, ClearPointer, Freeing, Stored
<1>5. PICK own : Forest(own)
  BY DEF IInv
<1>6. TopFacts(p, own)
  BY <1>4, <1>5, TopTask
<1>7. Links(own, mem) /\ size \in Sectors
  BY <1>4, <1>5, TasksAlone DEF Forest
<1>8. h \in Task /\ EndsAt(mem, h, size)
  BY <1>1, <1>4, <1>6 DEF TopFacts
<1>9. h.from \in Nat /\ h.to \in Nat /\ h.depth \in 0 .. 2
  BY <1>4, <1>8 DEF Task
<1>10. o \in h.from .. h.to - 1 /\ mem[c][o] # NoBlock
  BY <1>3, <1>4, <1>9, FirstUsed
<1>11. /\ c \in Container /\ IsTable(own, c) /\ o \in Pointer(c)
       /\ LevelOf(own, c, o) = h.depth
  BY <1>2, <1>4, <1>7, <1>8, <1>10, EndsOn
<1>12. ASSUME NEW u \in Task, EndsAt(mem, u, size), h.depth <= u.depth
       PROVE  EndsAt(mem', u, size)
  <2>1. PICK s : s = size
    OBVIOUS
  <2>2. PICK m : m = mem
    OBVIOUS
  <2>3. EndsAt([m EXCEPT ![h.at][o] = NoBlock], u, s)
    BY <2>1, <2>2, <1>4, <1>7, <1>8, <1>10, <1>12, EndsCut
  <2>. QED  BY <2>1, <2>2, <2>3, <1>2, <1>4
<1>13. EndsAt(mem', h, size)
  BY <1>8, <1>9, <1>12
<1>14. TasksOk(mem', Rest(p), size)
  <2>1. PICK r : r = Rest(p)
    OBVIOUS
  <2>2. TasksOk(mem, r, size) /\ \A j \in DOMAIN r : Before(h, r[j]) /\ r[j] \in Task
    BY <1>1, <1>6, <2>1 DEF TopFacts
  <2>3. \A j \in DOMAIN r : r[j].op = "cells" => EndsAt(mem', r[j], size)
    <3>. SUFFICES ASSUME NEW j \in DOMAIN r, r[j].op = "cells" PROVE EndsAt(mem', r[j], size)
      OBVIOUS
    <3>1. r[j] \in Task /\ EndsAt(mem, r[j], size) /\ h.depth < r[j].depth
      BY <1>4, <2>2 DEF TasksOk, Before
    <3>2. r[j].depth \in Nat
      BY <3>1 DEF Task
    <3>3. h.depth <= r[j].depth
      BY <3>1, <3>2, <1>9
    <3>. QED  BY <3>1, <3>3, <1>12
  <2>4. TasksOk(mem', r, size)
    BY <2>2, <2>3 DEF TasksOk
  <2>. QED  BY <2>1, <2>4
<1>15. Becomes(p, <<Whole(mem[c][o], LevelOf(own, c, o)), Top(p)>>)
  BY <1>1, <1>4, <1>11
<1>16. /\ Top(p).op = "cells" => EndsAt(mem', Top(p), size)
       /\ Top(p).op = "whole" => LevelOf(own, c, o) < Top(p).depth
  BY <1>1, <1>4, <1>13
<1>17. /\ call[p].pc = "free" /\ tasks[p] # <<>> /\ mem' = [mem EXCEPT ![c][o] = NoBlock]
       /\ UNCHANGED <<zmap, size, mutex, call, chain, branch, unread>>
  BY <1>4
<1>. QED  BY <1>5, <1>10, <1>11, <1>14, <1>15, <1>16, <1>17, ClearStep, Zenon

-----------------------------------------------------------------------------
(* find_shared()                                                           *)

Grown(p) == Last(chain[p]).key = NoBlock /\ At(Last(chain[p]).at) # NoBlock
Fork(p) ==
  IF Grown(p) THEN Len(chain[p])
  ELSE Max({1} \cup {i \in 2 .. Len(chain[p]) : ~ AllZeroes(chain[p][i].at)})
Stays(p) == ~ Grown(p) /\ Fork(p) = Depth(p) /\ Fork(p) > 1
CutTop(p) == IF Grown(p) \/ Stays(p) THEN NoBlock ELSE At(chain[p][Fork(p)].at)
End(p, k) ==
  Cells(chain[p][k].at[1], chain[p][k].at[2] + IF k = Fork(p) /\ Stays(p) THEN 0 ELSE 1,
        PTRS, Len(Path(call[p].sector)) - k)
EndsOf(p) == [i \in 1 .. Fork(p) - 1 |-> End(p, Fork(p) + 1 - i)]

LEMMA SharedIs ==
  ASSUME NEW p \in Process, FindShared(p)
  PROVE  /\ call[p].pc = "shared" /\ Go(p, "free") /\ chain' = [chain EXCEPT ![p] = <<>>]
         /\ UNCHANGED <<zmap, size, mutex, branch>>
         /\ mem' = IF Grown(p) \/ Stays(p) THEN mem ELSE Stored(chain[p][Fork(p)].at, NoBlock)
         /\ tasks' = [tasks EXCEPT ![p] =
              (IF CutTop(p) = NoBlock THEN <<>>
               ELSE <<Whole(CutTop(p), Len(Path(call[p].sector)) - Fork(p))>>)
              \o EndsOf(p) \o Indirects(Path(call[p].sector)[1] + 1 - DIRECT)]
         /\ unread' = IF CutTop(p) # NoBlock /\ Len(chain[p]) < Depth(p) /\ Last(chain[p]).key # NoBlock
                      THEN unread \cup Below(CutTop(p), Len(Path(call[p].sector)) - Fork(p)) ELSE unread
BY Zenon DEF FindShared, Grown, Fork, Stays, CutTop, End, EndsOf

(* What get_branch() has found holds as far as find_shared() looks.        *)
ForkFacts(p, own) ==
  /\ call[p].sector = size /\ size \in Sectors /\ Len(Path(size)) \in 2 .. 3
  /\ Depth(p) \in 1 .. Len(Path(size))
  /\ Fork(p) \in 1 .. Depth(p)
  /\ \A i \in 1 .. Fork(p) :
       /\ chain[p][i].at = <<Walk(mem, size, i - 1), Path(size)[i]>>
       /\ i = 1 \/ Walk(mem, size, i - 1) # NoBlock
       /\ OnWalk(own, mem, size, i)
  /\ \A i \in DOMAIN Path(size) : i > Depth(p) => Path(size)[i] = 0

LEMMA ForkOk ==
  ASSUME IInv, NEW p \in Process, call[p].pc = "shared", NEW own, Forest(own)
  PROVE  ForkFacts(p, own)
<1>1. Types /\ CallInv(p)
  BY DEF IInv
<1>2. /\ call[p].sector = size /\ size \in Sectors /\ call[p].kind = "truncate"
  BY TasksAlone
<1>3. PICK s : s = size
  OBVIOUS
<1>4. PICK ch : ch = chain[p]
  OBVIOUS
<1>5. /\ ch \in ChainType /\ Len(ch) \in Nat /\ DOMAIN ch = 1 .. Len(ch)
      /\ ChainOf(ch, Path(s)) /\ ch # <<>> /\ Len(ch) <= Depth(p)
      /\ \A i \in DOMAIN ch : ch[i].key # NoBlock => mem[ch[i].at[1]][ch[i].at[2]] = ch[i].key
  BY <1>1, <1>2, <1>3, <1>4, TypesOf DEF CallInv, ChainInv, At
<1>6. Len(Path(s)) > 1 /\ Len(Path(s)) \in 1 .. 3 /\ s \in Sectors
  BY <1>1, <1>2, <1>3, PathLen DEF CallInv, Discipline
<1>7. /\ Depth(p) \in 1 .. Len(Path(s))
      /\ \A i \in DOMAIN Path(s) : i > Depth(p) => Path(s)[i] = 0
  <2>1. Depth(p) = DepthOf("truncate", Path(s))
    BY <1>2, <1>3, DepthIs
  <2>2. /\ DepthOf("truncate", Path(s)) \in 1 .. Len(Path(s))
        /\ \A i \in DOMAIN Path(s) : i > DepthOf("truncate", Path(s)) => Path(s)[i] = 0
    BY <1>6, DepthShape
  <2>. QED  BY <2>1, <2>2
<1>8. Len(ch) \in 1 .. 3
  <2>1. Len(ch) # 0
    BY <1>5, EmptySeq DEF ChainType
  <2>2. PICK n \in 1 .. 3 : n = Len(Path(s))
    BY <1>6
  <2>3. PICK d \in 1 .. n : d = Depth(p)
    BY <1>7, <2>2
  <2>. QED  BY <1>5, <2>1, <2>2, <2>3
<1>9. Fork(p) \in 1 .. Len(ch)
  <2>1. CASE Grown(p)
    <3>1. Fork(p) = Len(ch)
      BY <1>4, <2>1 DEF Fork
    <3>2. PICK l : l = Len(ch)
      OBVIOUS
    <3>3. l \in 1 .. l
      BY <1>8, <3>2
    <3>. QED  BY <3>1, <3>2, <3>3
  <2>2. CASE ~ Grown(p)
    <3>1. PICK S : S = {1} \cup {i \in 2 .. Len(ch) : ~ AllZeroes(ch[i].at)}
      OBVIOUS
    <3>2. S \subseteq 1 .. 3 /\ S # {} /\ S \subseteq 1 .. Len(ch)
      BY <1>8, <3>1
    <3>3. Max(S) \in S
      BY <3>2, MaxOf
    <3>4. Fork(p) = Max(S)
      BY <1>4, <2>2, <3>1 DEF Fork
    <3>. QED  BY <3>2, <3>3, <3>4
  <2>. QED  BY <2>1, <2>2
<1>10. \A i \in DOMAIN ch :
         /\ i \in 1 .. Len(Path(s)) /\ ch[i].at = <<Walk(mem, s, i - 1), Path(s)[i]>>
         /\ i = 1 \/ Walk(mem, s, i - 1) # NoBlock
         /\ OnWalk(own, mem, s, i)
         /\ ch[i].key # NoBlock => ch[i].key = Walk(mem, s, i)
  <2>1. Links(own, mem)
    BY DEF Forest
  <2>. QED  BY <1>5, <1>6, <2>1, ChainHolds
<1>11. PICK j : j = Fork(p)
  OBVIOUS
<1>12. PICK l : l = Len(ch)
  OBVIOUS
<1>13. \A i \in 1 .. j : i \in DOMAIN ch
  <2>1. j \in 1 .. l /\ l \in 1 .. 3 /\ DOMAIN ch = 1 .. l
    BY <1>5, <1>8, <1>9, <1>11, <1>12
  <2>. QED  BY <2>1
<1>14. \A i \in 1 .. Fork(p) :
       /\ ch[i].at = <<Walk(mem, s, i - 1), Path(s)[i]>>
       /\ i = 1 \/ Walk(mem, s, i - 1) # NoBlock
       /\ OnWalk(own, mem, s, i)
  BY <1>10, <1>11, <1>13
<1>15. Fork(p) \in 1 .. Depth(p)
  <2>1. PICK n \in 1 .. 3 : n = Len(Path(s))
    BY <1>6
  <2>2. PICK d \in 1 .. n : d = Depth(p)
    BY <1>7, <2>1
  <2>3. j \in 1 .. l /\ l \in 1 .. 3 /\ l <= d
    BY <1>5, <1>8, <1>9, <1>11, <1>12, <2>2
  <2>4. j \in 1 .. d
    BY <2>1, <2>2, <2>3
  <2>. QED  BY <1>11, <2>2, <2>4
<1>16. Len(Path(s)) \in 2 .. 3
  <2>1. PICK n \in 1 .. 3 : n = Len(Path(s))
    BY <1>6
  <2>2. n > 1
    BY <1>6, <2>1
  <2>3. n \in 2 .. 3
    BY <2>2
  <2>. QED  BY <2>1, <2>3
<1>. QED  BY <1>2, <1>3, <1>4, <1>7, <1>14, <1>15, <1>16 DEF ForkFacts

(* The ends of the indirect blocks that stay.                              *)
LEMMA EndsOfOk ==
  ASSUME NEW p \in Process, NEW own, ForkFacts(p, own), Links(own, mem), NEW m2,
         \A i \in 0 .. Fork(p) - 1 : Walk(m2, size, i) = Walk(mem, size, i)
  PROVE  /\ EndsOf(p) \in Seq(Task) /\ TasksOk(m2, EndsOf(p), size)
         /\ \A i \in DOMAIN EndsOf(p) :
              EndsOf(p)[i].op = "cells" /\ EndsOf(p)[i].depth < Len(Path(size))
<1>1. PICK s : s = size
  OBVIOUS
<1>2. PICK j : j = Fork(p)
  OBVIOUS
<1>3. PICK n : n = Len(Path(s))
  OBVIOUS
<1>4. PICK d : d = Depth(p)
  OBVIOUS
<1>5. n \in 2 .. 3 /\ d \in 1 .. n /\ j \in 1 .. d /\ call[p].sector = s /\ s \in Sectors
  BY <1>1, <1>2, <1>3, <1>4 DEF ForkFacts
<1>6. PTRS \in Nat
  BY Constants
<1>7. ASSUME NEW k \in 2 .. j
      PROVE  /\ End(p, k) \in Task /\ End(p, k).op = "cells" /\ End(p, k).depth = n - k
             /\ EndsAt(m2, End(p, k), s)
  <2>1. k \in 1 .. j /\ k # 1 /\ k \in Nat /\ k \in 2 .. n
    BY <1>5, <1>7
  <2>2. /\ chain[p][k].at = <<Walk(mem, s, k - 1), Path(s)[k]>>
        /\ Walk(mem, s, k - 1) # NoBlock
        /\ OnWalk(own, mem, s, k)
    BY <1>1, <1>2, <2>1 DEF ForkFacts
  <2>3. PICK c : c = Walk(mem, s, k - 1)
    OBVIOUS
  <2>4. c \in Container /\ c # Inode
    BY <2>2, <2>3, BlockFacts DEF OnWalk
  <2>5. Path(s)[k] \in Nat
    <3>1. Path(s)[k] \in 0 .. PTRS - 1
      BY <1>3, <1>5, <2>1, PathFacts
    <3>. QED  BY <3>1, <1>6
  <2>6. PICK e : e = IF k = j /\ Stays(p) THEN 0 ELSE 1
    OBVIOUS
  <2>7. PICK t : t = End(p, k)
    OBVIOUS
  <2>8. t = [op |-> "cells", at |-> c, from |-> Path(s)[k] + e, to |-> PTRS, depth |-> n - k]
    BY <1>2, <1>3, <1>5, <2>2, <2>3, <2>6, <2>7 DEF End, Cells
  <2>9. e \in {0, 1} /\ (e = 0 => j = d /\ k = j)
    BY <1>2, <1>4, <2>6 DEF Stays
  <2>10. n - k \in 0 .. 2
    BY <1>5, <2>1
  <2>11. t \in Task
    <3>1. Path(s)[k] + e \in Nat
      BY <2>5, <2>9
    <3>. QED  BY <1>6, <2>4, <2>8, <2>10, <3>1 DEF Task
  <2>12. Walk(m2, s, k - 1) = c
    <3>1. k - 1 \in 0 .. j - 1
      BY <1>5, <2>1
    <3>. QED  BY <3>1, <1>1, <1>2, <2>3
  <2>13. n - (n - k) = k
    BY <1>5, <2>1
  <2>14. \/ t.from > Path(s)[k]
         \/ t.from = Path(s)[k] /\ \A i \in DOMAIN Path(s) : i > k => Path(s)[i] = 0
    <3>1. CASE e = 1
      BY <2>5, <2>8, <3>1
    <3>2. CASE e = 0
      <4>1. \A i \in DOMAIN Path(s) : i > d => Path(s)[i] = 0
        BY <1>1, <1>4 DEF ForkFacts
      <4>. QED  BY <2>5, <2>8, <2>9, <3>2, <4>1
    <3>. QED  BY <2>9, <3>1, <3>2
  <2>15. PICK kk : kk = Len(Path(s)) - t.depth
    OBVIOUS
  <2>16. kk = k
    BY <1>3, <2>8, <2>13, <2>15
  <2>17. t.at # Inode /\ t.to = PTRS /\ kk > 1 /\ t.at = Walk(m2, s, kk - 1)
    BY <2>1, <2>4, <2>8, <2>12, <2>16
  <2>18. EndsAt(m2, t, s)
    BY <2>14, <2>15, <2>16, <2>17, Zenon DEF EndsAt
  <2>. QED  BY <2>7, <2>8, <2>11, <2>18
<1>8. PICK es : es = EndsOf(p)
  OBVIOUS
<1>9. /\ DOMAIN es = 1 .. j - 1 /\ j - 1 \in Nat
      /\ \A i \in 1 .. j - 1 : es[i] = End(p, j + 1 - i) /\ j + 1 - i \in 2 .. j /\ i \in Nat
  BY <1>2, <1>5, <1>8 DEF EndsOf
<1>10. es \in Seq(Task)
  <2>1. \A i \in 1 .. j - 1 : End(p, j + 1 - i) \in Task
    BY <1>7, <1>9
  <2>2. [i \in 1 .. j - 1 |-> End(p, j + 1 - i)] \in Seq(Task)
    <3>. HIDE DEF End, Task
    <3>. QED  BY <1>9, <2>1
  <2>. QED  BY <1>2, <1>8, <2>2 DEF EndsOf
<1>11. ASSUME NEW i \in DOMAIN es
       PROVE  /\ es[i].op = "cells" /\ es[i].depth = n - (j + 1 - i) /\ EndsAt(m2, es[i], s)
              /\ es[i].depth < n
  <2>1. j + 1 - i \in 2 .. j /\ es[i] = End(p, j + 1 - i)
    BY <1>9
  <2>2. PICK k \in 2 .. j : k = j + 1 - i
    BY <2>1
  <2>3. es[i] = End(p, k)
    BY <2>1, <2>2
  <2>4. n - k < n
    BY <1>5
  <2>. QED  BY <1>7, <2>2, <2>3, <2>4
<1>12. ASSUME NEW i \in DOMAIN es, NEW l \in DOMAIN es, i < l PROVE Before(es[i], es[l])
  <2>1. i \in Nat /\ l \in Nat
    BY <1>9
  <2>2. n - (j + 1 - i) < n - (j + 1 - l)
    BY <1>5, <1>12, <2>1
  <2>. QED  BY <1>11, <2>2 DEF Before
<1>13. TasksOk(m2, es, s)
  BY <1>11, <1>12 DEF TasksOk
<1>. QED  BY <1>1, <1>3, <1>8, <1>10, <1>11, <1>13

(* A subtree is the same after the pointer to it has been cleared.         *)
LEMMA BelowCut ==
  ASSUME NEW own, NEW m, Links(own, m), NEW c \in Container, IsTable(own, c),
         NEW o \in Pointer(c), m[c][o] # NoBlock
  PROVE  BelowOf([m EXCEPT ![c][o] = NoBlock], m[c][o], LevelOf(own, c, o))
           = BelowOf(m, m[c][o], LevelOf(own, c, o))
<1>1. PICK b : b = m[c][o]
  OBVIOUS
<1>2. PICK d : d = LevelOf(own, c, o)
  OBVIOUS
<1>3. PICK m2 : m2 = [m EXCEPT ![c][o] = NoBlock]
  OBVIOUS
<1>4. b \in Block /\ own[b].kind = "pointed" /\ own[b].lev = d
  BY <1>1, <1>2, Pointed
<1>5. d \in 0 .. 2 /\ own \in [Block -> Tags]
  <2>1. own[b] \in Tags /\ own \in [Block -> Tags]
    BY <1>4 DEF Links
  <2>. QED  BY <1>4, <2>1 DEF Tags
<1>6. \A x \in Container : x # c => m2[x] = m[x]
  BY <1>3 DEF Links
<1>7. c = Inode \/ (c \in Block /\ own[c].lev - 1 = d /\ own[c].lev \in 0 .. 2)
  BY <1>2, <1>5, BlockFacts DEF LevelOf, Tags
<1>8. b # c
  <2>1. CASE c = Inode
    BY <2>1, <1>4, BlockFacts
  <2>2. CASE c # Inode
    BY <2>2, <1>4, <1>5, <1>7
  <2>. QED  BY <2>1, <2>2
<1>. DEFINE children(w, x) == {w[x][i] : i \in Pointer(x)} \ {NoBlock}
            one(w) == IF d = 0 THEN {} ELSE children(w, b)
<1>9. m2[b] = m[b]
  BY <1>4, <1>6, <1>8, BlockFacts
<1>10. one(m2) = one(m)
  BY <1>9
<1>11. ASSUME NEW x \in one(m) PROVE m2[x] = m[x]
  <2>1. d # 0
    BY <1>11
  <2>2. b \in Container /\ b # Inode /\ IsTable(own, b)
    BY <1>4, <1>5, <2>1, BlockFacts DEF IsTable
  <2>3. PICK i \in Pointer(b) : x = m[b][i] /\ m[b][i] # NoBlock
    BY <1>11
  <2>4. x \in Block /\ own[x].lev = LevelOf(own, b, i)
    BY <2>2, <2>3, Pointed
  <2>5. own[x].lev = d - 1
    BY <1>4, <2>2, <2>4 DEF LevelOf
  <2>6. x # c
    <3>1. CASE c = Inode
      BY <3>1, <2>4, BlockFacts
    <3>2. CASE c # Inode
      BY <3>2, <2>5, <1>5, <1>7
    <3>. QED  BY <3>1, <3>2
  <2>. QED  BY <2>4, <2>6, <1>6, BlockFacts
<1>12. \A x \in one(m) : children(m2, x) = children(m, x)
  BY <1>11
<1>13. BelowOf(m2, b, d) = {b} \cup one(m2) \cup IF d < 2 THEN {} ELSE UNION {children(m2, x) : x \in one(m2)}
  BY Zenon DEF BelowOf
<1>14. BelowOf(m, b, d) = {b} \cup one(m) \cup IF d < 2 THEN {} ELSE UNION {children(m, x) : x \in one(m)}
  BY Zenon DEF BelowOf
<1>15. UNION {children(m2, x) : x \in one(m2)} = UNION {children(m, x) : x \in one(m)}
  <2>. HIDE DEF children, one
  <2>. QED  BY <1>10, <1>12
<1>16. BelowOf(m2, b, d) = BelowOf(m, b, d)
  <2>. HIDE DEF children, one
  <2>. QED  BY <1>10, <1>13, <1>14, <1>15
<1>. QED  BY <1>1, <1>2, <1>3, <1>16

LEMMA PathTop ==
  ASSUME NEW s \in Sectors, Len(Path(s)) \in 2 .. 3
  PROVE  Path(s)[1] + 1 - DIRECT = Len(Path(s)) - 1
<1>1. PICK n : n = Len(Path(s))
  OBVIOUS
<1>2. LevelOf(<<>>, Inode, Path(s)[1]) = n - 1 /\ n \in 2 .. 3 /\ Path(s)[1] \in Nat
  <2>1. 1 \in 1 .. Len(Path(s))
    BY PathLen
  <2>. QED  BY <1>1, <2>1, PathFacts
<1>3. Path(s)[1] + 1 - DIRECT = n - 1
  BY <1>2, Constants DEF LevelOf
<1>. QED  BY <1>1, <1>3

(* What find_shared() leaves to show: what is cut off is in the tasks.     *)
LEMMA SharedStep ==
  ASSUME IInv, NEW p \in Process, FindShared(p), NEW own, Forest(own),
         NEW own2, Links(own2, mem'), Cutoff(own2, unread'),
         \A b \in Block : own2[b].kind = "free" <=> own[b].kind = "free",
         \A b \in Block : own2[b].kind = "branch" <=> own[b].kind = "branch",
         \A b \in Block : own[b].kind = "branch" => mem'[b] = mem[b],
         \A i \in 0 .. Fork(p) - 1 : Walk(mem', size, i) = Walk(mem, size, i),
         NEW whole \in Seq(Task), TasksOk(mem', whole, size),
         tasks' = [tasks EXCEPT ![p] =
           whole \o EndsOf(p) \o Indirects(Path(call[p].sector)[1] + 1 - DIRECT)],
         \A i \in DOMAIN whole : whole[i].op = "whole" /\ own2[whole[i].at] = Loose("whole", whole[i].depth),
         \A x \in Block : own2[x].kind = "whole" => \E i \in DOMAIN whole : whole[i].at = x
  PROVE  IInv'
<1>1. /\ call[p].pc = "shared" /\ Go(p, "free") /\ chain' = [chain EXCEPT ![p] = <<>>]
      /\ UNCHANGED <<zmap, size, mutex, branch>>
  BY SharedIs
<1>2. Types /\ CallInv(p)
  BY DEF IInv
<1>3. ForkFacts(p, own) /\ Links(own, mem) /\ Holds(own)
  BY <1>1, ForkOk DEF Forest
<1>4. PICK es : es = EndsOf(p)
  OBVIOUS
<1>5. PICK m2 : m2 = mem'
  OBVIOUS
<1>6. /\ es \in Seq(Task) /\ TasksOk(m2, es, size)
      /\ \A i \in DOMAIN es : es[i].op = "cells" /\ es[i].depth < Len(Path(size))
  <2>1. \A i \in 0 .. Fork(p) - 1 : Walk(m2, size, i) = Walk(mem, size, i)
    BY <1>5
  <2>. QED  BY <1>3, <1>4, <2>1, EndsOfOk
<1>7. size \in Sectors /\ call[p].sector = size /\ Len(Path(size)) \in 2 .. 3
  BY <1>3 DEF ForkFacts
<1>8. PICK n : n = Len(Path(size))
  OBVIOUS
<1>9. PICK is : is = Indirects(n - 1)
  OBVIOUS
<1>10. Indirects(Path(call[p].sector)[1] + 1 - DIRECT) = is
  <2>1. Path(size)[1] + 1 - DIRECT = n - 1
    BY <1>7, <1>8, PathTop
  <2>. QED  BY <1>7, <1>9, <2>1
<1>11. /\ is \in Seq(Task) /\ TasksOk(m2, is, size)
       /\ DOMAIN is = 1 .. 3 - n
       /\ \A i \in 1 .. 3 - n : is[i] = Cells(Inode, DIRECT + n + i - 2, DIRECT + n + i - 1, n + i - 1)
  BY <1>7, <1>8, <1>9, IndirectsOk
<1>12. \A i \in DOMAIN is : is[i].op = "cells" /\ n <= is[i].depth
  <2>. SUFFICES ASSUME NEW i \in DOMAIN is PROVE is[i].op = "cells" /\ n <= is[i].depth
    OBVIOUS
  <2>1. i \in 1 .. 3 - n /\ n \in 2 .. 3
    BY <1>7, <1>8, <1>11
  <2>2. is[i].op = "cells" /\ is[i].depth = n + i - 1
    BY <1>11, <2>1 DEF Cells
  <2>. QED  BY <2>1, <2>2
<1>13. \A i \in DOMAIN es, j \in DOMAIN is : Before(es[i], is[j])
  <2>. SUFFICES ASSUME NEW i \in DOMAIN es, NEW j \in DOMAIN is PROVE Before(es[i], is[j])
    OBVIOUS
  <2>1. es[i] \in Task /\ is[j] \in Task
    <3>1. DOMAIN es = 1 .. Len(es) /\ DOMAIN is = 1 .. Len(is)
      BY <1>6, <1>11, LenProperties
    <3>. QED  BY <3>1, <1>6, <1>11, ElementOfSeq
  <2>2. es[i].op = "cells" /\ is[j].op = "cells" /\ es[i].depth < n /\ n <= is[j].depth
    BY <1>6, <1>8, <1>12
  <2>3. es[i].depth \in Nat /\ is[j].depth \in Nat /\ n \in 2 .. 3
    BY <1>7, <1>8, <2>1 DEF Task
  <2>4. es[i].depth < is[j].depth
    BY <2>2, <2>3
  <2>. QED  BY <2>2, <2>4 DEF Before
<1>14. PICK we : we = whole \o es
  OBVIOUS
<1>15. we \in Seq(Task) /\ TasksOk(m2, we, size)
  <2>1. TasksOk(m2, whole, size)
    BY <1>5
  <2>2. \A i \in DOMAIN whole, j \in DOMAIN es : Before(whole[i], es[j])
    BY <1>6 DEF Before
  <2>. QED  BY <1>6, <1>14, <2>1, <2>2, ConcatTasks
<1>16. WholeOf(own2, we)
  <2>1. \A i \in DOMAIN whole : whole[i].op = "whole" => own2[whole[i].at] = Loose("whole", whole[i].depth)
    OBVIOUS
  <2>2. \A i \in DOMAIN es : es[i].op = "whole" => own2[es[i].at] = Loose("whole", es[i].depth)
    BY <1>6
  <2>3. \A x \in Block : own2[x].kind = "whole" =>
           \/ \E i \in DOMAIN whole : whole[i].op = "whole" /\ whole[i].at = x
           \/ \E i \in DOMAIN es : es[i].op = "whole" /\ es[i].at = x
    OBVIOUS
  <2>. QED  BY <1>6, <1>14, <2>1, <2>2, <2>3, WholeConcat
<1>17. PICK ts : ts = we \o is
  OBVIOUS
<1>18. \A i \in DOMAIN we, j \in DOMAIN is : Before(we[i], is[j])
  <2>. SUFFICES ASSUME NEW i \in DOMAIN we, NEW j \in DOMAIN is PROVE Before(we[i], is[j])
    OBVIOUS
  <2>1. PICK a \in Seq(Task) : a = whole
    OBVIOUS
  <2>2. we = a \o es
    BY <1>14, <2>1
  <2>3. \/ i \in DOMAIN a /\ we[i] = a[i]
        \/ \E k \in DOMAIN es : we[i] = es[k]
    <3>1. /\ DOMAIN a = 1 .. Len(a) /\ DOMAIN es = 1 .. Len(es) /\ DOMAIN we = 1 .. Len(we)
          /\ Len(a) \in Nat /\ Len(es) \in Nat
      BY <1>6, <1>15, LenProperties
    <3>2. /\ Len(we) = Len(a) + Len(es)
          /\ \A k \in 1 .. Len(we) : we[k] = IF k <= Len(a) THEN a[k] ELSE es[k - Len(a)]
      BY <1>6, <2>2, ConcatProperties
    <3>3. CASE i <= Len(a)
      BY <3>1, <3>2, <3>3
    <3>4. CASE ~ (i <= Len(a))
      <4>1. i - Len(a) \in DOMAIN es
        BY <3>1, <3>2, <3>4
      <4>. QED  BY <3>1, <3>2, <3>4, <4>1
    <3>. QED  BY <3>3, <3>4
  <2>4. CASE i \in DOMAIN a /\ we[i] = a[i]
    <3>1. we[i].op = "whole" /\ is[j].op = "cells"
      BY <1>12, <2>1, <2>4
    <3>. QED  BY <3>1 DEF Before
  <2>5. CASE \E k \in DOMAIN es : we[i] = es[k]
    BY <2>5, <1>13
  <2>. QED  BY <2>3, <2>4, <2>5
<1>19. ts \in Seq(Task) /\ TasksOk(m2, ts, size)
  BY <1>11, <1>15, <1>17, <1>18, ConcatTasks
<1>20. WholeOf(own2, ts)
  <2>1. \A i \in DOMAIN is : is[i].op = "whole" => own2[is[i].at] = Loose("whole", is[i].depth)
    BY <1>12
  <2>2. /\ \A i \in DOMAIN we : we[i].op = "whole" => own2[we[i].at] = Loose("whole", we[i].depth)
        /\ \A x \in Block : own2[x].kind = "whole" =>
             \E i \in DOMAIN we : we[i].op = "whole" /\ we[i].at = x
    BY <1>16 DEF WholeOf
  <2>3. \A x \in Block : own2[x].kind = "whole" =>
           \/ \E i \in DOMAIN we : we[i].op = "whole" /\ we[i].at = x
           \/ \E i \in DOMAIN is : is[i].op = "whole" /\ is[i].at = x
    BY <2>2
  <2>. QED  BY <1>11, <1>15, <1>17, <2>1, <2>2, <2>3, WholeConcat
<1>21. tasks' = [tasks EXCEPT ![p] = ts]
  BY <1>4, <1>10, <1>14, <1>17
<1>22. tasks' \in [Process -> Seq(Task)] /\ tasks'[p] = ts /\ \A q \in Process : q # p => tasks'[q] = tasks[q]
  <2>1. tasks \in [Process -> Seq(Task)] /\ ts \in Seq(Task)
    BY <1>2, <1>19 DEF Types
  <2>2. PICK S : S = Seq(Task)
    OBVIOUS
  <2>3. tasks \in [Process -> S] /\ ts \in S
    BY <2>1, <2>2
  <2>4. tasks' \in [Process -> S] /\ tasks'[p] = ts /\ \A q \in Process : q # p => tasks'[q] = tasks[q]
    BY <2>3, <1>21, Zenon
  <2>. QED  BY <2>2, <2>4
<1>23. /\ call' \in [Process -> CallType]
       /\ call'[p].pc = "free" /\ call'[p].kind = call[p].kind
       /\ call'[p].sector = call[p].sector /\ call'[p].result = call[p].result
       /\ \A q \in Process : q # p => call'[q] = call[q]
  <2>1. PICK r : r = call[p].result
    OBVIOUS
  <2>2. r \in Block \cup {NoBlock, EIO, ENOSPC} /\ "free" \in Label
    BY <1>2, <2>1, TypesOf DEF Label
  <2>. QED  BY <1>1, <1>2, <2>1, <2>2, Moves
<1>24. chain' \in [Process -> ChainType] /\ \A q \in Process : q # p => chain'[q] = chain[q]
  <2>1. <<>> \in ChainType
    BY DEF ChainType
  <2>2. chain \in [Process -> ChainType]
    BY <1>2 DEF Types, ChainType
  <2>. QED  BY <1>1, <2>1, <2>2
<1>25. Discipline(p)'
  <2>1. Discipline(p)
    BY <1>2 DEF CallInv
  <2>. QED  BY <1>1, <1>23, <2>1 DEF Discipline, Creates
<1>26. /\ \A b \in Block : own2[b].kind = "free" <=> b \notin zmap'
       /\ zmap' \subseteq Block
  BY <1>1, <1>2, <1>3 DEF Holds, Types
<1>27. TasksOk(mem', tasks'[p], size) /\ WholeOf(own2, tasks'[p])
  BY <1>5, <1>19, <1>20, <1>22
<1>28. call[p].pc \in {"shared", "free"} /\ UNCHANGED <<size, mutex, branch>>
  BY <1>1
<1>. QED  BY <1>22, <1>23, <1>24, <1>25, <1>26, <1>27, <1>28, TruncStep

LEMMA StoredSame ==
  ASSUME NEW own, NEW m, Links(own, m), NEW c \in Container, NEW o \in Pointer(c), m[c][o] = NoBlock
  PROVE  [m EXCEPT ![c][o] = NoBlock] = m
<1>1. m = [x \in Container |-> m[x]] /\ m[c] \in [Pointer(c) -> Block \cup {NoBlock}]
  BY DEF Links
<1>2. [m[c] EXCEPT ![o] = NoBlock] = m[c]
  BY <1>1
<1>3. [m EXCEPT ![c][o] = NoBlock] = [m EXCEPT ![c] = [m[c] EXCEPT ![o] = NoBlock]]
  OBVIOUS
<1>4. [m EXCEPT ![c] = m[c]] = m
  BY <1>1
<1>. QED  BY <1>2, <1>3, <1>4

(* Nothing is cut off.                                                     *)
LEMMA SharedQuiet ==
  ASSUME IInv, NEW p \in Process, FindShared(p), CutTop(p) = NoBlock, mem' = mem
  PROVE  IInv'
<1>1. /\ call[p].pc = "shared" /\ UNCHANGED <<zmap, size, mutex, branch>> /\ unread' = unread
      /\ tasks' = [tasks EXCEPT ![p] =
           <<>> \o EndsOf(p) \o Indirects(Path(call[p].sector)[1] + 1 - DIRECT)]
  BY SharedIs
<1>2. PICK own : Forest(own)
  BY DEF IInv
<1>3. PICK own2 : own2 = own
  OBVIOUS
<1>4. PICK whole : whole = <<>>
  OBVIOUS
<1>5. Links(own2, mem') /\ Cutoff(own2, unread')
  BY <1>1, <1>2, <1>3 DEF Forest
<1>6. /\ \A b \in Block : own2[b].kind = "free" <=> own[b].kind = "free"
      /\ \A b \in Block : own2[b].kind = "branch" <=> own[b].kind = "branch"
      /\ \A b \in Block : own[b].kind = "branch" => mem'[b] = mem[b]
      /\ \A i \in 0 .. Fork(p) - 1 : Walk(mem', size, i) = Walk(mem, size, i)
  BY <1>3
<1>7. /\ whole \in Seq(Task) /\ TasksOk(mem', whole, size) /\ DOMAIN whole = {}
  BY <1>4, NoTasks
<1>8. \A i \in DOMAIN whole : whole[i].op = "whole" /\ own2[whole[i].at] = Loose("whole", whole[i].depth)
  BY <1>7
<1>9. \A x \in Block : own2[x].kind = "whole" => \E i \in DOMAIN whole : whole[i].at = x
  BY <1>1, <1>2, <1>3, TasksAlone
<1>10. tasks' = [tasks EXCEPT ![p] =
         whole \o EndsOf(p) \o Indirects(Path(call[p].sector)[1] + 1 - DIRECT)]
  BY <1>1, <1>4
<1>. QED  BY <1>2, <1>5, <1>6, <1>7, <1>8, <1>9, <1>10, SharedStep, Zenon

LEMMA FindSharedInv ==
  ASSUME IInv, NEW p \in Process, FindShared(p)
  PROVE  IInv'
<1>1. PICK own : Forest(own)
  BY DEF IInv
<1>2. call[p].pc = "shared"
  BY SharedIs
<1>3. ForkFacts(p, own) /\ Links(own, mem) /\ Holds(own) /\ Cutoff(own, unread)
  BY <1>1, <1>2, ForkOk DEF Forest
<1>4. CASE Grown(p) \/ Stays(p)
  <2>1. CutTop(p) = NoBlock /\ mem' = mem
    BY <1>4, SharedIs, Zenon DEF CutTop
  <2>. QED  BY <2>1, SharedQuiet
<1>5. CASE ~ (Grown(p) \/ Stays(p))
  <2>1. PICK j : j = Fork(p)
    OBVIOUS
  <2>2. PICK n : n = Len(Path(size))
    OBVIOUS
  <2>3. PICK c : c = Walk(mem, size, j - 1)
    OBVIOUS
  <2>4. PICK o : o = Path(size)[j]
    OBVIOUS
  <2>5. PICK b : b = mem[c][o]
    OBVIOUS
  <2>6. n \in 2 .. 3 /\ j \in 1 .. n /\ j \in 1 .. j /\ size \in Sectors /\ call[p].sector = size
    <3>1. PICK d : d = Depth(p)
      OBVIOUS
    <3>2. d \in 1 .. n /\ j \in 1 .. d /\ n \in 2 .. 3 /\ size \in Sectors /\ call[p].sector = size
      BY <1>3, <2>1, <2>2, <3>1 DEF ForkFacts
    <3>. QED  BY <3>2
  <2>7. /\ chain[p][j].at = <<c, o>> /\ (j = 1 \/ c # NoBlock)
        /\ OnWalk(own, mem, size, j)
    BY <1>3, <2>1, <2>3, <2>4, <2>6 DEF ForkFacts
  <2>8. /\ c \in Container /\ IsTable(own, c) /\ o \in Pointer(c) /\ LevelOf(own, c, o) = n - j
    BY <2>2, <2>3, <2>4, <2>7 DEF OnWalk
  <2>9. mem' = [mem EXCEPT ![c][o] = NoBlock] /\ CutTop(p) = b
    <3>1. mem' = Stored(chain[p][j].at, NoBlock) /\ CutTop(p) = At(chain[p][j].at)
      BY <1>5, <2>1, SharedIs, Zenon DEF CutTop
    <3>2. chain[p][j].at[1] = c /\ chain[p][j].at[2] = o
      BY <2>7
    <3>3. mem' = [mem EXCEPT ![c][o] = NoBlock]
      BY <3>1, <3>2, Zenon DEF Stored
    <3>4. CutTop(p) = b
      BY <3>1, <3>2, <2>5, Zenon DEF At
    <3>. QED  BY <3>3, <3>4
  <2>10. CASE b = NoBlock
    <3>1. [mem EXCEPT ![c][o] = NoBlock] = mem
      BY <1>3, <2>5, <2>8, <2>10, StoredSame
    <3>2. mem' = mem /\ CutTop(p) = NoBlock
      BY <2>9, <2>10, <3>1
    <3>. QED  BY <3>2, SharedQuiet
  <2>11. CASE b # NoBlock
    <3>1. PICK d : d = n - j
      OBVIOUS
    <3>2. PICK own2 : own2 = [own EXCEPT ![b] = Loose("whole", d)]
      OBVIOUS
    <3>3. PICK w : w = Whole(b, d)
      OBVIOUS
    <3>4. PICK whole : whole = <<w>>
      OBVIOUS
    <3>5. /\ b \in Block /\ own[b].kind = "pointed" /\ own \in [Block -> Tags]
      BY <1>3, <2>5, <2>8, <2>11, Pointed DEF Links
    <3>6. LevelOf(own, c, o) = d /\ d \in 0 .. 2
      BY <2>6, <2>8, <3>1
    <3>7. /\ own2[b] = Loose("whole", d) /\ own2[b].kind = "whole" /\ own2[b].lev = d
          /\ \A x : x # b => own2[x] = own[x]
      BY <3>2, <3>5 DEF Loose, Tag
    <3>8. Links(own2, mem')
      <4>1. Links([own EXCEPT ![mem[c][o]] = Loose("whole", LevelOf(own, c, o))],
                  [mem EXCEPT ![c][o] = NoBlock])
        BY <1>3, <2>5, <2>8, <2>11, Cut
      <4>. QED  BY <4>1, <2>5, <2>9, <3>2, <3>6
    <3>9. Cutoff(own2, unread)
      BY <1>3, <3>2, <3>5, CutoffCut
    <3>10. Cutoff(own2, unread')
      <4>1. BelowOf(mem', b, own2[b].lev) = Below(b, d)
        <5>1. BelowOf([mem EXCEPT ![c][o] = NoBlock], mem[c][o], LevelOf(own, c, o))
                = BelowOf(mem, mem[c][o], LevelOf(own, c, o))
          BY <1>3, <2>5, <2>8, <2>11, BelowCut
        <5>2. BelowOf(mem', b, d) = BelowOf(mem, b, d)
          BY <5>1, <2>5, <2>9, <3>6
        <5>. QED  BY <5>2, <3>7, BelowIs
      <4>2. Cutoff(own2, unread \cup BelowOf(mem', b, own2[b].lev))
        <5>1. PICK m2 : m2 = mem'
          OBVIOUS
        <5>2. Links(own2, m2)
          BY <3>8, <5>1
        <5>3. Cutoff(own2, unread \cup BelowOf(m2, b, own2[b].lev))
          BY <3>5, <3>7, <3>9, <5>2, CutoffBelow
        <5>. QED  BY <5>1, <5>3
      <4>3. unread' = unread \/ unread' = unread \cup Below(b, d)
        <5>1. Len(Path(call[p].sector)) - Fork(p) = d
          BY <2>1, <2>2, <2>6, <3>1
        <5>2. unread' = IF CutTop(p) # NoBlock /\ Len(chain[p]) < Depth(p) /\ Last(chain[p]).key # NoBlock
                        THEN unread \cup Below(CutTop(p), Len(Path(call[p].sector)) - Fork(p)) ELSE unread
          BY SharedIs
        <5>3. \/ unread' = unread
              \/ unread' = unread \cup Below(CutTop(p), Len(Path(call[p].sector)) - Fork(p))
          BY <5>2, Zenon
        <5>. QED  BY <2>9, <5>1, <5>3
      <4>. QED  BY <3>9, <4>1, <4>2, <4>3
    <3>11. /\ \A x \in Block : own2[x].kind = "free" <=> own[x].kind = "free"
           /\ \A x \in Block : own2[x].kind = "branch" <=> own[x].kind = "branch"
      BY <3>5, <3>7
    <3>12. \A x \in Block : own[x].kind = "branch" => mem'[x] = mem[x]
      <4>1. \A x \in Block : own[x].kind = "branch" => x # c
        BY <2>8, BlockFacts DEF IsTable
      <4>2. \A x \in Container : x # c => mem'[x] = mem[x]
        BY <1>3, <2>9 DEF Links
      <4>. QED  BY <4>1, <4>2, BlockFacts
    <3>13. \A i \in 0 .. Fork(p) - 1 : Walk(mem', size, i) = Walk(mem, size, i)
      <4>1. PICK m2 : m2 = mem'
        OBVIOUS
      <4>2. \A x \in Container : x # Walk(mem, size, j - 1) => m2[x] = mem[x]
        BY <1>3, <2>3, <2>9, <4>1 DEF Links
      <4>3. j \in 1 .. Len(Path(size)) /\ (j = 1 \/ Walk(mem, size, j - 1) # NoBlock)
        BY <2>2, <2>3, <2>6, <2>7
      <4>4. \A i \in 0 .. j - 1 : Walk(m2, size, i) = Walk(mem, size, i)
        BY <1>3, <2>6, <4>2, <4>3, WalkCut, Zenon
      <4>. QED  BY <2>1, <4>1, <4>4
    <3>14. w \in Task /\ w.op = "whole" /\ w.at = b /\ w.depth = d /\ w.read = FALSE
      BY <3>3, <3>5, <3>6 DEF Whole, Task
    <3>15. whole \in Seq(Task) /\ TasksOk(mem', whole, size) /\ DOMAIN whole = {1} /\ whole[1] = w
      BY <3>4, <3>14, SingleTask
    <3>16. \A i \in DOMAIN whole : whole[i].op = "whole" /\ own2[whole[i].at] = Loose("whole", whole[i].depth)
      BY <3>7, <3>14, <3>15
    <3>17. \A x \in Block : own2[x].kind = "whole" => \E i \in DOMAIN whole : whole[i].at = x
      <4>1. \A x \in Block : own[x].kind # "whole"
        BY <1>1, <1>2, TasksAlone
      <4>2. \A x \in Block : own2[x].kind = "whole" => x = b
        BY <3>7, <4>1
      <4>3. 1 \in DOMAIN whole /\ whole[1].at = b
        BY <3>14, <3>15
      <4>. QED  BY <4>2, <4>3
    <3>18. tasks' = [tasks EXCEPT ![p] =
             whole \o EndsOf(p) \o Indirects(Path(call[p].sector)[1] + 1 - DIRECT)]
      <4>1. <<Whole(CutTop(p), Len(Path(call[p].sector)) - Fork(p))>> = whole
        BY <2>1, <2>2, <2>6, <2>9, <3>1, <3>3, <3>4
      <4>2. CutTop(p) # NoBlock
        BY <2>9, <2>11
      <4>3. tasks' = [tasks EXCEPT ![p] =
              (IF CutTop(p) = NoBlock THEN <<>>
               ELSE <<Whole(CutTop(p), Len(Path(call[p].sector)) - Fork(p))>>)
              \o EndsOf(p) \o Indirects(Path(call[p].sector)[1] + 1 - DIRECT)]
        BY SharedIs
      <4>. QED  BY <4>1, <4>2, <4>3, Zenon
    <3>. QED  BY <1>1, <3>8, <3>10, <3>11, <3>12, <3>13, <3>15, <3>16, <3>17, <3>18, SharedStep, Zenon
  <2>. QED  BY <2>10, <2>11
<1>. QED  BY <1>4, <1>5

-----------------------------------------------------------------------------

LEMMA GetBlockStepInv ==
  ASSUME IInv, NEW p \in Process, GetBlockStep(p)
  PROVE  IInv'
BY FirstLevelInv, NextLevelInv, ReadFailsInv, AllocInv, NoSpaceInv, SpliceInv, UndoInv, UndoneInv
   DEF GetBlockStep

LEMMA TruncateStepInv ==
  ASSUME IInv, NEW p \in Process, TruncateStep(p)
  PROVE  IInv'
BY FindSharedInv, ClearEndsInv, EndsClearInv, ReadIndirectInv, ClearIndirectInv, FreeBlockInv,
   TruncatedInv
   DEF TruncateStep

LEMMA StutterInv ==
  ASSUME IInv, UNCHANGED vars
  PROVE  IInv'
<1>1. UNCHANGED <<zmap, mem, size, mutex, call, chain, branch, tasks, unread>>
  BY DEF vars
<1>2. Types' /\ Apart'
  BY <1>1 DEF IInv, Types, Apart
<1>3. PICK own : Forest(own)
  BY DEF IInv
<1>4. Forest(own)'
  BY <1>1, <1>3 DEF Forest, Holds
<1>5. ASSUME NEW p \in Process PROVE CallInv(p)'
  <2>1. CallInv(p)
    BY DEF IInv
  <2>2. Discipline(p)'
    BY <1>1, <2>1 DEF CallInv, Discipline, Creates
  <2>3. ChainInv(p)'
    BY <1>1, <2>1 DEF CallInv, ChainInv, Depth, At
  <2>4. BranchInv(p)'
    BY <1>1, <2>1 DEF CallInv, BranchInv, Left
  <2>5. TasksInv(p)'
    BY <1>1, <2>1 DEF CallInv, TasksInv
  <2>. QED  BY <2>2, <2>3, <2>4, <2>5 DEF CallInv
<1>. QED  BY <1>2, <1>4, <1>5 DEF IInv

LEMMA InitInv ==
  ASSUME Init
  PROVE  IInv
<1>1. Types
  <2>1. Idle \in [pc : Label, kind : {"none", "write", "writepage", "bmap", "truncate"},
                  sector : 0 .. NSectors, result : Block \cup {NoBlock, EIO, ENOSPC}]
    BY Constants DEF Idle, Label
  <2>2. /\ <<>> \in Seq([at : Container \X Nat, key : Block \cup {NoBlock}])
        /\ <<>> \in Seq(Block) /\ <<>> \in Seq(Task)
    OBVIOUS
  <2>3. zmap \subseteq Block /\ size \in 0 .. NSectors
    BY Constants DEF Init
  <2>4. call = [p \in Process |-> Idle] /\ chain = [p \in Process |-> <<>>]
        /\ branch = [p \in Process |-> <<>>] /\ tasks = [p \in Process |-> <<>>]
    BY DEF Init
  <2>. QED  BY <2>1, <2>2, <2>3, <2>4 DEF Types
<1>2. ASSUME NEW p \in Process PROVE CallInv(p)
  <2>1. call[p] = Idle /\ chain[p] = <<>> /\ branch[p] = <<>> /\ tasks[p] = <<>> /\ mutex # p
    BY BlockFacts DEF Init
  <2>2. Discipline(p)
    BY <2>1 DEF Discipline, Idle, Creates
  <2>3. ChainInv(p) /\ BranchInv(p) /\ TasksInv(p)
    BY <2>1 DEF ChainInv, BranchInv, TasksInv, Idle
  <2>. QED  BY <2>2, <2>3 DEF CallInv
<1>3. Apart
  BY DEF Init, Apart
<1>4. \E own : Forest(own)
  <2>1. PICK own : own = [b \in Block |-> Loose("free", 0)]
    OBVIOUS
  <2>2. own \in [Block -> Tags] /\ \A b \in Block : own[b].kind = "free"
    BY <2>1, BlockFacts DEF Loose, Tag, Tags
  <2>3. mem = [c \in Container |-> [o \in Pointer(c) |-> NoBlock]]
    BY DEF Init, Container
  <2>4. Links(own, mem)
    BY <2>2, <2>3 DEF Links
  <2>5. Holds(own)
    BY <2>2 DEF Holds, Init, Idle
  <2>6. Cutoff(own, unread)
    BY <2>2 DEF Cutoff, Init
  <2>. QED  BY <2>4, <2>5, <2>6 DEF Forest
<1>. QED  BY <1>1, <1>2, <1>3, <1>4 DEF IInv

LEMMA NextInv ==
  ASSUME IInv, [Next]_vars
  PROVE  IInv'
<1>1. CASE UNCHANGED vars
  BY <1>1, StutterInv
<1>2. CASE Next
  <2>1. PICK p \in Process :
          \/ \E t \in Sector : Write(p, t) \/ Writepage(p, t) \/ Bmap(p, t)
          \/ \E s \in {0} \cup Sector \cup {t + 1 : t \in Sector} : Truncate(p, s)
          \/ TakeBack(p) \/ Return(p) \/ GetBlockStep(p) \/ TruncateStep(p)
    BY <1>2 DEF Next
  <2>2. CASE \E t \in Sector : Write(p, t) \/ Writepage(p, t) \/ Bmap(p, t)
    BY <2>2, CallGetBlockInv
  <2>3. CASE \E s \in {0} \cup Sector \cup {t + 1 : t \in Sector} : Truncate(p, s)
    BY <2>3, TruncateInv
  <2>4. CASE TakeBack(p) \/ Return(p) \/ GetBlockStep(p) \/ TruncateStep(p)
    BY <2>4, TakeBackInv, ReturnInv, GetBlockStepInv, TruncateStepInv
  <2>. QED  BY <2>1, <2>2, <2>3, <2>4
<1>. QED  BY <1>1, <1>2

(* The inductive invariant: every block has one purpose, to which the      *)
(* pointers, the branches, and the work left to truncate agree, and the    *)
(* chain of a truncate and the ends it clears stay on the path of i_size.  *)
THEOREM Invariant == Spec => []IInv
<1>1. Init => IInv
  BY InitInv
<1>2. IInv /\ [Next]_vars => IInv'
  BY NextInv
<1>. QED  BY <1>1, <1>2, PTL DEF Spec

-----------------------------------------------------------------------------
(* Every block has one owner                                               *)

(* The block at the top of the subtree that b is in.                       *)
Rise(own, b) == IF own[b].kind = "pointed" /\ own[b].c # Inode THEN own[b].c ELSE b
Root(own, b) == Rise(own, Rise(own, b))

LEMMA RiseFacts ==
  ASSUME NEW own, NEW m, Links(own, m), NEW b \in Block
  PROVE  /\ Rise(own, b) \in Block
         /\ Rise(own, b) = b \/ /\ own[Rise(own, b)].kind \in {"pointed", "whole", "lost"}
                                /\ own[Rise(own, b)].lev = own[b].lev + 1
                                /\ own[b].kind = "pointed"
         /\ Rise(own, b) = b => own[b].kind # "pointed" \/ own[b].c = Inode
         /\ own[b].lev \in 0 .. 2
<1>1. own[b] \in Tags /\ own[b].lev \in 0 .. 2 /\ own[b].c \in Container
  BY DEF Links, Tags, Container
<1>2. CASE own[b].kind = "pointed" /\ own[b].c # Inode
  <2>1. PICK c : c = own[b].c
    OBVIOUS
  <2>2. PICK o : o = own[b].o
    OBVIOUS
  <2>3. c \in Block /\ Rise(own, b) = c /\ IsTable(own, c) /\ o \in Pointer(c) /\ m[c][o] = b
    BY <1>1, <1>2, <2>1, <2>2, BlockFacts DEF Links, Rise
  <2>4. own[b].lev = LevelOf(own, c, o)
    BY <2>3, BlockFacts, Pointed
  <2>5. own[c].lev \in 0 .. 2
    BY <2>3 DEF Links, Tags
  <2>6. own[c].lev = own[b].lev + 1
    BY <2>3, <2>4, <2>5, BlockFacts DEF LevelOf
  <2>7. own[c].kind \in {"pointed", "whole", "lost"} /\ c # b
    BY <1>1, <2>3, <2>6, BlockFacts DEF IsTable
  <2>. QED  BY <1>1, <1>2, <2>3, <2>6, <2>7
<1>3. CASE ~ (own[b].kind = "pointed" /\ own[b].c # Inode)
  <2>1. Rise(own, b) = b
    BY <1>3 DEF Rise
  <2>. QED  BY <1>1, <1>3, <2>1
<1>. QED  BY <1>2, <1>3

LEMMA RootFacts ==
  ASSUME NEW own, NEW m, Links(own, m), NEW b \in Block
  PROVE  /\ Root(own, b) \in Block
         /\ own[Root(own, b)].kind # "pointed" \/ own[Root(own, b)].c = Inode
         /\ Root(own, b) = b \/ /\ own[Root(own, b)].kind \in {"pointed", "whole", "lost"}
                                /\ own[b].kind = "pointed"
<1>1. PICK x : x = Rise(own, b)
  OBVIOUS
<1>2. PICK r : r = Rise(own, x)
  OBVIOUS
<1>3. /\ x \in Block
      /\ x = b \/ (own[x].kind \in {"pointed", "whole", "lost"} /\ own[x].lev = own[b].lev + 1 /\ own[b].kind = "pointed")
      /\ x = b => own[b].kind # "pointed" \/ own[b].c = Inode
      /\ own[b].lev \in 0 .. 2
  BY <1>1, RiseFacts
<1>4. /\ r \in Block
      /\ r = x \/ (own[r].kind \in {"pointed", "whole", "lost"} /\ own[r].lev = own[x].lev + 1)
      /\ r = x => own[x].kind # "pointed" \/ own[x].c = Inode
      /\ own[x].lev \in 0 .. 2
  BY <1>2, <1>3, RiseFacts
<1>5. PICK y : y = Rise(own, r)
  OBVIOUS
<1>6. /\ y \in Block
      /\ y = r \/ own[y].lev = own[r].lev + 1
      /\ y = r => own[r].kind # "pointed" \/ own[r].c = Inode
      /\ own[r].lev \in 0 .. 2
  BY <1>4, <1>5, RiseFacts
<1>7. own[y].lev \in 0 .. 2
  BY <1>6, RiseFacts
<1>8. own[r].kind # "pointed" \/ own[r].c = Inode
  <2>1. CASE r = x
    BY <2>1, <1>4
  <2>2. CASE x = b /\ r # x
    BY <2>2, <1>1, <1>2
  <2>3. CASE x # b /\ r # x
    <3>1. own[r].lev = own[b].lev + 2
      BY <2>3, <1>3, <1>4
    <3>2. y = r
      BY <3>1, <1>3, <1>6, <1>7
    <3>. QED  BY <3>2, <1>6
  <2>. QED  BY <2>1, <2>2, <2>3
<1>9. r = b \/ (own[r].kind \in {"pointed", "whole", "lost"} /\ own[b].kind = "pointed")
  BY <1>1, <1>2, <1>3, <1>4
<1>10. Root(own, b) = r
  BY <1>1, <1>2 DEF Root
<1>. QED  BY <1>4, <1>8, <1>9, <1>10

(* A subtree that is cut off is that of its root.                          *)
LEMMA RootBelow ==
  ASSUME NEW own, NEW m, Links(own, m), NEW b \in Block, NEW r \in Block,
         own[r].kind \in {"whole", "lost"}
  PROVE  b \in BelowOf(m, r, own[r].lev) <=> Root(own, b) = r
<1>1. PICK B : B = BelowOf(m, r, own[r].lev)
  OBVIOUS
<1>2. /\ r \in B /\ \A x \in B : x = r \/ own[x].kind = "pointed"
      /\ \A x \in Block : own[x].kind = "pointed" => (x \in B <=> own[x].c # Inode /\ own[x].c \in B)
  BY <1>1, BelowClosed
<1>3. \A x \in Block : x \in B <=> Rise(own, x) \in B
  BY <1>2 DEF Rise
<1>4. Rise(own, b) \in Block
  BY RiseFacts
<1>5. b \in B <=> Root(own, b) \in B
  BY <1>3, <1>4 DEF Root
<1>6. /\ Root(own, b) \in Block
      /\ own[Root(own, b)].kind # "pointed" \/ own[Root(own, b)].c = Inode
  BY RootFacts
<1>7. Root(own, b) \in B <=> Root(own, b) = r
  BY <1>2, <1>6
<1>. QED  BY <1>1, <1>5, <1>7

LEMMA RootUnread ==
  ASSUME NEW own, NEW m, Links(own, m), NEW u, Cutoff(own, u), NEW b \in Block
  PROVE  b \in u <=> Root(own, b) \in u
<1>1. \A x \in Block : x \in u <=> Rise(own, x) \in u
  BY DEF Cutoff, Rise
<1>2. Rise(own, b) \in Block
  BY RiseFacts
<1>. QED  BY <1>1, <1>2 DEF Root

(* The pointers of the tree are those under i_data.                        *)
LEMMA TreeOnly ==
  ASSUME NEW own, Links(own, mem), NEW a \in TreePointers
  PROVE  /\ a[1] \in Container /\ IsTable(own, a[1]) /\ a[2] \in Pointer(a[1])
         /\ a = <<a[1], a[2]>>
         /\ a[1] = Inode \/ (own[a[1]].kind = "pointed" /\ own[Root(own, a[1])].kind = "pointed")
<1>1. DIRECT \in Nat /\ DIRECT > 0 /\ PTRS \in Nat
  BY Constants
<1>2. DIRECT \in Pointer(Inode) /\ DIRECT + 1 \in Pointer(Inode)
  BY <1>1 DEF Pointer, DEPTH
<1>3. IsTable(own, Inode) /\ LevelOf(own, Inode, DIRECT) = 1 /\ LevelOf(own, Inode, DIRECT + 1) = 2
  BY <1>1 DEF IsTable, LevelOf
<1>4. CASE \E o \in Pointer(Inode) : a = <<Inode, o>>
  BY <1>3, <1>4, BlockFacts
<1>5. ASSUME NEW c, NEW o \in 0 .. PTRS - 1, a = <<c, o>>, c # NoBlock,
             \/ c = mem[Inode][DIRECT] \/ c = mem[Inode][DIRECT + 1]
             \/ mem[Inode][DIRECT + 1] # NoBlock /\ c \in Children(mem[Inode][DIRECT + 1])
      PROVE  /\ c \in Block /\ IsTable(own, c)
             /\ own[c].kind = "pointed" /\ own[Root(own, c)].kind = "pointed"
  <2>1. ASSUME NEW i \in {DIRECT, DIRECT + 1}, mem[Inode][i] # NoBlock
        PROVE  /\ mem[Inode][i] \in Block /\ own[mem[Inode][i]].kind = "pointed"
               /\ own[mem[Inode][i]].c = Inode /\ own[mem[Inode][i]].lev = LevelOf(own, Inode, i)
    BY <1>2, <1>3, <2>1, BlockFacts, Pointed
  <2>2. \A x \in Block : own[x].c = Inode => Root(own, x) = x
    BY DEF Root, Rise
  <2>3. CASE c = mem[Inode][DIRECT] \/ c = mem[Inode][DIRECT + 1]
    <3>1. c \in Block /\ own[c].kind = "pointed" /\ own[c].c = Inode /\ own[c].lev > 0
      BY <1>3, <1>5, <2>1, <2>3
    <3>. QED  BY <3>1, <2>2 DEF IsTable
  <2>4. CASE mem[Inode][DIRECT + 1] # NoBlock /\ c \in Children(mem[Inode][DIRECT + 1])
    <3>1. PICK d : d = mem[Inode][DIRECT + 1]
      OBVIOUS
    <3>2. d \in Block /\ own[d].kind = "pointed" /\ own[d].c = Inode /\ own[d].lev = 2
      BY <1>3, <2>1, <2>4, <3>1
    <3>3. IsTable(own, d) /\ d \in Container /\ d # Inode
      BY <3>2, BlockFacts DEF IsTable
    <3>4. PICK i \in Pointer(d) : c = mem[d][i] /\ mem[d][i] # NoBlock
      BY <2>4, <3>1 DEF Children
    <3>5. c \in Block /\ own[c].kind = "pointed" /\ own[c].c = d /\ own[c].lev = LevelOf(own, d, i)
      BY <3>3, <3>4, Pointed
    <3>6. own[c].lev = 1
      BY <3>2, <3>3, <3>5 DEF LevelOf
    <3>7. Root(own, c) = d
      BY <3>2, <3>3, <3>5 DEF Root, Rise
    <3>. QED  BY <3>2, <3>5, <3>6, <3>7 DEF IsTable
  <2>. QED  BY <1>5, <2>3, <2>4
<1>6. CASE ~ \E o \in Pointer(Inode) : a = <<Inode, o>>
  <2>1. \E c : \E o \in 0 .. PTRS - 1 :
          /\ a = <<c, o>> /\ c # NoBlock
          /\ \/ c = mem[Inode][DIRECT] \/ c = mem[Inode][DIRECT + 1]
             \/ mem[Inode][DIRECT + 1] # NoBlock /\ c \in Children(mem[Inode][DIRECT + 1])
    <3>1. PICK C : C = ({mem[Inode][DIRECT], mem[Inode][DIRECT + 1]} \cup
                        (IF mem[Inode][DIRECT + 1] = NoBlock THEN {} ELSE Children(mem[Inode][DIRECT + 1])))
                       \ {NoBlock}
      OBVIOUS
    <3>2. TreePointers = {<<Inode, o>> : o \in Pointer(Inode)} \cup (C \X (0 .. PTRS - 1))
      BY <3>1, Zenon DEF TreePointers
    <3>3. a \in C \X (0 .. PTRS - 1)
      BY <1>6, <3>2
    <3>4. PICK c \in C, o \in 0 .. PTRS - 1 : a = <<c, o>>
      BY <3>3
    <3>5. /\ c # NoBlock
          /\ \/ c = mem[Inode][DIRECT] \/ c = mem[Inode][DIRECT + 1]
             \/ mem[Inode][DIRECT + 1] # NoBlock /\ c \in Children(mem[Inode][DIRECT + 1])
      <4>1. CASE mem[Inode][DIRECT + 1] = NoBlock
        BY <3>1, <4>1
      <4>2. CASE mem[Inode][DIRECT + 1] # NoBlock
        BY <3>1, <4>2
      <4>. QED  BY <4>1, <4>2
    <3>. QED  BY <3>4, <3>5
  <2>4. PICK c : \E o \in 0 .. PTRS - 1 :
          /\ a = <<c, o>> /\ c # NoBlock
          /\ \/ c = mem[Inode][DIRECT] \/ c = mem[Inode][DIRECT + 1]
             \/ mem[Inode][DIRECT + 1] # NoBlock /\ c \in Children(mem[Inode][DIRECT + 1])
    BY <2>1
  <2>5. PICK o \in 0 .. PTRS - 1 :
          /\ a = <<c, o>> /\ c # NoBlock
          /\ \/ c = mem[Inode][DIRECT] \/ c = mem[Inode][DIRECT + 1]
             \/ mem[Inode][DIRECT + 1] # NoBlock /\ c \in Children(mem[Inode][DIRECT + 1])
    BY <2>4
  <2>2. c \in Block /\ IsTable(own, c) /\ own[c].kind = "pointed" /\ own[Root(own, c)].kind = "pointed"
    BY <1>5, <2>5
  <2>3. c \in Container /\ Pointer(c) = 0 .. PTRS - 1
    BY <2>2, BlockFacts DEF Pointer
  <2>. QED  BY <2>2, <2>3, <2>5
<1>. QED  BY <1>4, <1>6

LEMMA TreeAll ==
  ASSUME NEW own, Links(own, mem), NEW b \in Block,
         own[b].kind = "pointed", own[Root(own, b)].kind = "pointed"
  PROVE  <<own[b].c, own[b].o>> \in TreePointers /\ At(<<own[b].c, own[b].o>>) = b
<1>1. DIRECT \in Nat /\ PTRS \in Nat
  BY Constants
<1>2. ASSUME NEW x \in Block, own[x].kind = "pointed"
      PROVE  /\ own[x].c \in Container /\ IsTable(own, own[x].c) /\ own[x].o \in Pointer(own[x].c)
             /\ mem[own[x].c][own[x].o] = x
             /\ own[x].lev = LevelOf(own, own[x].c, own[x].o)
             /\ own[x].lev \in 0 .. 2 /\ own[x].o \in Nat
             /\ own[x].c # Inode => own[x].c \in Block /\ own[own[x].c].lev = own[x].lev + 1
  <2>1. PICK c : c = own[x].c
    OBVIOUS
  <2>2. PICK o : o = own[x].o
    OBVIOUS
  <2>3. own[x] \in Tags
    BY DEF Links
  <2>4. c \in Container /\ o \in Nat /\ own[x].lev \in 0 .. 2
    BY <2>1, <2>2, <2>3 DEF Tags, Container
  <2>5. IsTable(own, c) /\ o \in Pointer(c) /\ mem[c][o] = x
    BY <1>2, <2>1, <2>2 DEF Links
  <2>6. own[x].lev = LevelOf(own, c, o)
    BY <2>4, <2>5, BlockFacts, Pointed
  <2>7. ASSUME c # Inode PROVE c \in Block /\ own[c].lev = own[x].lev + 1
    <3>1. c \in Block
      BY <2>4, <2>7, BlockFacts
    <3>2. own[c].lev \in 0 .. 2
      BY <3>1 DEF Links, Tags
    <3>. QED  BY <3>1, <3>2, <2>4, <2>6, <2>7 DEF LevelOf
  <2>. QED  BY <2>1, <2>2, <2>4, <2>5, <2>6, <2>7
<1>3. PICK c : c = own[b].c
  OBVIOUS
<1>4. PICK o : o = own[b].o
  OBVIOUS
<1>5. c \in Container /\ IsTable(own, c) /\ o \in Pointer(c) /\ mem[c][o] = b
  BY <1>2, <1>3, <1>4
<1>6. At(<<c, o>>) = b
  BY <1>5 DEF At
<1>7. CASE c = Inode
  <2>1. <<c, o>> \in TreePointers
    BY <1>5, <1>7 DEF TreePointers
  <2>. QED  BY <2>1, <1>3, <1>4, <1>6
<1>8. CASE c # Inode
  <2>1. c \in Block /\ own[c].lev > 0 /\ own[c].kind \in {"pointed", "whole", "lost"}
        /\ o \in 0 .. PTRS - 1 /\ Rise(own, b) = c
    BY <1>3, <1>5, <1>8, BlockFacts DEF IsTable, Pointer, Rise
  <2>2. own[c].kind = "pointed"
    <3>. SUFFICES ASSUME own[c].kind # "pointed" PROVE FALSE
      OBVIOUS
    <3>1. Root(own, b) = c
      BY <2>1 DEF Root, Rise
    <3>. QED  BY <3>1
  <2>3. CASE own[c].c = Inode
    <3>1. own[c].o \in {DIRECT, DIRECT + 1} /\ mem[Inode][own[c].o] = c
      <4>1. /\ own[c].o \in Pointer(Inode) /\ mem[Inode][own[c].o] = c
            /\ own[c].lev = LevelOf(own, Inode, own[c].o) /\ own[c].o \in Nat
        BY <1>2, <2>1, <2>2, <2>3
      <4>. QED  BY <4>1, <2>1, <1>1 DEF LevelOf, Pointer, DEPTH
    <3>2. c \in {mem[Inode][DIRECT], mem[Inode][DIRECT + 1]} /\ c # NoBlock
      BY <3>1, <2>1, BlockFacts
    <3>3. <<c, o>> \in TreePointers
      BY <3>2, <2>1 DEF TreePointers
    <3>. QED  BY <3>3, <1>3, <1>4, <1>6
  <2>4. CASE own[c].c # Inode
    <3>1. PICK d : d = own[c].c
      OBVIOUS
    <3>2. /\ d \in Block /\ own[d].lev = own[c].lev + 1 /\ own[c].o \in Pointer(d)
          /\ mem[d][own[c].o] = c /\ own[c].lev \in 0 .. 2 /\ d # Inode
      BY <1>2, <2>1, <2>2, <2>4, <3>1
    <3>3. Root(own, b) = d
      BY <2>1, <2>2, <2>4, <3>1 DEF Root, Rise
    <3>4. own[d].kind = "pointed" /\ own[d].lev \in 0 .. 2
      BY <3>2, <3>3 DEF Links, Tags
    <3>5. own[d].lev = 2
      BY <2>1, <3>2, <3>4
    <3>6. own[d].c = Inode
      <4>. SUFFICES ASSUME own[d].c # Inode PROVE FALSE
        OBVIOUS
      <4>1. own[d].c \in Block /\ own[own[d].c].lev = 3
        BY <1>2, <3>2, <3>4, <3>5
      <4>2. own[own[d].c].lev \in 0 .. 2
        BY <4>1 DEF Links, Tags
      <4>. QED  BY <4>1, <4>2
    <3>7. own[d].o = DIRECT + 1 /\ mem[Inode][DIRECT + 1] = d
      <4>1. /\ own[d].o \in Pointer(Inode) /\ mem[Inode][own[d].o] = d
            /\ own[d].lev = LevelOf(own, Inode, own[d].o) /\ own[d].o \in Nat
        BY <1>2, <3>2, <3>4, <3>6
      <4>2. own[d].o = DIRECT + 1
        BY <4>1, <3>5, <1>1 DEF LevelOf
      <4>. QED  BY <4>1, <4>2
    <3>8. c \in Children(d) /\ d # NoBlock /\ c # NoBlock
      BY <2>1, <3>2, BlockFacts DEF Children
    <3>9. <<c, o>> \in TreePointers
      BY <2>1, <3>7, <3>8 DEF TreePointers
    <3>. QED  BY <3>9, <1>3, <1>4, <1>6
  <2>. QED  BY <2>3, <2>4
<1>. QED  BY <1>7, <1>8

(* The tasks of a truncate to free whole subtrees come first, the smaller  *)
(* before the larger.                                                      *)
LEMMA FewWhole ==
  ASSUME NEW ts \in Seq(Task), NEW m, NEW s, TasksOk(m, ts, s),
         NEW i \in DOMAIN ts, ts[i].op = "whole"
  PROVE  i \in 1 .. 3
<1>1. DOMAIN ts = 1 .. Len(ts) /\ Len(ts) \in Nat
  BY LenProperties
<1>2. \A j \in DOMAIN ts : ts[j] \in Task
  BY <1>1, ElementOfSeq
<1>3. \A j \in DOMAIN ts : ts[j].op = "whole" => ts[j].depth \in 0 .. 2
  BY <1>2 DEF Task
<1>4. \A j \in DOMAIN ts, k \in DOMAIN ts : j < k /\ ts[k].op = "whole" =>
        ts[j].op = "whole" /\ ts[j].depth < ts[k].depth
  BY DEF TasksOk, Before
<1>5. i \in Nat /\ i > 0
  BY <1>1
<1>. SUFFICES ASSUME i > 3 PROVE FALSE
  BY <1>5
<1>6. PICK a : a = i - 1
  OBVIOUS
<1>7. PICK b : b = i - 2
  OBVIOUS
<1>8. PICK c : c = i - 3
  OBVIOUS
<1>9. a \in DOMAIN ts /\ b \in DOMAIN ts /\ c \in DOMAIN ts /\ c < b /\ b < a /\ a < i
  BY <1>1, <1>5, <1>6, <1>7, <1>8
<1>10. ts[a].op = "whole" /\ ts[a].depth < ts[i].depth
  BY <1>4, <1>9
<1>11. ts[b].op = "whole" /\ ts[b].depth < ts[a].depth
  BY <1>4, <1>9, <1>10
<1>12. ts[c].op = "whole" /\ ts[c].depth < ts[b].depth
  BY <1>4, <1>9, <1>11
<1>. QED  BY <1>3, <1>9, <1>10, <1>11, <1>12

(* The three ways to hold b.                                               *)
InTree(b) == {a \in TreePointers : At(a) = b}
InBranches(b) == {p \in Process : call[p].pc \in {"alloc", "undo"} /\ b \in Range(branch[p])}
InTasks(b) ==
  {x \in Process \X (1 .. 4 * DEPTH) :
     /\ call[x[1]].pc = "free" /\ x[2] \in DOMAIN tasks[x[1]]
     /\ tasks[x[1]][x[2]].op = "whole"
     /\ b \in Below(tasks[x[1]][x[2]].at, tasks[x[1]][x[2]].depth)}

LEMMA HoldersAre ==
  ASSUME NEW b
  PROVE  Holders(b) = Cardinality(InTree(b)) + Cardinality(InBranches(b)) + Cardinality(InTasks(b))
BY Zenon DEF Holders, InTree, InBranches, InTasks

LEMMA CardEmpty ==
  ASSUME NEW S, \A x \in S : FALSE
  PROVE  Cardinality(S) = 0
<1>1. S = {}
  OBVIOUS
<1>. QED  BY <1>1, FS_EmptySet

LEMMA CardOne ==
  ASSUME NEW S, NEW x \in S, \A y \in S : y = x
  PROVE  Cardinality(S) = 1
<1>1. S = {x}
  OBVIOUS
<1>. QED  BY <1>1, FS_Singleton

LEMMA InTreeIs ==
  ASSUME NEW own, Links(own, mem), NEW b \in Block
  PROVE  Cardinality(InTree(b)) = IF own[Root(own, b)].kind = "pointed" THEN 1 ELSE 0
<1>1. ASSUME NEW a \in InTree(b)
      PROVE  /\ own[b].kind = "pointed" /\ own[Root(own, b)].kind = "pointed"
             /\ a = <<own[b].c, own[b].o>>
  <2>1. a \in TreePointers /\ At(a) = b
    BY DEF InTree
  <2>2. /\ a[1] \in Container /\ IsTable(own, a[1]) /\ a[2] \in Pointer(a[1])
        /\ a = <<a[1], a[2]>>
        /\ a[1] = Inode \/ (own[a[1]].kind = "pointed" /\ own[Root(own, a[1])].kind = "pointed")
    BY <2>1, TreeOnly
  <2>3. PICK c : c = a[1]
    OBVIOUS
  <2>4. PICK o : o = a[2]
    OBVIOUS
  <2>5. mem[c][o] = b /\ mem[c][o] # NoBlock
    BY <2>1, <2>3, <2>4, BlockFacts DEF At
  <2>6. own[b].kind = "pointed" /\ own[b].c = c /\ own[b].o = o
    BY <2>2, <2>3, <2>4, <2>5, Pointed
  <2>7. own[Root(own, b)].kind = "pointed"
    <3>1. CASE c = Inode
      BY <2>6, <3>1 DEF Root, Rise
    <3>2. CASE c # Inode
      <4>1. Rise(own, b) = c /\ c \in Block
        BY <2>2, <2>3, <2>6, <3>2, BlockFacts DEF Rise
      <4>2. own[Root(own, c)].kind = "pointed" /\ own[c].kind = "pointed"
        BY <2>2, <2>3, <3>2
      <4>3. PICK x : x = Rise(own, c)
        OBVIOUS
      <4>4. Root(own, b) = x /\ Root(own, c) = Rise(own, x) /\ x \in Block
        BY <4>1, <4>3, RiseFacts DEF Root
      <4>5. x = c \/ own[x].kind \in {"pointed", "whole", "lost"}
        BY <4>1, <4>3, RiseFacts
      <4>6. own[x].kind = "pointed"
        <5>. SUFFICES ASSUME own[x].kind # "pointed" PROVE FALSE
          OBVIOUS
        <5>1. Rise(own, x) = x
          BY DEF Rise
        <5>. QED  BY <4>2, <4>4, <5>1
      <4>. QED  BY <4>4, <4>6
    <3>. QED  BY <3>1, <3>2
  <2>. QED  BY <2>2, <2>3, <2>4, <2>6, <2>7
<1>2. CASE own[Root(own, b)].kind = "pointed"
  <2>1. own[b].kind = "pointed"
    BY <1>2, RootFacts
  <2>2. <<own[b].c, own[b].o>> \in InTree(b)
    BY <1>2, <2>1, TreeAll DEF InTree
  <2>3. Cardinality(InTree(b)) = 1
    BY <1>1, <2>2, CardOne
  <2>. QED  BY <1>2, <2>3
<1>3. CASE own[Root(own, b)].kind # "pointed"
  <2>1. \A a \in InTree(b) : FALSE
    BY <1>1, <1>3
  <2>2. Cardinality(InTree(b)) = 0
    BY <2>1, CardEmpty
  <2>. QED  BY <1>3, <2>2
<1>. QED  BY <1>2, <1>3

LEMMA InBranchesIs ==
  ASSUME IInv, NEW own, Forest(own), NEW b \in Block
  PROVE  Cardinality(InBranches(b)) = IF own[Root(own, b)].kind = "branch" THEN 1 ELSE 0
<1>1. Types /\ Apart /\ Holds(own) /\ Links(own, mem) /\ \A p \in Process : CallInv(p)
  BY DEF IInv, Forest
<1>2. \A p \in Process : b \in Range(branch[p]) => \E i \in DOMAIN branch[p] : branch[p][i] = b
  BY DEF Range
<1>3. own[Root(own, b)].kind = "branch" <=> own[b].kind = "branch"
  <2>1. CASE Root(own, b) = b
    BY <2>1
  <2>2. CASE Root(own, b) # b
    <3>1. own[Root(own, b)].kind \in {"pointed", "whole", "lost"} /\ own[b].kind = "pointed"
      BY <1>1, <2>2, RootFacts
    <3>. QED  BY <3>1
  <2>. QED  BY <2>1, <2>2
<1>4. \A p \in InBranches(b) : p \in Process /\ b \in Range(branch[p])
  BY DEF InBranches
<1>5. CASE own[b].kind = "branch"
  <2>1. PICK p \in Process : b \in Range(branch[p])
    BY <1>1, <1>5 DEF Holds
  <2>2. call[p].pc \in {"alloc", "undo"}
    <3>. SUFFICES ASSUME call[p].pc \notin {"alloc", "undo"} PROVE FALSE
      OBVIOUS
    <3>1. branch[p] = <<>>
      BY <1>1 DEF CallInv, Discipline
    <3>. QED  BY <1>2, <2>1, <3>1
  <2>3. p \in InBranches(b)
    BY <2>1, <2>2 DEF InBranches
  <2>4. \A q \in InBranches(b) : q = p
    BY <1>1, <1>2, <1>4, <2>1 DEF Apart
  <2>5. Cardinality(InBranches(b)) = 1
    BY <2>3, <2>4, CardOne
  <2>. QED  BY <1>3, <1>5, <2>5
<1>6. CASE own[b].kind # "branch"
  <2>1. \A p \in InBranches(b) : FALSE
    BY <1>1, <1>2, <1>4, <1>6 DEF Holds
  <2>2. Cardinality(InBranches(b)) = 0
    BY <2>1, CardEmpty
  <2>. QED  BY <1>3, <1>6, <2>2
<1>. QED  BY <1>5, <1>6

LEMMA InTasksIs ==
  ASSUME IInv, NEW own, Forest(own), NEW b \in Block
  PROVE  Cardinality(InTasks(b)) = IF own[Root(own, b)].kind = "whole" THEN 1 ELSE 0
<1>1. Types /\ Holds(own) /\ Links(own, mem) /\ \A p \in Process : CallInv(p)
  BY DEF IInv, Forest
<1>2. PICK r : r = Root(own, b)
  OBVIOUS
<1>3. r \in Block
  BY <1>1, <1>2, RootFacts
<1>4. ASSUME NEW p \in Process, call[p].pc = "free", NEW i \in DOMAIN tasks[p], tasks[p][i].op = "whole"
      PROVE  /\ own[tasks[p][i].at] = Loose("whole", tasks[p][i].depth)
             /\ i \in 1 .. 4 * DEPTH /\ i \in Nat
             /\ b \in Below(tasks[p][i].at, tasks[p][i].depth) <=> tasks[p][i].at = r
  <2>1. PICK t : t = tasks[p][i]
    OBVIOUS
  <2>2. t \in Task /\ tasks[p] \in Seq(Task)
    BY <1>1, <2>1, TypesOf
  <2>3. t.at \in Block /\ own[t.at] = Loose("whole", t.depth)
    BY <1>1, <1>4, <2>1, <2>2 DEF Holds, Task
  <2>4. own[t.at].kind = "whole" /\ own[t.at].lev = t.depth
    BY <2>3 DEF Loose, Tag
  <2>5. b \in BelowOf(mem, t.at, t.depth) <=> r = t.at
    BY <1>1, <1>2, <2>3, <2>4, RootBelow
  <2>6. TasksOk(mem, tasks[p], size)
    BY <1>1, <1>4 DEF CallInv, TasksInv
  <2>7. i \in 1 .. 3
    BY <1>4, <2>2, <2>6, FewWhole
  <2>8. i \in 1 .. 4 * DEPTH /\ i \in Nat
    BY <2>7 DEF DEPTH
  <2>. QED  BY <2>1, <2>3, <2>5, <2>8, BelowIs
<1>5. ASSUME NEW x \in InTasks(b)
      PROVE  /\ x = <<x[1], x[2]>> /\ x[1] \in Process /\ call[x[1]].pc = "free"
             /\ x[2] \in DOMAIN tasks[x[1]] /\ tasks[x[1]][x[2]].op = "whole"
             /\ tasks[x[1]][x[2]].at = r
  <2>1. x \in Process \X (1 .. 4 * DEPTH) /\ call[x[1]].pc = "free" /\ x[2] \in DOMAIN tasks[x[1]]
        /\ tasks[x[1]][x[2]].op = "whole"
        /\ b \in Below(tasks[x[1]][x[2]].at, tasks[x[1]][x[2]].depth)
    BY DEF InTasks
  <2>2. x = <<x[1], x[2]>> /\ x[1] \in Process
    BY <2>1
  <2>. QED  BY <1>4, <2>1, <2>2
<1>6. CASE own[r].kind = "whole"
  <2>1. PICK p \in Process : call[p].pc = "free" /\
          \E i \in DOMAIN tasks[p] : tasks[p][i].op = "whole" /\ tasks[p][i].at = r
    BY <1>1, <1>3, <1>6 DEF Holds
  <2>2. PICK i \in DOMAIN tasks[p] : tasks[p][i].op = "whole" /\ tasks[p][i].at = r
    BY <2>1
  <2>3. <<p, i>> \in InTasks(b)
    <3>1. <<p, i>> \in Process \X (1 .. 4 * DEPTH)
      BY <1>4, <2>1, <2>2
    <3>2. b \in Below(tasks[p][i].at, tasks[p][i].depth)
      BY <1>4, <2>1, <2>2
    <3>. QED  BY <2>1, <2>2, <3>1, <3>2 DEF InTasks
  <2>4. ASSUME NEW x \in InTasks(b) PROVE x = <<p, i>>
    <3>1. PICK q : q = x[1]
      OBVIOUS
    <3>2. PICK k : k = x[2]
      OBVIOUS
    <3>3. /\ x = <<q, k>> /\ q \in Process /\ call[q].pc = "free"
          /\ k \in DOMAIN tasks[q] /\ tasks[q][k].op = "whole" /\ tasks[q][k].at = r
      BY <1>5, <3>1, <3>2
    <3>4. q = p
      <4>1. Discipline(q) /\ Discipline(p)
        BY <1>1, <3>3 DEF CallInv
      <4>. QED  BY <2>1, <3>3, <4>1 DEF Discipline
    <3>5. tasks[p][i].depth = tasks[p][k].depth
      <4>1. own[r] = Loose("whole", tasks[p][i].depth) /\ own[r] = Loose("whole", tasks[p][k].depth)
        BY <1>4, <2>1, <2>2, <3>3, <3>4
      <4>. QED  BY <4>1 DEF Loose, Tag
    <3>6. TasksOk(mem, tasks[p], size)
      BY <1>1, <2>1 DEF CallInv, TasksInv
    <3>7. tasks[p][i].depth \in Nat
      <4>1. tasks[p][i] \in Task
        BY <1>1, <2>2, TypesOf
      <4>. QED  BY <4>1 DEF Task
    <3>8. i \in Nat /\ k \in Nat
      BY <1>4, <2>1, <2>2, <3>3, <3>4
    <3>9. ~ (i < k) /\ ~ (k < i)
      BY <2>2, <3>3, <3>4, <3>5, <3>6, <3>7 DEF TasksOk, Before
    <3>10. i = k
      BY <3>8, <3>9
    <3>. QED  BY <3>3, <3>4, <3>10
  <2>5. Cardinality(InTasks(b)) = 1
    BY <2>3, <2>4, CardOne
  <2>. QED  BY <1>2, <1>6, <2>5
<1>7. CASE own[r].kind # "whole"
  <2>1. ASSUME NEW x \in InTasks(b) PROVE FALSE
    <3>1. PICK q : q = x[1]
      OBVIOUS
    <3>2. PICK k : k = x[2]
      OBVIOUS
    <3>3. /\ q \in Process /\ call[q].pc = "free"
          /\ k \in DOMAIN tasks[q] /\ tasks[q][k].op = "whole" /\ tasks[q][k].at = r
      BY <1>5, <3>1, <3>2
    <3>4. own[r] = Loose("whole", tasks[q][k].depth)
      BY <1>4, <3>3
    <3>. QED  BY <1>7, <3>4 DEF Loose, Tag
  <2>2. Cardinality(InTasks(b)) = 0
    BY <2>1, CardEmpty
  <2>. QED  BY <1>2, <1>7, <2>2
<1>. QED  BY <1>6, <1>7

LEMMA OwnedOnceHolds ==
  ASSUME IInv
  PROVE  OwnedOnce
<1>1. PICK own : Forest(own)
  BY DEF IInv
<1>2. Links(own, mem) /\ Holds(own) /\ Cutoff(own, unread)
  BY <1>1 DEF Forest
<1>. SUFFICES ASSUME NEW b \in Block
              PROVE  IF b \in zmap THEN Holders(b) = 1 \/ (Holders(b) = 0 /\ b \in unread)
                     ELSE Holders(b) = 0
  BY DEF OwnedOnce
<1>3. PICK r : r = Root(own, b)
  OBVIOUS
<1>4. /\ r \in Block
      /\ own[r].kind # "pointed" \/ own[r].c = Inode
      /\ r = b \/ own[r].kind \in {"pointed", "whole", "lost"}
      /\ r = b \/ own[b].kind = "pointed"
  BY <1>2, <1>3, RootFacts
<1>5. /\ Cardinality(InTree(b)) = IF own[r].kind = "pointed" THEN 1 ELSE 0
      /\ Cardinality(InBranches(b)) = IF own[r].kind = "branch" THEN 1 ELSE 0
      /\ Cardinality(InTasks(b)) = IF own[r].kind = "whole" THEN 1 ELSE 0
  BY <1>1, <1>2, <1>3, InTreeIs, InBranchesIs, InTasksIs
<1>6. Holders(b) = IF own[r].kind \in {"pointed", "branch", "whole"} THEN 1 ELSE 0
  BY <1>5, HoldersAre
<1>7. own[r].kind \in {"pointed", "branch", "whole", "lost", "free"}
  <2>1. r \in Block
    BY <1>2, <1>3, RootFacts
  <2>. QED  BY <1>2, <2>1 DEF Links, Tags
<1>8. r \in Block
  BY <1>2, <1>3, RootFacts
<1>9. b \in zmap <=> own[r].kind # "free"
  <2>1. own[b].kind = "free" <=> b \notin zmap
    BY <1>2 DEF Holds
  <2>. QED  BY <1>4, <2>1
<1>10. own[r].kind = "lost" => b \in unread
  <2>1. own[r].kind = "lost" => r \in unread
    BY <1>2, <1>8 DEF Cutoff
  <2>. QED  BY <2>1, <1>2, <1>3, RootUnread
<1>. QED  BY <1>6, <1>7, <1>9, <1>10

(* A block in use is held once: by the tree, by the branch of a call, or   *)
(* by a truncate that will free it, unless the indirect block above it     *)
(* could not be read; a free block is held by nobody, whatever the number  *)
(* of processes and blocks.                                                *)
THEOREM HeldOnce == Spec => []OwnedOnce
BY Invariant, OwnedOnceHolds, PTL

-----------------------------------------------------------------------------
(* Types                                                                   *)

Bounds ==
  /\ unread \subseteq Block /\ mutex \in Process \cup {Nobody}
  /\ \A p \in Process : Len(chain[p]) <= 3 /\ Len(branch[p]) <= 3

LEMMA BelowBlocks ==
  ASSUME NEW own, Links(own, mem), NEW b \in Block, NEW depth
  PROVE  Below(b, depth) \subseteq Block
<1>1. \A c \in Block : Children(c) \subseteq Block
  BY BlockFacts DEF Children, Links
<1>. QED  BY <1>1 DEF Below

(* What a step of p may do to the variables that IInv leaves open.         *)
Bounded(p) ==
  /\ unread' \subseteq unread \cup Block
  /\ mutex' \in {mutex, p, Nobody}
  /\ \A q \in Process :
       /\ chain'[q] \in {<<>>, chain[q]} \/ call'[q].pc \in {"branch", "alloc", "shared"}
       /\ branch'[q] \in {<<>>, branch[q], Tail(branch[q])} \/ call'[q].pc = "alloc"

LEMMA CallBounded ==
  ASSUME Types, NEW p \in Process,
         \/ \E t \in Sector : Write(p, t) \/ Writepage(p, t) \/ Bmap(p, t)
         \/ \E s \in {0} \cup Sector \cup {t + 1 : t \in Sector} : Truncate(p, s)
         \/ TakeBack(p) \/ Return(p)
  PROVE  Bounded(p)
<1>1. /\ chain' = [chain EXCEPT ![p] = <<>>] /\ branch' = branch /\ unread' = unread
      /\ mutex' \in {mutex, p, Nobody}
  BY DEF Write, Writepage, Bmap, Truncate, TakeBack, Return, CallGetBlock, CallTruncate, Begin
<1>. QED  BY <1>1 DEF Bounded, Types

LEMMA GetBlockBounded ==
  ASSUME Types, \A q \in Process : CallInv(q), NEW p \in Process, GetBlockStep(p)
  PROVE  Bounded(p)
<1>0. chain \in [Process -> ChainType] /\ call \in [Process -> CallType]
      /\ branch \in [Process -> Seq(Block)]
  BY DEF Types, ChainType, CallType
<1>1. ASSUME NEW ch, NEW err, Answer(p, ch, err) PROVE Bounded(p)
  <2>1. chain' = [chain EXCEPT ![p] = IF call'[p].pc \in {"shared", "alloc"} THEN ch ELSE <<>>]
        /\ UNCHANGED <<mutex, branch, unread>>
    BY <1>1 DEF Answer
  <2>2. chain'[p] = IF call'[p].pc \in {"shared", "alloc"} THEN ch ELSE <<>>
    BY <1>0, <2>1
  <2>3. \A q \in Process : q # p => chain'[q] = chain[q]
    BY <1>0, <2>1
  <2>. QED  BY <2>1, <2>2, <2>3 DEF Bounded
<1>2. ASSUME NEW ch, call[p].pc = "branch", Extended(p, ch) PROVE Bounded(p)
  <2>1. CASE Last(ch).key = NoBlock \/ Len(ch) = Depth(p)
    BY <1>1, <1>2, <2>1 DEF Extended
  <2>2. CASE ~ (Last(ch).key = NoBlock \/ Len(ch) = Depth(p))
    <3>1. chain' = [chain EXCEPT ![p] = ch] /\ UNCHANGED <<mutex, call, branch, unread>>
      BY <1>2, <2>2 DEF Extended
    <3>. QED  BY <1>0, <1>2, <3>1 DEF Bounded
  <2>. QED  BY <2>1, <2>2
<1>3. CASE FirstLevel(p)
  BY <1>2, <1>3 DEF FirstLevel
<1>4. CASE NextLevel(p)
  BY <1>1, <1>2, <1>4, Zenon DEF NextLevel
<1>5. CASE ReadFails(p)
  BY <1>1, <1>5 DEF ReadFails
<1>6. CASE Alloc(p)
  <2>1. call[p].pc = "alloc" /\ UNCHANGED <<mutex, call, chain, unread>>
        /\ \E s : branch' = [branch EXCEPT ![p] = s]
    BY <1>6, Zenon DEF Alloc
  <2>. QED  BY <1>0, <2>1 DEF Bounded
<1>7. CASE NoSpace(p)
  BY <1>7 DEF NoSpace, Bounded
<1>8. CASE Splice(p)
  <2>1. UNCHANGED <<mutex, chain, unread>> /\ (branch' = branch \/ branch' = [branch EXCEPT ![p] = <<>>])
    BY <1>8, Zenon DEF Splice
  <2>. QED  BY <1>0, <2>1 DEF Bounded
<1>9. CASE Undo(p)
  <2>1. UNCHANGED <<mutex, chain>> /\ unread' \subseteq unread
        /\ branch' = [branch EXCEPT ![p] = Tail(branch[p])]
    BY <1>9 DEF Undo, Freed
  <2>. QED  BY <1>0, <2>1 DEF Bounded
<1>10. CASE Undone(p)
  BY <1>0, <1>10 DEF Undone, Bounded
<1>. QED  BY <1>3, <1>4, <1>5, <1>6, <1>7, <1>8, <1>9, <1>10 DEF GetBlockStep

LEMMA TruncateBounded ==
  ASSUME IInv, NEW p \in Process, TruncateStep(p)
  PROVE  Bounded(p)
<1>0. chain \in [Process -> ChainType] /\ tasks[p] \in Seq(Task)
  BY TypesOf DEF IInv, Types, ChainType
<1>1. PICK own : Forest(own)
  BY DEF IInv
<1>2. Links(own, mem)
  BY <1>1 DEF Forest
<1>3. CASE FindShared(p)
  <2>1. call[p].pc = "shared" /\ chain' = [chain EXCEPT ![p] = <<>>] /\ UNCHANGED <<mutex, branch>>
    BY <1>3, SharedIs
  <2>2. \/ unread' = unread
        \/ CutTop(p) # NoBlock
           /\ unread' = unread \cup Below(CutTop(p), Len(Path(call[p].sector)) - Fork(p))
    <3>1. unread' = IF CutTop(p) # NoBlock /\ Len(chain[p]) < Depth(p) /\ Last(chain[p]).key # NoBlock
                    THEN unread \cup Below(CutTop(p), Len(Path(call[p].sector)) - Fork(p)) ELSE unread
      BY <1>3, SharedIs
    <3>. QED  BY <3>1, Zenon
  <2>3. CutTop(p) # NoBlock => CutTop(p) \in Block
    <3>. SUFFICES ASSUME CutTop(p) # NoBlock PROVE CutTop(p) \in Block
      OBVIOUS
    <3>1. CutTop(p) = At(chain[p][Fork(p)].at)
      BY DEF CutTop
    <3>2. ForkFacts(p, own)
      BY <1>1, <2>1, ForkOk
    <3>3. Fork(p) \in 1 .. Fork(p)
      BY <3>2 DEF ForkFacts
    <3>4. chain[p][Fork(p)].at = <<Walk(mem, size, Fork(p) - 1), Path(size)[Fork(p)]>>
          /\ OnWalk(own, mem, size, Fork(p))
      BY <3>2, <3>3 DEF ForkFacts
    <3>. QED  BY <1>2, <3>1, <3>4 DEF OnWalk, Links, At
  <2>4. unread' \subseteq unread \cup Block
    BY <1>2, <2>2, <2>3, BelowBlocks
  <2>. QED  BY <1>0, <2>1, <2>4 DEF Bounded
<1>4. CASE ReadIndirect(p)
  <2>1. UNCHANGED <<mutex, branch, chain>> /\ Freeing(p, "whole")
        /\ (unread' = unread \/ unread' = unread \cup Below(Top(p).at, Top(p).depth))
    BY <1>4 DEF ReadIndirect
  <2>2. Top(p) \in Task /\ Top(p).op = "whole"
    BY <1>1, <2>1, TopTask DEF Freeing, TopFacts
  <2>3. Top(p).at \in Block
    BY <2>2 DEF Task
  <2>4. unread' \subseteq unread \cup Block
    BY <1>2, <2>1, <2>3, BelowBlocks
  <2>. QED  BY <2>1, <2>4 DEF Bounded
<1>5. CASE ClearEnds(p) \/ EndsClear(p) \/ ClearIndirect(p) \/ FreeBlock(p) \/ Truncated(p)
  <2>1. UNCHANGED <<mutex, branch, chain>> /\ unread' \subseteq unread
    BY <1>5 DEF ClearEnds, ClearPointer, EndsClear, ClearIndirect, FreeBlock, Freed, Truncated
  <2>. QED  BY <2>1 DEF Bounded
<1>. QED  BY <1>3, <1>4, <1>5 DEF TruncateStep

LEMMA StepBounded ==
  ASSUME IInv, NEW p \in Process,
         \/ \E t \in Sector : Write(p, t) \/ Writepage(p, t) \/ Bmap(p, t)
         \/ \E s \in {0} \cup Sector \cup {t + 1 : t \in Sector} : Truncate(p, s)
         \/ TakeBack(p) \/ Return(p) \/ GetBlockStep(p) \/ TruncateStep(p)
  PROVE  Bounded(p)
BY CallBounded, GetBlockBounded, TruncateBounded DEF IInv

LEMMA BoundsKept ==
  ASSUME IInv, IInv', Bounds, NEW p \in Process, Bounded(p)
  PROVE  Bounds'
<1>1. unread' \subseteq Block /\ mutex' \in Process \cup {Nobody}
  BY DEF Bounds, Bounded
<1>2. ASSUME NEW q \in Process PROVE Len(chain[q])' <= 3 /\ Len(branch[q])' <= 3
  <2>1. /\ Types /\ CallInv(q) /\ Types' /\ CallInv(q)'
        /\ Len(chain[q]) <= 3 /\ Len(branch[q]) <= 3
    BY DEF IInv, Bounds
  <2>2. chain'[q] \in ChainType /\ branch'[q] \in Seq(Block) /\ branch[q] \in Seq(Block)
        /\ call'[q] \in CallType
    BY <2>1 DEF Types, ChainType, CallType
  <2>3. Len(chain'[q]) \in Nat /\ Len(branch'[q]) \in Nat
    BY <2>2, LenProperties DEF ChainType
  <2>4. call'[q].pc \in {"branch", "alloc", "undo", "shared"} =>
          Len(Path(call'[q].sector)) \in 1 .. 3
    <3>. SUFFICES ASSUME call'[q].pc \in {"branch", "alloc", "undo", "shared"}
                  PROVE Len(Path(call'[q].sector)) \in 1 .. 3
      OBVIOUS
    <3>1. call'[q].sector \in Sectors
      BY <2>1, <2>2, Constants DEF CallInv, Discipline, CallType, Sectors
    <3>. QED  BY <3>1, PathLen
  <2>5. call'[q].pc \in {"branch", "alloc", "shared"} => Len(chain'[q]) <= 3
    <3>. SUFFICES ASSUME call'[q].pc \in {"branch", "alloc", "shared"}
                  PROVE  Len(chain'[q]) <= 3
      OBVIOUS
    <3>1. Len(chain'[q]) <= Len(Path(call'[q].sector))
      BY <2>1 DEF CallInv, ChainInv, ChainOf
    <3>2. PICK n \in 1 .. 3 : n = Len(Path(call'[q].sector))
      BY <2>4
    <3>3. PICK l \in Nat : l = Len(chain'[q])
      BY <2>3
    <3>4. l <= n
      BY <3>1, <3>2, <3>3, Zenon
    <3>5. l <= 3
      BY <3>4
    <3>. QED  BY <3>3, <3>5, Zenon
  <2>6. Len(chain'[q]) <= 3
    BY <2>1, <2>5 DEF Bounded
  <2>7. call'[q].pc = "alloc" => Len(branch'[q]) <= 3
    <3>. SUFFICES ASSUME call'[q].pc = "alloc" PROVE Len(branch'[q]) <= 3
      OBVIOUS
    <3>1. Len(branch'[q]) <= Left(q)' /\ chain'[q] # <<>>
      BY <2>1 DEF CallInv, BranchInv, ChainInv
    <3>2. Left(q)' = Len(Path(call'[q].sector)) - Len(chain'[q]) + 1
      BY DEF Left
    <3>3. Len(chain'[q]) > 0
      BY <2>2, <2>3, <3>1, EmptySeq DEF ChainType
    <3>4. PICK n \in 1 .. 3 : n = Len(Path(call'[q].sector))
      BY <2>4
    <3>5. PICK l \in Nat : l = Len(chain'[q])
      BY <2>3
    <3>6. PICK b \in Nat : b = Len(branch'[q])
      BY <2>3
    <3>7. b <= n - l + 1 /\ l > 0
      BY <3>1, <3>2, <3>3, <3>4, <3>5, <3>6, Zenon
    <3>8. b <= 3
      BY <3>7
    <3>. QED  BY <3>6, <3>8, Zenon
  <2>8. branch'[q] \in {<<>>, branch[q], Tail(branch[q])} => Len(branch'[q]) <= 3
    <3>1. Len(<<>>) = 0
      OBVIOUS
    <3>2. CASE branch[q] = <<>> /\ branch'[q] = Tail(branch[q])
      <4>1. branch'[q] = <<>>
        BY <3>2 DEF Tail
      <4>. QED  BY <3>1, <4>1
    <3>3. CASE branch[q] # <<>> /\ branch'[q] = Tail(branch[q])
      <4>1. Len(Tail(branch[q])) = Len(branch[q]) - 1
        BY <2>2, <3>3, HeadTailProperties
      <4>. QED  BY <2>1, <2>2, <3>3, <4>1, LenProperties
    <3>4. CASE branch'[q] = <<>>
      BY <3>1, <3>4
    <3>5. CASE branch'[q] = branch[q]
      BY <2>1, <3>5
    <3>. QED  BY <3>2, <3>3, <3>4, <3>5
  <2>. QED  BY <2>6, <2>7, <2>8 DEF Bounded
<1>. QED  BY <1>1, <1>2 DEF Bounds

LEMMA TypeOKHolds ==
  ASSUME IInv, Bounds
  PROVE  TypeOK
<1>1. Types /\ \A p \in Process : CallInv(p)
  BY DEF IInv
<1>2. PICK own : Forest(own)
  BY DEF IInv
<1>3. Links(own, mem) /\ Holds(own) /\ Cutoff(own, unread)
  BY <1>2 DEF Forest
<1>4. unread \subseteq zmap
  BY <1>3 DEF Bounds, Cutoff, Holds
<1>5. ASSUME NEW p \in Process
      PROVE  /\ call[p].pc \in {"idle", "branch", "alloc", "undo", "shared", "free", "done"}
             /\ call[p].result \in Block \cup {NoBlock, EIO, ENOSPC}
             /\ Range(branch[p]) \subseteq zmap /\ Len(branch[p]) <= DEPTH
             /\ Len(chain[p]) <= DEPTH
             /\ call[p].kind \in {"write", "truncate"} => mutex = p
  <2>1. call[p] \in CallType
    BY <1>1 DEF Types, CallType
  <2>2. Range(branch[p]) \subseteq zmap
    <3>1. \A i \in DOMAIN branch[p] : branch[p][i] \in Block /\ own[branch[p][i]].kind = "branch"
      BY <1>1, <1>3, TypesOf DEF Holds
    <3>2. \A i \in DOMAIN branch[p] : branch[p][i] \in zmap
      BY <1>3, <3>1 DEF Holds
    <3>. QED  BY <3>2 DEF Range
  <2>3. Len(branch[p]) <= DEPTH /\ Len(chain[p]) <= DEPTH
    BY DEF Bounds, DEPTH
  <2>4. call[p].kind \in {"write", "truncate"} => mutex = p
    BY <1>1 DEF CallInv, Discipline
  <2>. QED  BY <2>1, <2>2, <2>3, <2>4 DEF CallType, Label
<1>6. zmap \subseteq Block /\ size \in 0 .. NSectors /\ mutex \in Process \cup {Nobody}
  BY <1>1 DEF Types, Bounds
<1>7. \A c \in Block \cup {Inode} : mem[c] \in [Pointer(c) -> Block \cup {NoBlock}]
  BY <1>3 DEF Links, Container
<1>. QED  BY <1>4, <1>5, <1>6, <1>7 DEF TypeOK

(* Pointers, chains, branches and results have their types, blocks that    *)
(* calls hold are in use, and a write or a truncate holds i_mutex.         *)
THEOREM TypeCorrect == Spec => []TypeOK
<1>1. Init => Bounds
  BY DEF Init, Bounds
<1>2. IInv /\ IInv' /\ Bounds /\ [Next]_vars => Bounds'
  <2>. SUFFICES ASSUME IInv, IInv', Bounds, [Next]_vars PROVE Bounds'
    OBVIOUS
  <2>1. CASE UNCHANGED vars
    BY <2>1 DEF vars, Bounds
  <2>2. CASE Next
    <3>1. PICK p \in Process :
            \/ \E t \in Sector : Write(p, t) \/ Writepage(p, t) \/ Bmap(p, t)
            \/ \E s \in {0} \cup Sector \cup {t + 1 : t \in Sector} : Truncate(p, s)
            \/ TakeBack(p) \/ Return(p) \/ GetBlockStep(p) \/ TruncateStep(p)
      BY <2>2 DEF Next
    <3>2. Bounded(p)
      BY <3>1, StepBounded
    <3>. QED  BY <3>2, BoundsKept
  <2>. QED  BY <2>1, <2>2
<1>. QED  BY <1>1, <1>2, Invariant, TypeOKHolds, PTL DEF Spec

-----------------------------------------------------------------------------
(* What a step does to the block of each sector                            *)

SameWalk(m, m2, t) == \A i \in 0 .. Len(Path(t)) : Walk(m2, t, i) = Walk(m, t, i)
Passes(m, t, c, o) ==
  \E k \in 1 .. Len(Path(t)) :
    (k = 1 \/ Walk(m, t, k - 1) # NoBlock) /\ Walk(m, t, k - 1) = c /\ Path(t)[k] = o

LEMMA SameLook ==
  ASSUME NEW m, NEW m2, NEW t \in Sectors, SameWalk(m, m2, t)
  PROVE  Look(m2, t) = Look(m, t)
<1>1. Len(Path(t)) \in 0 .. Len(Path(t))
  BY PathLen
<1>. QED  BY <1>1 DEF SameWalk, Look

(* Only the tree counts.                                                   *)
LEMMA WalkQuiet ==
  ASSUME NEW own, NEW m, Links(own, m), NEW m2,
         \A c \in Container : c = Inode \/ own[c].kind = "pointed" => m2[c] = m[c],
         NEW t \in Sectors
  PROVE  SameWalk(m, m2, t)
<1>. PICK l \in 1 .. 3 : l = Len(Path(t))
  BY PathLen
<1>1. ASSUME NEW i \in 1 .. l, i = 1 \/ Walk(m, t, i - 1) # NoBlock
      PROVE  m2[Walk(m, t, i - 1)][Path(t)[i]] = m[Walk(m, t, i - 1)][Path(t)[i]]
  <2>1. OnWalk(own, m, t, i)
    BY <1>1, WalkOn
  <2>. QED  BY <2>1 DEF OnWalk
<1>2. l \in 0 .. 3
  OBVIOUS
<1>3. \A i \in 0 .. l : Walk(m2, t, i) = Walk(m, t, i)
  BY <1>1, <1>2, WalkKept
<1>. QED  BY <1>3 DEF SameWalk

(* A sector whose walk passes the pointer that is cleared is not mapped    *)
(* then; the walks of all others stay.                                     *)
LEMMA WalkCleared ==
  ASSUME NEW own, NEW m, Links(own, m), NEW c \in Container, IsTable(own, c),
         NEW o \in Pointer(c), NEW t \in Sectors
  PROVE  \/ SameWalk(m, [m EXCEPT ![c][o] = NoBlock], t)
         \/ Look([m EXCEPT ![c][o] = NoBlock], t) = NoBlock /\ Passes(m, t, c, o)
<1>4. PICK l \in 1 .. 3 : l = Len(Path(t))
  BY PathLen
<1>0. PICK m2 : m2 = [m EXCEPT ![c][o] = NoBlock]
  OBVIOUS
<1>1. /\ \A x \in Container : x # c => m2[x] = m[x]
      /\ \A y \in Pointer(c) : y # o => m2[c][y] = m[c][y]
      /\ m2[c][o] = NoBlock
  BY <1>0 DEF Links
<1>2. CASE Passes(m, t, c, o)
  <2>1. PICK k \in 1 .. l : (k = 1 \/ Walk(m, t, k - 1) # NoBlock) /\ Walk(m, t, k - 1) = c
                            /\ Path(t)[k] = o
    BY <1>2, <1>4 DEF Passes
  <2>2. \A i \in 0 .. k - 1 : Walk(m2, t, i) = Walk(m, t, i)
    BY <1>1, <1>4, <2>1, WalkCut
  <2>3. k - 1 \in 0 .. k - 1 /\ k \in 1 .. 3 /\ (k = 1 \/ k > 1)
    OBVIOUS
  <2>4. Walk(m2, t, k - 1) = c
    BY <2>1, <2>2, <2>3
  <2>5. Walk(m2, t, k) = NoBlock
    BY <1>1, <2>1, <2>3, <2>4, WalkStep
  <2>6. Look(m2, t) = NoBlock
    <3>. SUFFICES ASSUME Walk(m2, t, l) # NoBlock PROVE FALSE
      BY <1>4 DEF Look
    <3>. QED  BY <2>5, WalkEnds
  <2>. QED  BY <1>0, <1>2, <2>6
<1>3. CASE ~ Passes(m, t, c, o)
  <2>1. ASSUME NEW i \in 1 .. l, i = 1 \/ Walk(m, t, i - 1) # NoBlock
        PROVE  m2[Walk(m, t, i - 1)][Path(t)[i]] = m[Walk(m, t, i - 1)][Path(t)[i]]
    <3>1. Walk(m, t, i - 1) # c \/ Path(t)[i] # o
      BY <1>3, <1>4, <2>1 DEF Passes
    <3>2. OnWalk(own, m, t, i)
      BY <1>4, <2>1, WalkOn
    <3>3. Walk(m, t, i - 1) \in Container /\ Path(t)[i] \in Pointer(Walk(m, t, i - 1))
      BY <3>2 DEF OnWalk
    <3>. QED  BY <1>1, <3>1, <3>3
  <2>2. l \in 0 .. 3
    OBVIOUS
  <2>3. \A i \in 1 .. l : (i = 1 \/ Walk(m, t, i - 1) # NoBlock) =>
          m2[Walk(m, t, i - 1)][Path(t)[i]] = m[Walk(m, t, i - 1)][Path(t)[i]]
    BY <2>1
  <2>4. \A i \in 0 .. l : Walk(m2, t, i) = Walk(m, t, i)
    BY <2>2, <2>3, WalkKept
  <2>. QED  BY <1>0, <1>4, <2>4 DEF SameWalk
<1>. QED  BY <1>2, <1>3

(* A sector is its path.                                                   *)
LEMMA PathTells ==
  ASSUME NEW t \in Sectors, NEW s \in Sectors, Len(Path(t)) = Len(Path(s)),
         \A i \in 1 .. Len(Path(s)) : Path(t)[i] = Path(s)[i]
  PROVE  t = s
<1>1. IsPath(Path(t), t) /\ IsPath(Path(s), s)
  BY PathShape
<1>. PICK l \in 1 .. 3 : l = Len(Path(s))
  BY PathLen
<1>2. CASE l = 1
  BY <1>1, <1>2 DEF IsPath
<1>3. CASE l = 2
  BY <1>1, <1>3 DEF IsPath
<1>4. CASE l = 3
  BY <1>1, <1>4 DEF IsPath
<1>. QED  BY <1>2, <1>3, <1>4

(* After the splice the walk of the sector goes down the new branch.       *)
LEMMA SplicedWalk ==
  ASSUME NEW p \in Process, NEW own, Links(own, mem), NEW n \in 0 .. 2, SpliceAt(p, own, n)
  PROVE  /\ \A i \in 0 .. n : Walk(mem', call[p].sector, i) = Walk(mem, call[p].sector, i)
         /\ \A i \in 1 .. Len(branch[p]) : Walk(mem', call[p].sector, n + i) = branch[p][i]
         /\ Look(mem', call[p].sector) = branch[p][Len(branch[p])]
<1>a. PICK t : t = call[p].sector
  OBVIOUS
<1>b. PICK br : br = branch[p]
  OBVIOUS
<1>c. PICK c : c = Walk(mem, t, n)
  OBVIOUS
<1>d. PICK o : o = Path(t)[n + 1]
  OBVIOUS
<1>e. PICK m2 : m2 = mem'
  OBVIOUS
<1>1. /\ t \in Sectors /\ n + 1 \in 1 .. Len(Path(t)) /\ (n = 0 \/ c # NoBlock)
      /\ c \in Container /\ o \in Pointer(c) /\ (c # Inode => own[c].kind = "pointed")
      /\ m2 = [mem EXCEPT ![c][o] = br[1]]
      /\ Len(br) = Len(Path(t)) - n /\ Len(br) \in 1 .. 3
      /\ \A i \in 1 .. Len(br) : br[i] \in Block /\ own[br[i]].kind = "branch"
      /\ \A i \in 1 .. Len(br) - 1 :
           /\ Path(t)[n + 1 + i] \in 0 .. PTRS - 1
           /\ mem[br[i]] = [Zeroes EXCEPT ![Path(t)[n + 1 + i]] = br[i + 1]]
  BY <1>a, <1>b, <1>c, <1>d, <1>e, Zenon DEF SpliceAt
<1>f. PICK l \in 1 .. 3 : l = Len(Path(t))
  BY <1>1, PathLen
<1>g. PICK k \in 1 .. 3 : k = Len(br)
  BY <1>1
<1>2. k = l - n /\ n + 1 \in 1 .. l /\ n + 1 - 1 = n /\ n \in 0 .. n
  <2>1. k = l - n /\ n + 1 \in 1 .. l
    BY <1>1, <1>f, <1>g, Zenon
  <2>. QED  BY <2>1
<1>3. m2[c][o] = br[1] /\ \A x \in Container : x # c => m2[x] = mem[x]
  <2>1. mem = [x \in Container |-> mem[x]] /\ mem[c] \in [Pointer(c) -> Block \cup {NoBlock}]
    BY <1>1, Zenon DEF Links
  <2>. QED  BY <1>1, <2>1
<1>4. n + 1 = 1 \/ Walk(mem, t, n) # NoBlock
  BY <1>1, <1>c
<1>5. \A i \in 0 .. n : Walk(m2, t, i) = Walk(mem, t, i)
  <2>1. PICK j \in 1 .. Len(Path(t)) : j = n + 1
    BY <1>1
  <2>2. j = 1 \/ Walk(mem, t, j - 1) # NoBlock
    BY <1>2, <1>4, <2>1
  <2>3. \A x \in Container : x # Walk(mem, t, j - 1) => m2[x] = mem[x]
    BY <1>2, <1>3, <1>c, <2>1
  <2>4. t \in Sectors
    BY <1>1
  <2>5. \A i \in 0 .. j - 1 : Walk(m2, t, i) = Walk(mem, t, i)
    BY <2>2, <2>3, <2>4, WalkCut, Zenon
  <2>6. j - 1 = n
    BY <1>2, <2>1
  <2>. QED  BY <2>5, <2>6
<1>6. Walk(m2, t, n + 1) = br[1]
  <2>1. Walk(m2, t, n) = c
    BY <1>2, <1>5, <1>c
  <2>2. n + 1 \in 1 .. 3 /\ (n + 1 > 1 => c # NoBlock)
    BY <1>1
  <2>3. Walk(m2, t, n + 1) = IF n + 1 > 1 /\ Walk(m2, t, n + 1 - 1) = NoBlock THEN NoBlock
                             ELSE m2[Walk(m2, t, n + 1 - 1)][Path(t)[n + 1]]
    BY <2>2, WalkStep
  <2>. QED  BY <1>2, <1>3, <1>d, <2>1, <2>2, <2>3
<1>7. ASSUME NEW i \in 1 .. k - 1, Walk(m2, t, n + i) = br[i]
      PROVE  Walk(m2, t, n + (i + 1)) = br[i + 1]
  <2>1. i \in 1 .. Len(br) - 1 /\ i \in 1 .. Len(br) /\ n + i + 1 \in 1 .. 3
        /\ n + i + 1 - 1 = n + i /\ n + 1 + i = n + i + 1 /\ n + (i + 1) = n + i + 1
    BY <1>2, <1>g
  <2>. PICK x : x = n + i
    OBVIOUS
  <2>2. br[i] \in Block /\ br[i] # c /\ br[i] # NoBlock
    BY <1>1, <2>1, BlockFacts
  <2>3. m2[br[i]] = [Zeroes EXCEPT ![Path(t)[x + 1]] = br[i + 1]] /\ Path(t)[x + 1] \in 0 .. PTRS - 1
    <3>1. m2[br[i]] = mem[br[i]]
      BY <1>3, <2>2, BlockFacts
    <3>2. mem[br[i]] = [Zeroes EXCEPT ![Path(t)[n + 1 + i]] = br[i + 1]] /\ Path(t)[n + 1 + i] \in 0 .. PTRS - 1
      BY <1>1, <2>1
    <3>. QED  BY <2>1, <3>1, <3>2
  <2>4. m2[br[i]][Path(t)[x + 1]] = br[i + 1]
    BY <2>3 DEF Zeroes
  <2>5. x + 1 \in 1 .. 3 /\ x + 1 - 1 = x /\ Walk(m2, t, x) = br[i]
    BY <1>7, <2>1
  <2>6. Walk(m2, t, x + 1) = IF x + 1 > 1 /\ Walk(m2, t, x + 1 - 1) = NoBlock THEN NoBlock
                             ELSE m2[Walk(m2, t, x + 1 - 1)][Path(t)[x + 1]]
    BY <2>5, WalkStep
  <2>. QED  BY <2>1, <2>2, <2>4, <2>5, <2>6
<1>8. \A i \in 1 .. k : Walk(m2, t, n + i) = br[i]
  <2>1. CASE k = 1
    BY <1>6, <2>1
  <2>2. CASE k = 2
    <3>1. 1 \in 1 .. k - 1
      BY <2>2
    <3>2. Walk(m2, t, n + (1 + 1)) = br[1 + 1]
      BY <1>6, <1>7, <3>1
    <3>. QED  BY <1>6, <2>2, <3>2
  <2>3. CASE k = 3
    <3>1. 1 \in 1 .. k - 1 /\ 2 \in 1 .. k - 1
      BY <2>3
    <3>2. Walk(m2, t, n + (1 + 1)) = br[1 + 1]
      BY <1>6, <1>7, <3>1
    <3>3. Walk(m2, t, n + 2) = br[2]
      BY <3>2
    <3>4. Walk(m2, t, n + (2 + 1)) = br[2 + 1]
      BY <1>7, <3>1, <3>3
    <3>. QED  BY <1>6, <2>3, <3>3, <3>4
  <2>. QED  BY <2>1, <2>2, <2>3
<1>9. Look(m2, t) = br[k]
  <2>1. n + k = l /\ k \in 1 .. k
    BY <1>2
  <2>. QED  BY <1>8, <1>f, <2>1 DEF Look
<1>. QED  BY <1>5, <1>8, <1>9, <1>a, <1>b, <1>e, <1>g

(* No other sector is mapped by it.                                        *)
LEMMA SplicedOthers ==
  ASSUME NEW p \in Process, NEW own, Links(own, mem), NEW n \in 0 .. 2, SpliceAt(p, own, n),
         NEW s \in Sectors, s # call[p].sector
  PROVE  SameWalk(mem, mem', s) \/ Look(mem', s) = NoBlock
<1>a. PICK t : t = call[p].sector
  OBVIOUS
<1>b. PICK br : br = branch[p]
  OBVIOUS
<1>c. PICK c : c = Walk(mem, t, n)
  OBVIOUS
<1>d. PICK o : o = Path(t)[n + 1]
  OBVIOUS
<1>e. PICK m2 : m2 = mem'
  OBVIOUS
<1>1. /\ t \in Sectors /\ n + 1 \in 1 .. Len(Path(t)) /\ (n = 0 \/ c # NoBlock)
      /\ c \in Container /\ IsTable(own, c) /\ o \in Pointer(c) /\ (c # Inode => own[c].kind = "pointed")
      /\ LevelOf(own, c, o) = Len(Path(t)) - (n + 1)
      /\ m2 = [mem EXCEPT ![c][o] = br[1]]
      /\ Len(br) = Len(Path(t)) - n /\ Len(br) \in 1 .. 3
      /\ \A i \in 1 .. Len(br) : br[i] \in Block /\ own[br[i]].kind = "branch"
      /\ \A i \in 1 .. Len(br) - 1 :
           /\ Path(t)[n + 1 + i] \in 0 .. PTRS - 1
           /\ mem[br[i]] = [Zeroes EXCEPT ![Path(t)[n + 1 + i]] = br[i + 1]]
  BY <1>a, <1>b, <1>c, <1>d, <1>e, Zenon DEF SpliceAt
<1>f. PICK l \in 1 .. 3 : l = Len(Path(s))
  BY PathLen
<1>h. PICK lt \in 1 .. 3 : lt = Len(Path(t))
  BY <1>1, PathLen
<1>3. /\ m2[c][o] = br[1] /\ \A x \in Container : x # c => m2[x] = mem[x]
      /\ \A y \in Pointer(c) : y # o => m2[c][y] = mem[c][y]
  <2>1. mem = [x \in Container |-> mem[x]] /\ mem[c] \in [Pointer(c) -> Block \cup {NoBlock}]
    BY <1>1, Zenon DEF Links
  <2>. QED  BY <1>1, <2>1
<1>4. CASE ~ Passes(mem, s, c, o)
  <2>1. \A i \in 1 .. l : (i = 1 \/ Walk(mem, s, i - 1) # NoBlock) =>
          m2[Walk(mem, s, i - 1)][Path(s)[i]] = mem[Walk(mem, s, i - 1)][Path(s)[i]]
    <3>. SUFFICES ASSUME NEW i \in 1 .. l, i = 1 \/ Walk(mem, s, i - 1) # NoBlock
                  PROVE  m2[Walk(mem, s, i - 1)][Path(s)[i]] = mem[Walk(mem, s, i - 1)][Path(s)[i]]
      OBVIOUS
    <3>1. Walk(mem, s, i - 1) # c \/ Path(s)[i] # o
      BY <1>4, <1>f DEF Passes
    <3>2. OnWalk(own, mem, s, i)
      BY <1>f, WalkOn
    <3>3. Walk(mem, s, i - 1) \in Container /\ Path(s)[i] \in Pointer(Walk(mem, s, i - 1))
      BY <3>2 DEF OnWalk
    <3>. QED  BY <1>3, <3>1, <3>3
  <2>2. l \in 0 .. 3
    OBVIOUS
  <2>3. \A i \in 0 .. l : Walk(m2, s, i) = Walk(mem, s, i)
    BY <2>1, <2>2, WalkKept
  <2>. QED  BY <1>e, <1>f, <2>3 DEF SameWalk
<1>5. CASE Passes(mem, s, c, o)
  <2>1. PICK k \in 1 .. l : (k = 1 \/ Walk(mem, s, k - 1) # NoBlock) /\ Walk(mem, s, k - 1) = c
                            /\ Path(s)[k] = o
    BY <1>5, <1>f DEF Passes
  <2>2. OnWalk(own, mem, s, k)
    BY <1>f, <2>1, WalkOn
  <2>3. LevelOf(own, c, o) = l - k /\ (k = 1 <=> c = Inode)
    BY <1>f, <2>1, <2>2 DEF OnWalk
  <2>4. n = 0 <=> c = Inode
    <3>1. Walk(mem, t, 0) = Inode
      BY DEF Walk
    <3>. QED  BY <1>1, <1>c, <3>1, BlockFacts
  <2>5. k = n + 1 /\ l = lt /\ \A i \in 1 .. k : Path(s)[i] = Path(t)[i]
    <3>1. l - k = lt - (n + 1)
      BY <1>1, <1>h, <2>3
    <3>2. CASE n = 0
      <4>1. k = 1 /\ n = 0
        BY <2>3, <2>4, <3>2
      <4>2. k = n + 1 /\ l = lt
        BY <3>1, <4>1
      <4>3. Path(s)[1] = Path(t)[1]
        BY <1>d, <2>1, <4>1
      <4>. QED  BY <4>1, <4>2, <4>3
    <3>3. CASE n # 0
      <4>1. k # 1 /\ c # Inode /\ c # NoBlock
        BY <1>1, <2>3, <2>4, <3>3
      <4>2. k - 1 \in 1 .. l /\ n \in 1 .. lt
        BY <1>1, <1>h, <3>3, <4>1
      <4>3. k - 1 \in 1 .. Len(Path(s)) /\ n \in 1 .. Len(Path(t))
        BY <1>f, <1>h, <4>2
      <4>4. Walk(mem, s, k - 1) = Walk(mem, t, n) /\ Walk(mem, s, k - 1) # NoBlock
        BY <1>c, <2>1, <4>1
      <4>5. k - 1 = n /\ Len(Path(s)) = Len(Path(t)) /\ \A i \in 1 .. n : Path(s)[i] = Path(t)[i]
        BY <1>1, <4>3, <4>4, WalksMeet
      <4>6. k = n + 1 /\ l = lt
        BY <1>f, <1>h, <4>5
      <4>7. ASSUME NEW i \in 1 .. k PROVE Path(s)[i] = Path(t)[i]
        <5>1. i \in 1 .. n \/ i = k
          BY <4>6
        <5>. QED  BY <1>d, <2>1, <4>5, <4>6, <5>1
      <4>. QED  BY <4>6, <4>7
    <3>. QED  BY <3>2, <3>3
  <2>6. Walk(m2, s, n + 1) = br[1]
    <3>1. \A i \in 0 .. k - 1 : Walk(m2, s, i) = Walk(mem, s, i)
      BY <1>3, <1>f, <2>1, WalkCut
    <3>2. k - 1 \in 0 .. k - 1 /\ k \in 1 .. 3 /\ (k = 1 \/ k > 1)
      OBVIOUS
    <3>3. Walk(m2, s, k - 1) = c
      BY <2>1, <3>1, <3>2
    <3>4. Walk(m2, s, k) = br[1]
      <4>1. Walk(m2, s, k) = IF k > 1 /\ Walk(m2, s, k - 1) = NoBlock THEN NoBlock
                             ELSE m2[Walk(m2, s, k - 1)][Path(s)[k]]
        BY <3>2, WalkStep
      <4>2. k > 1 => c # NoBlock
        BY <2>1
      <4>. QED  BY <1>3, <2>1, <3>3, <4>1, <4>2
    <3>. QED  BY <2>5, <3>4
  <2>7. Len(br) = l - n /\ n + 1 \in 1 .. l
    BY <1>1, <1>h, <2>5
  <2>8. ASSUME NEW i \in 1 .. l - n - 1, Walk(m2, s, n + i) \in {br[i], NoBlock}
        PROVE  /\ Walk(m2, s, n + (i + 1)) \in {br[i + 1], NoBlock}
               /\ Path(s)[n + 1 + i] # Path(t)[n + 1 + i] => Walk(m2, s, n + (i + 1)) = NoBlock
    <3>1. i \in 1 .. Len(br) - 1 /\ i \in 1 .. Len(br) /\ n + i + 1 \in 1 .. 3 /\ n + i + 1 \in 2 .. l
          /\ n + i + 1 - 1 = n + i /\ n + 1 + i = n + i + 1 /\ n + (i + 1) = n + i + 1 /\ n + i + 1 > 1
      BY <2>7
    <3>. PICK x : x = n + i
      OBVIOUS
    <3>2. br[i] \in Block /\ br[i] # c /\ br[i] # NoBlock
      BY <1>1, <3>1, BlockFacts
    <3>3. m2[br[i]] = [Zeroes EXCEPT ![Path(t)[x + 1]] = br[i + 1]] /\ Path(t)[x + 1] \in 0 .. PTRS - 1
      <4>1. m2[br[i]] = mem[br[i]]
        BY <1>3, <3>2, BlockFacts
      <4>2. mem[br[i]] = [Zeroes EXCEPT ![Path(t)[n + 1 + i]] = br[i + 1]] /\ Path(t)[n + 1 + i] \in 0 .. PTRS - 1
        BY <1>1, <3>1
      <4>. QED  BY <3>1, <4>1, <4>2
    <3>4. Path(s)[x + 1] \in 0 .. PTRS - 1
      BY <1>f, <3>1, PathFacts
    <3>5. m2[br[i]][Path(s)[x + 1]] = IF Path(s)[x + 1] = Path(t)[x + 1] THEN br[i + 1] ELSE NoBlock
      BY <3>3, <3>4 DEF Zeroes
    <3>6. x + 1 \in 1 .. 3 /\ x + 1 - 1 = x /\ x + 1 > 1
      BY <3>1
    <3>7. Walk(m2, s, x + 1) = IF x + 1 > 1 /\ Walk(m2, s, x + 1 - 1) = NoBlock THEN NoBlock
                               ELSE m2[Walk(m2, s, x + 1 - 1)][Path(s)[x + 1]]
      BY <3>6, WalkStep
    <3>8. Walk(m2, s, x + 1) = IF Walk(m2, s, x) = NoBlock THEN NoBlock
                               ELSE m2[Walk(m2, s, x)][Path(s)[x + 1]]
      BY <3>6, <3>7
    <3>. QED  BY <2>8, <3>1, <3>5, <3>8
  <2>9. PICK i \in 1 .. l - n - 1 : Path(s)[n + 1 + i] # Path(t)[n + 1 + i]
    <3>. SUFFICES ASSUME \A i \in 1 .. l - n - 1 : Path(s)[n + 1 + i] = Path(t)[n + 1 + i] PROVE FALSE
      OBVIOUS
    <3>1. ASSUME NEW j \in 1 .. lt PROVE Path(s)[j] = Path(t)[j]
      <4>1. CASE j <= n + 1
        BY <2>5, <4>1
      <4>2. CASE j > n + 1
        <5>. PICK i : i = j - n - 1
          OBVIOUS
        <5>1. i \in 1 .. l - n - 1 /\ n + 1 + i = j
          BY <2>5, <4>2
        <5>. QED  BY <5>1
      <4>. QED  BY <4>1, <4>2
    <3>2. \A j \in 1 .. Len(Path(t)) : Path(s)[j] = Path(t)[j]
      BY <1>h, <3>1
    <3>3. Len(Path(s)) = Len(Path(t)) /\ t \in Sectors
      BY <1>1, <1>f, <1>h, <2>5
    <3>4. s = t
      BY <3>2, <3>3, PathTells
    <3>. QED  BY <1>a, <3>4
  <2>10. Walk(m2, s, n + i) \in {br[i], NoBlock}
    <3>1. i = 1 \/ i = 2
      BY <2>7
    <3>2. CASE i = 1
      BY <2>6, <3>2
    <3>3. CASE i = 2
      <4>1. 1 \in 1 .. l - n - 1
        BY <3>3
      <4>2. Walk(m2, s, n + (1 + 1)) \in {br[1 + 1], NoBlock}
        BY <2>6, <2>8, <4>1
      <4>. QED  BY <3>3, <4>2
    <3>. QED  BY <3>1, <3>2, <3>3
  <2>11. Walk(m2, s, n + (i + 1)) = NoBlock
    BY <2>8, <2>9, <2>10
  <2>12. Look(m2, s) = NoBlock
    <3>1. n + (i + 1) \in 1 .. l
      BY <2>7
    <3>2. SUFFICES ASSUME Walk(m2, s, l) # NoBlock PROVE FALSE
      BY <1>f DEF Look
    <3>. QED  BY <2>11, <3>1, <3>2, WalkEnds
  <2>. QED  BY <1>e, <2>12
<1>. QED  BY <1>4, <1>5

LEMMA LookNext ==
  ASSUME NEW t \in Sectors
  PROVE  Lookup(t)' = Look(mem', t)
<1>1. Len(Path(t)) = 1 \/ Len(Path(t)) = 2 \/ Len(Path(t)) = 3
  BY PathFacts
<1>2. CASE Len(Path(t)) = 1
  BY <1>2 DEF Lookup, Look, Walk
<1>3. CASE Len(Path(t)) = 2
  BY <1>3 DEF Lookup, Look, Walk, Hop
<1>4. CASE Len(Path(t)) = 3
  BY <1>4 DEF Lookup, Look, Walk, Hop
<1>. QED  BY <1>1, <1>2, <1>3, <1>4

(* The same path gives the same walk.                                      *)
LEMMA AlongWalk ==
  ASSUME NEW m, NEW t, NEW s, NEW k \in 0 .. 3, \A i \in 1 .. k : Path(t)[i] = Path(s)[i]
  PROVE  \A i \in 0 .. k : Walk(m, t, i) = Walk(m, s, i)
<1>1. ASSUME NEW i \in 1 .. k, Walk(m, t, i - 1) = Walk(m, s, i - 1)
      PROVE  Walk(m, t, i) = Walk(m, s, i)
  <2>1. i \in 1 .. 3 /\ Path(t)[i] = Path(s)[i]
    OBVIOUS
  <2>2. Walk(m, t, i) = IF i > 1 /\ Walk(m, t, i - 1) = NoBlock THEN NoBlock
                        ELSE m[Walk(m, t, i - 1)][Path(t)[i]]
    BY <2>1, WalkStep
  <2>3. Walk(m, s, i) = IF i > 1 /\ Walk(m, s, i - 1) = NoBlock THEN NoBlock
                        ELSE m[Walk(m, s, i - 1)][Path(s)[i]]
    BY <2>1, WalkStep
  <2>. QED  BY <1>1, <2>1, <2>2, <2>3
<1>2. Walk(m, t, 0) = Walk(m, s, 0)
  BY DEF Walk
<1>3. k >= 1 => Walk(m, t, 1) = Walk(m, s, 1)
  <2>. SUFFICES ASSUME k >= 1 PROVE Walk(m, t, 1) = Walk(m, s, 1)
    OBVIOUS
  <2>1. 1 \in 1 .. k /\ 1 - 1 = 0
    OBVIOUS
  <2>. QED  BY <1>1, <1>2, <2>1
<1>4. k >= 2 => Walk(m, t, 2) = Walk(m, s, 2)
  <2>. SUFFICES ASSUME k >= 2 PROVE Walk(m, t, 2) = Walk(m, s, 2)
    OBVIOUS
  <2>1. 2 \in 1 .. k /\ 2 - 1 = 1
    OBVIOUS
  <2>. QED  BY <1>1, <1>3, <2>1
<1>5. k >= 3 => Walk(m, t, 3) = Walk(m, s, 3)
  <2>. SUFFICES ASSUME k >= 3 PROVE Walk(m, t, 3) = Walk(m, s, 3)
    OBVIOUS
  <2>1. 3 \in 1 .. k /\ 3 - 1 = 2
    OBVIOUS
  <2>. QED  BY <1>1, <1>4, <2>1
<1>6. ASSUME NEW i \in 0 .. k
      PROVE  i = 0 \/ (i = 1 /\ k >= 1) \/ (i = 2 /\ k >= 2) \/ (i = 3 /\ k >= 3)
  OBVIOUS
<1>. QED  BY <1>2, <1>3, <1>4, <1>5, <1>6

(* A walk that passes a pointer on the walk of s has come the same way.    *)
LEMMA PassesAlong ==
  ASSUME NEW own, NEW m, Links(own, m), NEW s \in Sectors, NEW j \in 1 .. Len(Path(s)),
         j = 1 \/ Walk(m, s, j - 1) # NoBlock,
         NEW t \in Sectors, Passes(m, t, Walk(m, s, j - 1), Path(s)[j])
  PROVE  Along(t, s, j)
<1>1. PICK l \in 1 .. 3 : l = Len(Path(t))
  BY PathLen
<1>2. PICK ls \in 1 .. 3 : ls = Len(Path(s))
  BY PathLen
<1>3. PICK k \in 1 .. l : /\ k = 1 \/ Walk(m, t, k - 1) # NoBlock
                          /\ Walk(m, t, k - 1) = Walk(m, s, j - 1) /\ Path(t)[k] = Path(s)[j]
  BY <1>1 DEF Passes
<1>4. OnWalk(own, m, t, k)
  BY <1>1, <1>3, WalkOn
<1>5. OnWalk(own, m, s, j)
  BY WalkOn
<1>6. PICK c : c = Walk(m, s, j - 1)
  OBVIOUS
<1>7. /\ LevelOf(own, c, Path(s)[j]) = l - k /\ (k = 1 <=> c = Inode)
      /\ LevelOf(own, c, Path(s)[j]) = ls - j /\ (j = 1 <=> c = Inode)
  BY <1>1, <1>2, <1>3, <1>4, <1>5, <1>6 DEF OnWalk
<1>8. l - k = ls - j /\ j \in 1 .. ls
  BY <1>2, <1>7
<1>9. CASE j = 1
  <2>1. k = 1 /\ l = ls
    BY <1>7, <1>8, <1>9
  <2>2. \A i \in 1 .. j : Path(t)[i] = Path(s)[i]
    BY <1>3, <1>9, <2>1
  <2>. QED  BY <1>1, <1>2, <2>1, <2>2 DEF Along
<1>10. CASE j # 1
  <2>1. k # 1 /\ c # NoBlock
    BY <1>6, <1>7, <1>10
  <2>2. k - 1 \in 1 .. l /\ j - 1 \in 1 .. ls
    BY <1>8, <1>10, <2>1
  <2>3. k - 1 \in 1 .. Len(Path(t)) /\ j - 1 \in 1 .. Len(Path(s))
    BY <1>1, <1>2, <2>2
  <2>4. Walk(m, t, k - 1) = Walk(m, s, j - 1) /\ Walk(m, t, k - 1) # NoBlock
    BY <1>3, <1>6, <2>1
  <2>5. k - 1 = j - 1 /\ Len(Path(t)) = Len(Path(s)) /\ \A i \in 1 .. j - 1 : Path(t)[i] = Path(s)[i]
    BY <2>3, <2>4, WalksMeet
  <2>6. k = j
    BY <1>8, <2>5
  <2>7. ASSUME NEW i \in 1 .. j PROVE Path(t)[i] = Path(s)[i]
    <3>1. i \in 1 .. j - 1 \/ i = j
      BY <1>8
    <3>. QED  BY <1>3, <2>5, <2>6, <3>1
  <2>. QED  BY <2>5, <2>7 DEF Along
<1>. QED  BY <1>9, <1>10

(* What a sector maps to is below every block on its walk.                 *)
LEMMA WalkBelow ==
  ASSUME NEW own, NEW m, Links(own, m), NEW t \in Sectors, Look(m, t) # NoBlock,
         NEW j \in 1 .. Len(Path(t))
  PROVE  Look(m, t) \in BelowOf(m, Walk(m, t, j), Len(Path(t)) - j)
<1>1. PICK l \in 1 .. 3 : l = Len(Path(t))
  BY PathLen
<1>2. ASSUME NEW i \in 1 .. l PROVE Walk(m, t, i) # NoBlock
  BY <1>1, WalkEnds DEF Look
<1>3. ASSUME NEW i \in 1 .. l, i > j
      PROVE  Walk(m, t, i) \in {m[Walk(m, t, i - 1)][o] : o \in Pointer(Walk(m, t, i - 1))} \ {NoBlock}
  <2>1. OnWalk(own, m, t, i)
    BY <1>1, <1>2, WalkPointed
  <2>. QED  BY <1>2, <2>1 DEF OnWalk
<1>4. Look(m, t) = Walk(m, t, l)
  BY <1>1 DEF Look
<1>5. CASE j = l
  BY <1>1, <1>4, <1>5 DEF BelowOf
<1>6. CASE j = l - 1
  <2>1. l > j /\ l - j = 1 /\ l \in 1 .. l
    BY <1>6
  <2>2. Walk(m, t, l) \in {m[Walk(m, t, l - 1)][o] : o \in Pointer(Walk(m, t, l - 1))} \ {NoBlock}
    BY <1>3, <2>1
  <2>3. Walk(m, t, l) \in BelowOf(m, Walk(m, t, j), 1)
    BY <1>6, <2>2 DEF BelowOf
  <2>. QED  BY <1>1, <1>4, <2>1, <2>3
<1>7. CASE j = l - 2
  <2>1. l > j /\ l - j = 2 /\ l \in 1 .. l /\ l - 1 \in 1 .. l /\ l - 1 > j /\ l - 1 - 1 = j
    BY <1>1, <1>7
  <2>2. Walk(m, t, l) \in {m[Walk(m, t, l - 1)][o] : o \in Pointer(Walk(m, t, l - 1))} \ {NoBlock}
    BY <1>3, <2>1
  <2>3. Walk(m, t, l - 1) \in {m[Walk(m, t, j)][o] : o \in Pointer(Walk(m, t, j))} \ {NoBlock}
    BY <1>3, <2>1
  <2>4. Walk(m, t, l) \in BelowOf(m, Walk(m, t, j), 2)
    <3>. DEFINE children(x) == {m[x][o] : o \in Pointer(x)} \ {NoBlock}
    <3>. PICK b : b = Walk(m, t, j)
      OBVIOUS
    <3>. PICK c : c = Walk(m, t, l - 1)
      OBVIOUS
    <3>. PICK x : x = Walk(m, t, l)
      OBVIOUS
    <3>1. c \in children(b) /\ x \in children(c)
      BY <2>2, <2>3
    <3>2. BelowOf(m, b, 2) = {b} \cup children(b) \cup UNION {children(y) : y \in children(b)}
      <4>1. 2 # 0 /\ ~ (2 < 2)
        OBVIOUS
      <4>. QED  BY <4>1, Zenon DEF BelowOf
    <3>. HIDE DEF children
    <3>3. x \in UNION {children(y) : y \in children(b)}
      BY <3>1, Zenon
    <3>. QED  BY <3>2, <3>3
  <2>. QED  BY <1>1, <1>4, <2>1, <2>4
<1>8. j = l \/ j = l - 1 \/ j = l - 2
  BY <1>1
<1>. QED  BY <1>5, <1>6, <1>7, <1>8

(* Only sectors behind the end of the file pass the ends to clear.         *)
LEMMA EndsBehind ==
  ASSUME NEW own, NEW m, Links(own, m), NEW s \in Sectors, NEW e \in Task,
         e.op = "cells", EndsAt(m, e, s), NEW o \in e.from .. e.to - 1,
         NEW t \in Sectors, Passes(m, t, e.at, o)
  PROVE  t >= s
<1>1. PICK l \in 1 .. 3 : l = Len(Path(t))
  BY PathLen
<1>2. PICK ls \in 1 .. 3 : ls = Len(Path(s))
  BY PathLen
<1>3. PICK k \in 1 .. l : /\ k = 1 \/ Walk(m, t, k - 1) # NoBlock
                          /\ Walk(m, t, k - 1) = e.at /\ Path(t)[k] = o
  BY <1>1 DEF Passes
<1>4. OnWalk(own, m, t, k)
  BY <1>1, <1>3, WalkOn
<1>5. /\ \A i \in 1 .. ls : Path(s)[i] \in Nat
      /\ \A i \in 1 .. l : Path(t)[i] \in Nat
  BY <1>1, <1>2, PathFacts
<1>6. e.from \in Nat /\ e.to \in Nat /\ e.depth \in 0 .. 2
  BY DEF Task
<1>7. o \in Nat /\ e.from <= o
  BY <1>6
<1>8. SUFFICES ASSUME t < s PROVE FALSE
  BY DEF Sectors, NSectors
<1>9. \/ Path(t)[1] < Path(s)[1]
      \/ \E i \in 1 .. ls : Along(t, s, i - 1) /\ Path(t)[i] < Path(s)[i]
  BY <1>2, <1>8, PathOrder
<1>10. CASE e.at = Inode
  <2>1. k = 1
    BY <1>3, <1>4, <1>10 DEF OnWalk
  <2>2. e.from > Path(s)[1] \/ (e.from = Path(s)[1] /\ ls = 1)
    BY <1>2, <1>10 DEF EndsAt
  <2>3. 1 \in 1 .. ls /\ 1 \in 1 .. l
    OBVIOUS
  <2>4. Path(t)[1] >= Path(s)[1] /\ Path(t)[1] \in Nat /\ Path(s)[1] \in Nat
    BY <1>3, <1>5, <1>6, <1>7, <2>1, <2>2, <2>3
  <2>5. PICK i \in 1 .. ls : Along(t, s, i - 1) /\ Path(t)[i] < Path(s)[i]
    BY <1>9, <2>4
  <2>6. i # 1
    BY <2>4, <2>5
  <2>7. 1 \in 1 .. i - 1 /\ ls # 1
    BY <2>6
  <2>8. Path(t)[1] = Path(s)[1]
    BY <2>5, <2>7 DEF Along
  <2>. QED  BY <1>3, <1>6, <1>7, <2>1, <2>2, <2>4, <2>7, <2>8
<1>11. CASE e.at # Inode
  <2>1. PICK j \in Int : j = ls - e.depth
    BY <1>6
  <2>2. /\ j > 1 /\ e.at = Walk(m, s, j - 1)
        /\ \/ e.from > Path(s)[j]
           \/ e.from = Path(s)[j] /\ \A i \in DOMAIN Path(s) : i > j => Path(s)[i] = 0
    BY <1>2, <1>11, <2>1 DEF EndsAt
  <2>3. j \in 2 .. ls /\ j - 1 \in 1 .. ls
    BY <1>6, <2>1, <2>2
  <2>4. k # 1 /\ e.at # NoBlock
    BY <1>3, <1>4, <1>11 DEF OnWalk
  <2>5. k - 1 \in 1 .. l
    BY <2>4
  <2>6. k - 1 \in 1 .. Len(Path(t)) /\ j - 1 \in 1 .. Len(Path(s))
    BY <1>1, <1>2, <2>3, <2>5
  <2>7. Walk(m, t, k - 1) = Walk(m, s, j - 1) /\ Walk(m, t, k - 1) # NoBlock
    BY <1>3, <2>2, <2>4
  <2>8. k - 1 = j - 1 /\ Len(Path(t)) = Len(Path(s)) /\ \A i \in 1 .. j - 1 : Path(t)[i] = Path(s)[i]
    BY <2>6, <2>7, WalksMeet
  <2>9. k = j /\ l = ls
    BY <1>1, <1>2, <2>3, <2>8
  <2>10. 1 \in 1 .. j - 1 /\ 1 \in 1 .. ls /\ j \in 1 .. ls
    BY <2>3
  <2>11. Path(t)[1] = Path(s)[1] /\ Path(s)[1] \in Nat
    BY <1>5, <2>8, <2>10
  <2>12. PICK i \in 1 .. ls : Along(t, s, i - 1) /\ Path(t)[i] < Path(s)[i]
    BY <1>9, <2>11
  <2>13. i >= j
    <3>1. i \in 1 .. j - 1 \/ i >= j
      BY <2>3
    <3>2. i \in 1 .. j - 1 => Path(t)[i] = Path(s)[i] /\ Path(s)[i] \in Nat
      BY <1>5, <2>8
    <3>. QED  BY <2>12, <3>1, <3>2
  <2>14. Path(t)[j] = o /\ Path(s)[j] \in Nat /\ Path(s)[j] <= o
    BY <1>3, <1>5, <1>6, <1>7, <2>2, <2>9, <2>10
  <2>15. i # j
    BY <1>7, <2>12, <2>14
  <2>16. i > j /\ j \in 1 .. i - 1
    BY <2>3, <2>13, <2>15
  <2>17. Path(t)[j] = Path(s)[j]
    BY <2>12, <2>16 DEF Along
  <2>18. e.from = Path(s)[j]
    BY <1>6, <1>7, <2>2, <2>14, <2>17
  <2>19. i \in DOMAIN Path(s)
    BY <1>2, PathFacts
  <2>20. Path(s)[i] = 0
    BY <1>6, <2>2, <2>14, <2>16, <2>18, <2>19
  <2>21. Path(t)[i] \in Nat
    BY <1>5, <2>9
  <2>. QED  BY <2>12, <2>20, <2>21
<1>. QED  BY <1>10, <1>11

(* A change of a block outside the tree leaves every walk.                 *)
LEMMA WalkBeside ==
  ASSUME NEW own, NEW m, Links(own, m), NEW b \in Block, own[b].kind # "pointed", NEW m2,
         \A c \in Container : c # b => m2[c] = m[c], NEW t \in Sectors
  PROVE  SameWalk(m, m2, t)
<1>1. \A c \in Container : c = Inode \/ own[c].kind = "pointed" => m2[c] = m[c]
  BY BlockFacts
<1>. QED  BY <1>1, WalkQuiet

LEMMA AllocWalk ==
  ASSUME IInv, NEW p \in Process, Alloc(p), NEW t \in Sectors
  PROVE  SameWalk(mem, mem', t)
<1>1. PICK br : br = branch[p]
  OBVIOUS
<1>2. \/ mem' = mem
      \/ br # <<>> /\ \E z : mem' = [mem EXCEPT ![Last(br)] = z]
  BY <1>1, Zenon DEF Alloc
<1>3. PICK own : Forest(own)
  BY DEF IInv
<1>4. CASE mem' = mem
  BY <1>4 DEF SameWalk
<1>5. CASE br # <<>> /\ \E z : mem' = [mem EXCEPT ![Last(br)] = z]
  <2>1. /\ br \in Seq(Block) /\ Len(br) \in Nat /\ DOMAIN br = 1 .. Len(br)
        /\ \A i \in 1 .. Len(br) : br[i] \in Block
    BY <1>1, TypesOf DEF IInv
  <2>2. Len(br) \in 1 .. Len(br)
    BY <1>5, <2>1, EmptySeq
  <2>3. PICK b \in Block : b = Last(br) /\ own[b].kind = "branch"
    BY <1>1, <1>3, <2>1, <2>2 DEF Last, Forest, Holds
  <2>4. Links(own, mem)
    BY <1>3 DEF Forest
  <2>5. \A c \in Container : c # b => mem'[c] = mem[c]
    BY <1>5, <2>3, <2>4 DEF Links
  <2>6. PICK m2 : m2 = mem'
    OBVIOUS
  <2>7. SameWalk(mem, m2, t)
    BY <2>3, <2>4, <2>5, <2>6, WalkBeside
  <2>. QED  BY <2>6, <2>7
<1>. QED  BY <1>2, <1>4, <1>5

LEMMA UndoWalk ==
  ASSUME IInv, NEW p \in Process, Undo(p), NEW t \in Sectors
  PROVE  SameWalk(mem, mem', t)
<1>1. PICK br : br = branch[p]
  OBVIOUS
<1>2. br # <<>> /\ mem' = [mem EXCEPT ![Head(br)] = Zeroes]
  BY <1>1 DEF Undo, Freed
<1>3. PICK own : Forest(own)
  BY DEF IInv
<1>4. /\ br \in Seq(Block) /\ Len(br) \in Nat /\ DOMAIN br = 1 .. Len(br)
      /\ \A i \in 1 .. Len(br) : br[i] \in Block
  BY <1>1, TypesOf DEF IInv
<1>5. 1 \in 1 .. Len(br) /\ Head(br) = br[1]
  BY <1>2, <1>4, EmptySeq, HeadTailProperties
<1>6. PICK b \in Block : b = Head(br) /\ own[b].kind = "branch"
  BY <1>1, <1>3, <1>4, <1>5 DEF Forest, Holds
<1>7. Links(own, mem)
  BY <1>3 DEF Forest
<1>8. \A c \in Container : c # b => mem'[c] = mem[c]
  BY <1>2, <1>6, <1>7 DEF Links
<1>9. PICK m2 : m2 = mem'
  OBVIOUS
<1>10. SameWalk(mem, m2, t)
  BY <1>6, <1>7, <1>8, <1>9, WalkBeside
<1>. QED  BY <1>9, <1>10

LEMMA WholeWalk ==
  ASSUME IInv, NEW p \in Process, ClearIndirect(p) \/ FreeBlock(p), NEW t \in Sectors
  PROVE  SameWalk(mem, mem', t)
<1>1. PICK b : b = Top(p).at
  OBVIOUS
<1>2. /\ call[p].pc = "free" /\ tasks[p] # <<>> /\ Top(p).op = "whole"
      /\ \/ mem' = [mem EXCEPT ![b] = Zeroes]
         \/ \E o : mem' = [mem EXCEPT ![b][o] = NoBlock]
  <2>1. CASE ClearIndirect(p)
    BY <1>1, <2>1, Zenon DEF ClearIndirect, ClearPointer, Freeing, Stored
  <2>2. CASE FreeBlock(p)
    BY <1>1, <2>2 DEF FreeBlock, Freeing, Freed
  <2>. QED  BY <2>1, <2>2
<1>3. PICK own : Forest(own)
  BY DEF IInv
<1>4. TopFacts(p, own)
  BY <1>2, <1>3, TopTask
<1>5. b \in Block /\ own[b].kind = "whole"
  BY <1>1, <1>2, <1>4 DEF TopFacts, Loose, Tag, Task
<1>6. Links(own, mem)
  BY <1>3 DEF Forest
<1>7. \A c \in Container : c # b => mem'[c] = mem[c]
  BY <1>2, <1>6 DEF Links
<1>8. PICK m2 : m2 = mem'
  OBVIOUS
<1>9. SameWalk(mem, m2, t)
  BY <1>5, <1>6, <1>7, <1>8, WalkBeside
<1>. QED  BY <1>8, <1>9

(* get_block() never takes the block of a sector, and maps its own sector  *)
(* at most.                                                                *)
LEMMA GetBlockWalk ==
  ASSUME IInv, NEW p \in Process, GetBlockStep(p), NEW t \in Sectors
  PROVE  \/ SameWalk(mem, mem', t)
         \/ Look(mem, t) = NoBlock /\ Look(mem', t) = NoBlock
         \/ Look(mem, t) = NoBlock /\ Splice(p) /\ Vacant(p) /\ t = call[p].sector
<1>1. CASE mem' = mem
  BY <1>1 DEF SameWalk
<1>2. CASE Alloc(p) \/ Undo(p)
  BY <1>2, AllocWalk, UndoWalk
<1>3. CASE Splice(p) /\ Vacant(p)
  <2>1. PICK own : Forest(own)
    BY DEF IInv
  <2>2. Links(own, mem)
    BY <2>1 DEF Forest
  <2>3. PICK n \in 0 .. 2 : SpliceAt(p, own, n)
    BY <1>3, <2>1, Spliced
  <2>4. Look(mem, t) # NoBlock => SameWalk(mem, mem', t)
    <3>. SUFFICES ASSUME Look(mem, t) # NoBlock PROVE SameWalk(mem, mem', t)
      OBVIOUS
    <3>1. PICK c : c = Walk(mem, call[p].sector, n)
      OBVIOUS
    <3>2. PICK o : o = Path(call[p].sector)[n + 1]
      OBVIOUS
    <3>3. PICK b : b = branch[p][1]
      OBVIOUS
    <3>4. mem[c][o] = NoBlock /\ mem' = [mem EXCEPT ![c][o] = b] /\ c \in Container
      BY <2>3, <3>1, <3>2, <3>3, Zenon DEF SpliceAt
    <3>5. PICK m2 : m2 = mem'
      OBVIOUS
    <3>6. \A x \in Container : \A y \in Pointer(x) : (x # c \/ y # o) => m2[x][y] = mem[x][y]
      BY <2>2, <3>4, <3>5 DEF Links
    <3>7. Keeps(own, mem, m2)
      BY <3>4, <3>6 DEF Keeps
    <3>8. PICK l \in 1 .. 3 : l = Len(Path(t))
      BY PathLen
    <3>9. l \in 0 .. l /\ Walk(mem, t, l) # NoBlock
      BY <3>8 DEF Look
    <3>10. \A i \in 0 .. l : Walk(m2, t, i) = Walk(mem, t, i)
      BY <2>2, <3>7, <3>8, <3>9, WalkKeeps
    <3>. QED  BY <3>5, <3>8, <3>10 DEF SameWalk
  <2>5. t # call[p].sector => SameWalk(mem, mem', t) \/ Look(mem', t) = NoBlock
    BY <2>2, <2>3, SplicedOthers
  <2>. QED  BY <1>3, <2>4, <2>5
<1>4. mem' = mem \/ Alloc(p) \/ Undo(p) \/ (Splice(p) /\ Vacant(p))
  <2>1. FirstLevel(p) => mem' = mem
    BY Zenon DEF FirstLevel, Extended, Answer
  <2>2. NextLevel(p) => mem' = mem
    BY Zenon DEF NextLevel, Extended, Answer
  <2>3. ReadFails(p) => mem' = mem
    BY Zenon DEF ReadFails, Answer
  <2>4. NoSpace(p) \/ Undone(p) => mem' = mem
    BY Zenon DEF NoSpace, Undone
  <2>5. Splice(p) => Vacant(p) \/ mem' = mem
    BY Zenon DEF Splice
  <2>. QED  BY <2>1, <2>2, <2>3, <2>4, <2>5, Zenon DEF GetBlockStep
<1>. QED  BY <1>1, <1>2, <1>3, <1>4

LEMMA ClearEndsWalk ==
  ASSUME IInv, NEW p \in Process, ClearEnds(p), NEW t \in Sectors
  PROVE  SameWalk(mem, mem', t) \/ (Look(mem', t) = NoBlock /\ t >= size)
<1>1. PICK h : h = Top(p)
  OBVIOUS
<1>2. PICK c : c = h.at
  OBVIOUS
<1>3. PICK o : o = Min(Used(c, h.from, h.to))
  OBVIOUS
<1>4. /\ call[p].pc = "free" /\ tasks[p] # <<>> /\ h.op = "cells"
      /\ Used(c, h.from, h.to) # {}
      /\ mem' = [mem EXCEPT ![c][o] = NoBlock]
  BY <1>1, <1>2, <1>3 DEF ClearEnds, ClearPointer, Freeing, Stored
<1>5. PICK own : Forest(own)
  BY DEF IInv
<1>6. TopFacts(p, own)
  BY <1>4, <1>5, TopTask
<1>7. PICK s : s = size
  OBVIOUS
<1>8. Links(own, mem) /\ s \in Sectors
  BY <1>4, <1>5, <1>7, TasksAlone DEF Forest
<1>9. h \in Task /\ EndsAt(mem, h, s)
  BY <1>1, <1>4, <1>6, <1>7 DEF TopFacts
<1>10. h.from \in Nat /\ h.to \in Nat
  BY <1>4, <1>9 DEF Task
<1>11. o \in h.from .. h.to - 1
  BY <1>3, <1>4, <1>10, FirstUsed
<1>12. c \in Container /\ IsTable(own, c) /\ o \in Pointer(c)
  BY <1>2, <1>4, <1>8, <1>9, <1>11, EndsOn
<1>13. PICK m : m = mem
  OBVIOUS
<1>14. \/ SameWalk(m, [m EXCEPT ![c][o] = NoBlock], t)
       \/ Look([m EXCEPT ![c][o] = NoBlock], t) = NoBlock /\ Passes(m, t, c, o)
  BY <1>8, <1>12, <1>13, WalkCleared
<1>15. Passes(m, t, c, o) => t >= s
  BY <1>2, <1>4, <1>8, <1>9, <1>11, <1>13, EndsBehind
<1>. QED  BY <1>4, <1>7, <1>13, <1>14, <1>15

(* What find_shared() has of the path of i_size.                           *)
ChainFacts(p) ==
  /\ Len(chain[p]) \in 1 .. Depth(p) /\ Last(chain[p]) = chain[p][Len(chain[p])]
  /\ \A i \in 1 .. Len(chain[p]) :
       /\ chain[p][i].at = <<Walk(mem, size, i - 1), Path(size)[i]>>
       /\ i = 1 \/ Walk(mem, size, i - 1) # NoBlock
       /\ At(chain[p][i].at) = Walk(mem, size, i)
       /\ chain[p][i].key # NoBlock => chain[p][i].key = Walk(mem, size, i)
       /\ i < Len(chain[p]) => chain[p][i].key # NoBlock

LEMMA ChainKnown ==
  ASSUME IInv, NEW p \in Process, call[p].pc = "shared"
  PROVE  ChainFacts(p)
<1>a. PICK own : Forest(own)
  BY DEF IInv
<1>1. Types /\ CallInv(p)
  BY DEF IInv
<1>2. /\ call[p].sector = size /\ size \in Sectors /\ call[p].kind = "truncate"
  BY <1>a, TasksAlone
<1>3. PICK s : s = size
  OBVIOUS
<1>4. PICK ch : ch = chain[p]
  OBVIOUS
<1>5. /\ ch \in ChainType /\ Len(ch) \in Nat /\ DOMAIN ch = 1 .. Len(ch)
      /\ ChainOf(ch, Path(s)) /\ ch # <<>> /\ Len(ch) <= Depth(p)
      /\ \A i \in DOMAIN ch : ch[i].key # NoBlock => mem[ch[i].at[1]][ch[i].at[2]] = ch[i].key
  BY <1>1, <1>2, <1>3, <1>4, TypesOf DEF CallInv, ChainInv, At
<1>6. s \in Sectors
  BY <1>2, <1>3
<1>7. Depth(p) \in 1 .. Len(Path(s))
  <2>1. Depth(p) = DepthOf("truncate", Path(s))
    BY <1>2, <1>3, DepthIs
  <2>2. DepthOf("truncate", Path(s)) \in 1 .. Len(Path(s))
    BY <1>6, DepthShape
  <2>. QED  BY <2>1, <2>2
<1>8. Len(ch) \in 1 .. Depth(p)
  <2>1. Len(ch) # 0
    BY <1>5, EmptySeq DEF ChainType
  <2>2. PICK n \in 1 .. 3 : n = Len(Path(s))
    BY <1>6, PathLen
  <2>3. PICK d \in 1 .. n : d = Depth(p)
    BY <1>7, <2>2
  <2>. QED  BY <1>5, <2>1, <2>2, <2>3
<1>9. Last(ch) = ch[Len(ch)]
  BY DEF Last
<1>10. \A i \in DOMAIN ch :
         /\ i \in 1 .. Len(Path(s)) /\ ch[i].at = <<Walk(mem, s, i - 1), Path(s)[i]>>
         /\ i = 1 \/ Walk(mem, s, i - 1) # NoBlock
         /\ OnWalk(own, mem, s, i)
         /\ ch[i].key # NoBlock => ch[i].key = Walk(mem, s, i)
  <2>1. Links(own, mem)
    BY <1>a DEF Forest
  <2>. QED  BY <1>5, <1>6, <2>1, ChainHolds
<1>11. ASSUME NEW i \in 1 .. Len(ch)
       PROVE  /\ ch[i].at = <<Walk(mem, s, i - 1), Path(s)[i]>>
              /\ i = 1 \/ Walk(mem, s, i - 1) # NoBlock
              /\ At(ch[i].at) = Walk(mem, s, i)
              /\ ch[i].key # NoBlock => ch[i].key = Walk(mem, s, i)
              /\ i < Len(ch) => ch[i].key # NoBlock
  <2>1. i \in DOMAIN ch
    BY <1>5
  <2>2. ch[i].at = <<Walk(mem, s, i - 1), Path(s)[i]>> /\ OnWalk(own, mem, s, i)
    BY <1>10, <2>1
  <2>3. At(ch[i].at) = Walk(mem, s, i)
    BY <2>2 DEF At, OnWalk
  <2>4. i < Len(ch) => ch[i].key # NoBlock
    BY <1>5, <2>1 DEF ChainOf
  <2>. QED  BY <1>10, <2>1, <2>2, <2>3, <2>4
<1>. QED  BY <1>3, <1>4, <1>8, <1>9, <1>11 DEF ChainFacts

(* What find_shared() cuts off.                                            *)
LEMMA SharedWalk ==
  ASSUME IInv, NEW p \in Process, FindShared(p), NEW t \in Sectors
  PROVE  \/ SameWalk(mem, mem', t)
         \/ /\ Look(mem', t) = NoBlock /\ ~ Grown(p) /\ ~ Stays(p)
            /\ Along(t, size, Fork(p))
<1>1. PICK own : Forest(own)
  BY DEF IInv
<1>2. call[p].pc = "shared"
  BY SharedIs
<1>3. ForkFacts(p, own) /\ Links(own, mem)
  BY <1>1, <1>2, ForkOk DEF Forest
<1>4. CASE Grown(p) \/ Stays(p)
  <2>1. mem' = mem
    BY <1>4, SharedIs, Zenon
  <2>. QED  BY <2>1 DEF SameWalk
<1>5. CASE ~ (Grown(p) \/ Stays(p))
  <2>1. PICK j : j = Fork(p)
    OBVIOUS
  <2>2. PICK s : s = size
    OBVIOUS
  <2>3. PICK c : c = Walk(mem, s, j - 1)
    OBVIOUS
  <2>4. PICK o : o = Path(s)[j]
    OBVIOUS
  <2>6. j \in 1 .. Len(Path(s)) /\ j \in 1 .. j /\ s \in Sectors
    <3>1. PICK d : d = Depth(p)
      OBVIOUS
    <3>2. PICK n : n = Len(Path(s))
      OBVIOUS
    <3>3. d \in 1 .. n /\ j \in 1 .. d /\ n \in 2 .. 3 /\ s \in Sectors
      BY <1>3, <2>1, <2>2, <3>1, <3>2 DEF ForkFacts
    <3>4. j \in 1 .. n /\ j \in 1 .. j
      BY <3>3
    <3>. QED  BY <3>2, <3>3, <3>4
  <2>7. /\ chain[p][j].at = <<c, o>> /\ (j = 1 \/ c # NoBlock)
        /\ OnWalk(own, mem, s, j)
    BY <1>3, <2>1, <2>2, <2>3, <2>4, <2>6 DEF ForkFacts
  <2>8. /\ c \in Container /\ IsTable(own, c) /\ o \in Pointer(c)
    BY <2>3, <2>4, <2>7 DEF OnWalk
  <2>9. mem' = [mem EXCEPT ![c][o] = NoBlock]
    <3>1. mem' = Stored(chain[p][j].at, NoBlock)
      BY <1>5, <2>1, SharedIs, Zenon
    <3>2. chain[p][j].at[1] = c /\ chain[p][j].at[2] = o
      BY <2>7
    <3>. QED  BY <3>1, <3>2, Zenon DEF Stored
  <2>10. PICK m : m = mem
    OBVIOUS
  <2>11. \/ SameWalk(m, [m EXCEPT ![c][o] = NoBlock], t)
         \/ Look([m EXCEPT ![c][o] = NoBlock], t) = NoBlock /\ Passes(m, t, c, o)
    BY <1>3, <2>8, <2>10, WalkCleared
  <2>12. Passes(m, t, c, o) => Along(t, s, j)
    BY <1>3, <2>3, <2>4, <2>6, <2>7, <2>10, PassesAlong
  <2>. QED  BY <1>5, <2>1, <2>2, <2>9, <2>10, <2>11, <2>12
<1>. QED  BY <1>4, <1>5

(* Of the sectors in front of the end find_shared() cuts off only those    *)
(* below an indirect block that it could not read.                         *)
LEMMA SharedKeeps ==
  ASSUME IInv, NEW p \in Process, FindShared(p), NEW t \in Sectors, t < size,
         Look(mem, t) # NoBlock, ~ Grown(p), ~ Stays(p), Along(t, size, Fork(p))
  PROVE  Look(mem, t) \in unread'
<1>1. PICK own : Forest(own)
  BY DEF IInv
<1>2. call[p].pc = "shared"
  BY SharedIs
<1>3. ForkFacts(p, own) /\ Links(own, mem) /\ ChainFacts(p)
  BY <1>1, <1>2, ForkOk, ChainKnown DEF Forest
<1>4. PICK s : s = size
  OBVIOUS
<1>5. PICK n \in 2 .. 3 : n = Len(Path(s))
  BY <1>3, <1>4 DEF ForkFacts
<1>6. PICK d \in 1 .. n : d = Depth(p)
  BY <1>3, <1>4, <1>5 DEF ForkFacts
<1>7. PICK j \in 1 .. d : j = Fork(p)
  BY <1>3, <1>6 DEF ForkFacts
<1>8. PICK l \in 1 .. d : l = Len(chain[p])
  BY <1>3, <1>6 DEF ChainFacts
<1>9. s \in Sectors /\ t < s
  BY <1>3, <1>4 DEF ForkFacts
<1>10. Len(Path(t)) = n /\ \A i \in 1 .. j : Path(t)[i] = Path(s)[i]
  BY <1>4, <1>5, <1>7 DEF Along
<1>11. \A i \in 1 .. n : Walk(mem, t, i) # NoBlock
  <2>1. Walk(mem, t, n) # NoBlock
    BY <1>10 DEF Look
  <2>2. n \in 1 .. 3
    OBVIOUS
  <2>3. ASSUME NEW i \in 1 .. n PROVE Walk(mem, t, i) # NoBlock
    BY <2>1, <2>2, WalkEnds
  <2>. QED  BY <2>3
<1>12. /\ \A i \in 1 .. n : Path(s)[i] \in Nat
       /\ \A i \in 1 .. n : Path(t)[i] \in Nat
       /\ DOMAIN Path(s) = 1 .. n
  BY <1>5, <1>9, <1>10, PathFacts
<1>13. PICK k \in 1 .. n : Along(t, s, k - 1) /\ Path(t)[k] < Path(s)[k] /\ k > j
  <2>1. 1 \in 1 .. j /\ 1 \in 1 .. n
    OBVIOUS
  <2>2. ~ (Path(t)[1] < Path(s)[1])
    BY <1>10, <1>12, <2>1
  <2>3. PICK k \in 1 .. n : Along(t, s, k - 1) /\ Path(t)[k] < Path(s)[k]
    BY <1>5, <1>9, <2>2, PathOrder
  <2>4. k \in 1 .. j => Path(t)[k] = Path(s)[k] /\ Path(s)[k] \in Nat
    BY <1>10, <1>12
  <2>5. k > j
    BY <2>3, <2>4
  <2>. QED  BY <2>3, <2>5
<1>14. k <= d
  <2>1. Path(s)[k] # 0
    BY <1>12, <1>13
  <2>2. k \in DOMAIN Path(s) /\ (k > d => Path(s)[k] = 0)
    BY <1>3, <1>4, <1>6, <1>12 DEF ForkFacts
  <2>. QED  BY <2>1, <2>2
<1>15. \A i \in 0 .. k - 1 : Walk(mem, t, i) = Walk(mem, s, i)
  <2>1. k - 1 \in 0 .. 3 /\ \A i \in 1 .. k - 1 : Path(t)[i] = Path(s)[i]
    BY <1>13 DEF Along
  <2>. QED  BY <2>1, AlongWalk
<1>16. k > l
  <2>. SUFFICES ASSUME k <= l PROVE FALSE
    OBVIOUS
  <2>1. k \in 2 .. l /\ k \in 1 .. l /\ k - 1 \in 0 .. k - 1 /\ k \in 1 .. 3 /\ k > 1
    BY <1>13
  <2>2. AllZeroes(chain[p][k].at)
    <3>1. PICK S : S = {1} \cup {i \in 2 .. l : ~ AllZeroes(chain[p][i].at)}
      OBVIOUS
    <3>2. j = Max(S)
      BY <1>7, <1>8, <3>1, Zenon DEF Fork
    <3>3. S \subseteq 1 .. 3 /\ S # {}
      BY <3>1
    <3>4. \A x \in S : x <= j
      BY <3>2, <3>3, MaxOf
    <3>5. k \notin S
      BY <1>13, <3>4
    <3>. QED  BY <2>1, <3>1, <3>5
  <2>3. chain[p][k].at = <<Walk(mem, s, k - 1), Path(s)[k]>>
    BY <1>3, <1>4, <1>8, <2>1 DEF ChainFacts
  <2>4. \A o \in 0 .. Path(s)[k] - 1 : mem[Walk(mem, s, k - 1)][o] = NoBlock
    BY <2>2, <2>3 DEF AllZeroes
  <2>5. Path(t)[k] \in 0 .. Path(s)[k] - 1
    BY <1>12, <1>13
  <2>6. mem[Walk(mem, t, k - 1)][Path(t)[k]] = NoBlock
    BY <1>15, <2>1, <2>4, <2>5
  <2>7. Walk(mem, t, k) = NoBlock
    BY <2>1, <2>6, WalkStep
  <2>. QED  BY <1>11, <2>7
<1>17. l < d /\ l \in 0 .. k - 1 /\ l \in 1 .. n /\ l \in 1 .. l
  BY <1>14, <1>16
<1>18. Last(chain[p]).key # NoBlock
  <2>. SUFFICES ASSUME Last(chain[p]).key = NoBlock PROVE FALSE
    OBVIOUS
  <2>1. At(Last(chain[p]).at) = NoBlock
    BY DEF Grown
  <2>2. Walk(mem, s, l) = NoBlock
    BY <1>3, <1>4, <1>8, <1>17, <2>1 DEF ChainFacts
  <2>3. Walk(mem, t, l) = NoBlock
    BY <1>15, <1>17, <2>2
  <2>. QED  BY <1>11, <1>17, <2>3
<1>19. CutTop(p) = Walk(mem, t, j) /\ CutTop(p) # NoBlock
  <2>1. CutTop(p) = At(chain[p][j].at)
    BY <1>7, Zenon DEF CutTop
  <2>2. chain[p][j].at = <<Walk(mem, s, j - 1), Path(s)[j]>> /\ OnWalk(own, mem, s, j) /\ j \in 1 .. j
    BY <1>3, <1>4, <1>7 DEF ForkFacts
  <2>3. CutTop(p) = Walk(mem, s, j)
    BY <2>1, <2>2 DEF At, OnWalk
  <2>4. j \in 0 .. k - 1 /\ j \in 1 .. n
    BY <1>13
  <2>5. Walk(mem, t, j) = Walk(mem, s, j)
    BY <1>15, <2>4
  <2>. QED  BY <1>11, <2>3, <2>4, <2>5
<1>20. unread' = unread \cup Below(CutTop(p), n - j)
  <2>1. unread' = IF CutTop(p) # NoBlock /\ Len(chain[p]) < Depth(p) /\ Last(chain[p]).key # NoBlock
                  THEN unread \cup Below(CutTop(p), Len(Path(call[p].sector)) - Fork(p)) ELSE unread
    BY SharedIs
  <2>2. call[p].sector = s
    BY <1>3, <1>4 DEF ForkFacts
  <2>3. Len(chain[p]) < Depth(p)
    BY <1>6, <1>8, <1>17
  <2>. QED  BY <1>5, <1>7, <1>18, <1>19, <2>1, <2>2, <2>3
<1>21. Look(mem, t) \in BelowOf(mem, Walk(mem, t, j), n - j)
  <2>1. j \in 1 .. Len(Path(t))
    BY <1>10
  <2>. QED  BY <1>3, <1>10, <2>1, WalkBelow
<1>. QED  BY <1>19, <1>20, <1>21, BelowIs

LEMMA TruncateKeeps ==
  ASSUME IInv, NEW p \in Process, TruncateStep(p), NEW t \in Sectors, t < size,
         Look(mem, t) # NoBlock
  PROVE  Look(mem', t) = Look(mem, t) \/ Look(mem, t) \in unread'
<1>1. CASE SameWalk(mem, mem', t)
  <2>1. PICK m2 : m2 = mem'
    OBVIOUS
  <2>2. Look(m2, t) = Look(mem, t)
    BY <1>1, <2>1, SameLook
  <2>. QED  BY <2>1, <2>2
<1>2. CASE ClearIndirect(p) \/ FreeBlock(p)
  BY <1>1, <1>2, WholeWalk
<1>3. CASE ClearEnds(p)
  <2>1. ~ (t >= size)
    BY Constants DEF IInv, Types, Sectors
  <2>. QED  BY <1>1, <1>3, <2>1, ClearEndsWalk
<1>4. CASE FindShared(p)
  BY <1>1, <1>4, SharedWalk, SharedKeeps
<1>5. CASE EndsClear(p) \/ ReadIndirect(p) \/ Truncated(p)
  <2>1. mem' = mem
    BY <1>5, Zenon DEF EndsClear, ReadIndirect, Truncated
  <2>. QED  BY <1>1, <2>1 DEF SameWalk
<1>. QED  BY <1>2, <1>3, <1>4, <1>5 DEF TruncateStep

LEMMA StepKeeps ==
  ASSUME IInv, [Next]_vars, NEW t \in Sectors, t < size, Look(mem, t) # NoBlock
  PROVE  Look(mem', t) = Look(mem, t) \/ Look(mem, t) \in unread'
<1>1. CASE mem' = mem
  BY <1>1
<1>2. CASE Next
  <2>1. PICK p \in Process :
          \/ \E s \in Sector : Write(p, s) \/ Writepage(p, s) \/ Bmap(p, s)
          \/ \E s \in {0} \cup Sector \cup {s + 1 : s \in Sector} : Truncate(p, s)
          \/ TakeBack(p) \/ Return(p) \/ GetBlockStep(p) \/ TruncateStep(p)
    BY <1>2, Zenon DEF Next
  <2>2. CASE GetBlockStep(p)
    <3>1. SameWalk(mem, mem', t)
      BY <2>2, GetBlockWalk
    <3>2. PICK m2 : m2 = mem'
      OBVIOUS
    <3>3. Look(m2, t) = Look(mem, t)
      BY <3>1, <3>2, SameLook
    <3>. QED  BY <3>2, <3>3
  <2>3. CASE TruncateStep(p)
    BY <2>3, TruncateKeeps
  <2>4. CASE \E s \in Sector : Write(p, s) \/ Writepage(p, s) \/ Bmap(p, s)
    BY <1>1, <2>4, Zenon DEF Write, Writepage, Bmap, CallGetBlock, Begin
  <2>5. CASE \E s \in {0} \cup Sector \cup {s + 1 : s \in Sector} : Truncate(p, s)
    BY <1>1, <2>5, Zenon DEF Truncate, CallTruncate, Begin
  <2>6. CASE TakeBack(p) \/ Return(p)
    BY <1>1, <2>6, Zenon DEF TakeBack, Return, CallTruncate, Begin
  <2>. QED  BY <2>1, <2>2, <2>3, <2>4, <2>5, <2>6
<1>3. CASE UNCHANGED vars
  BY <1>1, <1>3 DEF vars
<1>. QED  BY <1>2, <1>3

(* KeepsBlocks: whatever get_block() allocates and truncate() cuts off, the*)
(* block of a sector in front of the end stays, unless an indirect block   *)
(* above it could not be read.                                             *)
THEOREM BlocksKept == Spec => KeepsBlocks
<1>. DEFINE Kept == \A t \in Sector :
       (t < size' /\ t < size /\ Lookup(t) # NoBlock)
         => (Lookup(t)' = Lookup(t) \/ Lookup(t) \in unread')
<1>1. ASSUME IInv, [Next]_vars PROVE Kept
  <2>. SUFFICES ASSUME NEW t \in Sector, t < size, Lookup(t) # NoBlock
                PROVE  Lookup(t)' = Lookup(t) \/ Lookup(t) \in unread'
    OBVIOUS
  <2>1. t \in Sectors
    BY TreeAssumption DEF Sectors
  <2>2. Lookup(t) = Look(mem, t) /\ Lookup(t)' = Look(mem', t)
    BY <2>1, LookIs, LookNext
  <2>. QED  BY <1>1, <2>1, <2>2, StepKeeps
<1>2. IInv /\ [Next]_vars => [Kept]_vars
  BY <1>1
<1>3. Spec => []IInv
  BY Invariant
<1>4. Spec => [][Kept]_vars
  BY <1>2, <1>3, PTL DEF Spec
<1>. QED  BY <1>4 DEF KeepsBlocks

(* What get_block() returns is what it has found.                          *)
LEMMA AnswerMaps ==
  ASSUME IInv, NEW p \in Process, NEW ch, Extended(p, ch), ChainRead(p, ch),
         Holding(mem, ch, Len(ch)), call[p].pc = "branch",
         call'[p].pc = "done", call'[p].result \in Block
  PROVE  call[p].sector \in Sectors /\ Look(mem', call[p].sector) = call'[p].result
<1>1. Types /\ CallInv(p)
  BY DEF IInv
<1>2. call \in [Process -> CallType] /\ call[p].result \in {NoBlock, ENOSPC}
  BY <1>1 DEF Types, CallType, CallInv, Discipline
<1>3. PICK t \in Sectors : t = call[p].sector
  BY <1>1, TypesOf, Constants DEF CallInv, Discipline, Sectors
<1>4. NoBlock \notin Block /\ ENOSPC \notin Block
  BY DEF Block, NoBlock, ENOSPC
<1>5. Answer(p, ch, 0) /\ (Last(ch).key = NoBlock \/ Len(ch) = Depth(p))
  <2>1. CASE ~ (Last(ch).key = NoBlock \/ Len(ch) = Depth(p))
    <3>1. call' = call
      BY <2>1 DEF Extended
    <3>. QED  BY <3>1
  <2>2. CASE Last(ch).key = NoBlock \/ Len(ch) = Depth(p)
    BY <2>2 DEF Extended
  <2>. QED  BY <2>1, <2>2
<1>6. mem' = mem
  BY <1>5 DEF Answer
<1>7. /\ call[p].kind # "truncate" /\ Last(ch).key # NoBlock
      /\ call'[p].result = Last(ch).key
  <2>1. \A pc : Go(p, pc) => call'[p].result = call[p].result
    BY <1>2 DEF Go, CallType
  <2>2. \A r : Done(p, r) => call'[p].result = r
    <3>. SUFFICES ASSUME NEW r, Done(p, r) PROVE call'[p].result = r
      OBVIOUS
    <3>1. call' = [call EXCEPT ![p] = [call[p] EXCEPT !.pc = "done", !.result = r]]
      BY <1>2 DEF Done
    <3>2. call'[p] = [call[p] EXCEPT !.pc = "done", !.result = r]
      BY <1>2, <3>1
    <3>. QED  BY <1>2, <3>2 DEF CallType
  <2>3. CASE call[p].kind = "truncate"
    <3>1. Go(p, "shared")
      BY <1>5, <2>3 DEF Answer
    <3>. QED  BY <1>2, <1>4, <2>1, <3>1
  <2>4. CASE call[p].kind # "truncate" /\ Last(ch).key = NoBlock
    <3>1. Done(p, NoBlock) \/ Go(p, "alloc")
      <4>1. 0 # EIO /\ 0 # EAGAIN
        BY DEF EIO, EAGAIN
      <4>2. IF ~ Creates(p) THEN Done(p, NoBlock) ELSE Go(p, IF 0 = EAGAIN THEN "branch" ELSE "alloc")
        BY <1>5, <2>4, <4>1, Zenon DEF Answer
      <4>. QED  BY <4>1, <4>2, Zenon
    <3>. QED  BY <1>2, <1>4, <2>1, <2>2, <3>1
  <2>5. CASE call[p].kind # "truncate" /\ Last(ch).key # NoBlock
    <3>1. Done(p, Last(ch).key)
      <4>1. 0 # EIO
        BY DEF EIO
      <4>. QED  BY <1>5, <2>5, <4>1, Zenon DEF Answer
    <3>. QED  BY <2>2, <2>5, <3>1
  <2>. QED  BY <2>3, <2>4, <2>5
<1>8. Len(ch) = Len(Path(t))
  <2>1. Len(ch) = Depth(p)
    BY <1>5, <1>7
  <2>2. Depth(p) = Len(Path(t))
    BY <1>3, <1>7 DEF Depth
  <2>. QED  BY <2>1, <2>2
<1>9. /\ ChainOf(ch, Path(t)) /\ Len(ch) \in Nat /\ DOMAIN ch = 1 .. Len(ch)
      /\ Last(ch) = ch[Len(ch)]
  BY <1>3, LenProperties DEF ChainRead, ChainType, Last
<1>10. PICK n \in 1 .. 3 : n = Len(ch)
  BY <1>8, PathLen
<1>11. ch[n].key = Walk(mem, t, n)
  <2>1. n \in 0 .. Len(ch) /\ n \in 1 .. n
    BY <1>10
  <2>2. Holding(mem, ch, n)
    BY <1>10
  <2>3. \A i \in 1 .. n : ch[i].key = Walk(mem, t, i)
    BY <1>9, <2>1, <2>2, ChainWalk
  <2>. QED  BY <2>1, <2>3
<1>. QED  BY <1>3, <1>6, <1>7, <1>8, <1>9, <1>10, <1>11 DEF Look

LEMMA GetBlockMaps ==
  ASSUME IInv, NEW p \in Process, GetBlockStep(p),
         call[p].pc # "done", call'[p].pc = "done", call'[p].result \in Block
  PROVE  call[p].sector \in Sectors /\ Look(mem', call[p].sector) = call'[p].result
<1>1. Types /\ CallInv(p)
  BY DEF IInv
<1>2. call \in [Process -> CallType]
  BY <1>1 DEF Types, CallType
<1>3. NoBlock \notin Block /\ ENOSPC \notin Block /\ EIO \notin Block
  BY DEF Block, NoBlock, ENOSPC, EIO
<1>4. ASSUME NEW pc, Go(p, pc) PROVE call'[p].pc = pc /\ call'[p].result = call[p].result
  BY <1>2, <1>4 DEF Go, CallType
<1>5. ASSUME NEW pc, NEW r, call' = [call EXCEPT ![p].pc = pc, ![p].result = r]
      PROVE  call'[p].pc = pc /\ call'[p].result = r
  <2>1. call' = [call EXCEPT ![p] = [call[p] EXCEPT !.pc = pc, !.result = r]]
    BY <1>2, <1>5
  <2>2. call'[p] = [call[p] EXCEPT !.pc = pc, !.result = r]
    BY <1>2, <2>1
  <2>. QED  BY <1>2, <2>2 DEF CallType
<1>6. ASSUME NEW ch, NEW err \in {EIO, EAGAIN}, Answer(p, ch, err), call[p].pc = "branch" PROVE FALSE
  <2>1. 0 # EIO /\ 0 # EAGAIN /\ EIO # EAGAIN
    BY DEF EIO, EAGAIN
  <2>2. \/ \E pc \in {"shared", "branch", "alloc"} : Go(p, pc)
        \/ Done(p, EIO) \/ Done(p, NoBlock)
    BY <1>6, <2>1 DEF Answer
  <2>3. CASE \E pc \in {"shared", "branch", "alloc"} : Go(p, pc)
    BY <1>4, <2>3
  <2>4. CASE Done(p, EIO) \/ Done(p, NoBlock)
    BY <1>3, <1>5, <2>4 DEF Done
  <2>. QED  BY <2>2, <2>3, <2>4
<1>7. CASE FirstLevel(p)
  BY <1>7, FirstChain, AnswerMaps
<1>8. CASE NextLevel(p) /\ Verified(chain[p])
  BY <1>8, NextChain, AnswerMaps
<1>9. CASE NextLevel(p) /\ ~ Verified(chain[p])
  <2>1. call[p].pc = "branch" /\ Answer(p, chain[p], EAGAIN)
    BY <1>9, Zenon DEF NextLevel
  <2>. QED  BY <1>6, <2>1
<1>10. CASE ReadFails(p)
  BY <1>6, <1>10 DEF ReadFails
<1>11. CASE Alloc(p)
  BY <1>11, Zenon DEF Alloc
<1>12. CASE NoSpace(p)
  BY <1>5, <1>12 DEF NoSpace
<1>13. CASE Splice(p) /\ Vacant(p)
  <2>1. PICK own : Forest(own)
    BY DEF IInv
  <2>2. Links(own, mem)
    BY <2>1 DEF Forest
  <2>3. PICK n \in 0 .. 2 : SpliceAt(p, own, n)
    BY <1>13, <2>1, Spliced
  <2>4. Look(mem', call[p].sector) = branch[p][Len(branch[p])]
    BY <2>2, <2>3, SplicedWalk
  <2>5. /\ call[p].sector \in Sectors
        /\ call' = [call EXCEPT ![p].pc = "done", ![p].result = branch[p][Len(branch[p])]]
    BY <2>3 DEF SpliceAt
  <2>. QED  BY <1>5, <2>4, <2>5
<1>14. CASE Splice(p) /\ ~ Vacant(p)
  <2>1. Go(p, "undo")
    BY <1>14, Zenon DEF Splice
  <2>. QED  BY <1>4, <2>1
<1>15. CASE Undo(p)
  BY <1>15 DEF Undo
<1>16. CASE Undone(p)
  <2>1. Go(p, IF call[p].result = ENOSPC THEN "done" ELSE "branch")
    BY <1>16 DEF Undone
  <2>2. call'[p].pc = (IF call[p].result = ENOSPC THEN "done" ELSE "branch")
        /\ call'[p].result = call[p].result
    BY <1>4, <2>1
  <2>. QED  BY <1>3, <2>2
<1>. QED  BY <1>7, <1>8, <1>9, <1>10, <1>11, <1>12, <1>13, <1>14, <1>15, <1>16 DEF GetBlockStep

(* A step of a process leaves the calls of the others.                     *)
LEMMA OwnCall ==
  ASSUME Types, NEW p \in Process, NEW q \in Process, q # p,
         \/ \E t \in Sector : Write(p, t) \/ Writepage(p, t) \/ Bmap(p, t)
         \/ \E s \in {0} \cup Sector \cup {t + 1 : t \in Sector} : Truncate(p, s)
         \/ TakeBack(p) \/ Return(p) \/ GetBlockStep(p) \/ TruncateStep(p)
  PROVE  call'[q] = call[q]
<1>1. call \in [Process -> CallType]
  BY DEF Types, CallType
<1>2. SUFFICES \/ call' = call
               \/ \E r : call' = [call EXCEPT ![p] = r]
  BY <1>1
<1>3. ASSUME NEW pc, Go(p, pc) PROVE \E r : call' = [call EXCEPT ![p] = r]
  <2>1. call' = [call EXCEPT ![p] = [call[p] EXCEPT !.pc = pc]]
    BY <1>1, <1>3 DEF Go
  <2>. QED  BY <2>1
<1>4. ASSUME NEW pc, NEW x, call' = [call EXCEPT ![p].pc = pc, ![p].result = x]
      PROVE  \E r : call' = [call EXCEPT ![p] = r]
  <2>1. call' = [call EXCEPT ![p] = [call[p] EXCEPT !.pc = pc, !.result = x]]
    BY <1>1, <1>4
  <2>. QED  BY <2>1
<1>5. ASSUME NEW ch, NEW err, Answer(p, ch, err) PROVE \E r : call' = [call EXCEPT ![p] = r]
  <2>1. \/ \E pc : Go(p, pc)
        \/ \E x : Done(p, x)
    BY <1>5, Zenon DEF Answer
  <2>. QED  BY <1>3, <1>4, <2>1 DEF Done
<1>6. ASSUME NEW ch, Extended(p, ch) PROVE call' = call \/ \E r : call' = [call EXCEPT ![p] = r]
  <2>1. Answer(p, ch, 0) \/ call' = call
    BY <1>6, Zenon DEF Extended
  <2>. QED  BY <1>5, <2>1
<1>7. ASSUME NEW pc, NEW kind, NEW t, Begin(p, pc, kind, t) PROVE \E r : call' = [call EXCEPT ![p] = r]
  BY <1>7 DEF Begin
<1>8. CASE \E t \in Sector : Write(p, t) \/ Writepage(p, t) \/ Bmap(p, t)
  BY <1>7, <1>8 DEF Write, Writepage, Bmap, CallGetBlock
<1>9. ASSUME NEW s, CallTruncate(p, s) PROVE \E r : call' = [call EXCEPT ![p] = r]
  <2>1. \E pc : Begin(p, pc, "truncate", s)
    BY <1>9, Zenon DEF CallTruncate
  <2>. QED  BY <1>7, <2>1
<1>10. CASE TakeBack(p) \/ \E s \in {0} \cup Sector \cup {t + 1 : t \in Sector} : Truncate(p, s)
  BY <1>9, <1>10 DEF TakeBack, Truncate
<1>11. CASE Return(p)
  BY <1>11 DEF Return
<1>12. CASE FirstLevel(p) \/ NextLevel(p) \/ ReadFails(p)
  <2>1. (\E ch : Extended(p, ch)) \/ \E ch, err : Answer(p, ch, err)
    BY <1>12, Zenon DEF FirstLevel, NextLevel, ReadFails
  <2>. QED  BY <1>5, <1>6, <2>1
<1>13. CASE Alloc(p) \/ Undo(p)
  BY <1>13, Zenon DEF Alloc, Undo
<1>14. CASE NoSpace(p) \/ Splice(p) \/ Undone(p)
  <2>1. NoSpace(p) => \E pc, x : call' = [call EXCEPT ![p].pc = pc, ![p].result = x]
    BY Zenon DEF NoSpace
  <2>2. Splice(p) => (\E x : Done(p, x)) \/ \E pc : Go(p, pc)
    BY Zenon DEF Splice
  <2>3. Undone(p) => \E pc : Go(p, pc)
    BY Zenon DEF Undone
  <2>. QED  BY <1>3, <1>4, <1>14, <2>1, <2>2, <2>3 DEF Done
<1>15. CASE TruncateStep(p)
  <2>1. (\E pc : Go(p, pc)) \/ call' = call
    BY <1>15, Zenon DEF TruncateStep, FindShared, ClearEnds, ClearPointer, EndsClear, ReadIndirect,
                        ClearIndirect, FreeBlock, Truncated
  <2>. QED  BY <1>3, <2>1
<1>. QED  BY <1>8, <1>10, <1>11, <1>12, <1>13, <1>14, <1>15 DEF GetBlockStep

(* The result of a truncate is not a block.                                *)
LEMMA TruncateMaps ==
  ASSUME IInv, IInv', NEW p \in Process, TruncateStep(p)
  PROVE  call'[p].result \notin Block
<1>1. call[p].pc \in {"shared", "free"}
  BY Zenon DEF TruncateStep, FindShared, ClearEnds, EndsClear, ReadIndirect, ClearIndirect, FreeBlock,
               Truncated, Freeing
<1>2. call[p].kind = "truncate" /\ call[p].result = NoBlock /\ call \in [Process -> CallType]
  BY <1>1 DEF IInv, CallInv, Discipline, Types, CallType
<1>3. (\E pc : Go(p, pc)) \/ call' = call
  BY Zenon DEF TruncateStep, FindShared, ClearEnds, ClearPointer, EndsClear, ReadIndirect,
               ClearIndirect, FreeBlock, Truncated
<1>4. call'[p].result = NoBlock
  BY <1>2, <1>3 DEF Go, CallType
<1>. QED  BY <1>4, BlockFacts

LEMMA SectorKept ==
  ASSUME Types, NEW p \in Process, GetBlockStep(p)
  PROVE  call'[p].sector = call[p].sector /\ call'[p].kind = call[p].kind
<1>1. call \in [Process -> CallType]
  BY DEF Types, CallType
<1>2. ASSUME NEW pc, Go(p, pc) PROVE call'[p].sector = call[p].sector /\ call'[p].kind = call[p].kind
  BY <1>1, <1>2 DEF Go, CallType
<1>3. ASSUME NEW pc, NEW x, call' = [call EXCEPT ![p].pc = pc, ![p].result = x]
      PROVE  call'[p].sector = call[p].sector /\ call'[p].kind = call[p].kind
  <2>1. call' = [call EXCEPT ![p] = [call[p] EXCEPT !.pc = pc, !.result = x]]
    BY <1>1, <1>3
  <2>2. call'[p] = [call[p] EXCEPT !.pc = pc, !.result = x]
    BY <1>1, <2>1
  <2>. QED  BY <1>1, <2>2 DEF CallType
<1>4. ASSUME NEW ch, NEW err, Answer(p, ch, err) PROVE (\E pc : Go(p, pc)) \/ \E x : Done(p, x)
  BY <1>4, Zenon DEF Answer
<1>5. ASSUME NEW ch, Extended(p, ch) PROVE call' = call \/ (\E pc : Go(p, pc)) \/ \E x : Done(p, x)
  <2>1. Answer(p, ch, 0) \/ call' = call
    BY <1>5, Zenon DEF Extended
  <2>. QED  BY <1>4, <2>1
<1>6. CASE FirstLevel(p) \/ NextLevel(p) \/ ReadFails(p)
  <2>1. (\E ch : Extended(p, ch)) \/ \E ch, err : Answer(p, ch, err)
    BY <1>6, Zenon DEF FirstLevel, NextLevel, ReadFails
  <2>2. call' = call \/ (\E pc : Go(p, pc)) \/ \E x : Done(p, x)
    BY <1>4, <1>5, <2>1
  <2>. QED  BY <1>2, <1>3, <2>2 DEF Done
<1>7. CASE Alloc(p) \/ Undo(p)
  BY <1>7, Zenon DEF Alloc, Undo
<1>8. CASE NoSpace(p) \/ Splice(p) \/ Undone(p)
  <2>1. NoSpace(p) => \E pc, x : call' = [call EXCEPT ![p].pc = pc, ![p].result = x]
    BY Zenon DEF NoSpace
  <2>2. Splice(p) => (\E x : Done(p, x)) \/ \E pc : Go(p, pc)
    BY Zenon DEF Splice
  <2>3. Undone(p) => \E pc : Go(p, pc)
    BY Zenon DEF Undone
  <2>. QED  BY <1>2, <1>3, <1>8, <2>1, <2>2, <2>3 DEF Done
<1>. QED  BY <1>6, <1>7, <1>8 DEF GetBlockStep

LEMMA StepMaps ==
  ASSUME IInv, IInv', [Next]_vars, NEW p \in Process,
         call[p].pc # "done", call'[p].pc = "done", call'[p].result \in Block
  PROVE  /\ call'[p].sector = call[p].sector /\ call[p].sector \in Sectors
         /\ Look(mem', call[p].sector) = call'[p].result
<1>0. call \in [Process -> CallType]
  BY DEF IInv, Types, CallType
<1>1. CASE UNCHANGED vars
  BY <1>1 DEF vars
<1>2. CASE Next
  <2>1. PICK q \in Process :
          \/ \E t \in Sector : Write(q, t) \/ Writepage(q, t) \/ Bmap(q, t)
          \/ \E s \in {0} \cup Sector \cup {t + 1 : t \in Sector} : Truncate(q, s)
          \/ TakeBack(q) \/ Return(q) \/ GetBlockStep(q) \/ TruncateStep(q)
    BY <1>2, Zenon DEF Next
  <2>2. p = q
    <3>1. p # q => call'[p] = call[p]
      BY <2>1, OwnCall DEF IInv
    <3>. QED  BY <3>1
  <2>3. CASE GetBlockStep(p)
    BY <2>3, GetBlockMaps, SectorKept DEF IInv
  <2>4. CASE TruncateStep(p)
    BY <2>4, TruncateMaps
  <2>5. ASSUME NEW pc, NEW kind, NEW t, Begin(p, pc, kind, t) PROVE call'[p].pc = pc /\ call'[p].result = NoBlock
    BY <1>0, <2>5 DEF Begin
  <2>6. CASE \E t \in Sector : Write(p, t) \/ Writepage(p, t) \/ Bmap(p, t)
    <3>1. \E kind, t : Begin(p, "branch", kind, t)
      BY <2>6, Zenon DEF Write, Writepage, Bmap, CallGetBlock
    <3>. QED  BY <2>5, <3>1
  <2>7. CASE TakeBack(p) \/ \E s \in {0} \cup Sector \cup {t + 1 : t \in Sector} : Truncate(p, s)
    <3>1. \E pc, kind, t : Begin(p, pc, kind, t)
      BY <2>7, Zenon DEF TakeBack, Truncate, CallTruncate
    <3>. QED  BY <2>5, <3>1, BlockFacts
  <2>8. CASE Return(p)
    BY <1>0, <2>8 DEF Return
  <2>. QED  BY <2>1, <2>2, <2>3, <2>4, <2>6, <2>7, <2>8
<1>. QED  BY <1>1, <1>2

(* MapsWhatItReturns: whatever the other calls cut off and put in between  *)
(* two looks under the lock, at the step in which get_block() ends with a  *)
(* block the tree maps its sector to that block.                           *)
THEOREM ReturnsWhatItMaps == Spec => MapsWhatItReturns
<1>. DEFINE Maps == \A p \in Process :
       (call[p].pc # "done" /\ call'[p].pc = "done" /\ call'[p].result \in Block)
         => Lookup(call[p].sector)' = call'[p].result
<1>1. ASSUME IInv, IInv', [Next]_vars PROVE [Maps]_vars
  <2>. SUFFICES ASSUME NEW p \in Process, call[p].pc # "done", call'[p].pc = "done",
                       call'[p].result \in Block, ~ UNCHANGED vars
                PROVE  Lookup(call[p].sector)' = call'[p].result
    OBVIOUS
  <2>1. /\ call'[p].sector = call[p].sector /\ call[p].sector \in Sectors
        /\ Look(mem', call[p].sector) = call'[p].result
    BY <1>1, StepMaps
  <2>2. PICK t \in Sectors : t = call'[p].sector
    BY <2>1
  <2>3. Lookup(t)' = Look(mem', t)
    BY <2>2, LookNext
  <2>4. Lookup(call[p].sector)' = Lookup(t)'
    BY <2>2 DEF Lookup
  <2>. QED  BY <2>1, <2>2, <2>3, <2>4
<1>2. IInv /\ IInv' /\ [Next]_vars => [Maps]_vars
  BY <1>1
<1>3. Spec => []IInv
  BY Invariant
<1>4. Spec => [][Maps]_vars
  BY <1>2, <1>3, PTL DEF Spec
<1>. QED  BY <1>4 DEF MapsWhatItReturns

-----------------------------------------------------------------------------
(* What is left behind the end of the file                                 *)

(* A sector behind the end that has a block, and the two calls that leave  *)
(* one for a while: a truncate, and a write that has yet to move the end.  *)
Beyond(t) == t >= size /\ Look(mem, t) # NoBlock
Excuses(p, t) ==
  /\ mutex = p
  /\ \/ call[p].kind = "truncate" /\ call[p].pc # "done"
     \/ /\ call[p].kind = "write" /\ call[p].pc = "done"
        /\ call[p].sector = t /\ call[p].result \in Block
Excused == \A t \in Sectors : Beyond(t) => \E p \in Process : Excuses(p, t)

(* The cells that truncate has still to clear have a pointer of each.      *)
InCells(ts, c, o) ==
  \E i \in DOMAIN ts : ts[i].op = "cells" /\ ts[i].at = c /\ o \in ts[i].from .. ts[i].to - 1
Listed(m, ts, t) ==
  \E k \in 1 .. Len(Path(t)) : InCells(ts, Walk(m, t, k - 1), Path(t)[k])
Remaining(p) ==
  call[p].pc = "free" => \A t \in Sectors : Beyond(t) => Listed(mem, tasks[p], t)

(* Where the chain of find_shared() ends at a vacant pointer, nothing is   *)
(* below it: if the pointer is taken by then, it is for sectors in front.  *)
Short(p) ==
  LET ch == chain[p] IN
  call[p].pc = "shared" /\ ch[Len(ch)].key = NoBlock =>
    \A t \in Sectors : t >= size /\ Along(t, size, Len(ch)) => Look(mem, t) = NoBlock

EndInv == Excused /\ \A p \in Process : Remaining(p) /\ Short(p)

LEMMA NoneBeyond ==
  ASSUME \A t \in Sectors : ~ Beyond(t)'
  PROVE  EndInv'
BY Zenon DEF EndInv, Excused, Remaining, Short, Beyond

LEMMA Truncating ==
  ASSUME IInv, NEW p \in Process, call[p].pc \in {"shared", "free"}
  PROVE  call[p].kind = "truncate" /\ mutex = p
BY DEF IInv, CallInv, Discipline

LEMMA TruncatingNext ==
  ASSUME IInv', NEW p \in Process, call'[p].pc \in {"shared", "free"}
  PROVE  call'[p].kind = "truncate" /\ mutex' = p
BY DEF IInv, CallInv, Discipline

LEMMA EndOthers ==
  ASSUME NEW q \in Process, Remaining(q), Short(q),
         call'[q] = call[q], chain'[q] = chain[q], tasks'[q] = tasks[q], size' = size,
         \A t \in Sectors : t >= size => SameWalk(mem, mem', t) \/ Look(mem', t) = NoBlock
  PROVE  Remaining(q)' /\ Short(q)'
<1>1. PICK m2 : m2 = mem'
  OBVIOUS
<1>2. ASSUME NEW t \in Sectors, t >= size, Look(m2, t) # NoBlock
      PROVE  SameWalk(mem, m2, t) /\ Look(mem, t) # NoBlock
  <2>1. SameWalk(mem, m2, t)
    BY <1>1, <1>2
  <2>. QED  BY <1>2, <2>1, SameLook
<1>3. ASSUME call[q].pc = "free", NEW t \in Sectors, t >= size, Look(m2, t) # NoBlock
      PROVE  Listed(m2, tasks[q], t)
  <2>1. SameWalk(mem, m2, t) /\ Look(mem, t) # NoBlock
    BY <1>2, <1>3
  <2>2. Listed(mem, tasks[q], t)
    BY <1>3, <2>1 DEF Remaining, Beyond
  <2>3. PICK k \in 1 .. Len(Path(t)) : InCells(tasks[q], Walk(mem, t, k - 1), Path(t)[k])
    BY <2>2 DEF Listed
  <2>4. k - 1 \in 0 .. Len(Path(t))
    BY <2>3, PathLen
  <2>5. Walk(m2, t, k - 1) = Walk(mem, t, k - 1)
    BY <2>1, <2>4 DEF SameWalk
  <2>. QED  BY <2>3, <2>5 DEF Listed
<1>4. Remaining(q)'
  BY <1>1, <1>3 DEF Remaining, Beyond
<1>5. Short(q)'
  BY <1>1, <1>2 DEF Short
<1>. QED  BY <1>4, <1>5

(* A step of a process leaves the chains and the tasks of the others.      *)
LEMMA OwnRest ==
  ASSUME Types, NEW p \in Process, NEW q \in Process, q # p,
         \/ \E t \in Sector : Write(p, t) \/ Writepage(p, t) \/ Bmap(p, t)
         \/ Return(p) \/ GetBlockStep(p)
  PROVE  chain'[q] = chain[q] /\ tasks'[q] = tasks[q]
<1>1. /\ chain = [x \in Process |-> chain[x]]
      /\ tasks = [x \in Process |-> tasks[x]]
  BY DEF Types
<1>2. SUFFICES /\ chain' = chain \/ \E r : chain' = [chain EXCEPT ![p] = r]
               /\ tasks' = tasks
  BY <1>1
<1>3. ASSUME NEW ch, NEW err, Answer(p, ch, err)
      PROVE  (\E r : chain' = [chain EXCEPT ![p] = r]) /\ tasks' = tasks
  BY <1>3, Zenon DEF Answer
<1>4. ASSUME NEW ch, Extended(p, ch)
      PROVE  (\E r : chain' = [chain EXCEPT ![p] = r]) /\ tasks' = tasks
  <2>1. Answer(p, ch, 0) \/ (chain' = [chain EXCEPT ![p] = ch] /\ tasks' = tasks)
    BY <1>4, Zenon DEF Extended
  <2>. QED  BY <1>3, <2>1
<1>5. CASE \E t \in Sector : Write(p, t) \/ Writepage(p, t) \/ Bmap(p, t)
  BY <1>5, Zenon DEF Write, Writepage, Bmap, CallGetBlock, Begin
<1>7. CASE Return(p)
  BY <1>7, Zenon DEF Return
<1>8. CASE FirstLevel(p) \/ NextLevel(p) \/ ReadFails(p)
  <2>1. (\E ch : Extended(p, ch)) \/ \E ch, err : Answer(p, ch, err)
    BY <1>8, Zenon DEF FirstLevel, NextLevel, ReadFails
  <2>. QED  BY <1>3, <1>4, <2>1
<1>9. CASE Alloc(p) \/ NoSpace(p) \/ Splice(p) \/ Undo(p)
  BY <1>9, Zenon DEF Alloc, NoSpace, Splice, Undo
<1>10. CASE Undone(p)
  BY <1>10, Zenon DEF Undone
<1>. QED  BY <1>5, <1>7, <1>8, <1>9, <1>10 DEF GetBlockStep

LEMMA CallEnd ==
  ASSUME IInv, EndInv, NEW p \in Process, NEW t \in Sector,
         Write(p, t) \/ Writepage(p, t) \/ Bmap(p, t)
  PROVE  EndInv'
<1>1. /\ call[p].pc = "idle" /\ mem' = mem /\ size' = size
      /\ mutex' = mutex \/ (mutex = Nobody /\ mutex' = p)
      /\ \E kind : Begin(p, "branch", kind, t)
  BY Zenon DEF Write, Writepage, Bmap, CallGetBlock, Begin
<1>2. /\ Types /\ call \in [Process -> CallType] /\ Nobody \notin Process
      /\ call[p].kind = "none"
  BY <1>1, ProcessAssumption DEF IInv, Types, CallType, CallInv, Discipline
<1>3. \A q \in Process : q # p =>
        call'[q] = call[q] /\ chain'[q] = chain[q] /\ tasks'[q] = tasks[q]
  BY <1>2, OwnCall, OwnRest
<1>4. call'[p].pc = "branch"
  BY <1>1, <1>2 DEF Begin
<1>5. \A s \in Sectors : SameWalk(mem, mem', s)
  BY <1>1 DEF SameWalk
<1>6. ASSUME NEW s \in Sectors, Beyond(s)' PROVE \E q \in Process : Excuses(q, s)'
  <2>1. Beyond(s)
    BY <1>1, <1>6 DEF Beyond
  <2>2. PICK q \in Process : Excuses(q, s)
    BY <2>1 DEF EndInv, Excused
  <2>3. q # p /\ mutex' = mutex
    BY <1>1, <1>2, <2>2 DEF Excuses
  <2>4. call'[q] = call[q]
    BY <1>3, <2>3
  <2>. QED  BY <2>2, <2>3, <2>4 DEF Excuses
<1>7. ASSUME NEW q \in Process PROVE Remaining(q)' /\ Short(q)'
  <2>1. CASE q = p
    BY <1>4, <2>1 DEF Remaining, Short
  <2>2. CASE q # p
    BY <1>1, <1>3, <1>5, <2>2, EndOthers DEF EndInv
  <2>. QED  BY <2>1, <2>2
<1>. QED  BY <1>6, <1>7 DEF EndInv, Excused

(* truncate() begins with all ends in its list, or with no sector behind   *)
(* the end.                                                                *)
LEMMA CallTruncateEnd ==
  ASSUME IInv, IInv', NEW p \in Process, NEW s \in 0 .. NSectors, CallTruncate(p, s)
  PROVE  EndInv'
<1>1. call \in [Process -> CallType] /\ tasks = [x \in Process |-> tasks[x]]
  BY DEF IInv, Types, CallType
<1>2. CASE s = NSectors
  <2>1. \A t \in Sectors : ~ (t >= s)
    BY <1>2, Constants DEF Sectors
  <2>2. size' = s
    BY DEF CallTruncate
  <2>. QED  BY <2>1, <2>2, NoneBeyond DEF Beyond
<1>3. CASE s # NSectors
  <2>1. s \in Sectors
    BY <1>3, Constants DEF Sectors
  <2>2. PICK n \in 1 .. 3 : n = Len(Path(s))
    BY <2>1, PathLen
  <2>3. /\ size' = s /\ mutex' = p /\ mem' = mem
        /\ Begin(p, IF n = 1 THEN "free" ELSE "branch", "truncate", s)
        /\ n = 1 => tasks' = [tasks EXCEPT ![p] = <<Cells(Inode, s, DIRECT, 0)>> \o Indirects(0)]
    <3>1. n # 0
      OBVIOUS
    <3>. QED  BY <1>3, <2>2, <3>1, Zenon DEF CallTruncate, Begin
  <2>4. /\ call'[p].kind = "truncate" /\ call'[p].pc \in {"free", "branch"}
        /\ call'[p].pc = "free" => n = 1
    BY <1>1, <2>3 DEF Begin
  <2>5. Excused'
    BY <2>3, <2>4, Zenon DEF Excused, Excuses
  <2>6. ASSUME NEW q \in Process, q # p PROVE Remaining(q)' /\ Short(q)'
    BY <2>3, <2>6, TruncatingNext DEF Remaining, Short
  <2>7. Short(p)'
    BY <2>4 DEF Short
  <2>8. ASSUME call'[p].pc = "free", NEW t \in Sectors, t >= s
        PROVE  Listed(mem', tasks'[p], t)
    <3>1. n = 1 /\ Path(s) = <<s>> /\ s < DIRECT /\ s \in Nat
      <4>1. n = 1
        BY <2>4, <2>8
      <4>2. IsPath(Path(s), s)
        BY <2>1, PathShape
      <4>3. s < DIRECT /\ s \in Nat
        <5>1. PICK x : x = Path(s)[1]
          OBVIOUS
        <5>2. /\ x \in 0 .. DIRECT + 1 /\ s = x
              /\ 1 = IF x < DIRECT THEN 1 ELSE x - DIRECT + 2
          BY <2>2, <4>1, <4>2, <5>1 DEF IsPath
        <5>. QED  BY <5>2, Constants
      <4>. QED  BY <4>1, <4>3 DEF Path
    <3>2. PICK a : a = <<Cells(Inode, s, DIRECT, 0)>>
      OBVIOUS
    <3>3. PICK b : b = Indirects(0)
      OBVIOUS
    <3>4. /\ b \in Seq(Task) /\ DOMAIN b = 1 .. 2
          /\ \A i \in 1 .. 2 : b[i] = Cells(Inode, DIRECT + i - 1, DIRECT + i, i)
      <4>1. Len(Path(s)) = 1 /\ 1 - 1 = 0 /\ 3 - 1 = 2
        BY <2>2, <3>1
      <4>2. /\ b \in Seq(Task) /\ DOMAIN b = 1 .. 2
            /\ \A i \in 1 .. 2 : b[i] = Cells(Inode, DIRECT + 1 + i - 2, DIRECT + 1 + i - 1, 1 + i - 1)
        <5>1. /\ Indirects(1 - 1) \in Seq(Task)
              /\ DOMAIN Indirects(1 - 1) = 1 .. 3 - 1
              /\ \A i \in 1 .. 3 - 1 :
                   Indirects(1 - 1)[i] = Cells(Inode, DIRECT + 1 + i - 2, DIRECT + 1 + i - 1, 1 + i - 1)
          BY <2>1, <4>1, IndirectsOk, Zenon
        <5>. QED  BY <3>3, <4>1, <5>1, Zenon
      <4>3. \A i \in 1 .. 2 : DIRECT + 1 + i - 2 = DIRECT + i - 1 /\ DIRECT + 1 + i - 1 = DIRECT + i /\ 1 + i - 1 = i
        BY Constants
      <4>. QED  BY <4>2, <4>3
    <3>5. a \in Seq(Task) /\ Len(a) = 1 /\ a[1] = Cells(Inode, s, DIRECT, 0)
      <4>1. Cells(Inode, s, DIRECT, 0) \in Task
        BY <3>1, Constants, BlockFacts DEF Cells, Task
      <4>. QED  BY <3>2, <4>1
    <3>6. PICK ts : ts = a \o b
      OBVIOUS
    <3>7. tasks'[p] = ts
      BY <1>1, <2>3, <3>1, <3>2, <3>3, <3>6
    <3>8. \A i \in 1 .. 3 :
            /\ i \in DOMAIN ts /\ ts[i].op = "cells" /\ ts[i].at = Inode
            /\ ts[i].from = (IF i = 1 THEN s ELSE DIRECT + i - 2)
            /\ ts[i].to = DIRECT + i - 1
      <4>1. b[1] = Cells(Inode, DIRECT, DIRECT + 1, 1) /\ b[2] = Cells(Inode, DIRECT + 1, DIRECT + 2, 2)
        <5>1. b[1] = Cells(Inode, DIRECT + 1 - 1, DIRECT + 1, 1) /\ b[2] = Cells(Inode, DIRECT + 2 - 1, DIRECT + 2, 2)
          BY <3>4
        <5>2. DIRECT + 1 - 1 = DIRECT /\ DIRECT + 2 - 1 = DIRECT + 1
          BY Constants
        <5>. QED  BY <5>1, <5>2
      <4>2. Len(b) = 2
        BY <3>4, LenProperties
      <4>3. DOMAIN ts = 1 .. 3 /\ ts[1] = a[1] /\ ts[2] = b[1] /\ ts[3] = b[2]
        <5>1. a \in Seq(Task) /\ b \in Seq(Task) /\ Len(a) = 1 /\ Len(b) = 2
          BY <3>4, <3>5, <4>2
        <5>2. /\ ts \in Seq(Task) /\ Len(ts) = Len(a) + Len(b)
              /\ \A i \in 1 .. Len(a) + Len(b) :
                   ts[i] = IF i <= Len(a) THEN a[i] ELSE b[i - Len(a)]
          BY <3>6, <5>1, ConcatProperties, Zenon
        <5>3. Len(ts) = 3 /\ \A i \in 1 .. 3 : ts[i] = IF i <= 1 THEN a[i] ELSE b[i - 1]
          BY <5>1, <5>2
        <5>4. ts[1] = a[1] /\ ts[2] = b[1] /\ ts[3] = b[2]
          BY <5>3
        <5>. QED  BY <5>2, <5>3, <5>4, LenProperties
      <4>4. /\ ts[1] = Cells(Inode, s, DIRECT, 0) /\ ts[2] = Cells(Inode, DIRECT, DIRECT + 1, 1)
            /\ ts[3] = Cells(Inode, DIRECT + 1, DIRECT + 2, 2)
        BY <3>5, <4>1, <4>3
      <4>5. /\ ts[1].op = "cells" /\ ts[1].at = Inode /\ ts[1].from = s /\ ts[1].to = DIRECT
            /\ ts[2].op = "cells" /\ ts[2].at = Inode /\ ts[2].from = DIRECT /\ ts[2].to = DIRECT + 1
            /\ ts[3].op = "cells" /\ ts[3].at = Inode /\ ts[3].from = DIRECT + 1 /\ ts[3].to = DIRECT + 2
        BY <4>4 DEF Cells
      <4>6. /\ DIRECT + 1 - 1 = DIRECT /\ DIRECT + 2 - 1 = DIRECT + 1 /\ DIRECT + 3 - 1 = DIRECT + 2
            /\ DIRECT + 2 - 2 = DIRECT /\ DIRECT + 3 - 2 = DIRECT + 1
        BY Constants
      <4>7. \A i \in 1 .. 3 : i = 1 \/ i = 2 \/ i = 3
        OBVIOUS
      <4>. QED  BY <4>3, <4>5, <4>6, <4>7
    <3>9. PICK o : o = Path(t)[1]
      OBVIOUS
    <3>10. o \in s .. DIRECT + 1
      <4>1. IsPath(Path(t), t)
        BY PathShape
      <4>2. PICK l \in 1 .. 3 : l = Len(Path(t))
        BY PathLen
      <4>3. o \in 0 .. DIRECT + 1 /\ (l = 1 => t = o) /\ l = (IF o < DIRECT THEN 1 ELSE o - DIRECT + 2)
        BY <3>9, <4>1, <4>2 DEF IsPath
      <4>4. l # 1 => o >= DIRECT
        BY <4>3, Constants
      <4>. QED  BY <2>8, <3>1, <4>3, <4>4, Constants
    <3>11. PICK i \in 1 .. 3 : o \in ts[i].from .. ts[i].to - 1
      <4>1. \/ o \in s .. (DIRECT + 1 - 1) - 1
            \/ o \in DIRECT + 2 - 2 .. (DIRECT + 2 - 1) - 1
            \/ o \in DIRECT + 3 - 2 .. (DIRECT + 3 - 1) - 1
        BY <3>1, <3>10, Constants
      <4>2. 1 \in 1 .. 3 /\ 2 \in 1 .. 3 /\ 3 \in 1 .. 3
        OBVIOUS
      <4>3. /\ ts[1].from = s /\ ts[1].to = DIRECT + 1 - 1
            /\ ts[2].from = DIRECT + 2 - 2 /\ ts[2].to = DIRECT + 2 - 1
            /\ ts[3].from = DIRECT + 3 - 2 /\ ts[3].to = DIRECT + 3 - 1
        BY <3>8, <4>2
      <4>4. \E i \in 1 .. 3 : o \in ts[i].from .. ts[i].to - 1
        <5>1. o \in s .. (DIRECT + 1 - 1) - 1 => o \in ts[1].from .. ts[1].to - 1
          BY <4>3, Zenon
        <5>2. o \in DIRECT + 2 - 2 .. (DIRECT + 2 - 1) - 1 => o \in ts[2].from .. ts[2].to - 1
          BY <4>3, Zenon
        <5>3. o \in DIRECT + 3 - 2 .. (DIRECT + 3 - 1) - 1 => o \in ts[3].from .. ts[3].to - 1
          BY <4>3, Zenon
        <5>. QED  BY <4>1, <4>2, <5>1, <5>2, <5>3, Zenon
      <4>. QED  BY <4>4
    <3>12. InCells(ts, Inode, o)
      BY <3>8, <3>11 DEF InCells
    <3>13. Walk(mem', t, 1 - 1) = Inode /\ 1 \in 1 .. Len(Path(t))
      BY PathLen DEF Walk
    <3>. QED  BY <3>7, <3>9, <3>12, <3>13, Zenon DEF Listed
  <2>9. Remaining(p)'
    BY <2>3, <2>8 DEF Remaining, Beyond
  <2>. QED  BY <2>5, <2>6, <2>7, <2>9 DEF EndInv
<1>. QED  BY <1>2, <1>3

LEMMA ReturnEnd ==
  ASSUME IInv, EndInv, NEW p \in Process, Return(p)
  PROVE  EndInv'
<1>1. /\ call[p].pc = "done" /\ mem' = mem
      /\ mutex' = IF mutex = p THEN Nobody ELSE mutex
      /\ call' = [call EXCEPT ![p] = Idle]
  BY Zenon DEF Return
<1>2. /\ Types /\ call \in [Process -> CallType] /\ size \in Nat
      /\ mutex = p <=> call[p].kind \in {"write", "truncate"}
      /\ call[p].sector \in Nat
  <2>1. Types /\ CallInv(p)
    BY DEF IInv
  <2>2. call \in [Process -> CallType] /\ size \in 0 .. NSectors
    BY <2>1 DEF Types, CallType
  <2>3. call[p].sector \in 0 .. NSectors
    BY <2>2 DEF CallType
  <2>4. mutex = p <=> call[p].kind \in {"write", "truncate"}
    BY <2>1 DEF CallInv, Discipline
  <2>. QED  BY <2>1, <2>2, <2>3, <2>4
<1>3. CASE call[p].kind = "write" /\ call[p].sector >= size
  <2>1. size' = call[p].sector + 1
    BY <1>3 DEF Return
  <2>2. ASSUME NEW t \in Sectors, Beyond(t)' PROVE FALSE
    <3>1. t \in Nat
      BY DEF Sectors
    <3>2. Beyond(t) /\ t # call[p].sector
      BY <1>1, <1>2, <1>3, <2>1, <2>2, <3>1 DEF Beyond
    <3>3. PICK q \in Process : Excuses(q, t)
      BY <3>2 DEF EndInv, Excused
    <3>4. q = p
      BY <1>2, <1>3, <3>3 DEF Excuses
    <3>. QED  BY <1>3, <3>2, <3>3, <3>4 DEF Excuses
  <2>. QED  BY <2>2, NoneBeyond
<1>4. CASE ~ (call[p].kind = "write" /\ call[p].sector >= size)
  <2>1. size' = size
    BY <1>4 DEF Return
  <2>2. \A q \in Process : q # p =>
          call'[q] = call[q] /\ chain'[q] = chain[q] /\ tasks'[q] = tasks[q]
    BY <1>2, OwnCall, OwnRest
  <2>3. call'[p].pc = "idle"
    BY <1>1, <1>2 DEF Idle
  <2>4. \A t \in Sectors : SameWalk(mem, mem', t)
    BY <1>1 DEF SameWalk
  <2>5. ASSUME NEW t \in Sectors, Beyond(t)' PROVE \E q \in Process : Excuses(q, t)'
    <3>1. Beyond(t)
      BY <1>1, <2>1, <2>5 DEF Beyond
    <3>2. PICK q \in Process : Excuses(q, t)
      BY <3>1 DEF EndInv, Excused
    <3>3. q # p
      BY <1>1, <1>4, <3>1, <3>2 DEF Excuses, Beyond
    <3>4. mutex' = mutex /\ call'[q] = call[q]
      BY <1>1, <2>2, <3>2, <3>3 DEF Excuses
    <3>. QED  BY <3>2, <3>4 DEF Excuses
  <2>6. ASSUME NEW q \in Process PROVE Remaining(q)' /\ Short(q)'
    <3>1. CASE q = p
      BY <2>3, <3>1 DEF Remaining, Short
    <3>2. CASE q # p
      BY <2>1, <2>2, <2>4, <3>2, EndOthers DEF EndInv
    <3>. QED  BY <3>1, <3>2
  <2>. QED  BY <2>5, <2>6 DEF EndInv, Excused
<1>. QED  BY <1>3, <1>4

(* The answer that find_shared() gets.                                     *)
LEMMA AnswerEnd ==
  ASSUME IInv, NEW p \in Process, NEW ch, NEW err, Answer(p, ch, err), call[p].pc = "branch",
         \/ ch[Len(ch)].key # NoBlock
         \/ ChainRead(p, ch) /\ Holding(mem, ch, Len(ch))
  PROVE  /\ UNCHANGED <<mem, size, mutex, tasks>>
         /\ call'[p].pc # "free" /\ (call[p].kind = "truncate" => call'[p].pc = "shared")
         /\ Short(p)'
<1>1. /\ Types /\ CallInv(p) /\ call \in [Process -> CallType]
      /\ chain = [x \in Process |-> chain[x]]
  BY DEF IInv, Types, CallType
<1>2. ASSUME NEW pc, Go(p, pc) PROVE call'[p].pc = pc
  BY <1>1, <1>2 DEF Go, CallType
<1>3. ASSUME NEW r, Done(p, r) PROVE call'[p].pc = "done"
  <2>1. call' = [call EXCEPT ![p] = [call[p] EXCEPT !.pc = "done", !.result = r]]
    BY <1>1, <1>3 DEF Done
  <2>2. call'[p] = [call[p] EXCEPT !.pc = "done", !.result = r]
    BY <1>1, <2>1
  <2>. QED  BY <1>1, <2>2 DEF CallType
<1>4. UNCHANGED <<mem, size, mutex, tasks>>
  BY Zenon DEF Answer
<1>5. \/ call[p].kind = "truncate" /\ call'[p].pc = "shared"
      \/ call[p].kind # "truncate" /\ call'[p].pc \in {"done", "branch", "alloc"}
  <2>1. CASE call[p].kind = "truncate"
    BY <1>2, <2>1, Zenon DEF Answer
  <2>2. CASE call[p].kind # "truncate"
    <3>1. (\E r : Done(p, r)) \/ \E pc \in {"branch", "alloc"} : Go(p, pc)
      BY <2>2 DEF Answer
    <3>. QED  BY <1>2, <1>3, <2>2, <3>1
  <2>. QED  BY <2>1, <2>2
<1>6. Short(p)'
  <2>. SUFFICES ASSUME call'[p].pc = "shared", ch[Len(ch)].key = NoBlock,
                       NEW t \in Sectors, t >= size, Along(t, size, Len(ch))
                PROVE  Look(mem, t) = NoBlock
    <3>1. call'[p].pc = "shared" => chain'[p] = ch
      BY <1>1 DEF Answer
    <3>. QED  BY <1>4, <3>1 DEF Short
  <2>1. call[p].kind = "truncate"
    BY <1>5
  <2>2. PICK s \in Sectors : s = size /\ call[p].sector = s
    <3>1. call[p].sector = size /\ size \in 0 .. NSectors /\ call[p].sector < NSectors
      BY <1>1, <2>1 DEF Types, CallInv, Discipline
    <3>. QED  BY <3>1, Constants DEF Sectors
  <2>3. /\ ch \in ChainType /\ ch # <<>> /\ ChainOf(ch, Path(s)) /\ Holding(mem, ch, Len(ch))
    BY <2>2 DEF ChainRead
  <2>4. Len(ch) \in Nat /\ DOMAIN ch = 1 .. Len(ch) /\ Len(ch) # 0 /\ Len(ch) <= Len(Path(s))
    BY <2>3, LenProperties, EmptySeq DEF ChainType, ChainOf
  <2>5. PICK n \in 1 .. 3 : n = Len(ch) /\ n \in 1 .. Len(Path(s))
    <3>1. PICK l \in 1 .. 3 : l = Len(Path(s))
      BY PathLen
    <3>. QED  BY <2>4, <3>1
  <2>6. Walk(mem, s, n) = NoBlock
    <3>1. n \in 0 .. Len(ch) /\ n \in 1 .. n
      BY <2>5
    <3>2. Holding(mem, ch, n)
      BY <2>3, <2>5
    <3>3. \A i \in 1 .. n : ch[i].key = Walk(mem, s, i)
      BY <2>3, <2>4, <3>1, <3>2, ChainWalk
    <3>. QED  BY <2>5, <3>1, <3>3
  <2>7. Len(Path(t)) = Len(Path(s)) /\ \A i \in 1 .. n : Path(t)[i] = Path(s)[i]
    BY <2>2, <2>5 DEF Along
  <2>8. Walk(mem, t, n) = NoBlock
    <3>1. n \in 0 .. 3 /\ n \in 0 .. n
      BY <2>5
    <3>2. \A i \in 0 .. n : Walk(mem, t, i) = Walk(mem, s, i)
      BY <2>7, <3>1, AlongWalk
    <3>. QED  BY <2>6, <3>1, <3>2
  <2>9. PICK l \in 1 .. 3 : l = Len(Path(t)) /\ n \in 1 .. l
    BY <2>5, <2>7, PathLen
  <2>10. Walk(mem, t, l) = NoBlock
    BY <2>8, <2>9, WalkEnds
  <2>. QED  BY <2>9, <2>10 DEF Look
<1>. QED  BY <1>4, <1>5, <1>6

LEMMA ExtendedEnd ==
  ASSUME IInv, NEW p \in Process, NEW ch, Extended(p, ch), call[p].pc = "branch",
         ChainRead(p, ch), Holding(mem, ch, Len(ch))
  PROVE  /\ UNCHANGED <<size, mutex, tasks>>
         /\ call'[p].pc # "free" /\ (call[p].kind = "truncate" => call'[p].pc # "done")
         /\ Short(p)'
<1>1. CASE Answer(p, ch, 0)
  BY <1>1, AnswerEnd
<1>2. CASE UNCHANGED <<call, size, mutex, tasks>>
  BY <1>2 DEF Short
<1>. QED  BY <1>1, <1>2, Zenon DEF Extended

LEMMA GetBlockCall ==
  ASSUME IInv, NEW p \in Process, GetBlockStep(p)
  PROVE  /\ UNCHANGED <<size, mutex, tasks>> /\ call[p].pc \in {"branch", "alloc", "undo"}
         /\ call'[p].pc # "free" /\ (call[p].kind = "truncate" => call'[p].pc # "done")
         /\ Short(p)'
<1>1. /\ Types /\ CallInv(p) /\ call \in [Process -> CallType]
  BY DEF IInv, Types, CallType
<1>2. CASE FirstLevel(p)
  BY <1>2, FirstChain, ExtendedEnd
<1>3. CASE NextLevel(p) /\ Verified(chain[p])
  BY <1>3, NextChain, ExtendedEnd
<1>4. CASE ReadFails(p) \/ (NextLevel(p) /\ ~ Verified(chain[p]))
  <2>1. call[p].pc = "branch" /\ chain[p] # <<>> /\ \E err : Answer(p, chain[p], err)
    BY <1>4, Zenon DEF ReadFails, NextLevel
  <2>2. chain[p][Len(chain[p])].key # NoBlock
    BY <2>1, InBranch
  <2>. QED  BY <2>1, <2>2, AnswerEnd
<1>5. CASE Alloc(p) \/ NoSpace(p) \/ Splice(p) \/ Undo(p) \/ Undone(p)
  <2>1. UNCHANGED <<size, mutex, tasks>> /\ call[p].pc \in {"alloc", "undo"}
    BY <1>5, Zenon DEF Alloc, NoSpace, Splice, Undo, Undone, Freed
  <2>2. call[p].kind # "truncate"
    BY <1>1, <2>1 DEF CallInv, Discipline, Creates
  <2>3. ASSUME NEW pc, Go(p, pc) PROVE call'[p].pc = pc
    BY <1>1, <2>3 DEF Go, CallType
  <2>4. ASSUME NEW pc, NEW r, call' = [call EXCEPT ![p].pc = pc, ![p].result = r]
        PROVE  call'[p].pc = pc
    <3>1. call' = [call EXCEPT ![p] = [call[p] EXCEPT !.pc = pc, !.result = r]]
      BY <1>1, <2>4
    <3>2. call'[p] = [call[p] EXCEPT !.pc = pc, !.result = r]
      BY <1>1, <3>1
    <3>. QED  BY <1>1, <3>2 DEF CallType
  <2>5. call'[p].pc \in {"branch", "alloc", "undo", "done"}
    <3>1. Alloc(p) \/ Undo(p) => call' = call
      BY Zenon DEF Alloc, Undo
    <3>2. NoSpace(p) => call'[p].pc = "undo"
      BY <2>4, Zenon DEF NoSpace
    <3>3. Splice(p) => call'[p].pc \in {"undo", "done"}
      <4>1. Splice(p) => (\E r : Done(p, r)) \/ Go(p, "undo")
        BY Zenon DEF Splice
      <4>. QED  BY <2>3, <2>4, <4>1 DEF Done
    <3>4. Undone(p) => call'[p].pc \in {"branch", "done"}
      <4>1. Undone(p) => \E pc \in {"branch", "done"} : Go(p, pc)
        BY DEF Undone
      <4>. QED  BY <2>3, <4>1
    <3>. QED  BY <1>5, <2>1, <3>1, <3>2, <3>3, <3>4
  <2>. QED  BY <2>1, <2>2, <2>5 DEF Short
<1>. QED  BY <1>2, <1>3, <1>4, <1>5 DEF GetBlockStep

LEMMA GetBlockEnd ==
  ASSUME IInv, EndInv, NEW p \in Process, GetBlockStep(p)
  PROVE  EndInv'
<1>1. /\ UNCHANGED <<size, mutex, tasks>> /\ call[p].pc \in {"branch", "alloc", "undo"}
      /\ call'[p].pc # "free" /\ (call[p].kind = "truncate" => call'[p].pc # "done")
      /\ Short(p)'
  BY GetBlockCall
<1>2. Types /\ CallInv(p) /\ call \in [Process -> CallType]
  BY DEF IInv, Types, CallType
<1>3. \A q \in Process : q # p =>
        call'[q] = call[q] /\ chain'[q] = chain[q] /\ tasks'[q] = tasks[q]
  BY <1>2, OwnCall, OwnRest
<1>4. call'[p].sector = call[p].sector /\ call'[p].kind = call[p].kind
  BY <1>2, SectorKept
<1>5. PICK m2 : m2 = mem'
  OBVIOUS
<1>6. ASSUME NEW t \in Sectors, t >= size, Look(m2, t) # NoBlock
      PROVE  \/ SameWalk(mem, m2, t) /\ Beyond(t)
             \/ Splice(p) /\ Vacant(p) /\ t = call[p].sector /\ call[p].kind = "write"
  <2>1. CASE SameWalk(mem, m2, t)
    BY <1>6, <2>1, SameLook DEF Beyond
  <2>2. CASE Splice(p) /\ Vacant(p) /\ t = call[p].sector
    <3>1. call[p].kind \in {"write", "writepage"} /\ (call[p].kind = "writepage" => t < size)
      BY <1>2, <2>2 DEF CallInv, Discipline, Creates, Splice
    <3>2. ~ (t < size)
      BY <1>2, <1>6, Constants DEF Types, Sectors
    <3>. QED  BY <2>2, <3>1, <3>2
  <2>. QED  BY <1>5, <1>6, <2>1, <2>2, GetBlockWalk
<1>7. call[p].kind = "write" => mutex = p
  BY <1>2 DEF CallInv, Discipline
<1>8. ASSUME NEW t \in Sectors, t >= size, Look(m2, t) # NoBlock
      PROVE  \E q \in Process : Excuses(q, t)'
  <2>1. CASE Beyond(t)
    <3>1. PICK q \in Process : Excuses(q, t)
      BY <2>1 DEF EndInv, Excused
    <3>2. CASE q # p
      BY <1>1, <1>3, <3>1, <3>2 DEF Excuses
    <3>3. CASE q = p
      BY <1>1, <1>4, <3>1, <3>3 DEF Excuses
    <3>. QED  BY <3>2, <3>3
  <2>2. CASE Splice(p) /\ Vacant(p) /\ t = call[p].sector /\ call[p].kind = "write"
    <3>1. PICK own : Forest(own)
      BY DEF IInv
    <3>2. PICK n \in 0 .. 2 : SpliceAt(p, own, n)
      BY <2>2, <3>1, Spliced
    <3>3. PICK b \in Block : call' = [call EXCEPT ![p].pc = "done", ![p].result = b]
      <4>1. PICK l \in 1 .. 3 : l = Len(branch[p])
        BY <3>2 DEF SpliceAt
      <4>2. l \in 1 .. Len(branch[p])
        BY <4>1
      <4>. QED  BY <3>2, <4>1, <4>2 DEF SpliceAt
    <3>4. call' = [call EXCEPT ![p] = [call[p] EXCEPT !.pc = "done", !.result = b]]
      BY <1>2, <3>3
    <3>5. call'[p] = [call[p] EXCEPT !.pc = "done", !.result = b]
      BY <1>2, <3>4
    <3>6. call'[p].pc = "done" /\ call'[p].result = b
      BY <1>2, <3>5 DEF CallType
    <3>7. Excuses(p, t)'
      BY <1>1, <1>4, <1>7, <2>2, <3>6 DEF Excuses
    <3>. QED  BY <3>7
  <2>. QED  BY <1>6, <1>8, <2>1, <2>2
<1>9. Excused'
  BY <1>1, <1>5, <1>8 DEF Excused, Beyond
<1>10. ASSUME NEW q \in Process PROVE Remaining(q)' /\ Short(q)'
  <2>1. CASE q = p
    BY <1>1, <2>1 DEF Remaining
  <2>2. CASE q # p /\ call[q].pc \in {"shared", "free"}
    <3>1. call[p].kind # "write"
      BY <1>7, <2>2, Truncating
    <3>2. \A t \in Sectors : t >= size => SameWalk(mem, m2, t) \/ Look(m2, t) = NoBlock
      BY <1>6, <3>1
    <3>. QED  BY <1>1, <1>3, <1>5, <2>2, <3>2, EndOthers DEF EndInv
  <2>3. CASE q # p /\ call[q].pc \notin {"shared", "free"}
    BY <1>3, <2>3 DEF Remaining, Short
  <2>. QED  BY <2>1, <2>2, <2>3
<1>. QED  BY <1>9, <1>10 DEF EndInv

(* What the top of the list becomes leaves the cells below it.             *)
LEMMA CellsLeft ==
  ASSUME NEW T, NEW ts \in Seq(T), ts # <<>>, NEW new \in Seq(T), NEW c, NEW o, InCells(ts, c, o),
         (Head(ts).op = "cells" /\ Head(ts).at = c /\ o \in Head(ts).from .. Head(ts).to - 1)
           => InCells(new, c, o)
  PROVE  InCells(new \o Tail(ts), c, o)
<1>1. PICK w : w = new \o Tail(ts)
  OBVIOUS
<1>2. PICK r : r = Tail(ts)
  OBVIOUS
<1>3. PICK n \in Nat : n = Len(new)
  BY LenProperties
<1>4. /\ r \in Seq(T) /\ Len(r) = Len(ts) - 1 /\ Len(ts) \in Nat /\ Head(ts) = ts[1]
      /\ \A i \in 1 .. Len(r) : r[i] = ts[i + 1]
  BY <1>2, HeadTailProperties, LenProperties
<1>5. PICK l \in Nat : l = Len(r)
  BY <1>4, LenProperties
<1>6. /\ w \in Seq(T) /\ DOMAIN w = 1 .. n + l
      /\ \A i \in 1 .. n + l : w[i] = IF i <= n THEN new[i] ELSE r[i - n]
  <2>1. /\ w \in Seq(T) /\ Len(w) = n + l
        /\ \A i \in 1 .. n + l : w[i] = IF i <= n THEN new[i] ELSE r[i - n]
    BY <1>1, <1>2, <1>3, <1>4, <1>5, ConcatProperties
  <2>. QED  BY <2>1, LenProperties
<1>7. PICK i \in DOMAIN ts : ts[i].op = "cells" /\ ts[i].at = c /\ o \in ts[i].from .. ts[i].to - 1
  BY DEF InCells
<1>8. i \in 1 .. l + 1
  BY <1>4, <1>5, <1>7, LenProperties
<1>9. CASE i = 1
  <2>1. InCells(new, c, o)
    BY <1>4, <1>7, <1>9
  <2>2. PICK j \in DOMAIN new : new[j].op = "cells" /\ new[j].at = c /\ o \in new[j].from .. new[j].to - 1
    BY <2>1 DEF InCells
  <2>3. j \in 1 .. n
    BY <1>3, <2>2, LenProperties
  <2>4. j \in DOMAIN w /\ w[j] = new[j]
    BY <1>5, <1>6, <2>3
  <2>. QED  BY <1>1, <2>2, <2>4 DEF InCells
<1>10. CASE i # 1
  <2>1. PICK k \in 1 .. l : i = k + 1
    <3>1. i - 1 \in 1 .. l /\ i = i - 1 + 1
      BY <1>8, <1>10
    <3>. QED  BY <3>1
  <2>2. r[k] = ts[i]
    BY <1>4, <1>5, <2>1
  <2>3. PICK j : j = n + k
    OBVIOUS
  <2>4. j \in 1 .. n + l /\ ~ (j <= n) /\ j - n = k
    BY <2>1, <2>3
  <2>5. j \in DOMAIN w /\ w[j] = ts[i]
    BY <1>6, <2>2, <2>4
  <2>. QED  BY <1>1, <1>7, <2>5 DEF InCells
<1>. QED  BY <1>9, <1>10

LEMMA RemainingKept ==
  ASSUME NEW p \in Process, call[p].pc = "free", Remaining(p), size' = size,
         \A t \in Sectors : t >= size => SameWalk(mem, mem', t) \/ Look(mem', t) = NoBlock,
         \A c, o : InCells(tasks[p], c, o) /\ mem[c][o] # NoBlock => InCells(tasks'[p], c, o)
  PROVE  Remaining(p)'
<1>1. PICK m2 : m2 = mem'
  OBVIOUS
<1>2. PICK m : m = mem
  OBVIOUS
<1>3. ASSUME NEW t \in Sectors, t >= size, Look(m2, t) # NoBlock
      PROVE  Listed(m2, tasks'[p], t)
  <2>1. SameWalk(m, m2, t)
    BY <1>1, <1>2, <1>3
  <2>2. Look(m, t) # NoBlock
    BY <1>3, <2>1, SameLook
  <2>3. PICK k \in 1 .. Len(Path(t)) : InCells(tasks[p], Walk(m, t, k - 1), Path(t)[k])
    BY <1>2, <1>3, <2>2 DEF Remaining, Beyond, Listed
  <2>4. PICK l \in 1 .. 3 : l = Len(Path(t)) /\ k \in 1 .. 3 /\ k \in 1 .. l /\ k - 1 \in 0 .. l
    <3>1. PICK l \in 1 .. 3 : l = Len(Path(t))
      BY PathLen
    <3>. QED  BY <2>3, <3>1
  <2>5. Walk(m, t, k) # NoBlock
    BY <2>2, <2>4, WalkEnds DEF Look
  <2>6. m[Walk(m, t, k - 1)][Path(t)[k]] # NoBlock
    BY <2>4, <2>5, WalkStep
  <2>7. InCells(tasks'[p], Walk(m, t, k - 1), Path(t)[k])
    BY <1>2, <2>3, <2>6
  <2>8. Walk(m2, t, k - 1) = Walk(m, t, k - 1)
    BY <2>1, <2>4 DEF SameWalk
  <2>. QED  BY <2>3, <2>7, <2>8 DEF Listed
<1>. QED  BY <1>1, <1>3 DEF Remaining, Beyond

(* free_data() and free_branches() drop cells when all are clear only.     *)
LEMMA FreeRemaining ==
  ASSUME IInv, NEW p \in Process, call[p].pc = "free", Remaining(p),
         ClearEnds(p) \/ EndsClear(p) \/ ReadIndirect(p) \/ ClearIndirect(p) \/ FreeBlock(p)
  PROVE  Remaining(p)'
<1>1. PICK h : h = Top(p)
  OBVIOUS
<1>2. PICK ts : ts = tasks[p]
  OBVIOUS
<1>3. tasks = [x \in Process |-> tasks[x]] /\ ts \in Seq(Task)
  BY <1>2, TypesOf DEF IInv, Types
<1>4. size' = size /\ ts # <<>> /\ h = Head(ts)
  BY <1>1, <1>2, Zenon DEF ClearEnds, EndsClear, ReadIndirect, ClearIndirect, FreeBlock, ClearPointer,
                           Freeing, Top
<1>5. \E new : /\ Becomes(p, new)
               /\ \/ \E x : new = <<x, h>>
                  \/ (\E x : new = <<x>> \/ new = <<>>) /\ h.op = "whole"
                  \/ new = <<>> /\ Used(h.at, h.from, h.to) = {}
  <2>1. CASE ClearEnds(p) \/ ClearIndirect(p)
    BY <1>1, <2>1, Zenon DEF ClearEnds, ClearIndirect, ClearPointer
  <2>2. CASE EndsClear(p)
    BY <1>1, <2>2, Zenon DEF EndsClear
  <2>3. CASE ReadIndirect(p)
    BY <1>1, <2>3, Zenon DEF ReadIndirect, Freeing
  <2>4. CASE FreeBlock(p)
    BY <1>1, <2>4, Zenon DEF FreeBlock, Freeing
  <2>. QED  BY <2>1, <2>2, <2>3, <2>4
<1>6. PICK new : /\ Becomes(p, new)
                 /\ \/ \E x : new = <<x, h>>
                    \/ (\E x : new = <<x>> \/ new = <<>>) /\ h.op = "whole"
                    \/ new = <<>> /\ Used(h.at, h.from, h.to) = {}
  BY <1>5
<1>7. tasks'[p] = new \o Tail(ts)
  BY <1>2, <1>3, <1>6 DEF Becomes
<1>8. \E T : ts \in Seq(T) /\ new \in Seq(T)
  <2>1. h \in Task
    BY <1>3, <1>4, HeadTailProperties
  <2>2. ASSUME NEW x PROVE ts \in Seq(Task \cup {x}) /\ <<x, h>> \in Seq(Task \cup {x})
                           /\ <<x>> \in Seq(Task \cup {x}) /\ <<>> \in Seq(Task \cup {x})
    <3>1. ts \in Seq(Task \cup {x})
      <4>1. Len(ts) \in Nat /\ ts = [i \in 1 .. Len(ts) |-> ts[i]] /\ \A i \in 1 .. Len(ts) : ts[i] \in Task
        BY <1>3, LenProperties, ElementOfSeq
      <4>. QED  BY <4>1
    <3>. QED  BY <2>1, <3>1
  <2>. QED  BY <1>6, <2>2
<1>9. ASSUME NEW c, NEW o, InCells(ts, c, o), mem[c][o] # NoBlock
      PROVE  InCells(new \o Tail(ts), c, o)
  <2>1. ASSUME h.op = "cells", h.at = c, o \in h.from .. h.to - 1 PROVE InCells(new, c, o)
    <3>1. Used(h.at, h.from, h.to) # {}
      BY <1>9, <2>1 DEF Used
    <3>2. PICK x : new = <<x, h>>
      BY <1>6, <2>1, <3>1
    <3>3. 2 \in DOMAIN new /\ new[2] = h
      BY <3>2
    <3>. QED  BY <2>1, <3>3 DEF InCells
  <2>. QED  BY <1>4, <1>8, <1>9, <2>1, CellsLeft
<1>10. \A t \in Sectors : t >= size => SameWalk(mem, mem', t) \/ Look(mem', t) = NoBlock
  <2>1. CASE ClearEnds(p)
    BY <2>1, ClearEndsWalk
  <2>2. CASE ClearIndirect(p) \/ FreeBlock(p)
    BY <2>2, WholeWalk
  <2>3. CASE EndsClear(p) \/ ReadIndirect(p)
    <3>1. mem' = mem
      BY <2>3, Zenon DEF EndsClear, ReadIndirect
    <3>. QED  BY <3>1 DEF SameWalk
  <2>. QED  BY <2>1, <2>2, <2>3
<1>11. \A c, o : InCells(tasks[p], c, o) /\ mem[c][o] # NoBlock => InCells(tasks'[p], c, o)
  BY <1>2, <1>7, <1>9
<1>. QED  BY <1>4, <1>10, <1>11, RemainingKept

LEMMA CellsConcat ==
  ASSUME NEW T, NEW a \in Seq(T), NEW b \in Seq(T), NEW c, NEW o,
         InCells(a, c, o) \/ InCells(b, c, o)
  PROVE  InCells(a \o b, c, o)
<1>1. PICK w : w = a \o b
  OBVIOUS
<1>2. PICK n \in Nat : n = Len(a)
  BY LenProperties
<1>3. PICK l \in Nat : l = Len(b)
  BY LenProperties
<1>4. /\ DOMAIN w = 1 .. n + l
      /\ \A i \in 1 .. n + l : w[i] = IF i <= n THEN a[i] ELSE b[i - n]
  <2>1. /\ w \in Seq(T) /\ Len(w) = n + l
        /\ \A i \in 1 .. n + l : w[i] = IF i <= n THEN a[i] ELSE b[i - n]
    BY <1>1, <1>2, <1>3, ConcatProperties
  <2>. QED  BY <2>1, LenProperties
<1>5. CASE InCells(a, c, o)
  <2>1. PICK i \in DOMAIN a : a[i].op = "cells" /\ a[i].at = c /\ o \in a[i].from .. a[i].to - 1
    BY <1>5 DEF InCells
  <2>2. i \in 1 .. n
    BY <1>2, <2>1, LenProperties
  <2>3. i \in DOMAIN w /\ w[i] = a[i]
    BY <1>3, <1>4, <2>2
  <2>. QED  BY <1>1, <2>1, <2>3 DEF InCells
<1>6. CASE InCells(b, c, o)
  <2>1. PICK i \in DOMAIN b : b[i].op = "cells" /\ b[i].at = c /\ o \in b[i].from .. b[i].to - 1
    BY <1>6 DEF InCells
  <2>2. i \in 1 .. l
    BY <1>3, <2>1, LenProperties
  <2>3. PICK j : j = n + i
    OBVIOUS
  <2>4. j \in 1 .. n + l /\ ~ (j <= n) /\ j - n = i
    BY <2>2, <2>3
  <2>5. j \in DOMAIN w /\ w[j] = b[i]
    BY <1>4, <2>4
  <2>. QED  BY <1>1, <2>1, <2>5 DEF InCells
<1>. QED  BY <1>5, <1>6

(* Of the indirect blocks that find_shared() leaves, all behind the path   *)
(* is on the list.                                                         *)
LEMMA InEnds ==
  ASSUME NEW p \in Process, NEW own, ForkFacts(p, own), NEW k \in 2 .. Fork(p), NEW o \in Nat,
         o < PTRS, o > Path(size)[k] \/ (o = Path(size)[k] /\ k = Fork(p) /\ Stays(p))
  PROVE  InCells(EndsOf(p), Walk(mem, size, k - 1), o)
<1>1. PICK s : s = size
  OBVIOUS
<1>2. PICK d : d = Depth(p)
  OBVIOUS
<1>3. PICK n : n = Len(Path(s))
  OBVIOUS
<1>4. PICK j : j = Fork(p)
  OBVIOUS
<1>5. n \in 2 .. 3 /\ d \in 1 .. n /\ j \in 1 .. d /\ s \in Sectors
  BY <1>1, <1>2, <1>3, <1>4 DEF ForkFacts
<1>6. k \in 2 .. j /\ k \in 1 .. j /\ k \in 2 .. n
  BY <1>4, <1>5
<1>7. PTRS \in Nat /\ Path(s)[k] \in Nat
  BY <1>3, <1>5, <1>6, PathFacts, Constants
<1>8. chain[p][k].at = <<Walk(mem, s, k - 1), Path(s)[k]>>
  BY <1>1, <1>4, <1>6 DEF ForkFacts
<1>9. PICK e : e = IF k = j /\ Stays(p) THEN 0 ELSE 1
  OBVIOUS
<1>10. PICK t : t = End(p, k)
  OBVIOUS
<1>11. /\ t.op = "cells" /\ t.at = Walk(mem, s, k - 1)
       /\ t.from = Path(s)[k] + e /\ t.to = PTRS
  BY <1>4, <1>8, <1>9, <1>10 DEF End, Cells
<1>12. o \in t.from .. t.to - 1
  BY <1>1, <1>4, <1>7, <1>9, <1>11
<1>13. PICK i : i = j + 1 - k
  OBVIOUS
<1>14. i \in 1 .. j - 1 /\ j + 1 - i = k
  BY <1>5, <1>6, <1>13
<1>15. i \in DOMAIN EndsOf(p) /\ EndsOf(p)[i] = t
  BY <1>4, <1>10, <1>14 DEF EndsOf
<1>. QED  BY <1>1, <1>11, <1>12, <1>15 DEF InCells

(* find_shared() cuts off what is behind the end, or puts it on the list.  *)
LEMMA SharedRemaining ==
  ASSUME IInv, NEW p \in Process, Short(p), FindShared(p),
         NEW t \in Sectors, t >= size, Look(mem', t) # NoBlock
  PROVE  Listed(mem', tasks'[p], t)
<1>a. PICK own : Forest(own)
  BY DEF IInv
<1>b. call[p].pc = "shared"
  BY SharedIs
<1>c. ForkFacts(p, own) /\ Links(own, mem) /\ ChainFacts(p)
  BY <1>a, <1>b, ForkOk, ChainKnown DEF Forest
<1>1. PICK s : s = size
  OBVIOUS
<1>2. PICK m : m = mem
  OBVIOUS
<1>3. PICK m2 : m2 = mem'
  OBVIOUS
<1>4. SameWalk(m, m2, t) /\ Look(m, t) # NoBlock
  <2>1. SameWalk(m, m2, t)
    BY <1>2, <1>3, SharedWalk
  <2>. QED  BY <1>3, <2>1, SameLook
<1>5. PICK n \in 2 .. 3 : n = Len(Path(s))
  BY <1>1, <1>c DEF ForkFacts
<1>6. PICK d \in 1 .. n : d = Depth(p)
  BY <1>1, <1>c, <1>5 DEF ForkFacts
<1>7. PICK j \in 1 .. d : j = Fork(p)
  BY <1>c, <1>6 DEF ForkFacts
<1>8. s \in Sectors /\ s \in Nat /\ t \in Nat /\ t >= s /\ call[p].sector = s
  BY <1>1, <1>c DEF ForkFacts, Sectors
<1>9. PICK ind : ind = Indirects(n - 1)
  OBVIOUS
<1>10. PICK whole : whole = IF CutTop(p) = NoBlock THEN <<>> ELSE <<Whole(CutTop(p), n - j)>>
  OBVIOUS
<1>11. PICK ends : ends = EndsOf(p)
  OBVIOUS
<1>12. tasks'[p] = whole \o ends \o ind
  <2>1. tasks = [x \in Process |-> tasks[x]]
    BY DEF IInv, Types
  <2>2. Path(s)[1] + 1 - DIRECT = n - 1
    BY <1>5, <1>8, PathTop
  <2>3. tasks' = [tasks EXCEPT ![p] = whole \o ends \o ind]
    <3>1. tasks' = [tasks EXCEPT ![p] =
              (IF CutTop(p) = NoBlock THEN <<>>
               ELSE <<Whole(CutTop(p), Len(Path(call[p].sector)) - Fork(p))>>)
              \o EndsOf(p) \o Indirects(Path(call[p].sector)[1] + 1 - DIRECT)]
      BY SharedIs
    <3>. QED  BY <1>5, <1>7, <1>8, <1>9, <1>10, <1>11, <2>2, <3>1, Zenon
  <2>. QED  BY <2>1, <2>3
<1>13. /\ ends \in Seq(Task) /\ ind \in Seq(Task)
       /\ DOMAIN ind = 1 .. 3 - n
       /\ \A i \in 1 .. 3 - n : ind[i] = Cells(Inode, DIRECT + n + i - 2, DIRECT + n + i - 1, n + i - 1)
  <2>1. \A i \in 0 .. Fork(p) - 1 : Walk(m, size, i) = Walk(mem, size, i)
    BY <1>2
  <2>2. ends \in Seq(Task)
    BY <1>c, <1>11, <2>1, EndsOfOk
  <2>. QED  BY <1>5, <1>8, <1>9, <2>2, IndirectsOk
<1>14. \A c, o : InCells(ends, c, o) \/ InCells(ind, c, o) => InCells(whole \o ends \o ind, c, o)
  <2>. SUFFICES ASSUME NEW c, NEW o, InCells(ends, c, o) \/ InCells(ind, c, o)
                PROVE  InCells(whole \o ends \o ind, c, o)
    OBVIOUS
  <2>1. PICK T : T = Task \cup {Whole(CutTop(p), n - j)}
    OBVIOUS
  <2>2. /\ whole \in Seq(T) /\ ends \in Seq(T) /\ ind \in Seq(T)
    <3>1. ASSUME NEW q \in Seq(Task) PROVE q \in Seq(T)
      <4>1. Len(q) \in Nat /\ q = [i \in 1 .. Len(q) |-> q[i]] /\ \A i \in 1 .. Len(q) : q[i] \in Task
        BY LenProperties, ElementOfSeq
      <4>. QED  BY <2>1, <4>1
    <3>2. PICK x : x = Whole(CutTop(p), n - j)
      OBVIOUS
    <3>3. whole = <<>> \/ whole = <<x>>
      BY <1>10, <3>2
    <3>4. <<>> \in Seq(T) /\ <<x>> \in Seq(T)
      BY <2>1, <3>2
    <3>. QED  BY <1>13, <3>1, <3>3, <3>4
  <2>3. whole \o ends \in Seq(T)
    BY <2>2, ConcatProperties
  <2>4. InCells(ends, c, o) => InCells(whole \o ends, c, o)
    BY <2>2, CellsConcat
  <2>. QED  BY <2>2, <2>3, <2>4, CellsConcat
<1>15. SUFFICES \E k \in 1 .. Len(Path(t)) :
         InCells(ends, Walk(m, t, k - 1), Path(t)[k]) \/ InCells(ind, Walk(m, t, k - 1), Path(t)[k])
  <2>1. PICK k \in 1 .. Len(Path(t)) :
          InCells(ends, Walk(m, t, k - 1), Path(t)[k]) \/ InCells(ind, Walk(m, t, k - 1), Path(t)[k])
    BY <1>15
  <2>2. k - 1 \in 0 .. Len(Path(t))
    BY <2>1, PathLen
  <2>3. Walk(m2, t, k - 1) = Walk(m, t, k - 1)
    BY <1>4, <2>2 DEF SameWalk
  <2>. QED  BY <1>3, <1>12, <1>14, <2>1, <2>3 DEF Listed
<1>16. CASE Path(s)[1] < Path(t)[1]
  <2>1. PICK x : x = Path(s)[1]
    OBVIOUS
  <2>2. PICK y : y = Path(t)[1]
    OBVIOUS
  <2>3. n = 2 /\ y = DIRECT + 1
    <3>1. IsPath(Path(s), s) /\ IsPath(Path(t), t)
      BY <1>8, PathShape
    <3>2. n = IF x < DIRECT THEN 1 ELSE x - DIRECT + 2
      BY <1>5, <2>1, <3>1 DEF IsPath
    <3>3. x \in 0 .. DIRECT + 1 /\ y \in 0 .. DIRECT + 1
      BY <2>1, <2>2, <3>1 DEF IsPath
    <3>. QED  BY <1>16, <2>1, <2>2, <3>2, <3>3, Constants
  <2>4. 1 \in DOMAIN ind /\ ind[1] = Cells(Inode, DIRECT + 1, DIRECT + 2, 2)
    <3>1. 1 \in 1 .. 3 - n /\ DIRECT + n + 1 - 2 = DIRECT + 1 /\ DIRECT + n + 1 - 1 = DIRECT + 2 /\ n + 1 - 1 = 2
      BY <2>3, Constants
    <3>. QED  BY <1>13, <3>1
  <2>5. y \in DIRECT + 1 .. (DIRECT + 2) - 1
    BY <2>3, Constants
  <2>6. InCells(ind, Inode, y)
    BY <2>4, <2>5 DEF InCells, Cells
  <2>7. Walk(m, t, 1 - 1) = Inode /\ 1 \in 1 .. Len(Path(t))
    BY PathLen DEF Walk
  <2>. QED  BY <2>2, <2>6, <2>7
<1>17. CASE \E k \in 2 .. j : /\ Along(t, s, k - 1) /\ Path(t)[k] \in Nat
                             /\ \/ Path(t)[k] > Path(s)[k]
                                \/ Path(t)[k] = Path(s)[k] /\ k = j /\ Stays(p)
  <2>1. PICK k \in 2 .. j : /\ Along(t, s, k - 1) /\ Path(t)[k] \in Nat
                            /\ \/ Path(t)[k] > Path(s)[k]
                               \/ Path(t)[k] = Path(s)[k] /\ k = j /\ Stays(p)
    BY <1>17
  <2>2. Len(Path(t)) = n /\ k \in 2 .. n /\ k - 1 \in 0 .. 3 /\ k - 1 \in 0 .. k - 1 /\ k \in 1 .. n
    BY <1>5, <2>1 DEF Along
  <2>3. Path(t)[k] \in Nat /\ Path(t)[k] < PTRS
    <3>1. Path(t)[k] \in 0 .. PTRS - 1
      BY <2>2, PathFacts
    <3>. QED  BY <3>1, Constants
  <2>4. InCells(ends, Walk(mem, s, k - 1), Path(t)[k])
    BY <1>1, <1>7, <1>c, <1>11, <2>1, <2>3, InEnds
  <2>5. Walk(mem, t, k - 1) = Walk(mem, s, k - 1)
    <3>1. \A i \in 1 .. k - 1 : Path(t)[i] = Path(s)[i]
      BY <2>1 DEF Along
    <3>. QED  BY <2>2, <3>1, AlongWalk
  <2>. QED  BY <1>2, <2>2, <2>4, <2>5
<1>18. CASE Along(t, s, j)
  <2>1. j \in 1 .. 3 /\ j \in 1 .. n /\ j \in 0 .. 3 /\ j - 1 \in 0 .. j /\ j \in 1 .. j /\ j - 1 \in 0 .. n /\ j \in 0 .. n
    OBVIOUS
  <2>2. Len(Path(t)) = n /\ \A i \in 1 .. j : Path(t)[i] = Path(s)[i]
    BY <1>5, <1>18 DEF Along
  <2>3. \A i \in 0 .. j : Walk(m, t, i) = Walk(m, s, i)
    BY <2>1, <2>2, AlongWalk
  <2>4. ~ Grown(p)
    <3>. SUFFICES ASSUME Grown(p) PROVE FALSE
      OBVIOUS
    <3>1. j = Len(chain[p])
      BY <1>7, Zenon DEF Fork
    <3>2. chain[p][Len(chain[p])].key = NoBlock
      BY <1>c DEF Grown, ChainFacts
    <3>3. Look(mem, t) = NoBlock
      BY <1>b, <1>1, <1>8, <1>18, <3>1, <3>2, Zenon DEF Short
    <3>. QED  BY <1>2, <1>4, <3>3
  <2>5. CASE Stays(p)
    <3>1. j \in 2 .. j
      BY <1>7, <2>5 DEF Stays
    <3>2. Along(t, s, j - 1)
      BY <1>18 DEF Along
    <3>3. Path(t)[j] = Path(s)[j] /\ Path(t)[j] \in Nat
      BY <2>1, <2>2, PathFacts
    <3>. QED  BY <1>17, <2>5, <3>1, <3>2, <3>3
  <2>6. CASE ~ Stays(p)
    <3>1. chain[p][j].at = <<Walk(mem, s, j - 1), Path(s)[j]>> /\ OnWalk(own, mem, s, j)
      BY <1>c, <1>1, <1>7, <2>1 DEF ForkFacts
    <3>2. PICK c : c = Walk(m, s, j - 1)
      OBVIOUS
    <3>3. PICK o : o = Path(s)[j]
      OBVIOUS
    <3>4. c \in Container /\ o \in Pointer(c)
      BY <1>2, <3>1, <3>2, <3>3 DEF OnWalk
    <3>5. m2 = [m EXCEPT ![c][o] = NoBlock]
      <4>1. mem' = Stored(chain[p][j].at, NoBlock)
        BY <1>7, <2>4, <2>6, SharedIs, Zenon
      <4>2. chain[p][j].at[1] = c /\ chain[p][j].at[2] = o
        BY <1>2, <3>1, <3>2, <3>3
      <4>. QED  BY <1>2, <1>3, <4>1, <4>2, Zenon DEF Stored
    <3>6. m2[c][o] = NoBlock
      BY <1>2, <1>c, <3>4, <3>5 DEF Links
    <3>7. Walk(m2, t, j - 1) = c /\ Path(t)[j] = o
      <4>1. Walk(m2, t, j - 1) = Walk(m, t, j - 1)
        BY <1>4, <2>1, <2>2 DEF SameWalk
      <4>. QED  BY <2>1, <2>2, <2>3, <3>2, <3>3, <4>1
    <3>8. Walk(m2, t, j) = NoBlock
      BY <2>1, <3>6, <3>7, WalkStep
    <3>9. Walk(m2, t, n) # NoBlock
      BY <1>3, <2>2 DEF Look
    <3>. QED  BY <2>1, <3>8, <3>9, WalkEnds
  <2>. QED  BY <2>5, <2>6
<1>. QED
  <2>1. CASE t = s
    BY <1>18, <2>1 DEF Along
  <2>2. CASE s < t /\ ~ (Path(s)[1] < Path(t)[1])
    <3>1. PICK k \in 1 .. Len(Path(t)) : Along(s, t, k - 1) /\ Path(s)[k] < Path(t)[k]
      BY <1>8, <2>2, PathOrder
    <3>2. Len(Path(t)) = n /\ \A i \in 1 .. k - 1 : Path(t)[i] = Path(s)[i]
      BY <1>5, <3>1 DEF Along
    <3>3. k \in 2 .. n /\ k \in 1 .. n
      BY <2>2, <3>1, <3>2
    <3>4. Path(t)[k] \in Nat /\ Path(s)[k] \in Nat
      BY <1>5, <1>8, <3>2, <3>3, PathFacts
    <3>5. Along(t, s, k - 1)
      BY <1>5, <3>2 DEF Along
    <3>6. CASE k <= j
      BY <1>17, <3>1, <3>3, <3>4, <3>5, <3>6
    <3>7. CASE ~ (k <= j)
      <4>1. \A i \in 1 .. j : i \in 1 .. k - 1
        BY <3>3, <3>7
      <4>. QED  BY <1>5, <1>18, <3>2, <4>1 DEF Along
    <3>. QED  BY <3>6, <3>7
  <2>. QED  BY <1>8, <1>16, <2>1, <2>2

LEMMA TruncateEnd ==
  ASSUME IInv, IInv', EndInv, NEW p \in Process, TruncateStep(p)
  PROVE  EndInv'
<1>1. call[p].pc \in {"shared", "free"}
  BY Zenon DEF TruncateStep, FindShared, ClearEnds, EndsClear, ReadIndirect, ClearIndirect, FreeBlock,
               Truncated, Freeing
<1>2. /\ call \in [Process -> CallType] /\ call[p].kind = "truncate" /\ mutex = p
  BY <1>1, Truncating DEF IInv, Types, CallType
<1>3. UNCHANGED <<size, mutex>>
  BY Zenon DEF TruncateStep, FindShared, ClearEnds, ClearPointer, EndsClear, ReadIndirect,
               ClearIndirect, FreeBlock, Truncated
<1>4. CASE Truncated(p)
  <2>1. call[p].pc = "free" /\ tasks[p] = <<>> /\ mem' = mem
    BY <1>4 DEF Truncated
  <2>2. ASSUME NEW t \in Sectors, Beyond(t)' PROVE FALSE
    <3>1. Beyond(t)
      BY <1>3, <2>1, <2>2 DEF Beyond
    <3>2. Listed(mem, <<>>, t)
      BY <2>1, <3>1 DEF EndInv, Remaining
    <3>. QED  BY <3>2 DEF Listed, InCells
  <2>. QED  BY <2>2, NoneBeyond
<1>5. CASE ~ Truncated(p)
  <2>1. call'[p].pc = "free" /\ call'[p].kind = "truncate"
    <3>1. Go(p, "free") \/ (call' = call /\ call[p].pc = "free")
      BY <1>5, Zenon DEF TruncateStep, FindShared, ClearEnds, ClearPointer, EndsClear, ReadIndirect,
                         ClearIndirect, FreeBlock, Freeing
    <3>. QED  BY <1>2, <3>1 DEF Go, CallType
  <2>2. Excused'
    BY <1>2, <1>3, <2>1, Zenon DEF Excused, Excuses
  <2>3. ASSUME NEW q \in Process, q # p PROVE Remaining(q)' /\ Short(q)'
    BY <1>2, <1>3, <2>3, TruncatingNext DEF Remaining, Short
  <2>4. Short(p)'
    BY <2>1 DEF Short
  <2>5. Remaining(p)'
    <3>1. CASE FindShared(p)
      <4>1. Short(p)
        BY DEF EndInv
      <4>2. \A t \in Sectors : t >= size /\ Look(mem', t) # NoBlock => Listed(mem', tasks'[p], t)
        BY <3>1, <4>1, SharedRemaining
      <4>. QED  BY <1>3, <4>2 DEF Remaining, Beyond
    <3>2. CASE ClearEnds(p) \/ EndsClear(p) \/ ReadIndirect(p) \/ ClearIndirect(p) \/ FreeBlock(p)
      <4>1. call[p].pc = "free" /\ Remaining(p)
        BY <3>2, Zenon DEF EndInv, ClearEnds, EndsClear, ReadIndirect, ClearIndirect, FreeBlock, Freeing
      <4>. QED  BY <3>2, <4>1, FreeRemaining
    <3>. QED  BY <1>5, <3>1, <3>2 DEF TruncateStep
  <2>. QED  BY <2>2, <2>3, <2>4, <2>5 DEF EndInv
<1>. QED  BY <1>4, <1>5

LEMMA InitEnd ==
  ASSUME Init
  PROVE  EndInv
<1>1. ASSUME NEW t \in Sectors PROVE Look(mem, t) = NoBlock
  <2>1. PICK l \in 1 .. 3 : l = Len(Path(t))
    BY PathLen
  <2>2. Path(t)[1] \in Pointer(Inode) /\ Inode \in Block \cup {Inode}
    BY PathFacts
  <2>3. mem[Inode][Path(t)[1]] = NoBlock
    BY <2>2 DEF Init
  <2>4. Walk(mem, t, 1) = NoBlock
    BY <2>3 DEF Walk
  <2>5. 1 \in 1 .. l
    OBVIOUS
  <2>. QED  BY <2>1, <2>4, <2>5, WalkEnds DEF Look
<1>2. \A p \in Process : call[p].pc = "idle"
  BY DEF Init, Idle
<1>. QED  BY <1>1, <1>2 DEF EndInv, Excused, Beyond, Remaining, Short

LEMMA NextEnd ==
  ASSUME IInv, IInv', EndInv, [Next]_vars
  PROVE  EndInv'
<1>1. CASE UNCHANGED vars
  BY <1>1 DEF vars, EndInv, Excused, Excuses, Beyond, Remaining, Short
<1>2. CASE Next
  <2>1. PICK p \in Process :
          \/ \E t \in Sector : Write(p, t) \/ Writepage(p, t) \/ Bmap(p, t)
          \/ \E s \in {0} \cup Sector \cup {t + 1 : t \in Sector} : Truncate(p, s)
          \/ TakeBack(p) \/ Return(p) \/ GetBlockStep(p) \/ TruncateStep(p)
    BY <1>2, Zenon DEF Next
  <2>2. CASE \E t \in Sector : Write(p, t) \/ Writepage(p, t) \/ Bmap(p, t)
    BY <2>2, CallEnd
  <2>3. CASE \E s \in {0} \cup Sector \cup {t + 1 : t \in Sector} : Truncate(p, s)
    <3>1. PICK s \in {0} \cup Sector \cup {t + 1 : t \in Sector} : Truncate(p, s)
      BY <2>3
    <3>2. s \in 0 .. NSectors
      BY Constants DEF Sectors
    <3>. QED  BY <3>1, <3>2, CallTruncateEnd DEF Truncate
  <2>4. CASE TakeBack(p)
    <3>1. size \in 0 .. NSectors
      BY DEF IInv, Types
    <3>2. PICK s : s = size
      OBVIOUS
    <3>3. CallTruncate(p, s) /\ s \in 0 .. NSectors
      BY <2>4, <3>1, <3>2 DEF TakeBack
    <3>. QED  BY <3>3, CallTruncateEnd
  <2>. QED  BY <2>1, <2>2, <2>3, <2>4, ReturnEnd, GetBlockEnd, TruncateEnd
<1>. QED  BY <1>1, <1>2

(* TruncateDone: behind the end of the file nothing is left when truncate()*)
(* is done, whatever other calls allocate beside it and wherever the end of*)
(* the file is in its tree.                                                *)
THEOREM TruncateComplete == Spec => []TruncateDone
<1>1. IInv /\ EndInv => TruncateDone
  <2>. SUFFICES ASSUME IInv, EndInv, NEW p \in Process,
                       call[p].kind = "truncate", call[p].pc = "done",
                       NEW t \in Sectors, t >= size, Lookup(t) # NoBlock
                PROVE  FALSE
    BY DEF TruncateDone, Sectors
  <2>1. Beyond(t)
    BY LookIs DEF Beyond
  <2>2. PICK q \in Process : Excuses(q, t)
    BY <2>1 DEF EndInv, Excused
  <2>3. mutex = p
    BY DEF IInv, CallInv, Discipline
  <2>. QED  BY <2>2, <2>3 DEF Excuses
<1>2. Init => EndInv
  BY InitEnd
<1>3. IInv /\ IInv' /\ EndInv /\ [Next]_vars => EndInv'
  BY NextEnd
<1>4. Spec => []IInv
  BY Invariant
<1>. QED  BY <1>1, <1>2, <1>3, <1>4, PTL DEF Spec

=============================================================================
