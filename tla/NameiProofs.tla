---------------------------- MODULE NameiProofs ----------------------------
(***************************************************************************)
(* The inductive invariants of Namei and Mount, and the theorems that      *)
(* follow from them for every number of inodes, names, links and calls.    *)
(*                                                                         *)
(* There are four, each proved with the help of those before it.  PlainInv *)
(* gives the types, and an entry to each directory that may be used.       *)
(* MountInv is about single inodes: in core, on the disk, in the bitmap.   *)
(* TreeInv relates the counts to the entries, but for what is spoilt: it   *)
(* is Sound of the tree as a record, so that what an entry set or cleared  *)
(* does to a sound tree (Tree...) is proved apart from the calls (...Sound)*)
(* that do it.  FlagInv is about the bit MINIX_VALID_FS.  MountInv and     *)
(* TreeInv hold until the whole tree is given up (hurt = Ino), when a      *)
(* freed inode is looked up or a crash leaves the disk unsound.            *)
(***************************************************************************)
EXTENDS Mount, FiniteSetTheorems, WellFoundedInduction, TLAPS

(* What an inode may be in core and on disk, and the directories, see      *)
(* TypeOK.                                                                 *)
Kinds == {"none", "file", "dir"}
Count == 0 .. LinkSpace - 1
Inode == [phase : {"out", "in", "freeing", "cleared"}, kind : Kinds, nlink : Count,
          dirty : BOOLEAN, dead : BOOLEAN, held : BOOLEAN]
OnDisk == [kind : Kinds, nlink : Count]
Clear == [kind |-> "none", nlink |-> 0]

(* No directory is in itself, and the root is in none.                     *)
Tree(e) ==
  /\ e \in [Ino -> [Name -> Ino \cup {NoIno}]]
  /\ \A d \in Ino : \A n \in Name : e[d][n] \notin {d, Root}

(* The directories in which a name may be made have an entry themselves,   *)
(* but for what is spoilt.  This, and the types, hold of every tree, even  *)
(* of one that is given up.                                                *)
Rooted == \A i \in Ino \ hurt : Ready(i) => Linked(i)
PlainInv == TypeOK /\ Rooted

(* An inode in core against the one on disk.                               *)
InodeInv(i) ==
  /\ core[i].phase = "out" => core[i] = Out
  /\ core[i].phase # "out" => i \in imap
  /\ core[i].phase # "in" => ~core[i].dirty /\ ~core[i].held
  /\ core[i].phase \in {"freeing", "cleared"}
       => i # Root /\ dotdot[i] = NoIno /\ core[i].nlink = 0
  /\ core[i].phase = "cleared" => raw[i] = Clear
  /\ core[i].phase = "in" => core[i].kind # "none"
  /\ core[i].phase = "in" /\ ~core[i].dirty
       => raw[i] = [kind |-> core[i].kind, nlink |-> core[i].nlink]
  /\ i \notin imap => raw[i] = Clear /\ dotdot[i] = NoIno
  /\ raw[i].kind = "none" => raw[i].nlink = 0
  /\ raw[i].kind # "none" /\ core[i].phase # "out" => raw[i].kind = core[i].kind

RootInv ==
  /\ Root \in imap /\ raw[Root].kind = "dir"
  /\ core[Root].phase = "in" => core[Root].kind = "dir"

(* The invariant of the inodes, whatever the link counts are.              *)
DiskInv ==
  /\ TypeOK
  /\ Tree(entry)
  /\ \A i \in Ino : InodeInv(i)
  /\ RootInv

(* What is in use can be read; a crash ends that, since what a call has    *)
(* made may be on the disk as a bit and an entry alone.                    *)
Live == \A i \in imap : core[i].phase = "out" => raw[i].kind # "none"

-----------------------------------------------------------------------------
(* Types, and directories that have an entry                               *)

(* The least element, by which FirstZero is one.                           *)
LEMMA Least ==
  ASSUME NEW T \in SUBSET Nat, T # {}
  PROVE  \E x \in T : \A y \in T : x <= y
<1>1. PICK x \in T : \A y \in T : ~(<<y, x>> \in OpToRel(<, Nat))
  BY NatLessThanWellFounded, WFMin, Zenon
<1>2. \A y \in T : ~(y < x)
  BY <1>1, Zenon DEF OpToRel
<1> QED
  BY <1>2

LEMMA FirstZeroUnused ==
  ASSUME Unused # {}
  PROVE  FirstZero \in Ino \ imap
<1>1. Unused \in SUBSET Nat
  BY DEF Unused, Ino
<1>2. \E x \in Unused : \A y \in Unused : x <= y
  BY <1>1, Least
<1>3. FirstZero \in Unused
  BY <1>2, Zenon DEF FirstZero
<1> QED
  BY <1>3 DEF Unused

(* A count wraps below 0 and at LinkSpace.                                 *)
LEMMA Wraps ==
  ASSUME NEW x \in Count
  PROVE  /\ (x + 1) % LinkSpace \in Count /\ (x - 1) % LinkSpace \in Count
         /\ x + 1 < LinkSpace => (x + 1) % LinkSpace = x + 1
         /\ x > 0 => (x - 1) % LinkSpace = x - 1
         /\ 0 \in Count /\ 1 \in Count
BY NameiAssumption DEF Count

LEMMA Types ==
  /\ NoIno \notin Ino /\ Root \in Ino
  /\ TypeOK <=>
       /\ imap \subseteq Ino
       /\ raw \in [Ino -> OnDisk]
       /\ core \in [Ino -> Inode]
       /\ entry \in [Ino -> [Name -> Ino \cup {NoIno}]]
       /\ dotdot \in [Ino -> Ino \cup {NoIno}]
       /\ hurt \subseteq Ino
       /\ calls \in 0 .. MaxCalls
       /\ failed \in BOOLEAN
BY NameiAssumption DEF TypeOK, OnDisk, Inode, Kinds, Count, NoIno, Ino, Root

(* What counting the links of an inode in core, or marking it, keeps.      *)
Turns(b, c) ==
  /\ c \in [Ino -> Inode]
  /\ \A j \in Ino : /\ c[j].phase = b[j].phase /\ c[j].kind = b[j].kind
                    /\ b[j].dead => c[j].dead

LEMMA Turn ==
  ASSUME NEW c \in [Ino -> Inode], NEW i \in Ino
  PROVE  /\ Turns(c, MarkDirty(c, i)) /\ Turns(c, IncLink(c, i))
         /\ Turns(c, DropLink(c, i)) /\ Turns(c, DecLink(c, i))
         /\ Turns(c, [c EXCEPT ![i].dead = TRUE])
<1>1. c[i] \in Inode /\ c[i].nlink \in Count
  BY DEF Inode
<1>2. ASSUME NEW s \in Inode, s.phase = c[i].phase, s.kind = c[i].kind, c[i].dead => s.dead
      PROVE  Turns(c, [c EXCEPT ![i] = s])
  BY <1>2 DEF Turns
<1>3. ASSUME NEW x \in Count
      PROVE  /\ Turns(c, [c EXCEPT ![i] = [c[i] EXCEPT !.nlink = x]])
             /\ Turns(c, [c EXCEPT ![i] = [c[i] EXCEPT !.nlink = x, !.dirty = TRUE]])
  <2> DEFINE s == [c[i] EXCEPT !.nlink = x]
             t == [c[i] EXCEPT !.nlink = x, !.dirty = TRUE]
  <2>1. /\ s \in Inode /\ s.phase = c[i].phase /\ s.kind = c[i].kind /\ s.dead = c[i].dead
        /\ t \in Inode /\ t.phase = c[i].phase /\ t.kind = c[i].kind /\ t.dead = c[i].dead
    BY <1>1, <1>3 DEF Inode
  <2> HIDE DEF s, t
  <2>2. Turns(c, [c EXCEPT ![i] = s]) /\ Turns(c, [c EXCEPT ![i] = t])
    BY <1>2, <2>1
  <2> QED
    BY <2>2 DEF s, t
<1>4. /\ Turns(c, [c EXCEPT ![i] = [c[i] EXCEPT !.dirty = TRUE]])
      /\ Turns(c, [c EXCEPT ![i] = [c[i] EXCEPT !.dead = TRUE]])
  <2> DEFINE s == [c[i] EXCEPT !.dirty = TRUE]
             t == [c[i] EXCEPT !.dead = TRUE]
  <2>1. /\ s \in Inode /\ s.phase = c[i].phase /\ s.kind = c[i].kind /\ s.dead = c[i].dead
        /\ t \in Inode /\ t.phase = c[i].phase /\ t.kind = c[i].kind /\ t.dead
    BY <1>1 DEF Inode
  <2> HIDE DEF s, t
  <2>2. Turns(c, [c EXCEPT ![i] = s]) /\ Turns(c, [c EXCEPT ![i] = t])
    BY <1>2, <2>1
  <2> QED
    BY <2>2 DEF s, t
<1>5. (c[i].nlink + 1) % LinkSpace \in Count /\ (c[i].nlink - 1) % LinkSpace \in Count
  BY <1>1, Wraps
<1> QED
  BY <1>3, <1>4, <1>5 DEF MarkDirty, IncLink, DropLink, DecLink

LEMMA TurnsAgain ==
  ASSUME NEW b, NEW c, Turns(b, c)
  PROVE  /\ c \in [Ino -> Inode]
         /\ \A e : Turns(c, e) => Turns(b, e)
         /\ \A i \in Ino : /\ Turns(b, MarkDirty(c, i)) /\ Turns(b, IncLink(c, i))
                           /\ Turns(b, DropLink(c, i)) /\ Turns(b, DecLink(c, i))
                           /\ Turns(b, [c EXCEPT ![i].dead = TRUE])
<1>1. \A e : Turns(c, e) => Turns(b, e)
  BY DEF Turns
<1>2. c \in [Ino -> Inode]
  BY DEF Turns
<1> QED
  BY <1>1, <1>2, Turn

(* A new inode, and one that has been read.                                *)
LEMMA FreshTyped ==
  ASSUME NEW k \in Kinds, NEW x \in Count, NEW m \in BOOLEAN
  PROVE  [Out EXCEPT !.phase = "in", !.kind = k, !.nlink = x, !.dirty = m] \in Inode
BY NameiAssumption DEF Out, Inode, Kinds, Count

LEMMA OutTyped == Out \in Inode /\ Out.phase = "out" /\ ~Out.dirty /\ ~Out.held
BY NameiAssumption DEF Out, Inode, Kinds, Count

LEMMA ReadPlain ==
  ASSUME TypeOK, NEW i \in Ino
  PROVE  [Out EXCEPT !.phase = "in", !.kind = raw[i].kind, !.nlink = raw[i].nlink] \in Inode
<1>1. raw[i].kind \in Kinds /\ raw[i].nlink \in Count
  BY Types DEF OnDisk
<1> QED
  BY <1>1 DEF Out, Inode, Kinds

LEMMA CallsPlain ==
  ASSUME TypeOK, Next
  PROVE  calls' \in 0 .. MaxCalls
BY NameiAssumption DEF TypeOK, Next, Call, Between

(* A step that hurts what it leaves without an entry.                      *)
PlainStep ==
  /\ imap' \subseteq Ino
  /\ raw' \in [Ino -> OnDisk]
  /\ core' \in [Ino -> Inode]
  /\ entry' \in [Ino -> [Name -> Ino \cup {NoIno}]]
  /\ dotdot' \in [Ino -> Ino \cup {NoIno}]
  /\ hurt \subseteq hurt' /\ hurt' \subseteq Ino
  /\ failed' \in BOOLEAN
  /\ \A i \in Ino \ hurt' :
       Ready(i)' => Linked(i)' \/ (Ready(i) /\ (Linked(i) => Linked(i)'))

LEMMA PlainStepKeeps ==
  ASSUME PlainInv, PlainStep, calls' \in 0 .. MaxCalls
  PROVE  PlainInv'
<1>1. TypeOK'
  BY Types DEF PlainStep, TypeOK, OnDisk, Inode, Kinds, Count
<1>2. Rooted'
  BY DEF PlainStep, PlainInv, Rooted
<1> QED
  BY <1>1, <1>2 DEF PlainInv

(* Where an entry is set.                                                  *)
LEMMA StorePlain ==
  ASSUME NEW e \in [Ino -> [Name -> Ino \cup {NoIno}]], NEW d \in Ino, NEW n \in Name,
         NEW i \in Ino, NEW how, NEW f, f = Store(e, d, n, i, how)
  PROVE  /\ f \in [Ino -> [Name -> Ino \cup {NoIno}]]
         /\ \A x \in Ino, m \in Name :
              f[x][m] = IF x = d /\ m = n /\ how # "prepare" THEN i ELSE e[x][m]
<1>1. CASE how = "prepare"
  BY <1>1 DEF Store
<1>2. CASE how # "prepare"
  BY <1>2 DEF Store
<1> QED
  BY <1>1, <1>2

LEMMA ClearPlain ==
  ASSUME NEW e \in [Ino -> [Name -> Ino \cup {NoIno}]], NEW d \in Ino, NEW n \in Name,
         NEW how, NEW f, f = Store(e, d, n, NoIno, how)
  PROVE  /\ f \in [Ino -> [Name -> Ino \cup {NoIno}]]
         /\ \A x \in Ino, m \in Name :
              f[x][m] = IF x = d /\ m = n /\ how # "prepare" THEN NoIno ELSE e[x][m]
<1>1. CASE how = "prepare"
  BY <1>1 DEF Store
<1>2. CASE how # "prepare"
  BY <1>2 DEF Store
<1> QED
  BY <1>1, <1>2

LEMMA LinkedBySlot ==
  /\ \A i \in Ino : Linked(i) <=> i = Root \/ \E x \in Ino, m \in Name : entry[x][m] = i
  /\ \A i \in Ino : Linked(i)' <=> i = Root \/ \E x \in Ino, m \in Name : entry'[x][m] = i
<1>1. ASSUME NEW f, NEW i \in Ino
      PROVE  {x \in Ino \X Name : f[x[1]][x[2]] = i} # {}
               <=> \E x \in Ino, m \in Name : f[x][m] = i
  <2> DEFINE S == {x \in Ino \X Name : f[x[1]][x[2]] = i}
  <2>1. ASSUME NEW x \in Ino, NEW m \in Name, f[x][m] = i
        PROVE  <<x, m>> \in S
    BY <2>1
  <2>2. ASSUME NEW y \in S
        PROVE  y[1] \in Ino /\ y[2] \in Name /\ f[y[1]][y[2]] = i
    OBVIOUS
  <2> QED
    BY <2>1, <2>2
<1>2. ASSUME NEW i \in Ino
      PROVE  /\ Entries(i) # {} <=> \E x \in Ino, m \in Name : entry[x][m] = i
             /\ Entries(i)' # {} <=> \E x \in Ino, m \in Name : entry'[x][m] = i
  BY <1>1 DEF Entries
<1> QED
  BY <1>2 DEF Linked

LEMMA StaysLinked ==
  ASSUME NEW i \in Ino,
         \A x \in Ino, m \in Name : entry[x][m] = i => \E y \in Ino, k \in Name : entry'[y][k] = i
  PROVE  Linked(i) => Linked(i)'
BY LinkedBySlot

LEMMA SpoilPlain ==
  ASSUME TypeOK, NEW S \in SUBSET Ino, NEW new \in SUBSET Ino, Spoil(S, new)
  PROVE  hurt \subseteq hurt' /\ hurt' \subseteq Ino /\ new \subseteq hurt'
<1>1. hurt \subseteq Ino /\ dotdot \in [Ino -> Ino \cup {NoIno}]
  BY Types
<1>2. {dotdot[i] : i \in S} \subseteq Ino \cup {NoIno}
  BY <1>1
<1> DEFINE D == {dotdot[i] : i \in S}
<1> HIDE DEF D
<1>3. hurt' = hurt \cup new \cup (IF S \cap hurt # {} THEN (S \cup D) \ {NoIno} ELSE {})
  BY DEF Spoil, D
<1> QED
  BY <1>1, <1>2, <1>3 DEF D

LEMMA ChildrenPlain ==
  ASSUME TypeOK, NEW d \in Ino
  PROVE  Emptied(d) \subseteq Ino /\ Children(d) \subseteq Ino
BY Types DEF Emptied, Children

LEMMA FailsPlain ==
  ASSUME TypeOK, Fails
  PROVE  PlainStep
<1>1. UNCHANGED <<imap, raw, core, entry, dotdot, hurt>> /\ failed' = TRUE
  BY DEF Fails, disk, tree
<1>2. \A i \in Ino : (Ready(i)' <=> Ready(i)) /\ (Linked(i)' <=> Linked(i))
  BY <1>1 DEF Ready, Linked, Entries
<1> QED
  BY <1>1, <1>2, Types DEF PlainStep

LEMMA NewTyped ==
  ASSUME NEW c \in [Ino -> Inode], NEW i \in Ino, NEW k \in {"file", "dir"}
  PROVE  /\ NewInode(c, i, k) \in [Ino -> Inode]
         /\ NewInode(c, i, k)[i].kind = k
         /\ \A j \in Ino \ {i} : NewInode(c, i, k)[j] = c[j]
<1> DEFINE r == [Out EXCEPT !.phase = "in", !.kind = k, !.nlink = 1, !.dirty = TRUE]
<1>1. 1 \in Count /\ k \in Kinds
  BY NameiAssumption DEF Count, Kinds
<1>2. r \in Inode
  BY <1>1, FreshTyped
<1>3. r.kind = k
  BY DEF Out
<1>4. NewInode(c, i, k) = [c EXCEPT ![i] = r]
  BY DEF NewInode
<1> HIDE DEF r
<1> QED
  BY <1>2, <1>3, <1>4

LEMMA AddNondirPlain ==
  ASSUME TypeOK, NEW c \in [Ino -> Inode], NEW d \in Ino, NEW n \in Name, NEW i \in Ino,
         entry[d][n] = NoIno, AddNondir(c, d, n, i),
         \A j \in Ino : c[j].phase = "in" /\ c[j].kind = "dir" /\ ~c[j].dead => Ready(j),
         imap' \subseteq Ino
  PROVE  PlainStep
<1>1. PICK how \in Outcome :
        /\ entry' = Store(entry, d, n, i, how)
        /\ \/ how = "done"    /\ core' = MarkDirty(c, d)
           \/ how = "prepare" /\ core' = DecLink(c, i)
           \/ how = "commit"  /\ core' = DecLink(MarkDirty(c, d), i)
        /\ failed' = (how = "prepare")
        /\ Spoil({d, i}, IF how = "commit" THEN {i} ELSE {})
        /\ UNCHANGED <<raw, dotdot>>
  BY DEF AddNondir
<1>2. Turns(c, core')
  <2>1. Turns(c, MarkDirty(c, d)) /\ Turns(c, DecLink(c, i))
    BY Turn
  <2>2. Turns(c, DecLink(MarkDirty(c, d), i))
    BY <2>1, TurnsAgain
  <2> QED
    BY <1>1, <2>1, <2>2
<1>3. entry \in [Ino -> [Name -> Ino \cup {NoIno}]] /\ core \in [Ino -> Inode]
  BY Types
<1>4. /\ entry' \in [Ino -> [Name -> Ino \cup {NoIno}]]
      /\ \A x \in Ino, m \in Name :
           entry'[x][m] = IF x = d /\ m = n /\ how # "prepare" THEN i ELSE entry[x][m]
  BY <1>1, <1>3, StorePlain
<1>5. \A j \in Ino : Linked(j) => Linked(j)'
  <2>1. ASSUME NEW j \in Ino, NEW x \in Ino, NEW m \in Name, entry[x][m] = j
        PROVE  entry'[x][m] = j
    BY <1>4, <2>1, Types
  <2> QED
    BY <2>1, StaysLinked
<1>6. \A j \in Ino : Ready(j)' => Ready(j)
  BY <1>2, <1>3 DEF Turns, Ready
<1>7. hurt \subseteq hurt' /\ hurt' \subseteq Ino
  <2>1. {d, i} \in SUBSET Ino /\ (IF how = "commit" THEN {i} ELSE {}) \in SUBSET Ino
    OBVIOUS
  <2> QED
    BY <1>1, <2>1, SpoilPlain
<1> QED
  BY <1>1, <1>2, <1>4, <1>5, <1>6, <1>7, Types DEF PlainStep, Turns

LEMMA MknodPlain ==
  ASSUME TypeOK, NEW d \in Ino, NEW n \in Name, Mknod(d, n) \/ Symlink(d, n)
  PROVE  PlainStep
<1>1. CASE Fails
  BY <1>1, FailsPlain
<1>2. CASE ~Fails
  <2> DEFINE i == FirstZero
             c == NewInode(core, i, "file")
  <2>1. entry[d][n] = NoIno /\ Unused # {} /\ imap' = imap \cup {i}
    BY <1>2 DEF Mknod, Symlink, Vacant
  <2>2. i \in Ino /\ imap' \subseteq Ino
    BY <2>1, FirstZeroUnused, Types
  <2>3. /\ c \in [Ino -> Inode] /\ c[i].kind = "file"
        /\ \A j \in Ino \ {i} : c[j] = core[j]
    BY <2>2, NewTyped, Types
  <2>4. \/ AddNondir(c, d, n, i)
        \/ /\ core' = DecLink(c, i) /\ failed' = TRUE
           /\ UNCHANGED <<raw, entry, dotdot, hurt>>
    BY <1>2 DEF Mknod, Symlink, tree
  <2> HIDE DEF c, i
  <2>5. \A j \in Ino : c[j].phase = "in" /\ c[j].kind = "dir" /\ ~c[j].dead => Ready(j)
    BY <2>3 DEF Ready
  <2>6. CASE AddNondir(c, d, n, i)
    BY <2>1, <2>2, <2>3, <2>5, <2>6, AddNondirPlain
  <2>7. CASE /\ core' = DecLink(c, i) /\ failed' = TRUE
             /\ UNCHANGED <<raw, entry, dotdot, hurt>>
    <3>1. Turns(c, core')
      BY <2>2, <2>3, <2>7, Turn
    <3>2. \A j \in Ino : (Ready(j)' => Ready(j)) /\ (Linked(j)' <=> Linked(j))
      BY <2>5, <2>7, <3>1 DEF Turns, Ready, Linked, Entries
    <3> QED
      BY <2>2, <2>7, <3>1, <3>2, Types DEF PlainStep, Turns
  <2> QED
    BY <2>4, <2>6, <2>7
<1> QED
  BY <1>1, <1>2

LEMMA LinkPlain ==
  ASSUME TypeOK, NEW i \in Ino, NEW d \in Ino, NEW n \in Name, Link(i, d, n)
  PROVE  PlainStep
<1>1. CASE Fails
  BY <1>1, FailsPlain
<1>2. CASE ~Fails
  <2>1. entry[d][n] = NoIno /\ AddNondir(IncLink(core, i), d, n, i) /\ imap' = imap
    BY <1>2 DEF Link, Vacant
  <2>2. Turns(core, IncLink(core, i))
    BY Turn, Types
  <2>3. IncLink(core, i) \in [Ino -> Inode]
    BY <2>2 DEF Turns
  <2>4. \A j \in Ino : IncLink(core, i)[j].phase = "in" /\ IncLink(core, i)[j].kind = "dir"
                         /\ ~IncLink(core, i)[j].dead => Ready(j)
    BY <2>2 DEF Turns, Ready
  <2> QED
    BY <2>1, <2>3, <2>4, AddNondirPlain, Types
<1> QED
  BY <1>1, <1>2

(* What mkdir takes back is dead.                                          *)
LEMMA MadeDirPlain ==
  ASSUME TypeOK, NEW d \in Ino, NEW i \in Ino
  PROVE  /\ MadeDir(d, i) \in [Ino -> Inode]
         /\ Turns(MadeDir(d, i), UndoneDir(d, i)) /\ UndoneDir(d, i)[i].dead
         /\ \A j \in Ino \ {i} : MadeDir(d, i)[j].phase = "in" /\ MadeDir(d, i)[j].kind = "dir"
                                   /\ ~MadeDir(d, i)[j].dead => Ready(j)
<1> DEFINE a == IncLink(core, d)
           b == NewInode(a, i, "dir")
           m == IncLink(b, i)
           e == DecLink(DecLink(m, i), i)
           f == [e EXCEPT ![i].dead = TRUE]
           g == DecLink(f, d)
<1>1. Turns(core, a) /\ a \in [Ino -> Inode]
  BY Turn, Types DEF Turns
<1>2. b \in [Ino -> Inode] /\ \A j \in Ino \ {i} : b[j] = a[j]
  BY <1>1, NewTyped
<1>3. Turns(b, m) /\ m \in [Ino -> Inode]
  BY <1>2, Turn DEF Turns
<1>4. MadeDir(d, i) = m /\ UndoneDir(d, i) = g
  BY DEF MadeDir, UndoneDir, DroppedDir
<1> HIDE DEF a, b, m
<1>5. Turns(m, DecLink(m, i))
  BY <1>3, Turn
<1>6. Turns(m, e) /\ e \in [Ino -> Inode]
  BY <1>5, TurnsAgain
<1> HIDE DEF e
<1>7. Turns(m, f) /\ f[i].dead
  BY <1>6, TurnsAgain DEF Inode
<1> HIDE DEF f
<1>8. Turns(m, g) /\ g[i].dead
  <2>1. Turns(m, g) /\ Turns(f, g)
    BY <1>7, Turn, TurnsAgain
  <2> QED
    BY <1>7, <2>1 DEF Turns
<1> HIDE DEF g
<1>9. \A j \in Ino \ {i} : m[j].phase = "in" /\ m[j].kind = "dir" /\ ~m[j].dead => Ready(j)
  BY <1>1, <1>2, <1>3 DEF Turns, Ready
<1> QED
  BY <1>3, <1>4, <1>8, <1>9

LEMMA MkdirPlain ==
  ASSUME TypeOK, NEW d \in Ino, NEW n \in Name, Mkdir(d, n)
  PROVE  PlainStep
<1>1. CASE Fails
  BY <1>1, FailsPlain
<1>2. CASE core' = DecLink(IncLink(core, d), d) /\ failed' = TRUE /\ UNCHANGED <<disk, tree, hurt>>
  <2>1. Turns(core, core')
    <3>1. Turns(core, IncLink(core, d))
      BY Turn, Types
    <3> QED
      BY <1>2, <3>1, TurnsAgain
  <2>2. UNCHANGED <<imap, raw, entry, dotdot, hurt>>
    BY <1>2 DEF disk, tree
  <2>3. \A j \in Ino : (Ready(j)' => Ready(j)) /\ (Linked(j)' <=> Linked(j))
    BY <2>1, <2>2 DEF Turns, Ready, Linked, Entries
  <2> QED
    BY <1>2, <2>1, <2>2, <2>3, Types DEF PlainStep, Turns
<1>3. ASSUME ~Fails,
             ~(core' = DecLink(IncLink(core, d), d) /\ failed' = TRUE
                 /\ UNCHANGED <<disk, tree, hurt>>)
      PROVE  PlainStep
  <2> PICK i : i = FirstZero
    OBVIOUS
  <2>1. /\ entry[d][n] = NoIno /\ Unused # {} /\ imap' = imap \cup {i} /\ raw' = raw
        /\ \/ core' = UndoneDir(d, i) /\ failed' = TRUE /\ UNCHANGED <<tree, hurt>>
           \/ \E how \in Outcome :
                /\ dotdot' = [dotdot EXCEPT ![i] = d]
                /\ entry' = Store(entry, d, n, i, how)
                /\ core' = IF how = "done" THEN MarkDirty(MadeDir(d, i), d)
                           ELSE UndoneDir(d, i)
                /\ failed' = (how = "prepare")
                /\ Spoil({d, i}, IF how = "commit" THEN {d, i} ELSE {})
    BY <1>3, Zenon DEF Mkdir, Vacant
  <2>2. i \in Ino /\ imap' \subseteq Ino
    BY <2>1, FirstZeroUnused, Types
  <2>3. /\ MadeDir(d, i) \in [Ino -> Inode]
        /\ Turns(MadeDir(d, i), UndoneDir(d, i)) /\ UndoneDir(d, i)[i].dead
        /\ \A j \in Ino \ {i} : MadeDir(d, i)[j].phase = "in" /\ MadeDir(d, i)[j].kind = "dir"
                                  /\ ~MadeDir(d, i)[j].dead => Ready(j)
    BY <2>2, MadeDirPlain
  <2>4. Turns(MadeDir(d, i), MarkDirty(MadeDir(d, i), d))
    BY <2>3, Turn
  <2>5. ASSUME Turns(MadeDir(d, i), core'), NEW j \in Ino, Ready(j)', j # i
        PROVE  Ready(j)
    BY <2>3, <2>5 DEF Turns, Ready
  <2>6. CASE core' = UndoneDir(d, i) /\ failed' = TRUE /\ UNCHANGED <<tree, hurt>>
    <3>1. entry' = entry /\ dotdot' = dotdot
      BY <2>6 DEF tree
    <3>2. ~Ready(i)'
      BY <2>3, <2>6 DEF Ready
    <3>3. \A j \in Ino : (Ready(j)' => Ready(j)) /\ (Linked(j)' <=> Linked(j))
      BY <2>3, <2>5, <2>6, <3>1, <3>2 DEF Linked, Entries
    <3> QED
      BY <2>1, <2>2, <2>3, <2>6, <3>1, <3>3, Types DEF PlainStep, Turns
  <2>7. ASSUME NEW how \in Outcome,
               dotdot' = [dotdot EXCEPT ![i] = d],
               entry' = Store(entry, d, n, i, how),
               core' = IF how = "done" THEN MarkDirty(MadeDir(d, i), d) ELSE UndoneDir(d, i),
               failed' = (how = "prepare"),
               Spoil({d, i}, IF how = "commit" THEN {d, i} ELSE {})
        PROVE  PlainStep
    <3>1. Turns(MadeDir(d, i), core')
      BY <2>3, <2>4, <2>7
    <3>2. /\ entry' \in [Ino -> [Name -> Ino \cup {NoIno}]]
          /\ \A x \in Ino, m \in Name :
               entry'[x][m] = IF x = d /\ m = n /\ how # "prepare" THEN i ELSE entry[x][m]
      <4>1. entry \in [Ino -> [Name -> Ino \cup {NoIno}]]
        BY Types
      <4> QED
        BY <2>2, <2>7, <4>1, StorePlain
    <3>3. ASSUME NEW j \in Ino PROVE Linked(j) => Linked(j)'
      <4>1. ASSUME NEW x \in Ino, NEW m \in Name, entry[x][m] = j
            PROVE  entry'[x][m] = j
        BY <2>1, <3>2, <4>1, Types
      <4> QED
        BY <4>1, StaysLinked
    <3>4. Ready(i)' => Linked(i)'
      <4>1. CASE how = "prepare"
        BY <2>3, <2>7, <4>1 DEF Ready
      <4>2. CASE how # "prepare"
        BY <2>2, <3>2, <4>2, LinkedBySlot
      <4> QED
        BY <4>1, <4>2
    <3>5. hurt \subseteq hurt' /\ hurt' \subseteq Ino
      <4>1. {d, i} \in SUBSET Ino /\ (IF how = "commit" THEN {d, i} ELSE {}) \in SUBSET Ino
        BY <2>2
      <4> QED
        BY <2>7, <4>1, SpoilPlain
    <3>6. dotdot' \in [Ino -> Ino \cup {NoIno}] /\ failed' \in BOOLEAN
      BY <2>7, Types
    <3> QED
      BY <2>1, <2>2, <2>5, <3>1, <3>2, <3>3, <3>4, <3>5, <3>6, Types DEF PlainStep, Turns
  <2> QED
    BY <2>1, <2>6, <2>7
<1> QED
  BY <1>1, <1>2, <1>3

LEMMA UnlinkPlain ==
  ASSUME TypeOK, NEW d \in Ino, NEW n \in Name, Unlink(d, n)
  PROVE  PlainStep
<1>1. CASE Fails
  BY <1>1, FailsPlain
<1>2. CASE ~Fails
  <2> PICK i : i = entry[d][n]
    OBVIOUS
  <2>1. PICK how \in Outcome :
          /\ entry' = Store(entry, d, n, NoIno, how)
          /\ core' = IF how = "done" THEN DecLink(MarkDirty(core, d), i) ELSE MarkDirty(core, d)
          /\ failed' = (how = "prepare")
          /\ Spoil({d, i}, IF how = "commit" THEN {i} ELSE {})
          /\ UNCHANGED <<imap, raw, dotdot>>
    BY <1>2 DEF Unlink, disk
  <2>2. i \in Ino /\ core[i].kind # "dir"
    BY <1>2, Types DEF Unlink, Found
  <2>3. Turns(core, core')
    <3>1. Turns(core, MarkDirty(core, d))
      BY Turn, Types
    <3>2. Turns(core, DecLink(MarkDirty(core, d), i))
      BY <2>2, <3>1, TurnsAgain
    <3> QED
      BY <2>1, <3>1, <3>2
  <2>4. entry \in [Ino -> [Name -> Ino \cup {NoIno}]]
    BY Types
  <2>5. /\ entry' \in [Ino -> [Name -> Ino \cup {NoIno}]]
        /\ \A x \in Ino, m \in Name :
             entry'[x][m] = IF x = d /\ m = n /\ how # "prepare" THEN NoIno ELSE entry[x][m]
    BY <2>1, <2>4, ClearPlain
  <2>6. ASSUME NEW j \in Ino, Ready(j)'
        PROVE  Ready(j) /\ (Linked(j) => Linked(j)')
    <3>1. Ready(j) /\ j # i
      BY <2>2, <2>3, <2>6 DEF Turns, Ready
    <3>2. ASSUME NEW x \in Ino, NEW m \in Name, entry[x][m] = j
          PROVE  entry'[x][m] = j
      BY <2>5, <3>1, <3>2
    <3> QED
      BY <3>1, <3>2, StaysLinked
  <2>7. hurt \subseteq hurt' /\ hurt' \subseteq Ino
    <3>1. {d, i} \in SUBSET Ino /\ (IF how = "commit" THEN {i} ELSE {}) \in SUBSET Ino
      BY <2>2
    <3> QED
      BY <2>1, <3>1, SpoilPlain
  <2> QED
    BY <2>1, <2>3, <2>5, <2>6, <2>7, Types DEF PlainStep, Turns
<1> QED
  BY <1>1, <1>2

LEMMA RmdirPlain ==
  ASSUME TypeOK, NEW d \in Ino, NEW n \in Name, Rmdir(d, n)
  PROVE  PlainStep
<1>1. CASE Fails
  BY <1>1, FailsPlain
<1>2. CASE ~Fails
  <2> PICK i : i = entry[d][n]
    OBVIOUS
  <2> PICK c : c = MarkDirty(core, d)
    OBVIOUS
  <2>1. PICK how \in Outcome :
          /\ entry' = Store(entry, d, n, NoIno, how)
          /\ core' = IF how = "done"
                     THEN [DecLink(DecLink(DecLink(c, i), d), i) EXCEPT ![i].dead = TRUE]
                     ELSE c
          /\ failed' = (how = "prepare")
          /\ Spoil({d, i}, CASE how = "done" -> Emptied(i)
                             [] how = "prepare" -> {}
                             [] how = "commit" -> {d, i})
          /\ UNCHANGED <<imap, raw, dotdot>>
    BY <1>2 DEF Rmdir, disk
  <2>2. i \in Ino
    BY <1>2, Types DEF Rmdir, Found
  <2>3. Turns(core, core') /\ (how = "done" => core'[i].dead)
    <3> DEFINE e == DecLink(DecLink(DecLink(c, i), d), i)
               f == [e EXCEPT ![i].dead = TRUE]
    <3>1. Turns(core, c)
      BY Turn, Types
    <3>2. Turns(core, DecLink(c, i))
      BY <2>2, <3>1, TurnsAgain
    <3>3. Turns(core, DecLink(DecLink(c, i), d))
      BY <3>2, TurnsAgain
    <3>4. Turns(core, e)
      BY <2>2, <3>3, TurnsAgain
    <3>5. e \in [Ino -> Inode]
      BY <3>4 DEF Turns
    <3> HIDE DEF e
    <3>6. Turns(core, f)
      BY <2>2, <3>4, TurnsAgain
    <3>7. f[i].dead
      BY <2>2, <3>5 DEF Inode
    <3>8. core' = IF how = "done" THEN f ELSE c
      BY <2>1 DEF e
    <3> HIDE DEF f
    <3> QED
      BY <3>1, <3>6, <3>7, <3>8
  <2>4. entry \in [Ino -> [Name -> Ino \cup {NoIno}]]
    BY Types
  <2>5. /\ entry' \in [Ino -> [Name -> Ino \cup {NoIno}]]
        /\ \A x \in Ino, m \in Name :
             entry'[x][m] = IF x = d /\ m = n /\ how # "prepare" THEN NoIno ELSE entry[x][m]
    BY <2>1, <2>4, ClearPlain
  <2>6. /\ hurt \subseteq hurt' /\ hurt' \subseteq Ino
        /\ how = "commit" => i \in hurt'
    <3> PICK new : new = CASE how = "done" -> Emptied(i)
                           [] how = "prepare" -> {}
                           [] how = "commit" -> {d, i}
      OBVIOUS
    <3>1. new \in SUBSET Ino /\ (how = "commit" => new = {d, i})
      BY <2>2, ChildrenPlain DEF Outcome
    <3>2. {d, i} \in SUBSET Ino /\ Spoil({d, i}, new)
      BY <2>1, <2>2
    <3> QED
      BY <3>1, <3>2, SpoilPlain
  <2>7. ASSUME NEW j \in Ino \ hurt', Ready(j)'
        PROVE  Ready(j) /\ (Linked(j) => Linked(j)')
    <3>1. Ready(j)
      BY <2>3, <2>7 DEF Turns, Ready
    <3>2. j = i => how = "prepare"
      BY <2>3, <2>6, <2>7 DEF Ready, Outcome
    <3>3. ASSUME NEW x \in Ino, NEW m \in Name, entry[x][m] = j
          PROVE  entry'[x][m] = j
      BY <2>5, <3>2, <3>3
    <3> QED
      BY <3>1, <3>3, StaysLinked
  <2> QED
    BY <2>1, <2>3, <2>5, <2>6, <2>7, Types DEF PlainStep, Turns
<1> QED
  BY <1>1, <1>2

(* The end of rename, once i has an entry in d2 or is spoilt.              *)
Elsewhere(e, c, d, n, spoilt) ==
  \A j \in Ino \ spoilt :
    c[j].phase = "in" /\ c[j].kind = "dir" /\ ~c[j].dead /\ Linked(j)
      => j = Root \/ \E x \in Ino, m \in Name : ~(x = d /\ m = n) /\ e[x][m] = j

LEMMA MoveEntryPlain ==
  ASSUME TypeOK, NEW e \in [Ino -> [Name -> Ino \cup {NoIno}]], NEW c, Turns(core, c),
         NEW d \in Ino, NEW n \in Name, NEW d2 \in Ino, NEW n2 \in Name, NEW i \in Ino,
         NEW spoilt \in SUBSET Ino, NEW lost \in SUBSET Ino,
         MoveEntry(e, c, d, n, d2, i, spoilt, lost),
         Elsewhere(e, c, d, n, spoilt)
  PROVE  PlainStep
<1>1. PICK removed \in {"done", "prepare"}, moved \in {"done", "prepare"} :
        LET dir == core[i].kind = "dir"
            gone == MarkDirty(MarkDirty(c, d), i)
        IN  /\ entry' = Store(e, d, n, NoIno, removed)
            /\ dotdot' = SetDotDot(i, d2, moved)
            /\ core' = IF dir THEN DecLink(gone, d) ELSE gone
            /\ Spoil({d, d2, i} \cup lost,
                     (IF removed = "prepare" THEN {i} ELSE {})
                       \cup (IF dir /\ moved = "prepare" /\ d # d2 THEN {d, d2, i} ELSE {})
                       \cup spoilt)
            /\ failed' = FALSE
            /\ UNCHANGED disk
  BY DEF MoveEntry
<1>2. Turns(c, core')
  <2> DEFINE gone == MarkDirty(MarkDirty(c, d), i)
  <2>1. Turns(c, MarkDirty(c, d))
    BY Turn DEF Turns
  <2>2. Turns(c, gone)
    BY <2>1, TurnsAgain
  <2> HIDE DEF gone
  <2>3. Turns(c, DecLink(gone, d))
    BY <2>2, TurnsAgain
  <2> QED
    BY <1>1, <2>2, <2>3 DEF gone
<1>3. dotdot' \in [Ino -> Ino \cup {NoIno}]
  BY <1>1, Types DEF SetDotDot
<1>4. /\ entry' \in [Ino -> [Name -> Ino \cup {NoIno}]]
      /\ \A x \in Ino, m \in Name :
           entry'[x][m] = IF x = d /\ m = n /\ removed # "prepare" THEN NoIno ELSE e[x][m]
  BY <1>1, ClearPlain
<1>5. hurt \subseteq hurt' /\ hurt' \subseteq Ino /\ spoilt \subseteq hurt'
  <2> PICK new : new = (IF removed = "prepare" THEN {i} ELSE {})
                         \cup (IF core[i].kind = "dir" /\ moved = "prepare" /\ d # d2
                               THEN {d, d2, i} ELSE {})
                         \cup spoilt
    OBVIOUS
  <2>1. new \in SUBSET Ino /\ spoilt \subseteq new
    OBVIOUS
  <2>2. {d, d2, i} \cup lost \in SUBSET Ino /\ Spoil({d, d2, i} \cup lost, new)
    BY <1>1
  <2> QED
    BY <2>1, <2>2, SpoilPlain
<1>6. ASSUME NEW j \in Ino \ hurt', Ready(j)'
      PROVE  Ready(j) /\ (Linked(j) => Linked(j)')
  <2>1. c[j].phase = "in" /\ c[j].kind = "dir" /\ ~c[j].dead
    BY <1>2, <1>6 DEF Turns, Ready
  <2>2. Ready(j)
    BY <2>1 DEF Turns, Ready
  <2>3. ASSUME Linked(j) PROVE Linked(j)'
    <3>1. j = Root \/ \E x \in Ino, m \in Name : ~(x = d /\ m = n) /\ e[x][m] = j
      BY <1>5, <1>6, <2>1, <2>3 DEF Elsewhere
    <3>2. j = Root \/ \E x \in Ino, m \in Name : entry'[x][m] = j
      BY <1>4, <3>1
    <3> QED
      BY <3>2, LinkedBySlot
  <2> QED
    BY <2>2, <2>3
<1>7. raw' = raw /\ imap' = imap
  BY <1>1 DEF disk
<1> QED
  BY <1>1, <1>2, <1>3, <1>4, <1>5, <1>6, <1>7, Types DEF PlainStep, Turns

LEMMA RenamePlain ==
  ASSUME TypeOK, NEW d \in Ino, NEW n \in Name, NEW d2 \in Ino, NEW n2 \in Name,
         Rename(d, n, d2, n2)
  PROVE  PlainStep
<1> PICK i : i = entry[d][n]
  OBVIOUS
<1> PICK j : j = entry[d2][n2]
  OBVIOUS
<1>1. /\ i \in Ino /\ i # j /\ j \in Ino \cup {NoIno}
      /\ j \in Ino => (core[i].kind = "dir") = (core[j].kind = "dir")
      /\ NoIno \notin Ino
      /\ core \in [Ino -> Inode] /\ entry \in [Ino -> [Name -> Ino \cup {NoIno}]]
  BY Types DEF Rename, MayRename, Found
<1>2. ~(d2 = d /\ n2 = n)
  BY <1>1
<1>3. CASE Fails
  BY <1>3, FailsPlain
<1>4. CASE RenameOnto(d, n, d2, n2)
  <2> PICK dropped : dropped = IF core[i].kind = "dir"
                               THEN [DropLink(core, j) EXCEPT ![j].dead = TRUE] ELSE core
    OBVIOUS
  <2> PICK c : c = DecLink(MarkDirty(dropped, d2), j)
    OBVIOUS
  <2>1. j \in Ino
    BY <1>1, <1>4 DEF RenameOnto
  <2>2. PICK set \in {"done", "prepare"} :
          MoveEntry(Store(entry, d2, n2, i, set), c, d, n, d2, i,
                    Emptied(j) \cup (IF set = "prepare" THEN {i, j, d2} ELSE {}), {j})
    BY <1>4, Zenon DEF RenameOnto
  <2> PICK e : e = Store(entry, d2, n2, i, set)
    OBVIOUS
  <2> PICK spoilt : spoilt = Emptied(j) \cup (IF set = "prepare" THEN {i, j, d2} ELSE {})
    OBVIOUS
  <2>3. spoilt \in SUBSET Ino /\ {j} \in SUBSET Ino /\ (set = "prepare" => i \in spoilt /\ j \in spoilt)
    BY <1>1, <2>1, ChildrenPlain
  <2>4. /\ e \in [Ino -> [Name -> Ino \cup {NoIno}]]
        /\ \A x \in Ino, m \in Name :
             e[x][m] = IF x = d2 /\ m = n2 /\ set # "prepare" THEN i ELSE entry[x][m]
    BY <1>1, StorePlain
  <2>5. Turns(core, dropped) /\ (core[i].kind = "dir" => dropped[j].dead)
    <3>1. Turns(core, DropLink(core, j))
      BY <1>1, <2>1, Turn
    <3>2. Turns(core, [DropLink(core, j) EXCEPT ![j].dead = TRUE])
      BY <2>1, <3>1, TurnsAgain
    <3>3. [DropLink(core, j) EXCEPT ![j].dead = TRUE][j].dead
      <4> PICK b : b = DropLink(core, j)
        OBVIOUS
      <4>1. b \in [Ino -> Inode]
        BY <3>1 DEF Turns
      <4> QED
        BY <2>1, <4>1 DEF Inode
    <3>4. Turns(core, core)
      BY <1>1 DEF Turns
    <3> QED
      BY <3>2, <3>3, <3>4
  <2>6. Turns(core, c) /\ Turns(dropped, c)
    <3>1. Turns(core, MarkDirty(dropped, d2)) /\ Turns(dropped, MarkDirty(dropped, d2))
      <4>1. dropped \in [Ino -> Inode]
        BY <2>5 DEF Turns
      <4>2. Turns(dropped, MarkDirty(dropped, d2))
        BY <4>1, Turn
      <4> QED
        BY <2>5, <4>2, TurnsAgain
    <3> QED
      BY <2>1, <3>1, TurnsAgain
  <2>7. ASSUME NEW k \in Ino \ spoilt, c[k].phase = "in", c[k].kind = "dir", ~c[k].dead, Linked(k)
        PROVE  k = Root \/ \E x \in Ino, m \in Name : ~(x = d /\ m = n) /\ e[x][m] = k
    <3>1. CASE k = i
      BY <1>2, <2>3, <2>4, <2>7, <3>1
    <3>2. CASE k # i
      <4>1. k # j
        <5>1. /\ c[j].kind = core[j].kind
              /\ dropped[j].dead => c[j].dead
          BY <2>1, <2>6 DEF Turns
        <5>2. core[j].kind = "dir" => dropped[j].dead
          BY <1>1, <2>1, <2>5
        <5> QED
          BY <2>7, <5>1, <5>2
      <4>2. k = Root \/ \E x \in Ino, m \in Name : entry[x][m] = k
        BY <2>7, LinkedBySlot
      <4> QED
        BY <2>4, <3>2, <4>1, <4>2
    <3> QED
      BY <3>1, <3>2
  <2>8. MoveEntry(e, c, d, n, d2, i, spoilt, {j})
    BY <2>2
  <2>9. i \in Ino /\ spoilt \in SUBSET Ino /\ {j} \in SUBSET Ino
    BY <1>1, <2>3
  <2>10. Elsewhere(e, c, d, n, spoilt)
    BY <2>7, Zenon DEF Elsewhere
  <2> QED
    BY <2>4, <2>6, <2>8, <2>9, <2>10, MoveEntryPlain
<1>5. CASE RenameTo(d, n, d2, n2)
  <2>1. j = NoIno
    BY <1>5 DEF RenameTo
  <2>2. CASE MoveEntry(Store(entry, d2, n2, i, "done"),
                       IF core[i].kind = "dir" THEN IncLink(core, d2) ELSE MarkDirty(core, d2),
                       d, n, d2, i, {}, {})
    <3> PICK c : c = IF core[i].kind = "dir" THEN IncLink(core, d2) ELSE MarkDirty(core, d2)
      OBVIOUS
    <3> PICK e : e = Store(entry, d2, n2, i, "done")
      OBVIOUS
    <3>1. Turns(core, c)
      BY <1>1, Turn
    <3>2. /\ e \in [Ino -> [Name -> Ino \cup {NoIno}]]
          /\ \A x \in Ino, m \in Name : e[x][m] = IF x = d2 /\ m = n2 THEN i ELSE entry[x][m]
      BY <1>1, StorePlain
    <3>3. ASSUME NEW k \in Ino, Linked(k)
          PROVE  k = Root \/ \E x \in Ino, m \in Name : ~(x = d /\ m = n) /\ e[x][m] = k
      <4>1. CASE k = i
        BY <1>2, <3>2, <4>1
      <4>2. CASE k # i
        <5>1. k = Root \/ \E x \in Ino, m \in Name : entry[x][m] = k
          BY <3>3, LinkedBySlot
        <5>2. ASSUME NEW x \in Ino, NEW m \in Name, entry[x][m] = k
              PROVE  ~(x = d /\ m = n) /\ e[x][m] = k
          BY <1>1, <2>1, <3>2, <4>2, <5>2
        <5> QED
          BY <5>1, <5>2
      <4> QED
        BY <4>1, <4>2
    <3>4. {} \in SUBSET Ino /\ i \in Ino /\ MoveEntry(e, c, d, n, d2, i, {}, {})
      BY <1>1, <2>2
    <3>5. Elsewhere(e, c, d, n, {})
      BY <3>3, Zenon DEF Elsewhere
    <3> QED
      BY <3>1, <3>2, <3>4, <3>5, MoveEntryPlain
  <2>3. CASE /\ entry' = Store(entry, d2, n2, i, "commit")
             /\ core' = MarkDirty(core, d2)
             /\ failed' = FALSE
             /\ Spoil({d, d2, i}, {i})
             /\ UNCHANGED <<disk, dotdot>>
    <3>1. Turns(core, core')
      BY <1>1, <2>3, Turn
    <3>2. /\ entry' \in [Ino -> [Name -> Ino \cup {NoIno}]]
          /\ \A x \in Ino, m \in Name : entry'[x][m] = IF x = d2 /\ m = n2 THEN i ELSE entry[x][m]
      <4>1. PICK f : f = Store(entry, d2, n2, i, "commit")
        OBVIOUS
      <4>2. /\ f \in [Ino -> [Name -> Ino \cup {NoIno}]]
            /\ \A x \in Ino, m \in Name :
                 f[x][m] = IF x = d2 /\ m = n2 THEN i ELSE entry[x][m]
        <5>1. /\ entry \in [Ino -> [Name -> Ino \cup {NoIno}]]
              /\ d2 \in Ino /\ n2 \in Name /\ i \in Ino
          BY <1>1
        <5>2. /\ f \in [Ino -> [Name -> Ino \cup {NoIno}]]
              /\ \A x \in Ino, m \in Name :
                   f[x][m] = IF x = d2 /\ m = n2 /\ "commit" # "prepare"
                             THEN i ELSE entry[x][m]
          BY <4>1, <5>1, StorePlain
        <5> QED
          BY <5>2
      <4> QED
        BY <2>3, <4>1, <4>2
    <3>3. ASSUME NEW k \in Ino PROVE (Ready(k)' => Ready(k)) /\ (Linked(k) => Linked(k)')
      <4>1. ASSUME NEW x \in Ino, NEW m \in Name, entry[x][m] = k
            PROVE  entry'[x][m] = k
        BY <1>1, <2>1, <3>2, <4>1
      <4>2. Linked(k) => Linked(k)'
        BY <4>1, StaysLinked
      <4> QED
        BY <3>1, <4>2 DEF Turns, Ready
    <3>4. hurt \subseteq hurt' /\ hurt' \subseteq Ino
      <4>1. {d, d2, i} \in SUBSET Ino /\ {i} \in SUBSET Ino
        BY <1>1
      <4> QED
        BY <2>3, <4>1, SpoilPlain
    <3>5. imap' = imap /\ raw' = raw /\ dotdot' = dotdot
      BY <2>3 DEF disk
    <3> QED
      BY <2>3, <3>1, <3>2, <3>3, <3>4, <3>5, Types DEF PlainStep, Turns
  <2> QED
    BY <1>5, <2>2, <2>3, Zenon DEF RenameTo
<1> QED
  BY <1>3, <1>4, <1>5 DEF Rename

LEMMA CallPlain ==
  ASSUME TypeOK, Call
  PROVE  PlainStep
BY MknodPlain, LinkPlain, MkdirPlain, UnlinkPlain, RmdirPlain, RenamePlain DEF Call

(* Between the calls, and when the file system is mounted: one inode       *)
(* changes, and no directory loses its entry that can be used.             *)
LEMMA OnePlain ==
  ASSUME TypeOK, NEW i \in Ino, NEW r \in Inode, core' = [core EXCEPT ![i] = r],
         r.phase = "in" /\ r.kind = "dir" /\ ~r.dead => Ready(i) \/ Linked(i),
         entry' = entry, dotdot' = dotdot, imap' \subseteq Ino, raw' \in [Ino -> OnDisk],
         hurt \subseteq hurt', hurt' \subseteq Ino, failed' \in BOOLEAN
  PROVE  PlainStep
<1>1. /\ core' \in [Ino -> Inode] /\ core'[i] = r
      /\ \A j \in Ino \ {i} : core'[j] = core[j]
  BY Types
<1>2. \A j \in Ino : Linked(j)' <=> Linked(j)
  BY DEF Linked, Entries
<1>3. \A j \in Ino : Ready(j)' => Ready(j) \/ Linked(j)
  BY <1>1 DEF Ready
<1> QED
  BY <1>1, <1>2, <1>3, Types DEF PlainStep

LEMMA BetweenPlain ==
  ASSUME TypeOK, Between
  PROVE  PlainStep
<1>1. ASSUME NEW d \in Ino, NEW n \in Name, Hold(d, n)
      PROVE  PlainStep
  <2> PICK i : i = entry[d][n]
    OBVIOUS
  <2> PICK r : r = [core[i] EXCEPT !.held = TRUE]
    OBVIOUS
  <2>1. i \in Ino
    BY <1>1, Types DEF Hold, Found
  <2>2. core[i] \in Inode
    BY <2>1, Types
  <2>3. r \in Inode /\ r.phase = core[i].phase /\ r.kind = core[i].kind /\ r.dead = core[i].dead
    BY <2>2 DEF Inode
  <2>4. core' = [core EXCEPT ![i] = r] /\ UNCHANGED <<imap, raw, entry, dotdot, hurt>> /\ failed' = FALSE
    BY <1>1 DEF Hold, Free, disk, tree
  <2> QED
    BY <2>1, <2>3, <2>4, OnePlain, Types DEF Ready
<1>2. ASSUME NEW i \in Ino, Release(i)
      PROVE  PlainStep
  <2> PICK r : r = [core[i] EXCEPT !.held = FALSE]
    OBVIOUS
  <2>1. core[i] \in Inode
    BY Types
  <2>2. r \in Inode /\ r.phase = core[i].phase /\ r.kind = core[i].kind /\ r.dead = core[i].dead
    BY <2>1 DEF Inode
  <2>3. core' = [core EXCEPT ![i] = r] /\ UNCHANGED <<imap, raw, entry, dotdot, hurt>> /\ failed' = FALSE
    BY <1>2 DEF Release, Free, disk, tree
  <2> QED
    BY <2>2, <2>3, OnePlain, Types DEF Ready
<1>3. ASSUME NEW i \in Ino, WriteInode(i)
      PROVE  PlainStep
  <2> PICK r : r = [core[i] EXCEPT !.dirty = FALSE]
    OBVIOUS
  <2>1. core[i] \in Inode
    BY Types
  <2>2. /\ r \in Inode /\ r.phase = core[i].phase /\ r.kind = core[i].kind /\ r.dead = core[i].dead
        /\ [kind |-> core[i].kind, nlink |-> core[i].nlink] \in OnDisk
    BY <2>1 DEF Inode, OnDisk
  <2>3. /\ core' = [core EXCEPT ![i] = r] /\ UNCHANGED <<imap, entry, dotdot, hurt>>
        /\ raw' = [raw EXCEPT ![i] = [kind |-> core[i].kind, nlink |-> core[i].nlink]]
        /\ failed' = FALSE
    BY <1>3 DEF WriteInode, Free, tree
  <2>4. raw' \in [Ino -> OnDisk] /\ imap' \subseteq Ino /\ hurt' \subseteq Ino
    BY <2>2, <2>3, Types
  <2> QED
    BY <2>2, <2>3, <2>4, OnePlain DEF Ready
<1>4. ASSUME NEW i \in Ino, Reclaim(i)
      PROVE  PlainStep
  <2>1. core' = [core EXCEPT ![i] = Out] /\ UNCHANGED <<imap, raw, entry, dotdot, hurt>> /\ failed' = FALSE
    BY <1>4 DEF Reclaim, Free, disk, tree
  <2> QED
    BY <2>1, OnePlain, OutTyped, Types
<1>5. ASSUME NEW d \in Ino, NEW n \in Name, Lookup(d, n)
      PROVE  PlainStep
  <2> PICK i : i = entry[d][n]
    OBVIOUS
  <2> PICK r : r = [Out EXCEPT !.phase = "in", !.kind = raw[i].kind, !.nlink = raw[i].nlink]
    OBVIOUS
  <2>1. i \in Ino /\ Linked(i)
    BY <1>5, Types, LinkedBySlot DEF Lookup
  <2>2. core' = [core EXCEPT ![i] = r] /\ UNCHANGED <<imap, raw, entry, dotdot>> /\ failed' = FALSE
        /\ hurt' = IF i \in imap THEN hurt ELSE Ino
    BY <1>5 DEF Lookup, disk, tree
  <2>3. r \in Inode
    BY <2>1, ReadPlain
  <2> QED
    BY <2>1, <2>2, <2>3, OnePlain, Types
<1>6. ASSUME NEW i \in Ino, Evict(i)
      PROVE  PlainStep
  <2> PICK r : r = [core[i] EXCEPT !.phase = "freeing", !.dirty = FALSE]
    OBVIOUS
  <2>1. core[i] \in Inode
    BY Types
  <2>2. r \in Inode /\ r.phase = "freeing"
    BY <2>1 DEF Inode
  <2>3. /\ core' = [core EXCEPT ![i] = r] /\ UNCHANGED <<imap, raw>> /\ failed' = FALSE
        /\ entry' = [entry EXCEPT ![i] = EmptyDir] /\ dotdot' = [dotdot EXCEPT ![i] = NoIno]
        /\ hurt' = hurt \cup Children(i) \cup (IF Linked(i) THEN {dotdot[i]} \ {NoIno} ELSE {})
    BY <1>6 DEF Evict, disk
  <2>4. core' \in [Ino -> Inode] /\ core'[i] = r /\ \A j \in Ino \ {i} : core'[j] = core[j]
    BY <2>2, <2>3, Types
  <2>5. /\ EmptyDir \in [Name -> Ino \cup {NoIno}]
        /\ entry' \in [Ino -> [Name -> Ino \cup {NoIno}]]
        /\ dotdot' \in [Ino -> Ino \cup {NoIno}]
        /\ \A x \in Ino \ {i} : entry'[x] = entry[x]
    BY <2>3, Types DEF EmptyDir
  <2>6. hurt \subseteq hurt' /\ hurt' \subseteq Ino /\ Children(i) \subseteq hurt'
    BY <2>3, ChildrenPlain, Types
  <2>7. ASSUME NEW j \in Ino \ hurt', Ready(j)'
        PROVE  Ready(j) /\ (Linked(j) => Linked(j)')
    <3>1. Ready(j)
      BY <2>2, <2>4, <2>7 DEF Ready
    <3>2. ASSUME NEW x \in Ino, NEW m \in Name, entry[x][m] = j
          PROVE  entry'[x][m] = j
      <4>1. x = i => j \in Children(i)
        BY <3>2, Types DEF Children
      <4> QED
        BY <2>5, <2>6, <2>7, <3>2, <4>1
    <3> QED
      BY <3>1, <3>2, StaysLinked
  <2> QED
    BY <2>3, <2>4, <2>5, <2>6, <2>7, Types DEF PlainStep
<1>7. ASSUME NEW i \in Ino, ClearInode(i)
      PROVE  PlainStep
  <2> PICK r : r = [core[i] EXCEPT !.phase = "cleared"]
    OBVIOUS
  <2>1. core[i] \in Inode
    BY Types
  <2>2. r \in Inode /\ r.phase = "cleared" /\ Clear \in OnDisk
    BY <2>1, NameiAssumption DEF Inode, OnDisk, Clear, Kinds, Count
  <2>3. /\ core' = [core EXCEPT ![i] = r] /\ UNCHANGED <<imap, entry, dotdot, hurt>>
        /\ raw' = [raw EXCEPT ![i] = Clear] /\ failed' = FALSE
    BY <1>7 DEF ClearInode, Clear, Free, tree
  <2>4. raw' \in [Ino -> OnDisk] /\ imap' \subseteq Ino /\ hurt' \subseteq Ino
    BY <2>2, <2>3, Types
  <2> QED
    BY <2>2, <2>3, <2>4, OnePlain
<1>8. ASSUME NEW i \in Ino, ClearBit(i)
      PROVE  PlainStep
  <2>1. core' = [core EXCEPT ![i] = Out] /\ UNCHANGED <<raw, entry, dotdot, hurt>> /\ failed' = FALSE
        /\ imap' = imap \ {i}
    BY <1>8 DEF ClearBit, Free, tree
  <2> QED
    BY <2>1, OnePlain, OutTyped, Types
<1> QED
  BY <1>1, <1>2, <1>3, <1>4, <1>5, <1>6, <1>7, <1>8 DEF Between

LEMMA MountedPlain ==
  ASSUME MountTypeOK, Rooted, [MountedNext]_fsvars
  PROVE  /\ MountTypeOK' /\ Rooted'
         /\ hurt \subseteq hurt' /\ hurt' \subseteq Ino
<1>1. PlainInv
  BY DEF PlainInv, MountTypeOK
<1>2. /\ PlainStep /\ calls' \in 0 .. MaxCalls
  <2>1. CASE Serve
    BY <1>1, <2>1, CallPlain, BetweenPlain, CallsPlain DEF Serve, Next, PlainInv
  <2>2. CASE WriteSuper \/ RemountReadOnly \/ RemountWritable \/ UNCHANGED fsvars
    <3>1. UNCHANGED <<imap, raw, core, entry, dotdot, calls, hurt>> /\ failed' \in BOOLEAN
      BY <1>1, <2>2, Types DEF WriteSuper, RemountReadOnly, RemountWritable, fsvars, vars, disk, tree,
                               Free, PlainInv
    <3>2. \A j \in Ino : (Ready(j)' <=> Ready(j)) /\ (Linked(j)' <=> Linked(j))
      BY <3>1 DEF Ready, Linked, Entries
    <3> QED
      BY <1>1, <3>1, <3>2, Types DEF PlainInv, PlainStep
  <2>3. ASSUME NEW ro \in BOOLEAN, FillSuper(ro)
        PROVE  PlainStep /\ calls' \in 0 .. MaxCalls
    <3> PICK r : r = [Out EXCEPT !.phase = "in", !.kind = raw[Root].kind, !.nlink = raw[Root].nlink]
      OBVIOUS
    <3>1. /\ core' = [core EXCEPT ![Root] = r] /\ UNCHANGED <<imap, raw, entry, dotdot, hurt, calls>>
          /\ failed' = FALSE
      BY <2>3 DEF FillSuper, Free, disk, tree
    <3>2. r \in Inode /\ Linked(Root) /\ Root \in Ino
      BY <1>1, ReadPlain, Types DEF Linked, PlainInv
    <3> QED
      BY <1>1, <3>1, <3>2, OnePlain, Types DEF PlainInv
  <2>4. CASE PutSuper \/ Crash
    <3>1. /\ core' = [i \in Ino |-> Out] /\ UNCHANGED <<imap, raw, entry, dotdot, calls>>
          /\ hurt' \in {hurt, Ino} /\ failed' = FALSE
      BY <2>4 DEF PutSuper, Crash, Free, disk, tree
    <3>2. core' \in [Ino -> Inode] /\ \A j \in Ino : ~Ready(j)'
      BY <3>1, OutTyped DEF Ready
    <3> QED
      BY <1>1, <3>1, <3>2, Types DEF PlainInv, PlainStep
  <2> QED
    BY <2>1, <2>2, <2>3, <2>4 DEF MountedNext
<1>3. PlainInv'
  BY <1>1, <1>2, PlainStepKeeps
<1>4. MountTypeOK'
  <2>1. /\ {mounted', readonly', s_state', s_ondisk', s_mount_state'} \subseteq BOOLEAN
        /\ crash' \in {"none", "sound", "spoilt", "early", "lost"}
    BY DEF MountTypeOK, MountedNext, Serve, WriteSuper, FillSuper, PutSuper, RemountReadOnly,
           RemountWritable, Crash, super, fsvars
  <2> QED
    BY <1>3, <2>1 DEF MountTypeOK, PlainInv
<1> QED
  BY <1>2, <1>3, <1>4 DEF PlainInv, PlainStep

-----------------------------------------------------------------------------
(* Steps of the calls                                                      *)

(* An inode after some of its links were counted up or down, which is done *)
(* only in core.                                                           *)
Successor(r, s) ==
  /\ r.phase # "in" => s = r
  /\ s.phase = r.phase /\ s.kind = r.kind /\ s.held = r.held
  /\ r.dirty => s.dirty
  /\ s.nlink = r.nlink \/ s.dirty

(* The inodes c have come from b: those in new were made, the others had   *)
(* their links counted.                                                    *)
Grown(b, c, new) ==
  /\ c \in [Ino -> Inode]
  /\ \A i \in Ino \ new : Successor(b[i], c[i])
  /\ \A i \in new : /\ c[i].phase = "in" /\ c[i].kind \in {"file", "dir"}
                    /\ c[i].dirty /\ ~c[i].held

(* The fields of a record that is changed.                                 *)
LEMMA Fields ==
  ASSUME NEW r \in Inode, NEW x \in Count, r.phase = "in"
  PROVE  LET s == [r EXCEPT !.nlink = x]
             t == [r EXCEPT !.nlink = x, !.dirty = TRUE]
             u == [r EXCEPT !.dirty = TRUE]
             v == [r EXCEPT !.dead = TRUE]
         IN  /\ s \in Inode /\ t \in Inode /\ u \in Inode /\ v \in Inode
             /\ Successor(r, t) /\ Successor(r, u) /\ Successor(r, v)
             /\ s.phase = r.phase /\ s.kind = r.kind /\ s.held = r.held
             /\ s.dirty = r.dirty
             /\ t.dirty = TRUE /\ u.dirty = TRUE
             /\ s.nlink = x /\ t.nlink = x /\ u.nlink = r.nlink /\ v.nlink = r.nlink
BY DEF Inode, Successor

LEMMA SuccessorChain ==
  ASSUME NEW r, NEW s, NEW t, Successor(r, s), Successor(s, t)
  PROVE  Successor(r, t)
BY DEF Successor

LEMMA Starts ==
  ASSUME DiskInv
  PROVE  core \in [Ino -> Inode] /\ Grown(core, core, {})
BY DEF DiskInv, TypeOK, Inode, Kinds, Count, Grown, Successor

(* The inodes that are in core stay there.                                 *)
SamePhase(c, e) == \A i \in Ino : e[i].phase = c[i].phase

(* The steps of the calls on an inode that is in core, or was just made.   *)
LEMMA Marks ==
  ASSUME NEW b, NEW c, NEW new \in SUBSET Ino, Grown(b, c, new), NEW i \in Ino,
         c[i].phase = "in"
  PROVE  /\ Grown(b, MarkDirty(c, i), new) /\ SamePhase(c, MarkDirty(c, i))
         /\ Grown(b, IncLink(c, i), new) /\ SamePhase(c, IncLink(c, i))
         /\ Grown(b, DecLink(c, i), new) /\ SamePhase(c, DecLink(c, i))
         /\ Grown(b, [c EXCEPT ![i].dead = TRUE], new)
         /\ SamePhase(c, [c EXCEPT ![i].dead = TRUE])
<1>1. c \in [Ino -> Inode] /\ c[i] \in Inode
  BY DEF Grown
<1>2. c[i].nlink \in Count
  BY <1>1 DEF Inode
<1>3. ASSUME NEW s \in Inode, Successor(c[i], s),
             c[i].dirty => s.dirty
      PROVE  Grown(b, [c EXCEPT ![i] = s], new) /\ SamePhase(c, [c EXCEPT ![i] = s])
  <2> DEFINE e == [c EXCEPT ![i] = s]
  <2>1. e \in [Ino -> Inode] /\ e[i] = s /\ \A j \in Ino : j # i => e[j] = c[j]
    BY <1>1, <1>3
  <2> HIDE DEF e
  <2>2. \A j \in Ino : Successor(c[j], e[j])
    BY <1>3, <2>1 DEF Successor
  <2>3. \A j \in Ino \ new : Successor(b[j], e[j])
    BY <2>2, SuccessorChain DEF Grown
  <2>4. \A j \in new : e[j].phase = "in" /\ e[j].kind \in {"file", "dir"}
                        /\ e[j].dirty /\ ~e[j].held
    BY <2>1, <2>2 DEF Grown, Successor
  <2>5. Grown(b, e, new) /\ SamePhase(c, e)
    BY <2>1, <2>2, <2>3, <2>4 DEF Grown, SamePhase, Successor
  <2> QED
    BY <2>5 DEF e
<1>4. /\ Grown(b, [c EXCEPT ![i] = [c[i] EXCEPT !.dirty = TRUE]], new)
      /\ SamePhase(c, [c EXCEPT ![i] = [c[i] EXCEPT !.dirty = TRUE]])
  BY <1>1, <1>2, <1>3, Fields DEF Successor
<1>5. /\ Grown(b, [c EXCEPT ![i] = [c[i] EXCEPT !.dead = TRUE]], new)
      /\ SamePhase(c, [c EXCEPT ![i] = [c[i] EXCEPT !.dead = TRUE]])
  BY <1>1, <1>2, <1>3, Fields DEF Successor
<1>6. ASSUME NEW x \in Count
      PROVE  /\ Grown(b, [c EXCEPT ![i] = [c[i] EXCEPT !.nlink = x, !.dirty = TRUE]], new)
             /\ SamePhase(c, [c EXCEPT ![i] = [c[i] EXCEPT !.nlink = x, !.dirty = TRUE]])
  BY <1>1, <1>3, <1>6, Fields DEF Successor
<1> QED
  BY <1>1, <1>2, <1>4, <1>5, <1>6, Wraps DEF MarkDirty, IncLink, DecLink

(* minix_new_inode()                                                       *)
LEMMA Made ==
  ASSUME NEW b, NEW c, Grown(b, c, {}), NEW i \in Ino, NEW k \in {"file", "dir"}
  PROVE  /\ Grown(b, NewInode(c, i, k), {i})
         /\ NewInode(c, i, k)[i].phase = "in"
         /\ \A j \in Ino : c[j].phase = "in" => NewInode(c, i, k)[j].phase = "in"
<1> DEFINE r == [Out EXCEPT !.phase = "in", !.kind = k, !.nlink = 1, !.dirty = TRUE]
<1>1. r \in Inode /\ r.phase = "in" /\ r.kind = k /\ r.dirty = TRUE /\ r.held = FALSE
  <2>1. 0 \in Count /\ 1 \in Count /\ k \in Kinds
    BY NameiAssumption DEF Count, Kinds
  <2>2. Out \in Inode /\ Out.held = FALSE
    BY <2>1 DEF Out, Inode, Kinds
  <2> QED
    BY <2>1, <2>2 DEF Inode
<1>2. NewInode(c, i, k) = [c EXCEPT ![i] = r]
  BY DEF NewInode
<1> HIDE DEF r
<1>3. c \in [Ino -> Inode]
  BY DEF Grown
<1>4. /\ NewInode(c, i, k) \in [Ino -> Inode] /\ NewInode(c, i, k)[i] = r
      /\ \A j \in Ino \ {i} : NewInode(c, i, k)[j] = c[j]
  BY <1>1, <1>2, <1>3
<1> QED
  BY <1>1, <1>4 DEF Grown

(* An inode that rename replaces loses a link, if it is a directory two of *)
(* them, the first without a mark.                                         *)
LEMMA Replaced ==
  ASSUME NEW b, NEW c, NEW new \in SUBSET Ino, Grown(b, c, new), NEW j \in Ino,
         c[j].phase = "in", NEW d \in Ino, c[d].phase = "in"
  PROVE  LET dropped == [DropLink(c, j) EXCEPT ![j].dead = TRUE]
             e == DecLink(MarkDirty(dropped, d), j)
         IN  Grown(b, e, new) /\ SamePhase(c, e)
<1>1. c \in [Ino -> Inode] /\ c[j] \in Inode /\ c[d] \in Inode
  BY DEF Grown
<1>2. c[j].nlink \in Count
  BY <1>1 DEF Inode
<1> DEFINE x == (c[j].nlink - 1) % LinkSpace
           r == [c[j] EXCEPT !.nlink = x, !.dead = TRUE]
           dropped == [DropLink(c, j) EXCEPT ![j].dead = TRUE]
           m == MarkDirty(dropped, d)
           e == DecLink(m, j)
<1>3. x \in Count
  BY <1>2, Wraps
<1>4. /\ dropped \in [Ino -> Inode] /\ dropped[j] = r
      /\ \A i \in Ino \ {j} : dropped[i] = c[i]
  <2>1. dropped = [c EXCEPT ![j] = r]
    BY <1>1 DEF DropLink, Inode
  <2>2. r \in Inode
    BY <1>1, <1>3 DEF Inode
  <2> QED
    BY <1>1, <2>1, <2>2
<1>5. /\ r.phase = "in" /\ r.kind = c[j].kind /\ r.held = c[j].held
      /\ r.dirty = c[j].dirty /\ r \in Inode
  BY <1>1, <1>3 DEF Inode
<1> HIDE DEF r, dropped, x
<1>6. /\ m \in [Ino -> Inode]
      /\ m[d] = [dropped[d] EXCEPT !.dirty = TRUE]
      /\ \A i \in Ino \ {d} : m[i] = dropped[i]
  <2>1. [dropped[d] EXCEPT !.dirty = TRUE] \in Inode
    BY <1>4 DEF Inode
  <2> QED
    BY <1>4, <2>1 DEF MarkDirty
<1> HIDE DEF m
<1>7. /\ m[j].phase = "in" /\ m[j].kind = c[j].kind /\ m[j].held = c[j].held
      /\ m[j].nlink \in Count /\ m[j] \in Inode
  BY <1>1, <1>4, <1>5, <1>6 DEF Inode
<1> DEFINE s == [m[j] EXCEPT !.nlink = (m[j].nlink - 1) % LinkSpace, !.dirty = TRUE]
<1>8. /\ s \in Inode /\ s.phase = "in" /\ s.kind = c[j].kind /\ s.held = c[j].held
      /\ s.dirty = TRUE
  BY <1>7, Wraps DEF Inode
<1>9. e = [m EXCEPT ![j] = s]
  BY <1>6, <1>7 DEF DecLink
<1> HIDE DEF s, e
<1>10. /\ e \in [Ino -> Inode] /\ e[j] = s /\ \A i \in Ino \ {j} : e[i] = m[i]
  BY <1>6, <1>8, <1>9
<1>11. \A i \in Ino : Successor(c[i], e[i])
  <2>1. Successor(c[j], e[j])
    BY <1>8, <1>10 DEF Successor
  <2>2. ASSUME d # j PROVE Successor(c[d], e[d])
    BY <1>1, <1>4, <1>6, <1>10, <2>2 DEF Successor, Inode
  <2>3. \A i \in Ino \ {j, d} : Successor(c[i], e[i])
    BY <1>4, <1>6, <1>10 DEF Successor
  <2> QED
    BY <2>1, <2>2, <2>3
<1>12. \A i \in Ino \ new : Successor(b[i], e[i])
  BY <1>11, SuccessorChain DEF Grown
<1>13. \A i \in new : e[i].phase = "in" /\ e[i].kind \in {"file", "dir"}
                      /\ e[i].dirty /\ ~e[i].held
  BY <1>11 DEF Grown, Successor
<1>14. Grown(b, e, new) /\ SamePhase(c, e)
  BY <1>10, <1>11, <1>12, <1>13 DEF Grown, SamePhase, Successor
<1> QED
  BY <1>14 DEF e, m, dropped

-----------------------------------------------------------------------------
(* What a call does to the invariant of the inodes: the numbers in new are *)
(* taken, and ".." changes of what is in core.                             *)
CallShape(new) ==
  /\ new \subseteq Ino \ imap /\ imap' = imap \cup new
  /\ raw' = raw
  /\ Grown(core, core', new)
  /\ Tree(entry')
  /\ dotdot' \in [Ino -> Ino \cup {NoIno}]
  /\ \A i \in Ino : dotdot'[i] # dotdot[i] => core'[i].phase = "in"
  /\ hurt \subseteq hurt' /\ hurt' \subseteq Ino
  /\ failed' \in BOOLEAN

LEMMA CallKeeps ==
  ASSUME DiskInv, NEW new, CallShape(new), calls' \in 0 .. MaxCalls
  PROVE  DiskInv' /\ (Live => Live')
<1> USE DEF CallShape
<1>1. /\ imap \subseteq Ino /\ raw \in [Ino -> OnDisk]
      /\ \A i \in Ino : InodeInv(i)
  BY DEF DiskInv, TypeOK, OnDisk, Kinds, Count
<1>2. TypeOK'
  <2>1. core' \in [Ino -> Inode] /\ entry' \in [Ino -> [Name -> Ino \cup {NoIno}]]
    BY DEF Grown, Tree
  <2> QED
    BY <1>1, <2>1 DEF TypeOK, OnDisk, Inode, Kinds, Count
<1>3. ASSUME NEW i \in Ino \ new
      PROVE  InodeInv(i)'
  <2> DEFINE r == core[i]
             s == core'[i]
  <2>1. Successor(core[i], core'[i]) /\ InodeInv(i)
    BY <1>1, <1>3 DEF Grown
  <2>2. (i \in imap') = (i \in imap) /\ raw'[i] = raw[i]
    BY <1>3
  <2>3. dotdot'[i] # dotdot[i] => core[i].phase = "in"
    BY <2>1 DEF Successor
  <2>4. CASE core[i].phase # "in"
    BY <2>1, <2>2, <2>3, <2>4 DEF Successor, InodeInv
  <2>5. CASE core[i].phase = "in"
    BY <2>1, <2>2, <2>5 DEF Successor, InodeInv
  <2> QED
    BY <2>4, <2>5
<1>4. ASSUME NEW i \in new
      PROVE  InodeInv(i)'
  <2>1. /\ i \in Ino \ imap /\ raw'[i] = Clear /\ i \in imap'
        /\ core'[i].phase = "in" /\ core'[i].dirty /\ core'[i].kind # "none"
    BY <1>1, <1>4 DEF Grown, InodeInv
  <2> QED
    BY <2>1 DEF InodeInv, Clear
<1>5. RootInv'
  <2>1. RootInv /\ Root \in Ino
    BY NameiAssumption DEF DiskInv, Root, Ino
  <2>2. Root \notin new /\ Successor(core[Root], core'[Root])
    BY <2>1 DEF RootInv, Grown
  <2> QED
    BY <2>1, <2>2 DEF RootInv, Successor
<1>6. Live => Live'
  <2> SUFFICES ASSUME Live, NEW i \in imap', core'[i].phase = "out"
               PROVE  raw'[i].kind # "none"
    BY DEF Live
  <2>1. i \in Ino \ new
    BY <1>1 DEF Grown
  <2>2. core[i].phase = "out"
    BY <2>1 DEF Grown, Successor
  <2> QED
    BY <2>1, <2>2 DEF Live
<1> QED
  BY <1>2, <1>3, <1>4, <1>5, <1>6 DEF DiskInv

(* What a call may be given.                                               *)
LEMMA Looked ==
  ASSUME DiskInv, NEW d \in Ino, NEW n \in Name
  PROVE  /\ entry[d][n] \in (Ino \cup {NoIno}) \ {d, Root}
         /\ Ready(d) => core[d].phase = "in" /\ d \in imap
         /\ Found(d, n) => /\ Ready(d) /\ entry[d][n] \in Ino
                           /\ core[entry[d][n]].phase = "in"
         /\ NoIno \notin Ino /\ Root \in Ino /\ Root \in imap
<1>1. Root \in Ino /\ NoIno \notin Ino
  BY NameiAssumption DEF Root, Ino, NoIno
<1>2. entry[d][n] \in (Ino \cup {NoIno}) \ {d, Root}
  BY DEF DiskInv, Tree
<1>3. Ready(d) => core[d].phase = "in" /\ d \in imap
  BY DEF DiskInv, Ready, InodeInv
<1>4. Root \in imap
  BY DEF DiskInv, RootInv
<1> QED
  BY <1>1, <1>2, <1>3, <1>4 DEF Found

LEMMA Stored ==
  ASSUME NEW e, Tree(e), NEW d \in Ino, NEW n \in Name,
         NEW i \in (Ino \cup {NoIno}) \ {d, Root}, NEW how
  PROVE  Tree(Store(e, d, n, i, how))
<1>1. CASE how = "prepare"
  BY <1>1 DEF Store
<1>2. CASE how # "prepare"
  <2> DEFINE f == [e EXCEPT ![d][n] = i]
  <2>1. e \in [Ino -> [Name -> Ino \cup {NoIno}]]
    BY DEF Tree
  <2>2. f \in [Ino -> [Name -> Ino \cup {NoIno}]]
    BY <2>1
  <2>3. \A x \in Ino, m \in Name : f[x][m] = IF x = d /\ m = n THEN i ELSE e[x][m]
    BY <2>1
  <2>4. Store(e, d, n, i, how) = f
    BY <1>2 DEF Store
  <2> HIDE DEF f
  <2> QED
    BY <2>2, <2>3, <2>4 DEF Tree
<1> QED
  BY <1>1, <1>2

LEMMA Spoils ==
  ASSUME DiskInv, NEW S \in SUBSET Ino, NEW new \in SUBSET Ino, Spoil(S, new)
  PROVE  /\ hurt \subseteq hurt' /\ hurt' \subseteq Ino /\ new \subseteq hurt'
         /\ S \cap hurt # {} => S \subseteq hurt' /\ \A i \in S : dotdot[i] \in hurt' \cup {NoIno}
         /\ S \cap hurt = {} => hurt' = hurt \cup new
<1>1. hurt \subseteq Ino /\ dotdot \in [Ino -> Ino \cup {NoIno}]
  BY DEF DiskInv, TypeOK
<1>2. {dotdot[i] : i \in S} \subseteq Ino \cup {NoIno}
  BY <1>1
<1>3. S \subseteq Ino /\ new \subseteq Ino /\ NoIno \notin Ino
  BY DEF Ino, NoIno
<1> DEFINE D == {dotdot[i] : i \in S}
<1>4. \A i \in S : dotdot[i] \in D
  OBVIOUS
<1> HIDE DEF D
<1>5. hurt' = hurt \cup new \cup (IF S \cap hurt # {} THEN (S \cup D) \ {NoIno} ELSE {})
  BY DEF Spoil, D
<1>6. D \subseteq Ino \cup {NoIno}
  BY <1>2 DEF D
<1> QED
  BY <1>1, <1>3, <1>4, <1>5, <1>6

LEMMA EmptiedTyped ==
  ASSUME DiskInv, NEW d \in Ino
  PROVE  Emptied(d) \subseteq Ino /\ Children(d) \subseteq Ino
<1>1. \A n \in Name : entry[d][n] \in Ino \cup {NoIno}
  BY DEF DiskInv, Tree
<1> QED
  BY <1>1 DEF Emptied, Children

LEMMA FailsShape ==
  ASSUME DiskInv, Fails
  PROVE  CallShape({})
BY Starts DEF Fails, CallShape, disk, tree, DiskInv, TypeOK

LEMMA AddNondirShape ==
  ASSUME DiskInv, NEW c, NEW new \in SUBSET Ino, Grown(core, c, new),
         NEW d \in Ino, NEW n \in Name, NEW i \in Ino, i \notin {d, Root},
         c[d].phase = "in", c[i].phase = "in", AddNondir(c, d, n, i)
  PROVE  /\ Grown(core, core', new) /\ Tree(entry') /\ raw' = raw /\ dotdot' = dotdot
         /\ hurt \subseteq hurt' /\ hurt' \subseteq Ino /\ failed' \in BOOLEAN
<1>1. PICK how \in Outcome :
        /\ entry' = Store(entry, d, n, i, how)
        /\ \/ how = "done"    /\ core' = MarkDirty(c, d)
           \/ how = "prepare" /\ core' = DecLink(c, i)
           \/ how = "commit"  /\ core' = DecLink(MarkDirty(c, d), i)
        /\ failed' = (how = "prepare")
        /\ Spoil({d, i}, IF how = "commit" THEN {i} ELSE {})
        /\ UNCHANGED <<raw, dotdot>>
  BY DEF AddNondir
<1>2. Tree(entry')
  BY <1>1, Stored DEF DiskInv
<1>3. Grown(core, core', new)
  <2>1. /\ Grown(core, MarkDirty(c, d), new) /\ Grown(core, DecLink(c, i), new)
        /\ SamePhase(c, MarkDirty(c, d))
    BY Marks
  <2>2. MarkDirty(c, d)[i].phase = "in"
    BY <2>1 DEF SamePhase
  <2>3. Grown(core, DecLink(MarkDirty(c, d), i), new)
    BY <2>1, <2>2, Marks
  <2> QED
    BY <1>1, <2>1, <2>3
<1>4. hurt \subseteq hurt' /\ hurt' \subseteq Ino
  <2>1. {d, i} \in SUBSET Ino /\ (IF how = "commit" THEN {i} ELSE {}) \in SUBSET Ino
    OBVIOUS
  <2> QED
    BY <1>1, <2>1, Spoils
<1> QED
  BY <1>1, <1>2, <1>3, <1>4

LEMMA MknodShape ==
  ASSUME DiskInv, NEW d \in Ino, NEW n \in Name, Mknod(d, n) \/ Symlink(d, n)
  PROVE  \E new : CallShape(new)
<1>1. CASE Fails
  BY <1>1, FailsShape
<1>2. CASE ~Fails
  <2> DEFINE i == FirstZero
             c == NewInode(core, i, "file")
  <2>1. Vacant(d, n) /\ Unused # {} /\ imap' = imap \cup {i}
    BY <1>2 DEF Mknod, Symlink
  <2>2. \/ AddNondir(c, d, n, i)
        \/ core' = DecLink(c, i) /\ failed' = TRUE /\ UNCHANGED <<raw, tree, hurt>>
    BY <1>2 DEF Mknod, Symlink
  <2>3. i \in Ino \ imap /\ core[d].phase = "in" /\ d \in imap /\ Root \in imap
    BY <2>1, FirstZeroUnused, Looked DEF Vacant
  <2> HIDE DEF i
  <2>4. Grown(core, c, {i}) /\ c[i].phase = "in" /\ c[d].phase = "in"
    <3>1. Grown(core, core, {}) /\ i \in Ino /\ d \in Ino
      BY <2>3, Starts
    <3>2. /\ Grown(core, c, {i}) /\ c[i].phase = "in"
          /\ \A j \in Ino : core[j].phase = "in" => c[j].phase = "in"
      BY <3>1, Made
    <3> QED
      BY <2>3, <3>1, <3>2
  <2> HIDE DEF c
  <2>5. i \notin {d, Root} /\ {i} \in SUBSET Ino
    BY <2>3
  <2>6. dotdot \in [Ino -> Ino \cup {NoIno}] /\ hurt \subseteq Ino /\ Tree(entry)
    BY DEF DiskInv, TypeOK
  <2>7. CASE AddNondir(c, d, n, i)
    <3>1. /\ Grown(core, core', {i}) /\ Tree(entry') /\ raw' = raw /\ dotdot' = dotdot
          /\ hurt \subseteq hurt' /\ hurt' \subseteq Ino /\ failed' \in BOOLEAN
      BY <2>3, <2>4, <2>5, <2>7, AddNondirShape
    <3>2. CallShape({i})
      BY <2>1, <2>3, <2>6, <3>1 DEF CallShape
    <3> QED
      BY <3>2
  <2>8. CASE core' = DecLink(c, i) /\ failed' = TRUE /\ UNCHANGED <<raw, tree, hurt>>
    <3>1. Grown(core, core', {i})
      BY <2>3, <2>4, <2>5, <2>8, Marks
    <3>2. CallShape({i})
      BY <2>1, <2>3, <2>6, <2>8, <3>1 DEF CallShape, tree
    <3> QED
      BY <3>2
  <2> QED
    BY <2>2, <2>7, <2>8
<1> QED
  BY <1>1, <1>2

LEMMA LinkShape ==
  ASSUME DiskInv, NEW d \in Ino, NEW n \in Name, NEW i \in Ino, Link(i, d, n)
  PROVE  CallShape({})
<1>1. CASE Fails
  BY <1>1, FailsShape
<1>2. CASE ~Fails
  <2>1. /\ Vacant(d, n) /\ core[i].phase = "in" /\ core[i].kind # "dir"
        /\ AddNondir(IncLink(core, i), d, n, i) /\ imap' = imap
    BY <1>2 DEF Link
  <2>2. core[d].phase = "in" /\ core[d].kind = "dir" /\ RootInv
    BY <2>1, Looked DEF Vacant, Ready, DiskInv
  <2>3. i \notin {d, Root} /\ {} \in SUBSET Ino
    BY <2>1, <2>2 DEF RootInv
  <2>4. Grown(core, IncLink(core, i), {}) /\ SamePhase(core, IncLink(core, i))
    BY <2>1, Starts, Marks
  <2>5. /\ Grown(core, core', {}) /\ Tree(entry') /\ raw' = raw /\ dotdot' = dotdot
        /\ hurt \subseteq hurt' /\ hurt' \subseteq Ino /\ failed' \in BOOLEAN
    <3>1. IncLink(core, i)[i].phase = "in" /\ IncLink(core, i)[d].phase = "in"
      BY <2>1, <2>2, <2>4 DEF SamePhase
    <3> QED
      BY <2>1, <2>3, <2>4, <3>1, AddNondirShape
  <2> QED
    BY <2>1, <2>5 DEF CallShape, DiskInv, TypeOK
<1> QED
  BY <1>1, <1>2

LEMMA MadeDirShape ==
  ASSUME DiskInv, NEW d \in Ino, NEW i \in Ino, core[d].phase = "in"
  PROVE  /\ Grown(core, MarkDirty(MadeDir(d, i), d), {i})
         /\ Grown(core, UndoneDir(d, i), {i})
<1> DEFINE a == IncLink(core, d)
           b == NewInode(a, i, "dir")
           c == MadeDir(d, i)
           x == DecLink(c, i)
           y == DecLink(x, i)
           z == [y EXCEPT ![i].dead = TRUE]
<1>1. {} \in SUBSET Ino /\ {i} \in SUBSET Ino
  OBVIOUS
<1>2. Grown(core, a, {}) /\ SamePhase(core, a)
  BY <1>1, Starts, Marks
<1> HIDE DEF a
<1>3. /\ Grown(core, b, {i}) /\ b[i].phase = "in"
      /\ \A j \in Ino : a[j].phase = "in" => b[j].phase = "in"
  BY <1>2, Made
<1>4. b[d].phase = "in"
  BY <1>2, <1>3 DEF SamePhase
<1> HIDE DEF b
<1>5. Grown(core, IncLink(b, i), {i}) /\ SamePhase(b, IncLink(b, i))
  BY <1>1, <1>3, Marks
<1>6. c = IncLink(b, i)
  BY DEF MadeDir, a, b
<1> HIDE DEF c
<1>7. c[i].phase = "in" /\ c[d].phase = "in"
  BY <1>3, <1>4, <1>5, <1>6 DEF SamePhase
<1>8. Grown(core, x, {i}) /\ SamePhase(c, x)
  BY <1>1, <1>5, <1>7, <1>6, Marks
<1> HIDE DEF x
<1>9. x[i].phase = "in" /\ x[d].phase = "in"
  BY <1>7, <1>8 DEF SamePhase
<1>10. Grown(core, y, {i}) /\ SamePhase(x, y)
  BY <1>1, <1>8, <1>9, Marks
<1> HIDE DEF y
<1>11. y[d].phase = "in" /\ y[i].phase = "in"
  BY <1>9, <1>10 DEF SamePhase
<1>12. Grown(core, z, {i}) /\ SamePhase(y, z)
  BY <1>1, <1>10, <1>11, Marks
<1>13. UndoneDir(d, i) = DecLink(z, d)
  BY DEF UndoneDir, DroppedDir, x, y, z, c
<1> HIDE DEF z
<1>14. z[d].phase = "in"
  BY <1>11, <1>12 DEF SamePhase
<1>15. Grown(core, MarkDirty(c, d), {i}) /\ Grown(core, DecLink(z, d), {i})
  BY <1>1, <1>5, <1>6, <1>7, <1>12, <1>14, Marks
<1> QED
  BY <1>13, <1>15 DEF c

LEMMA MkdirShape ==
  ASSUME DiskInv, NEW d \in Ino, NEW n \in Name, Mkdir(d, n)
  PROVE  \E new : CallShape(new)
<1>1. Vacant(d, n) /\ core[d].phase = "in" /\ d \in imap /\ Root \in imap
  BY Looked DEF Mkdir, Vacant
<1>2. dotdot \in [Ino -> Ino \cup {NoIno}] /\ hurt \subseteq Ino /\ Tree(entry)
  BY DEF DiskInv, TypeOK
<1>3. CASE Fails
  BY <1>3, FailsShape
<1>4. CASE core' = DecLink(IncLink(core, d), d) /\ failed' = TRUE
           /\ UNCHANGED <<disk, tree, hurt>>
  <2>1. Grown(core, IncLink(core, d), {}) /\ IncLink(core, d)[d].phase = "in"
    BY <1>1, Starts, Marks DEF SamePhase
  <2>2. Grown(core, core', {})
    BY <1>4, <2>1, Marks
  <2>3. CallShape({})
    BY <1>2, <1>4, <2>2 DEF CallShape, disk, tree
  <2> QED
    BY <2>3
<1>5. CASE ~Fails /\ ~(core' = DecLink(IncLink(core, d), d) /\ failed' = TRUE
                       /\ UNCHANGED <<disk, tree, hurt>>)
  <2> DEFINE i == FirstZero
  <2>1. Unused # {} /\ imap' = imap \cup {i} /\ raw' = raw
    BY <1>5 DEF Mkdir
  <2>2. \/ core' = UndoneDir(d, i) /\ failed' = TRUE /\ UNCHANGED <<tree, hurt>>
        \/ \E how \in Outcome :
             /\ dotdot' = [dotdot EXCEPT ![i] = d]
             /\ entry' = Store(entry, d, n, i, how)
             /\ core' = IF how = "done" THEN MarkDirty(MadeDir(d, i), d)
                        ELSE UndoneDir(d, i)
             /\ failed' = (how = "prepare")
             /\ Spoil({d, i}, IF how = "commit" THEN {d, i} ELSE {})
    BY <1>5 DEF Mkdir
  <2>3. i \in Ino \ imap
    BY <2>1, FirstZeroUnused
  <2> HIDE DEF i
  <2>4. i \notin {d, Root}
    BY <1>1, <2>3
  <2>5. Grown(core, MarkDirty(MadeDir(d, i), d), {i}) /\ Grown(core, UndoneDir(d, i), {i})
    BY <1>1, <2>3, MadeDirShape
  <2>6. Grown(core, core', {i}) /\ failed' \in BOOLEAN
    BY <2>2, <2>5
  <2>7. core'[i].phase = "in"
    BY <2>6 DEF Grown
  <2>8. /\ dotdot' \in [Ino -> Ino \cup {NoIno}]
        /\ \A j \in Ino : dotdot'[j] # dotdot[j] => j = i
    <3>1. /\ [dotdot EXCEPT ![i] = d] \in [Ino -> Ino \cup {NoIno}]
          /\ \A j \in Ino : j # i => [dotdot EXCEPT ![i] = d][j] = dotdot[j]
      BY <1>2, <2>3
    <3>2. dotdot' = dotdot \/ dotdot' = [dotdot EXCEPT ![i] = d]
      BY <2>2 DEF tree
    <3> QED
      BY <1>2, <3>1, <3>2
  <2>9. Tree(entry')
    BY <1>2, <2>2, <2>3, <2>4, Stored DEF tree
  <2>10. hurt \subseteq hurt' /\ hurt' \subseteq Ino
    <3>1. CASE hurt' = hurt
      BY <1>2, <3>1
    <3>2. CASE \E how \in Outcome : Spoil({d, i}, IF how = "commit" THEN {d, i} ELSE {})
      <4>1. PICK how \in Outcome : Spoil({d, i}, IF how = "commit" THEN {d, i} ELSE {})
        BY <3>2
      <4>2. {d, i} \in SUBSET Ino /\ (IF how = "commit" THEN {d, i} ELSE {}) \in SUBSET Ino
        BY <2>3
      <4> QED
        BY <4>1, <4>2, Spoils
    <3> QED
      BY <2>2, <3>1, <3>2
  <2>11. CallShape({i})
    BY <2>1, <2>3, <2>6, <2>7, <2>8, <2>9, <2>10 DEF CallShape
  <2> QED
    BY <2>11
<1> QED
  BY <1>3, <1>4, <1>5

LEMMA UnlinkShape ==
  ASSUME DiskInv, NEW d \in Ino, NEW n \in Name, Unlink(d, n)
  PROVE  CallShape({})
<1>1. CASE Fails
  BY <1>1, FailsShape
<1>2. CASE ~Fails
  <2> DEFINE i == entry[d][n]
             c == MarkDirty(core, d)
  <2>1. Found(d, n) /\ UNCHANGED <<disk, dotdot>>
    BY <1>2 DEF Unlink
  <2>2. PICK how \in Outcome :
          /\ entry' = Store(entry, d, n, NoIno, how)
          /\ core' = IF how = "done" THEN DecLink(c, i) ELSE c
          /\ failed' = (how = "prepare")
          /\ Spoil({d, i}, IF how = "commit" THEN {i} ELSE {})
    BY <1>2 DEF Unlink
  <2>3. /\ i \in Ino /\ core[i].phase = "in" /\ core[d].phase = "in"
        /\ NoIno \in (Ino \cup {NoIno}) \ {d, Root}
    BY <2>1, Looked
  <2> HIDE DEF i
  <2>4. Grown(core, c, {}) /\ SamePhase(core, c)
    BY <2>3, Starts, Marks
  <2> HIDE DEF c
  <2>5. c[i].phase = "in"
    BY <2>3, <2>4 DEF SamePhase
  <2>6. Grown(core, core', {})
    BY <2>2, <2>3, <2>4, <2>5, Marks
  <2>7. Tree(entry')
    BY <2>2, <2>3, Stored DEF DiskInv
  <2>8. hurt \subseteq hurt' /\ hurt' \subseteq Ino
    <3>1. {d, i} \in SUBSET Ino /\ (IF how = "commit" THEN {i} ELSE {}) \in SUBSET Ino
      BY <2>3
    <3> QED
      BY <2>2, <3>1, Spoils
  <2> QED
    BY <2>1, <2>2, <2>6, <2>7, <2>8 DEF CallShape, DiskInv, TypeOK, disk
<1> QED
  BY <1>1, <1>2

LEMMA RmdirShape ==
  ASSUME DiskInv, NEW d \in Ino, NEW n \in Name, Rmdir(d, n)
  PROVE  CallShape({})
<1>1. CASE Fails
  BY <1>1, FailsShape
<1>2. CASE ~Fails
  <2> DEFINE i == entry[d][n]
             c == MarkDirty(core, d)
             x == DecLink(c, i)
             y == DecLink(x, d)
             z == DecLink(y, i)
  <2>1. Found(d, n) /\ UNCHANGED <<disk, dotdot>>
    BY <1>2 DEF Rmdir
  <2>2. PICK how \in Outcome :
          /\ entry' = Store(entry, d, n, NoIno, how)
          /\ core' = IF how = "done" THEN [z EXCEPT ![i].dead = TRUE] ELSE c
          /\ failed' = (how = "prepare")
          /\ Spoil({d, i}, CASE how = "done" -> Emptied(i)
                             [] how = "prepare" -> {}
                             [] how = "commit" -> {d, i})
    BY <1>2 DEF Rmdir
  <2>3. /\ i \in Ino /\ core[i].phase = "in" /\ core[d].phase = "in"
        /\ NoIno \in (Ino \cup {NoIno}) \ {d, Root}
    BY <2>1, Looked
  <2> HIDE DEF i
  <2>4. Grown(core, c, {}) /\ SamePhase(core, c)
    BY <2>3, Starts, Marks
  <2> HIDE DEF c
  <2>5. c[i].phase = "in" /\ c[d].phase = "in"
    BY <2>3, <2>4 DEF SamePhase
  <2>6. Grown(core, x, {}) /\ SamePhase(c, x)
    BY <2>3, <2>4, <2>5, Marks
  <2> HIDE DEF x
  <2>7. x[i].phase = "in" /\ x[d].phase = "in"
    BY <2>3, <2>5, <2>6 DEF SamePhase
  <2>8. Grown(core, y, {}) /\ SamePhase(x, y)
    BY <2>3, <2>6, <2>7, Marks
  <2> HIDE DEF y
  <2>9. y[i].phase = "in"
    BY <2>3, <2>7, <2>8 DEF SamePhase
  <2>10. Grown(core, z, {}) /\ SamePhase(y, z)
    BY <2>3, <2>8, <2>9, Marks
  <2> HIDE DEF z
  <2>11. z[i].phase = "in"
    BY <2>3, <2>9, <2>10 DEF SamePhase
  <2>12. Grown(core, [z EXCEPT ![i].dead = TRUE], {})
    BY <2>3, <2>10, <2>11, Marks
  <2>13. Grown(core, core', {})
    BY <2>2, <2>4, <2>12
  <2>14. Tree(entry')
    BY <2>2, <2>3, Stored DEF DiskInv
  <2>15. hurt \subseteq hurt' /\ hurt' \subseteq Ino
    <3> DEFINE new == CASE how = "done" -> Emptied(i)
                        [] how = "prepare" -> {}
                        [] how = "commit" -> {d, i}
    <3>1. {d, i} \in SUBSET Ino /\ new \in SUBSET Ino
      BY <2>2, <2>3, EmptiedTyped DEF Outcome
    <3> QED
      BY <2>2, <3>1, Spoils
  <2> QED
    BY <2>1, <2>2, <2>13, <2>14, <2>15 DEF CallShape, DiskInv, TypeOK, disk
<1> QED
  BY <1>1, <1>2

LEMMA MoveEntryShape ==
  ASSUME DiskInv, NEW e, Tree(e), NEW c, Grown(core, c, {}), SamePhase(core, c),
         NEW d \in Ino, NEW n \in Name, NEW d2 \in Ino, NEW i \in Ino,
         core[d].phase = "in", core[i].phase = "in",
         NEW spoilt \in SUBSET Ino, NEW lost \in SUBSET Ino,
         MoveEntry(e, c, d, n, d2, i, spoilt, lost)
  PROVE  CallShape({})
<1> DEFINE dir == core[i].kind = "dir"
           a == MarkDirty(c, d)
           gone == MarkDirty(a, i)
<1>1. PICK removed \in {"done", "prepare"}, moved \in {"done", "prepare"} :
        /\ entry' = Store(e, d, n, NoIno, removed)
        /\ dotdot' = SetDotDot(i, d2, moved)
        /\ core' = IF dir THEN DecLink(gone, d) ELSE gone
        /\ Spoil({d, d2, i} \cup lost,
                 (IF removed = "prepare" THEN {i} ELSE {})
                   \cup (IF dir /\ moved = "prepare" /\ d # d2 THEN {d, d2, i} ELSE {})
                   \cup spoilt)
        /\ failed' = FALSE
        /\ UNCHANGED disk
  BY DEF MoveEntry
<1>2. c[d].phase = "in" /\ c[i].phase = "in" /\ {} \in SUBSET Ino
  BY DEF SamePhase
<1>3. Grown(core, a, {}) /\ SamePhase(c, a)
  BY <1>2, Marks
<1> HIDE DEF a
<1>4. a[d].phase = "in" /\ a[i].phase = "in"
  BY <1>2, <1>3 DEF SamePhase
<1>5. Grown(core, gone, {}) /\ SamePhase(a, gone)
  BY <1>2, <1>3, <1>4, Marks
<1> HIDE DEF gone
<1>6. gone[d].phase = "in"
  BY <1>4, <1>5 DEF SamePhase
<1>7. Grown(core, DecLink(gone, d), {})
  BY <1>2, <1>5, <1>6, Marks
<1>8. Grown(core, core', {})
  BY <1>1, <1>5, <1>7
<1>9. Tree(entry')
  <2>1. NoIno \in (Ino \cup {NoIno}) \ {d, Root}
    BY Looked
  <2> QED
    BY <1>1, <2>1, Stored
<1>10. /\ dotdot' \in [Ino -> Ino \cup {NoIno}]
       /\ \A j \in Ino : dotdot'[j] # dotdot[j] => j = i
  <2>1. dotdot \in [Ino -> Ino \cup {NoIno}]
    BY DEF DiskInv, TypeOK
  <2>2. /\ [dotdot EXCEPT ![i] = d2] \in [Ino -> Ino \cup {NoIno}]
        /\ \A j \in Ino : j # i => [dotdot EXCEPT ![i] = d2][j] = dotdot[j]
    BY <2>1
  <2>3. dotdot' = dotdot \/ dotdot' = [dotdot EXCEPT ![i] = d2]
    BY <1>1 DEF SetDotDot
  <2> QED
    BY <2>1, <2>2, <2>3
<1>11. core'[i].phase = "in"
  BY <1>8 DEF Grown, Successor
<1>12. hurt \subseteq hurt' /\ hurt' \subseteq Ino
  <2> DEFINE S == {d, d2, i} \cup lost
             new == (IF removed = "prepare" THEN {i} ELSE {})
                      \cup (IF dir /\ moved = "prepare" /\ d # d2 THEN {d, d2, i} ELSE {})
                      \cup spoilt
  <2>1. S \in SUBSET Ino /\ new \in SUBSET Ino
    OBVIOUS
  <2>2. Spoil(S, new)
    BY <1>1
  <2> HIDE DEF S, new
  <2> QED
    BY <2>1, <2>2, Spoils
<1> QED
  BY <1>1, <1>8, <1>9, <1>10, <1>11, <1>12 DEF CallShape, disk, DiskInv, TypeOK

LEMMA RenameShape ==
  ASSUME DiskInv, NEW d \in Ino, NEW n \in Name, NEW d2 \in Ino, NEW n2 \in Name,
         Rename(d, n, d2, n2)
  PROVE  CallShape({})
<1> DEFINE i == entry[d][n]
           j == entry[d2][n2]
           dir == core[i].kind = "dir"
<1>1. /\ MayRename(d, n, d2, n2)
      /\ Fails \/ RenameOnto(d, n, d2, n2) \/ RenameTo(d, n, d2, n2)
  BY DEF Rename
<1>2. /\ Found(d, n) /\ (Found(d2, n2) \/ Vacant(d2, n2))
      /\ core[i].kind = "dir" => d2 # i
  BY <1>1 DEF MayRename
<1>3. /\ i \in Ino /\ i # Root /\ core[i].phase = "in" /\ core[d].phase = "in"
      /\ core[d2].phase = "in" /\ core[d2].kind = "dir"
  BY <1>2, Looked DEF Vacant, Ready
<1>4. i \in (Ino \cup {NoIno}) \ {d2, Root}
  BY <1>2, <1>3
<1>5. Tree(Store(entry, d2, n2, i, "done")) /\ Tree(Store(entry, d2, n2, i, "commit"))
      /\ Tree(Store(entry, d2, n2, i, "prepare"))
  BY <1>4, Stored DEF DiskInv
<1>6. {} \in SUBSET Ino /\ Grown(core, core, {})
  BY Starts
<1>7. CASE Fails
  BY <1>7, FailsShape
<1>8. CASE RenameOnto(d, n, d2, n2)
  <2> DEFINE dropped == IF dir THEN [DropLink(core, j) EXCEPT ![j].dead = TRUE] ELSE core
             c == DecLink(MarkDirty(dropped, d2), j)
  <2>1. PICK set \in {"done", "prepare"} :
          MoveEntry(Store(entry, d2, n2, i, set), c,
                    d, n, d2, i,
                    Emptied(j) \cup (IF set = "prepare" THEN {i, j, d2} ELSE {}), {j})
    BY <1>8 DEF RenameOnto
  <2>2. j # NoIno
    BY <1>8 DEF RenameOnto
  <2>3. j \in Ino /\ core[j].phase = "in"
    BY <1>2, <2>2, Looked DEF Vacant
  <2>4. Grown(core, c, {}) /\ SamePhase(core, c)
    <3>1. CASE dir
      <4>1. c = DecLink(MarkDirty([DropLink(core, j) EXCEPT ![j].dead = TRUE], d2), j)
        BY <3>1
      <4> QED
        BY <1>3, <1>6, <2>3, <4>1, Replaced
    <3>2. CASE ~dir
      <4>1. Grown(core, MarkDirty(core, d2), {}) /\ SamePhase(core, MarkDirty(core, d2))
        BY <1>3, <1>6, Marks
      <4>2. MarkDirty(core, d2)[j].phase = "in"
        BY <2>3, <4>1 DEF SamePhase
      <4>3. Grown(core, DecLink(MarkDirty(core, d2), j), {})
            /\ SamePhase(MarkDirty(core, d2), DecLink(MarkDirty(core, d2), j))
        BY <1>6, <2>3, <4>1, <4>2, Marks
      <4>4. SamePhase(core, DecLink(MarkDirty(core, d2), j))
        BY <4>1, <4>3 DEF SamePhase
      <4>5. c = DecLink(MarkDirty(core, d2), j)
        BY <3>2
      <4> QED
        BY <4>3, <4>4, <4>5
    <3> QED
      BY <3>1, <3>2
  <2> DEFINE e == Store(entry, d2, n2, i, set)
             spoilt == Emptied(j) \cup (IF set = "prepare" THEN {i, j, d2} ELSE {})
  <2>5. spoilt \in SUBSET Ino /\ {j} \in SUBSET Ino
    BY <1>3, <2>3, EmptiedTyped
  <2>6. Tree(e)
    BY <1>5
  <2>7. MoveEntry(e, c, d, n, d2, i, spoilt, {j})
    BY <2>1
  <2> HIDE DEF e, c, spoilt, i, j
  <2> QED
    BY <1>3, <2>4, <2>5, <2>6, <2>7, MoveEntryShape
<1>9. CASE RenameTo(d, n, d2, n2)
  <2> DEFINE e == Store(entry, d2, n2, i, "done")
             c == IF dir THEN IncLink(core, d2) ELSE MarkDirty(core, d2)
  <2>1. \/ MoveEntry(e, c, d, n, d2, i, {}, {})
        \/ /\ entry' = Store(entry, d2, n2, i, "commit")
           /\ core' = MarkDirty(core, d2)
           /\ failed' = FALSE
           /\ Spoil({d, d2, i}, {i})
           /\ UNCHANGED <<disk, dotdot>>
    BY <1>9 DEF RenameTo
  <2>2. Grown(core, c, {}) /\ SamePhase(core, c) /\ Grown(core, MarkDirty(core, d2), {})
    BY <1>3, <1>6, Marks
  <2>3. CASE MoveEntry(e, c, d, n, d2, i, {}, {})
    <3>1. Tree(e)
      BY <1>5
    <3> HIDE DEF e, c, i
    <3> QED
      BY <1>3, <1>6, <2>2, <2>3, <3>1, MoveEntryShape
  <2>4. CASE /\ entry' = Store(entry, d2, n2, i, "commit")
             /\ core' = MarkDirty(core, d2)
             /\ failed' = FALSE
             /\ Spoil({d, d2, i}, {i})
             /\ UNCHANGED <<disk, dotdot>>
    <3>1. {d, d2, i} \in SUBSET Ino /\ {i} \in SUBSET Ino
      BY <1>3
    <3>2. hurt \subseteq hurt' /\ hurt' \subseteq Ino
      BY <2>4, <3>1, Spoils
    <3> QED
      BY <1>5, <2>2, <2>4, <3>2 DEF CallShape, disk, DiskInv, TypeOK
  <2> QED
    BY <2>1, <2>3, <2>4
<1> QED
  BY <1>1, <1>7, <1>8, <1>9

LEMMA CallStep ==
  ASSUME DiskInv, Call
  PROVE  DiskInv' /\ (Live => Live')
<1>1. PICK d \in Ino, n \in Name :
       \/ Mknod(d, n) \/ Symlink(d, n) \/ Mkdir(d, n) \/ Unlink(d, n) \/ Rmdir(d, n)
       \/ \E i \in Ino : Link(i, d, n)
       \/ \E d2 \in Ino, n2 \in Name : Rename(d, n, d2, n2)
  BY DEF Call
<1>2. \E new : CallShape(new)
  BY <1>1, MknodShape, MkdirShape, UnlinkShape, RmdirShape, LinkShape, RenameShape
<1>3. calls' \in 0 .. MaxCalls
  BY NameiAssumption DEF Call, DiskInv, TypeOK
<1> QED
  BY <1>2, <1>3, CallKeeps

-----------------------------------------------------------------------------
(* Steps between the calls: each is one of one inode.                      *)

LEMMA OneInode ==
  ASSUME DiskInv, NEW i \in Ino,
         NEW s \in Inode, core' = [core EXCEPT ![i] = s],
         NEW r \in OnDisk, raw' = [raw EXCEPT ![i] = r],
         imap' \subseteq Ino, imap' \cup {i} = imap \cup {i},
         dotdot' \in [Ino -> Ino \cup {NoIno}],
         \A j \in Ino \ {i} : dotdot'[j] = dotdot[j],
         Tree(entry'), hurt' \subseteq Ino, failed' = FALSE, calls' = calls,
         InodeInv(i)', i = Root => RootInv'
  PROVE  /\ DiskInv'
         /\ Live /\ (s.phase = "out" /\ i \in imap' => r.kind # "none") => Live'
<1>1. core' \in [Ino -> Inode] /\ raw' \in [Ino -> OnDisk]
  BY DEF DiskInv, TypeOK, Inode, OnDisk, Kinds, Count
<1>2. \A j \in Ino \ {i} : core'[j] = core[j] /\ raw'[j] = raw[j]
                           /\ (j \in imap') = (j \in imap)
  BY DEF DiskInv, TypeOK
<1>3. TypeOK'
  <2>1. entry' \in [Ino -> [Name -> Ino \cup {NoIno}]]
    BY DEF Tree
  <2> QED
    BY <1>1, <2>1 DEF TypeOK, Inode, OnDisk, Kinds, Count, DiskInv
<1>4. ASSUME NEW j \in Ino \ {i}
      PROVE  InodeInv(j)'
  <2>1. InodeInv(j)
    BY DEF DiskInv
  <2> QED
    BY <1>2, <2>1 DEF InodeInv
<1>5. RootInv'
  <2>1. CASE i # Root
    <3>1. Root \in Ino \ {i} /\ RootInv
      BY <2>1, Looked, NameiAssumption DEF DiskInv, Root, Ino
    <3> QED
      BY <1>2, <3>1 DEF RootInv
  <2> QED
    BY <2>1
<1>6. Live /\ (s.phase = "out" /\ i \in imap' => r.kind # "none") => Live'
  <2>1. core'[i] = s /\ raw'[i] = r
    BY DEF DiskInv, TypeOK
  <2> QED
    BY <1>2, <2>1 DEF Live
<1> QED
  BY <1>3, <1>4, <1>5, <1>6 DEF DiskInv

(* What is left alone.                                                     *)
LEMMA Rests ==
  ASSUME DiskInv, NEW i \in Ino
  PROVE  /\ core[i] \in Inode /\ raw[i] \in OnDisk /\ raw = [raw EXCEPT ![i] = raw[i]]
         /\ imap \subseteq Ino /\ hurt \subseteq Ino /\ Tree(entry) /\ InodeInv(i) /\ RootInv
         /\ dotdot \in [Ino -> Ino \cup {NoIno}]
BY DEF DiskInv, TypeOK, Inode, OnDisk, Kinds, Count

LEMMA Settles ==
  ASSUME DiskInv, NEW i \in Ino, UNCHANGED <<calls, disk, tree>>, Free
  PROVE  /\ raw' = [raw EXCEPT ![i] = raw[i]] /\ raw' = raw
         /\ imap' \subseteq Ino /\ imap' \cup {i} = imap \cup {i} /\ imap' = imap
         /\ dotdot' \in [Ino -> Ino \cup {NoIno}]
         /\ \A j \in Ino \ {i} : dotdot'[j] = dotdot[j]
         /\ Tree(entry') /\ hurt' \subseteq Ino /\ failed' = FALSE /\ calls' = calls
         /\ dotdot' = dotdot
BY Rests DEF disk, tree, Free

LEMMA HoldStep ==
  ASSUME DiskInv, UNCHANGED calls, NEW d \in Ino, NEW n \in Name, Hold(d, n)
  PROVE  DiskInv' /\ (Live => Live')
<1>1. /\ Found(d, n) /\ core' = [core EXCEPT ![entry[d][n]].held = TRUE]
      /\ Free /\ UNCHANGED <<calls, disk, tree>>
  BY DEF Hold
<1>2. PICK i \in Ino : i = entry[d][n] /\ core[i].phase = "in"
  BY <1>1, Looked
<1> DEFINE s == [core[i] EXCEPT !.held = TRUE]
<1>3. /\ s \in Inode /\ s.phase = "in" /\ s.kind = core[i].kind /\ s.nlink = core[i].nlink
      /\ s.dirty = core[i].dirty
  BY <1>2, Rests DEF Inode
<1>4. core' = [core EXCEPT ![i] = s]
  BY <1>1, <1>2
<1> HIDE DEF s
<1>5. core'[i] = s
  BY <1>2, <1>4 DEF DiskInv, TypeOK
<1>6. raw' = raw /\ imap' = imap /\ dotdot' = dotdot /\ InodeInv(i) /\ RootInv
  BY <1>1, <1>2, Settles, Rests
<1>7. InodeInv(i)'
  BY <1>2, <1>3, <1>5, <1>6 DEF InodeInv
<1>8. i = Root => RootInv'
  BY <1>2, <1>3, <1>5, <1>6 DEF RootInv
<1>9. /\ raw[i] \in OnDisk /\ raw' = [raw EXCEPT ![i] = raw[i]]
      /\ imap' \subseteq Ino /\ imap' \cup {i} = imap \cup {i}
      /\ dotdot' \in [Ino -> Ino \cup {NoIno}]
      /\ \A j \in Ino \ {i} : dotdot'[j] = dotdot[j]
      /\ Tree(entry') /\ hurt' \subseteq Ino /\ failed' = FALSE /\ calls' = calls
  BY <1>1, <1>2, Settles, Rests
<1> QED
  BY <1>2, <1>3, <1>4, <1>7, <1>8, <1>9, OneInode

LEMMA ReleaseStep ==
  ASSUME DiskInv, UNCHANGED calls, NEW i \in Ino, Release(i)
  PROVE  DiskInv' /\ (Live => Live')
<1> DEFINE s == [core[i] EXCEPT !.held = FALSE]
<1>1. /\ s \in Inode /\ s.phase = core[i].phase /\ s.kind = core[i].kind
      /\ s.nlink = core[i].nlink /\ s.dirty = core[i].dirty
      /\ core[i].held
  BY Rests DEF Inode, Release
<1>2. core' = [core EXCEPT ![i] = s] /\ Free /\ UNCHANGED <<calls, disk, tree>>
  BY DEF Release
<1> HIDE DEF s
<1>3. core'[i] = s /\ core[i].phase = "in"
  BY <1>1, <1>2, Rests DEF DiskInv, TypeOK, InodeInv
<1>4. raw' = raw /\ imap' = imap /\ dotdot' = dotdot /\ InodeInv(i) /\ RootInv
  BY <1>2, Settles, Rests
<1>5. InodeInv(i)'
  BY <1>1, <1>3, <1>4 DEF InodeInv
<1>6. i = Root => RootInv'
  BY <1>1, <1>3, <1>4 DEF RootInv
<1> QED
  BY <1>1, <1>2, <1>3, <1>5, <1>6, Settles, Rests, OneInode

LEMMA WriteInodeStep ==
  ASSUME DiskInv, UNCHANGED calls, NEW i \in Ino, WriteInode(i)
  PROVE  DiskInv' /\ (Live => Live')
<1> DEFINE s == [core[i] EXCEPT !.dirty = FALSE]
           r == [kind |-> core[i].kind, nlink |-> core[i].nlink]
<1>1. /\ s \in Inode /\ s.phase = "in" /\ s.kind = core[i].kind
      /\ s.nlink = core[i].nlink /\ core[i].phase = "in"
      /\ r \in OnDisk /\ r.kind = core[i].kind /\ r.nlink = core[i].nlink
      /\ r = [kind |-> s.kind, nlink |-> s.nlink]
  BY Rests DEF Inode, OnDisk, WriteInode
<1>2. core' = [core EXCEPT ![i] = s] /\ raw' = [raw EXCEPT ![i] = r]
  BY DEF WriteInode
<1> HIDE DEF s, r
<1>3. core'[i] = s /\ raw'[i] = r
  BY <1>1, <1>2 DEF DiskInv, TypeOK
<1>4. s.kind # "none" /\ i \in imap /\ InodeInv(i) /\ RootInv
  BY <1>1, Rests DEF InodeInv
<1>5. /\ imap' = imap /\ entry' = entry /\ dotdot' = dotdot /\ hurt' = hurt
      /\ failed' = FALSE /\ calls' = calls
  BY DEF WriteInode, Free, tree
<1>6. InodeInv(i)'
  BY <1>1, <1>3, <1>4, <1>5 DEF InodeInv
<1>7. i = Root => RootInv'
  BY <1>1, <1>3, <1>4, <1>5 DEF RootInv
<1> QED
  BY <1>1, <1>2, <1>4, <1>5, <1>6, <1>7, Rests, OneInode

LEMMA ReclaimStep ==
  ASSUME DiskInv, UNCHANGED calls, NEW i \in Ino, Reclaim(i)
  PROVE  DiskInv' /\ (Live => Live')
<1>1. /\ core[i].phase = "in" /\ i # Root /\ ~core[i].dirty
      /\ core' = [core EXCEPT ![i] = Out] /\ Free /\ UNCHANGED <<calls, disk, tree>>
  BY DEF Reclaim, Idle
<1>2. core'[i] = Out
  BY <1>1 DEF DiskInv, TypeOK
<1>3. raw' = raw /\ imap' = imap /\ dotdot' = dotdot /\ InodeInv(i)
  BY <1>1, Settles, Rests
<1>4. InodeInv(i)' /\ raw[i].kind # "none"
  BY <1>1, <1>2, <1>3, OutTyped DEF InodeInv
<1> QED
  BY <1>1, <1>4, OutTyped, Settles, Rests, OneInode

(* An inode that is read.                                                  *)
LEMMA ReadTyped ==
  ASSUME DiskInv, NEW i \in Ino,
         NEW s, s = [Out EXCEPT !.phase = "in", !.kind = raw[i].kind, !.nlink = raw[i].nlink]
  PROVE  /\ s \in Inode /\ s.phase = "in" /\ s.kind = raw[i].kind
         /\ s.nlink = raw[i].nlink /\ ~s.dirty
         /\ raw[i] = [kind |-> s.kind, nlink |-> s.nlink]
<1>1. raw[i] \in OnDisk
  BY Rests
<1>2. raw[i].kind \in Kinds /\ raw[i].nlink \in Count
      /\ raw[i] = [kind |-> raw[i].kind, nlink |-> raw[i].nlink]
  BY <1>1 DEF OnDisk
<1>3. s \in Inode /\ s.phase = "in" /\ s.kind = raw[i].kind /\ s.nlink = raw[i].nlink
      /\ ~s.dirty
  BY <1>2, OutTyped DEF Inode
<1> QED
  BY <1>2, <1>3

LEMMA LookupStep ==
  ASSUME DiskInv, Live, UNCHANGED calls, NEW d \in Ino, NEW n \in Name, Lookup(d, n),
         hurt' # Ino
  PROVE  DiskInv' /\ Live'
<1>1. PICK i \in Ino : i = entry[d][n] /\ i \in imap
  BY Looked, Rests DEF Lookup
<1> DEFINE s == [Out EXCEPT !.phase = "in", !.kind = raw[i].kind, !.nlink = raw[i].nlink]
<1>2. /\ core[i].phase = "out" /\ core' = [core EXCEPT ![i] = s]
      /\ Free /\ UNCHANGED <<calls, disk, tree>>
  BY <1>1 DEF Lookup, Free
<1>3. /\ s \in Inode /\ s.phase = "in" /\ s.kind = raw[i].kind
      /\ s.nlink = raw[i].nlink /\ ~s.dirty
      /\ raw[i] = [kind |-> s.kind, nlink |-> s.nlink]
  BY <1>2, ReadTyped
<1> HIDE DEF s
<1>4. core'[i] = s
  BY <1>2, <1>3 DEF DiskInv, TypeOK
<1>5. raw' = raw /\ imap' = imap /\ dotdot' = dotdot /\ InodeInv(i) /\ RootInv
  BY <1>1, <1>2, Settles, Rests
<1>6. raw[i].kind # "none"
  BY <1>1, <1>2 DEF Live
<1>7. InodeInv(i)'
  BY <1>1, <1>2, <1>3, <1>4, <1>5, <1>6 DEF InodeInv
<1>8. i = Root => RootInv'
  BY <1>3, <1>4, <1>5 DEF RootInv
<1> QED
  BY <1>1, <1>2, <1>3, <1>7, <1>8, Settles, Rests, OneInode

LEMMA EvictStep ==
  ASSUME DiskInv, UNCHANGED calls, NEW i \in Ino, Evict(i)
  PROVE  DiskInv' /\ (Live => Live')
<1> DEFINE s == [core[i] EXCEPT !.phase = "freeing", !.dirty = FALSE]
<1>1. /\ core[i].phase = "in" /\ ~core[i].held /\ i # Root /\ core[i].nlink = 0
      /\ core' = [core EXCEPT ![i] = s]
      /\ entry' = [entry EXCEPT ![i] = EmptyDir]
      /\ dotdot' = [dotdot EXCEPT ![i] = NoIno]
      /\ hurt' = hurt \cup Children(i)
                     \cup (IF Linked(i) THEN {dotdot[i]} \ {NoIno} ELSE {})
      /\ failed' = FALSE /\ imap' = imap /\ raw' = raw /\ calls' = calls
  BY DEF Evict, Idle, disk
<1>2. /\ s \in Inode /\ s.phase = "freeing" /\ ~s.dirty /\ s.held = core[i].held
      /\ s.kind = core[i].kind /\ s.nlink = core[i].nlink
  BY Rests DEF Inode
<1> HIDE DEF s
<1>3. core'[i] = s /\ dotdot'[i] = NoIno /\ raw' = [raw EXCEPT ![i] = raw[i]]
  BY <1>1, <1>2 DEF DiskInv, TypeOK
<1>4. InodeInv(i)'
  BY <1>1, <1>2, <1>3, Rests DEF InodeInv
<1>5. Tree(entry')
  <2>1. EmptyDir \in [Name -> Ino \cup {NoIno}] /\ Tree(entry)
    BY Rests DEF EmptyDir
  <2>2. NoIno \notin Ino /\ Root \in Ino
    BY Looked, NameiAssumption DEF NoIno, Ino, Root
  <2> QED
    BY <1>1, <2>1, <2>2 DEF Tree, EmptyDir
<1>6. dotdot' \in [Ino -> Ino \cup {NoIno}] /\ \A j \in Ino \ {i} : dotdot'[j] = dotdot[j]
  BY <1>1, Rests
<1>7. hurt' \subseteq Ino
  BY <1>1, EmptiedTyped, Rests
<1> QED
  BY <1>1, <1>2, <1>3, <1>4, <1>5, <1>6, <1>7, Rests, OneInode

LEMMA ClearInodeStep ==
  ASSUME DiskInv, UNCHANGED calls, NEW i \in Ino, ClearInode(i)
  PROVE  DiskInv' /\ (Live => Live')
<1> DEFINE s == [core[i] EXCEPT !.phase = "cleared"]
<1>1. /\ core[i].phase = "freeing" /\ core' = [core EXCEPT ![i] = s]
      /\ raw' = [raw EXCEPT ![i] = Clear]
      /\ imap' = imap /\ entry' = entry /\ dotdot' = dotdot /\ hurt' = hurt
      /\ failed' = FALSE /\ calls' = calls
  BY DEF ClearInode, Clear, Free, tree
<1>2. /\ s \in Inode /\ s.phase = "cleared" /\ s.dirty = core[i].dirty
      /\ s.held = core[i].held /\ s.nlink = core[i].nlink
  BY Rests DEF Inode
<1> HIDE DEF s
<1>3. Clear \in OnDisk /\ Clear.kind = "none" /\ Clear.nlink = 0
  BY NameiAssumption DEF Clear, OnDisk, Kinds, Count
<1>4. core'[i] = s /\ raw'[i] = Clear
  BY <1>1, <1>2, <1>3 DEF DiskInv, TypeOK
<1>5. InodeInv(i)' /\ i # Root
  BY <1>1, <1>2, <1>3, <1>4, Rests DEF InodeInv
<1> QED
  BY <1>1, <1>2, <1>3, <1>5, Rests, OneInode

LEMMA ClearBitStep ==
  ASSUME DiskInv, UNCHANGED calls, NEW i \in Ino, ClearBit(i)
  PROVE  DiskInv' /\ (Live => Live')
<1>1. /\ core[i].phase = "cleared" /\ core' = [core EXCEPT ![i] = Out]
      /\ imap' = imap \ {i} /\ raw' = raw /\ entry' = entry /\ dotdot' = dotdot
      /\ hurt' = hurt /\ failed' = FALSE /\ calls' = calls
  BY DEF ClearBit, Free, tree
<1>2. core'[i] = Out /\ raw' = [raw EXCEPT ![i] = raw[i]]
  BY <1>1 DEF DiskInv, TypeOK
<1>3. InodeInv(i)' /\ i # Root
  BY <1>1, <1>2, OutTyped, Rests DEF InodeInv, Clear
<1>4. imap' \subseteq Ino /\ imap' \cup {i} = imap \cup {i} /\ i \notin imap'
  BY <1>1, Rests
<1> QED
  BY <1>1, <1>2, <1>3, <1>4, OutTyped, Rests, OneInode

LEMMA BetweenStep ==
  ASSUME DiskInv, Live, Between, hurt' # Ino
  PROVE  DiskInv' /\ Live'
BY HoldStep, LookupStep, ReleaseStep, WriteInodeStep, ReclaimStep, EvictStep,
   ClearInodeStep, ClearBitStep DEF Between

LEMMA NextStep ==
  ASSUME DiskInv, Live, Next, hurt' # Ino
  PROVE  DiskInv' /\ Live'
BY CallStep, BetweenStep DEF Next

LEMMA NextQuiet ==
  ASSUME DiskInv, UNCHANGED vars
  PROVE  DiskInv' /\ (Live => Live')
<1>1. UNCHANGED <<imap, raw, core, entry, dotdot, calls, hurt, failed>>
  BY DEF vars, disk, tree
<1>2. TypeOK'
  BY <1>1 DEF DiskInv, TypeOK
<1>3. Tree(entry') /\ \A i \in Ino : InodeInv(i)'
  BY <1>1 DEF DiskInv, InodeInv
<1>4. RootInv' /\ (Live => Live')
  BY <1>1 DEF DiskInv, RootInv, Live
<1> QED
  BY <1>2, <1>3, <1>4 DEF DiskInv

-----------------------------------------------------------------------------
(* Mounting                                                                *)

MountInv ==
  /\ DiskInv
  /\ MountTypeOK
  /\ crash = "none" => Live
  /\ ~mounted => \A i \in Ino : core[i] = Out

(* The inodes leave the core all at once, or none does.                    *)
LEMMA AllOut ==
  ASSUME DiskInv, UNCHANGED <<calls, disk, tree>>, core' = [i \in Ino |-> Out],
         hurt' \subseteq Ino, failed' = FALSE
  PROVE  DiskInv'
<1>1. \A i \in Ino : core'[i] = Out
  OBVIOUS
<1>2. /\ imap' = imap /\ raw' = raw /\ entry' = entry /\ dotdot' = dotdot /\ calls' = calls
  BY DEF disk, tree
<1>3. TypeOK'
  BY <1>1, <1>2, OutTyped DEF DiskInv, TypeOK, Inode, Kinds, Count
<1>4. \A i \in Ino : InodeInv(i)'
  BY <1>1, <1>2, OutTyped DEF DiskInv, InodeInv
<1>5. RootInv'
  BY <1>1, <1>2, OutTyped, Looked, NameiAssumption DEF DiskInv, RootInv, Root, Ino
<1> QED
  BY <1>2, <1>3, <1>4, <1>5 DEF DiskInv

LEMMA FillSuperStep ==
  ASSUME MountInv, NEW ro \in BOOLEAN, FillSuper(ro)
  PROVE  MountInv'
<1> DEFINE s == [Out EXCEPT !.phase = "in", !.kind = raw[Root].kind, !.nlink = raw[Root].nlink]
<1>1. /\ DiskInv /\ core' = [core EXCEPT ![Root] = s]
      /\ Free /\ UNCHANGED <<calls, disk, tree>>
  BY DEF FillSuper, MountInv
<1>2. Root \in Ino
  BY NameiAssumption DEF Root, Ino
<1>3. /\ s \in Inode /\ s.phase = "in" /\ s.kind = raw[Root].kind
      /\ s.nlink = raw[Root].nlink /\ ~s.dirty
      /\ raw[Root] = [kind |-> s.kind, nlink |-> s.nlink]
  BY <1>1, <1>2, ReadTyped
<1> HIDE DEF s
<1>4. core'[Root] = s
  BY <1>1, <1>2 DEF DiskInv, TypeOK
<1>5. raw' = raw /\ imap' = imap /\ dotdot' = dotdot /\ InodeInv(Root) /\ RootInv
  BY <1>1, <1>2, Settles, Rests
<1>6. InodeInv(Root)'
  BY <1>2, <1>3, <1>4, <1>5 DEF InodeInv, RootInv, Root
<1>7. RootInv'
  BY <1>3, <1>4, <1>5 DEF RootInv
<1>8. /\ raw[Root] \in OnDisk /\ raw' = [raw EXCEPT ![Root] = raw[Root]]
      /\ imap' \subseteq Ino /\ imap' \cup {Root} = imap \cup {Root}
      /\ dotdot' \in [Ino -> Ino \cup {NoIno}]
      /\ \A j \in Ino \ {Root} : dotdot'[j] = dotdot[j]
      /\ Tree(entry') /\ hurt' \subseteq Ino /\ failed' = FALSE /\ calls' = calls
  BY <1>1, <1>2, Settles, Rests
<1>9. DiskInv' /\ (Live => Live')
  BY <1>1, <1>2, <1>3, <1>6, <1>7, <1>8, OneInode
<1>10. MountTypeOK'
  BY <1>9 DEF FillSuper, MountInv, MountTypeOK, DiskInv
<1> QED
  BY <1>9, <1>10 DEF MountInv, FillSuper

LEMMA PutSuperStep ==
  ASSUME MountInv, PutSuper
  PROVE  MountInv'
<1>1. DiskInv'
  BY AllOut DEF PutSuper, MountInv, DiskInv, TypeOK, Free
<1>2. MountTypeOK'
  BY <1>1 DEF PutSuper, MountInv, MountTypeOK, DiskInv
<1>3. crash = "none" => Live'
  <2> SUFFICES ASSUME crash = "none", NEW i \in imap
               PROVE  raw[i].kind # "none"
    BY DEF PutSuper, disk, Live
  <2>1. i \in Ino /\ InodeInv(i)
    BY DEF MountInv, DiskInv, TypeOK
  <2>2. CASE core[i].phase = "out"
    BY <2>2 DEF MountInv, Live
  <2>3. CASE core[i].phase # "out"
    <3>1. core[i].phase = "in" /\ ~core[i].dirty
      BY <2>1, <2>3 DEF PutSuper, Synced
    <3> QED
      BY <2>1, <3>1 DEF InodeInv
  <2> QED
    BY <2>2, <2>3
<1> QED
  BY <1>1, <1>2, <1>3 DEF MountInv, PutSuper

LEMMA CrashStep ==
  ASSUME MountInv, Crash
  PROVE  MountInv'
<1>1. DiskInv'
  BY AllOut DEF Crash, MountInv, DiskInv, TypeOK
<1>2. crash' \in {"sound", "spoilt", "early", "lost"}
  BY DEF Crash
<1>3. MountTypeOK'
  BY <1>1, <1>2 DEF Crash, MountInv, MountTypeOK, DiskInv
<1>4. \A i \in Ino : core'[i] = Out
  BY DEF Crash
<1> QED
  BY <1>1, <1>2, <1>3, <1>4 DEF MountInv

LEMMA ServeStep ==
  ASSUME MountInv, Serve, hurt' # Ino
  PROVE  MountInv'
<1>1. DiskInv' /\ Live'
  BY NextStep, BetweenStep DEF Serve, MountInv
<1>2. mounted' = TRUE
  BY DEF Serve, super, MountInv, MountTypeOK
<1> QED
  BY <1>1, <1>2 DEF Serve, super, MountInv, MountTypeOK, DiskInv

LEMMA SuperStep ==
  ASSUME MountInv, WriteSuper \/ RemountReadOnly \/ RemountWritable \/ UNCHANGED fsvars
  PROVE  MountInv'
<1>1. /\ UNCHANGED <<imap, raw, core, entry, dotdot, calls, hurt, crash>>
      /\ failed' = FALSE \/ failed' = failed
  BY DEF WriteSuper, RemountReadOnly, RemountWritable, fsvars, vars, disk, tree, Free
<1>2. TypeOK'
  BY <1>1 DEF MountInv, DiskInv, TypeOK
<1>3. Tree(entry') /\ (\A i \in Ino : InodeInv(i)')
  BY <1>1 DEF MountInv, DiskInv, InodeInv
<1>4. RootInv' /\ (Live => Live')
  BY <1>1 DEF MountInv, DiskInv, RootInv, Live
<1>5. MountTypeOK'
  BY <1>1, <1>2 DEF MountInv, MountTypeOK, WriteSuper, RemountReadOnly, RemountWritable,
                    fsvars, super
<1>6. ~mounted' => ~mounted
  BY DEF WriteSuper, RemountReadOnly, RemountWritable, fsvars, super
<1> QED
  BY <1>1, <1>2, <1>3, <1>4, <1>5, <1>6 DEF MountInv, DiskInv

(* Of Namei and Mount one invariant: the inodes in core, on disk and in    *)
(* the bitmap agree, whatever calls, evictions, mounts and crashes there   *)
(* were.                                                                   *)
LEMMA MountedStep ==
  ASSUME MountInv, [MountedNext]_fsvars, hurt' # Ino
  PROVE  MountInv'
BY FillSuperStep, PutSuperStep, CrashStep, ServeStep, SuperStep DEF MountedNext

-----------------------------------------------------------------------------
(* The first mount                                                         *)

LEMMA EntriesFinite ==
  ASSUME NEW i
  PROVE  /\ IsFiniteSet(Entries(i)) /\ Cardinality(Entries(i)) \in Nat
         /\ \A D \in SUBSET Ino : IsFiniteSet(D) /\ Cardinality(D) \in Nat
<1>1. IsFiniteSet(Ino)
  BY NameiAssumption, FS_Interval DEF Ino
<1>2. IsFiniteSet(Ino \X Name)
  BY <1>1, NameiAssumption, FS_Product
<1>3. Entries(i) \subseteq Ino \X Name
  BY DEF Entries
<1>4. IsFiniteSet(Entries(i))
  BY <1>2, <1>3, FS_Subset
<1> QED
  BY <1>1, <1>4, FS_Subset, FS_CardinalityType

LEMMA ReferencesTyped ==
  ASSUME NEW i, NEW dirs \in SUBSET Ino
  PROVE  References(i, dirs) \in Nat /\ (~Linked(i) => References(i, dirs) = 0)
<1> DEFINE S == {j \in dirs \ {Root} : Linked(j) /\ dotdot[j] = i}
<1>1. Cardinality(Entries(i)) \in Nat /\ Cardinality(S) \in Nat
  <2>1. S \in SUBSET Ino
    OBVIOUS
  <2> QED
    BY <2>1, EntriesFinite
<1> HIDE DEF S
<1>2. References(i, dirs) =
        IF ~Linked(i) THEN 0
        ELSE Cardinality(Entries(i)) + (IF i = Root THEN 1 ELSE 0)
               + (IF i \in dirs THEN 1 + Cardinality(S) ELSE 0)
  BY DEF References, S
<1> QED
  BY <1>1, <1>2

LEMMA Mounted == MountedInit => MountInv
<1> SUFFICES ASSUME MountedInit
             PROVE  MountInv
  OBVIOUS
<1>1. PICK dirs \in SUBSET imap :
       /\ Root \in dirs
       /\ \A d \in dirs \ {Root} : Cardinality(Entries(d)) = 1
       /\ dotdot = [d \in Ino |-> IF d = Root THEN Root
                                 ELSE IF d \in dirs THEN Parent(d) ELSE NoIno]
       /\ raw = [i \in Ino |->
                   [kind |-> IF i \in dirs THEN "dir" ELSE IF i \in imap THEN "file" ELSE "none",
                    nlink |-> References(i, dirs)]]
       /\ \A i \in imap : raw[i].nlink <= LinkMax
  BY DEF MountedInit, Init
<1>2. /\ entry \in [Ino -> [Name -> (Ino \cup {NoIno}) \ {Root}]] /\ imap \subseteq Ino
      /\ imap = {i \in Ino : Linked(i)} /\ \A d \in Ino : d \notin Children(d)
      /\ core = [i \in Ino |-> IF i \in imap
                               THEN [Out EXCEPT !.phase = "in", !.kind = raw[i].kind,
                                                !.nlink = raw[i].nlink]
                               ELSE Out]
      /\ hurt = {} /\ calls = 0 /\ failed = FALSE
      /\ mounted = TRUE /\ readonly = FALSE /\ s_state = FALSE /\ s_ondisk = TRUE
      /\ s_mount_state = TRUE /\ crash = "none"
  BY DEF MountedInit, Init
<1>3. Root \in Ino /\ NoIno \notin Ino
  BY NameiAssumption DEF Root, Ino, NoIno
<1>4. Tree(entry)
  <2>1. ASSUME NEW d \in Ino, NEW n \in Name
        PROVE  entry[d][n] \notin {d, Root}
    <3>1. entry[d][n] # Root
      BY <1>2
    <3>2. entry[d][n] # d
      <4> SUFFICES ASSUME entry[d][n] = d PROVE FALSE
        OBVIOUS
      <4>1. d # NoIno
        BY <1>3
      <4>2. d \in Children(d)
        BY <4>1, Zenon DEF Children
      <4> QED
        BY <1>2, <4>2
    <3> QED
      BY <3>1, <3>2
  <2>2. \A d \in Ino : entry[d] \in [Name -> Ino \cup {NoIno}]
    BY <1>2
  <2>3. entry \in [Ino -> [Name -> Ino \cup {NoIno}]]
    BY <1>2, <2>2
  <2> QED
    BY <2>1, <2>3 DEF Tree
<1>5. \A i \in Ino \ imap : ~Linked(i)
  BY <1>2
<1>6. \A i \in Ino :
        /\ raw[i] \in OnDisk /\ raw[i].nlink = References(i, dirs)
        /\ raw[i].kind = (IF i \in dirs THEN "dir" ELSE IF i \in imap THEN "file" ELSE "none")
        /\ i \notin imap => raw[i] = Clear
  <2>1. \A i \in Ino : References(i, dirs) \in Nat /\ (~Linked(i) => References(i, dirs) = 0)
    BY <1>1, <1>2, ReferencesTyped
  <2> HIDE DEF References
  <2>2. \A i \in Ino :
          /\ raw[i].nlink = References(i, dirs)
          /\ raw[i].kind = (IF i \in dirs THEN "dir" ELSE IF i \in imap THEN "file" ELSE "none")
          /\ raw[i] = [kind |-> raw[i].kind, nlink |-> raw[i].nlink]
    BY <1>1
  <2>3. \A i \in Ino : raw[i].nlink \in Count
    <3>1. \A x \in Nat : x <= LinkMax => x \in Count
      BY NameiAssumption DEF Count
    <3>2. \A i \in Ino : raw[i].nlink \in Nat
      BY <2>1, <2>2
    <3>3. \A i \in imap : raw[i].nlink <= LinkMax
      BY <1>1
    <3>4. \A i \in Ino \ imap : raw[i].nlink = 0
      BY <1>5, <2>1, <2>2
    <3>5. 0 <= LinkMax /\ 0 \in Nat
      BY NameiAssumption
    <3> QED
      BY <3>1, <3>2, <3>3, <3>4, <3>5
  <2>4. \A i \in Ino : raw[i] \in OnDisk
    <3>1. \A i \in Ino : raw[i].kind \in Kinds
      BY <2>2 DEF Kinds
    <3>2. \A i \in Ino : [kind |-> raw[i].kind, nlink |-> raw[i].nlink] \in OnDisk
      BY <2>3, <3>1 DEF OnDisk
    <3> QED
      BY <2>2, <3>2, Zenon
  <2>5. \A i \in Ino : i \notin imap => raw[i] = Clear
    BY <1>1, <1>5, <2>1, <2>2 DEF Clear
  <2> QED
    BY <2>2, <2>4, <2>5
<1>7. dotdot \in [Ino -> Ino \cup {NoIno}] /\ \A i \in Ino \ imap : dotdot[i] = NoIno
  <2>1. \A d \in dirs \ {Root} : Parent(d) \in Ino
    <3> SUFFICES ASSUME NEW d \in dirs \ {Root} PROVE Parent(d) \in Ino
      OBVIOUS
    <3>1. Entries(d) # {}
      BY <1>1, FS_EmptySet
    <3>2. \E x \in Ino : \E n \in Name : entry[x][n] = d
      BY <3>1 DEF Entries
    <3> QED
      BY <3>2, Zenon DEF Parent
  <2> QED
    BY <1>1, <1>2, <1>3, <2>1
<1>8. \A i \in Ino : /\ i \in imap => core[i] = [Out EXCEPT !.phase = "in", !.kind = raw[i].kind,
                                                           !.nlink = raw[i].nlink]
                     /\ i \notin imap => core[i] = Out
  BY <1>2
<1>9. \A i \in imap : /\ core[i] \in Inode /\ core[i].phase = "in" /\ ~core[i].dirty
                      /\ core[i].kind = raw[i].kind /\ core[i].nlink = raw[i].nlink
                      /\ raw[i] = [kind |-> core[i].kind, nlink |-> core[i].nlink]
  <2> SUFFICES ASSUME NEW i \in imap
               PROVE  /\ core[i] \in Inode /\ core[i].phase = "in" /\ ~core[i].dirty
                      /\ core[i].kind = raw[i].kind /\ core[i].nlink = raw[i].nlink
                      /\ raw[i] = [kind |-> core[i].kind, nlink |-> core[i].nlink]
    OBVIOUS
  <2>1. raw[i].kind \in Kinds /\ raw[i].nlink \in Count
        /\ raw[i] = [kind |-> raw[i].kind, nlink |-> raw[i].nlink]
    BY <1>2, <1>6 DEF OnDisk
  <2>2. core[i] = [Out EXCEPT !.phase = "in", !.kind = raw[i].kind, !.nlink = raw[i].nlink]
    BY <1>2, <1>8
  <2>3. /\ core[i] \in Inode /\ core[i].phase = "in" /\ ~core[i].dirty
        /\ core[i].kind = raw[i].kind /\ core[i].nlink = raw[i].nlink
    BY <2>1, <2>2, OutTyped DEF Inode
  <2> QED
    BY <2>1, <2>3
<1>10. \A i \in Ino : InodeInv(i)
  <2> SUFFICES ASSUME NEW i \in Ino PROVE InodeInv(i)
    OBVIOUS
  <2>1. CASE i \in imap
    <3>1. raw[i].kind # "none"
      BY <1>6, <2>1
    <3> QED
      BY <1>9, <2>1, <3>1 DEF InodeInv
  <2>2. CASE i \notin imap
    <3>1. raw[i] = Clear /\ core[i] = Out /\ dotdot[i] = NoIno
      BY <1>6, <1>7, <1>8, <2>2
    <3>2. Clear.kind = "none" /\ Clear.nlink = 0
      BY DEF Clear
    <3> QED
      BY <2>2, <3>1, <3>2, OutTyped DEF InodeInv
  <2> QED
    BY <2>1, <2>2
<1>11. RootInv /\ Live
  BY <1>1, <1>2, <1>3, <1>6, <1>9 DEF RootInv, Live
<1>12. TypeOK
  <2>1. core \in [Ino -> Inode]
    <3>1. \A i \in Ino : core[i] \in Inode
      BY <1>8, <1>9, OutTyped
    <3>2. DOMAIN core = Ino /\ core = [i \in Ino |-> core[i]]
      BY <1>2
    <3> QED
      BY <3>1, <3>2
  <2>2. raw \in [Ino -> OnDisk]
    BY <1>1, <1>6
  <2>3. entry \in [Ino -> [Name -> Ino \cup {NoIno}]]
    BY <1>4 DEF Tree
  <2>4. imap \subseteq Ino /\ hurt \subseteq Ino /\ calls \in 0 .. MaxCalls /\ failed \in BOOLEAN
    <3>1. 0 \in 0 .. MaxCalls
      BY NameiAssumption
    <3>2. imap \subseteq Ino /\ hurt = {} /\ calls = 0 /\ failed = FALSE
      BY <1>2
    <3> QED
      BY <3>1, <3>2
  <2> QED
    BY <1>7, <2>1, <2>2, <2>3, <2>4 DEF TypeOK, OnDisk, Inode, Kinds, Count
<1> QED
  BY <1>2, <1>4, <1>10, <1>11, <1>12 DEF MountInv, DiskInv, MountTypeOK

(* What is given up stays so.                                              *)
LEMMA HurtGrows ==
  ASSUME MountTypeOK, Rooted, [MountedNext]_fsvars, hurt' # Ino
  PROVE  hurt # Ino
BY MountedPlain

LEMMA PlainInvHolds == MountedSpec => [](MountTypeOK /\ Rooted)
<1>1. MountedInit => MountTypeOK /\ Rooted
  <2> SUFFICES ASSUME MountedInit PROVE MountTypeOK /\ Rooted
    OBVIOUS
  <2>1. MountInv
    BY Mounted
  <2>2. /\ imap = {i \in Ino : Linked(i)}
        /\ core = [i \in Ino |-> IF i \in imap
                                 THEN [Out EXCEPT !.phase = "in", !.kind = raw[i].kind,
                                                  !.nlink = raw[i].nlink]
                                 ELSE Out]
    BY DEF MountedInit, Init
  <2>3. \A i \in Ino \ imap : core[i].phase = "out"
    BY <2>2, OutTyped
  <2> QED
    BY <2>1, <2>2, <2>3 DEF MountInv, Rooted, Ready
<1>2. MountTypeOK /\ Rooted /\ [MountedNext]_fsvars => (MountTypeOK /\ Rooted)'
  BY MountedPlain
<1> QED
  BY <1>1, <1>2, PTL DEF MountedSpec

LEMMA MountInvHolds == MountedSpec => [](hurt # Ino => MountInv)
<1>1. MountedInit => (hurt # Ino => MountInv)
  BY Mounted
<1>2. /\ MountTypeOK /\ Rooted /\ [MountedNext]_fsvars
      /\ hurt # Ino => MountInv
      => (hurt # Ino => MountInv)'
  BY MountedStep, HurtGrows
<1> QED
  BY <1>1, <1>2, PlainInvHolds, PTL DEF MountedSpec

(* What may be in the variables, for Namei and for Mount.                  *)
THEOREM MountTypeCorrect == MountedSpec => []MountTypeOK
BY PlainInvHolds, PTL

(* An inode in core that is not marked dirty is the one on disk, and what  *)
(* is free is clear on disk, across remounts, unmounts and crashes: of     *)
(* every tree, those included that failures of calls have spoilt in part,  *)
(* but for one that is given up altogether, when an inode that was freed   *)
(* is looked up, or a crash leaves the disk unsound.                       *)
THEOREM DiskAgreesHolds == MountedSpec => []DiskAgrees
<1>1. (hurt # Ino => MountInv) => DiskAgrees
  BY DEF MountInv, DiskInv, InodeInv, DiskAgrees, Clear
<1> QED
  BY <1>1, MountInvHolds, PTL

-----------------------------------------------------------------------------
(* The tree and its counts.  A state of the tree is a record of the        *)
(* entries, "..", the kinds and the counts of the inodes, wherever they    *)
(* are, and of which numbers are in use, and which inodes in core.         *)

Slots(f, i) == {x \in Ino \X Name : f[x[1]][x[2]] = i}
Has(f, i) == i = Root \/ Slots(f, i) # {}
Kids(f, d) == {f[d][n] : n \in Name} \ {NoIno}
Under(t, i) ==
  {j \in Ino \ {Root} : t.kind[j] = "dir" /\ Has(t.entry, j) /\ t.dotdot[j] = i}

(* What LinkCountsMatch, InodesAccounted and ParentIsDotDot say of an      *)
(* inode, and that nothing is in what is not a directory, or is removed.   *)
Node(t, i) ==
  /\ i \in t.used <=> Has(t.entry, i) \/ i \in t.up
  /\ t.nlink[i] <= LinkMax
  /\ ~Has(t.entry, i) => t.nlink[i] = 0 /\ Kids(t.entry, i) = {}
  /\ Has(t.entry, i) /\ t.kind[i] # "dir"
       => t.nlink[i] = Cardinality(Slots(t.entry, i)) /\ Kids(t.entry, i) = {}
  /\ Has(t.entry, i) /\ t.kind[i] = "dir"
       => /\ t.nlink[i] = 2 + Cardinality(Under(t, i))
          /\ i # Root => \E n \in Name : Slots(t.entry, i) = {<<t.dotdot[i], n>>}

(* A directory, even a spoilt one, is in the one that its ".." names,      *)
(* unless that one is spoilt.                                              *)
Home(t, h, j) ==
  t.kind[j] = "dir" /\ Has(t.entry, j)
    => t.dotdot[j] \in h \cup {NoIno} \/ \E n \in Name : t.entry[t.dotdot[j]][n] = j

Typed(t) ==
  /\ Tree(t.entry)
  /\ t.dotdot \in [Ino -> Ino \cup {NoIno}]
  /\ t.kind \in [Ino -> Kinds] /\ t.nlink \in [Ino -> Count]
  /\ t.kind[Root] = "dir"

Sound(t, h) ==
  /\ h \subseteq Ino
  /\ \A i \in Ino \ h : Node(t, i)
  /\ \A j \in Ino \ {Root} : Home(t, h, j)

(* Sets of slots and of inodes are finite.                                 *)
LEMMA Finite ==
  ASSUME NEW f, NEW i
  PROVE  /\ IsFiniteSet(Slots(f, i)) /\ Cardinality(Slots(f, i)) \in Nat
         /\ Cardinality(Slots(f, i)) = 0 <=> Slots(f, i) = {}
         /\ \A D \in SUBSET Ino : IsFiniteSet(D) /\ Cardinality(D) \in Nat
<1>1. IsFiniteSet(Ino)
  BY NameiAssumption, FS_Interval DEF Ino
<1>2. IsFiniteSet(Ino \X Name)
  BY <1>1, NameiAssumption, FS_Product
<1>3. Slots(f, i) \subseteq Ino \X Name
  BY DEF Slots
<1>4. IsFiniteSet(Slots(f, i))
  BY <1>2, <1>3, FS_Subset
<1> QED
  BY <1>1, <1>4, FS_Subset, FS_CardinalityType, FS_EmptySet

(* A set of inodes, or of slots, with one more or one less.                *)
LEMMA OneMore ==
  ASSUME NEW S, IsFiniteSet(S), NEW x
  PROVE  /\ x \notin S => Cardinality(S \cup {x}) = Cardinality(S) + 1
         /\ x \in S => Cardinality(S \ {x}) = Cardinality(S) - 1 /\ Cardinality(S) >= 1
         /\ Cardinality({x}) = 1 /\ Cardinality({}) = 0 /\ Cardinality(S) \in Nat
<1>1. x \in S => Cardinality(S \ {x}) = Cardinality(S) - 1
  BY FS_RemoveElement
<1>2. Cardinality(S \ {x}) \in Nat /\ Cardinality(S) \in Nat
  BY FS_CardinalityType, FS_RemoveElement
<1>3. x \in S => Cardinality(S) >= 1
  BY <1>1, <1>2
<1>4. x \notin S => Cardinality(S \cup {x}) = Cardinality(S) + 1
  BY FS_AddElement
<1>5. Cardinality({x}) = 1 /\ Cardinality({}) = 0
  BY FS_EmptySet, FS_Singleton
<1> QED
  BY <1>1, <1>2, <1>3, <1>4, <1>5

LEMMA UnderIn ==
  ASSUME NEW t, NEW i
  PROVE  Under(t, i) \in SUBSET Ino /\ IsFiniteSet(Under(t, i))
         /\ Cardinality(Under(t, i)) \in Nat
<1>1. Under(t, i) \in SUBSET Ino
  BY DEF Under
<1> QED
  BY <1>1, Finite

(* One entry is set.                                                       *)
Puts(f, g, d, n, i) ==
  \A x \in Ino, m \in Name : g[x][m] = IF x = d /\ m = n THEN i ELSE f[x][m]

LEMMA SlotsPoints ==
  ASSUME NEW f, NEW d \in Ino, NEW n \in Name, NEW i, NEW g, Puts(f, g, d, n, i), NEW e
  PROVE  /\ \A x : x # <<d, n>> => (x \in Slots(g, e) <=> x \in Slots(f, e))
         /\ <<d, n>> \in Slots(f, e) <=> e = f[d][n]
         /\ <<d, n>> \in Slots(g, e) <=> e = i
<1>1. \A x \in Ino \X Name : x[1] \in Ino /\ x[2] \in Name /\ x = <<x[1], x[2]>>
  OBVIOUS
<1>2. <<d, n>> \in Ino \X Name /\ <<d, n>>[1] = d /\ <<d, n>>[2] = n
  OBVIOUS
<1>3. \A x \in Ino \X Name : g[x[1]][x[2]] = IF x = <<d, n>> THEN i ELSE f[x[1]][x[2]]
  BY <1>1, <1>2 DEF Puts
<1>4. \A x : x \in Slots(g, e) <=> x \in Ino \X Name /\ g[x[1]][x[2]] = e
  BY DEF Slots
<1>5. \A x : x \in Slots(f, e) <=> x \in Ino \X Name /\ f[x[1]][x[2]] = e
  BY DEF Slots
<1>6. <<d, n>> \in Slots(f, e) <=> e = f[d][n]
  BY <1>2, <1>5
<1>7. <<d, n>> \in Slots(g, e) <=> e = i
  BY <1>2, <1>3, <1>4
<1>8. \A x : x # <<d, n>> => (x \in Slots(g, e) <=> x \in Slots(f, e))
  BY <1>3, <1>4, <1>5
<1> QED
  BY <1>6, <1>7, <1>8

LEMMA SlotsKept ==
  ASSUME NEW f, NEW d \in Ino, NEW n \in Name, NEW i, NEW g, Puts(f, g, d, n, i),
         NEW e, e # i, e # f[d][n]
  PROVE  Slots(g, e) = Slots(f, e)
<1>1. /\ \A x : x # <<d, n>> => (x \in Slots(g, e) <=> x \in Slots(f, e))
      /\ <<d, n>> \notin Slots(f, e) /\ <<d, n>> \notin Slots(g, e)
  BY SlotsPoints
<1> QED
  BY <1>1

LEMMA SlotsAdded ==
  ASSUME NEW f, NEW d \in Ino, NEW n \in Name, NEW i, NEW g, Puts(f, g, d, n, i),
         i # f[d][n]
  PROVE  Slots(g, i) = Slots(f, i) \cup {<<d, n>>} /\ <<d, n>> \notin Slots(f, i)
<1>1. /\ \A x : x # <<d, n>> => (x \in Slots(g, i) <=> x \in Slots(f, i))
      /\ <<d, n>> \notin Slots(f, i) /\ <<d, n>> \in Slots(g, i)
  BY SlotsPoints
<1> QED
  BY <1>1

LEMMA SlotsLost ==
  ASSUME NEW f, NEW d \in Ino, NEW n \in Name, NEW i, NEW g, Puts(f, g, d, n, i),
         NEW e, e # i, e = f[d][n]
  PROVE  Slots(g, e) = Slots(f, e) \ {<<d, n>>} /\ <<d, n>> \in Slots(f, e)
<1>1. /\ \A x : x # <<d, n>> => (x \in Slots(g, e) <=> x \in Slots(f, e))
      /\ <<d, n>> \in Slots(f, e) /\ <<d, n>> \notin Slots(g, e)
  BY SlotsPoints
<1> QED
  BY <1>1

LEMMA Linkage ==
  ASSUME NEW t, NEW h, Typed(t), Sound(t, h), NEW i \in Ino \ h
  PROVE  /\ t.nlink[i] \in Nat
         /\ t.nlink[i] = 0 <=> ~Has(t.entry, i)
         /\ Kids(t.entry, i) = {} => Under(t, i) = {}
         /\ Root \in Ino /\ NoIno \notin Ino
<1>1. Root \in Ino /\ NoIno \notin Ino
  BY NameiAssumption DEF Root, Ino, NoIno
<1>2. t.nlink[i] \in Nat
  BY NameiAssumption DEF Typed, Count
<1>3. t.nlink[i] = 0 <=> ~Has(t.entry, i)
  <2>1. Has(t.entry, i) /\ t.kind[i] # "dir" => Slots(t.entry, i) # {}
    BY DEF Has, Typed
  <2> QED
    BY <1>2, <2>1, Finite, UnderIn DEF Sound, Node
<1>4. ASSUME Kids(t.entry, i) = {} PROVE Under(t, i) = {}
  <2> SUFFICES ASSUME NEW j \in Under(t, i) PROVE FALSE
    OBVIOUS
  <2>1. j \in Ino \ {Root} /\ Home(t, h, j) /\ t.kind[j] = "dir" /\ Has(t.entry, j)
        /\ t.dotdot[j] = i
    BY DEF Under, Sound
  <2>2. PICK n \in Name : t.entry[i][n] = j
    BY <1>1, <2>1 DEF Home
  <2>3. j \in Kids(t.entry, i)
    BY <1>1, <2>1, <2>2, Zenon DEF Kids
  <2> QED
    BY <1>4, <2>3
<1> QED
  BY <1>1, <1>2, <1>3, <1>4

(* An inode that a step leaves alone; a directory may get or lose entries. *)
LEMMA SameNode ==
  ASSUME NEW s, NEW t, NEW i, Node(s, i),
         t.kind[i] = s.kind[i], t.nlink[i] = s.nlink[i],
         Has(s.entry, i) => t.dotdot[i] = s.dotdot[i],
         i \in t.used <=> i \in s.used, i \in t.up <=> i \in s.up,
         Slots(t.entry, i) = Slots(s.entry, i),
         Kids(t.entry, i) = Kids(s.entry, i) \/ (Has(s.entry, i) /\ s.kind[i] = "dir"),
         Under(t, i) = Under(s, i)
  PROVE  Node(t, i)
<1>1. Has(t.entry, i) = Has(s.entry, i)
  BY DEF Has
<1> QED
  BY <1>1 DEF Node

(* The directories in one, if none but those in T changed.                 *)
SameBut(s, t, T) ==
  \A j \in Ino \ T : /\ t.kind[j] = s.kind[j] /\ t.dotdot[j] = s.dotdot[j]
                     /\ Has(t.entry, j) = Has(s.entry, j)

LEMMA SameUnder ==
  ASSUME NEW s, NEW t, NEW T, NEW i, SameBut(s, t, T)
  PROVE  /\ \A j \in Ino \ T : j \in Under(t, i) <=> j \in Under(s, i)
         /\ (\A j \in T : j \in Under(t, i) <=> j \in Under(s, i)) => Under(t, i) = Under(s, i)
<1>1. \A j \in Ino \ T : j \in Under(t, i) <=> j \in Under(s, i)
  BY DEF Under, SameBut
<1>2. Under(t, i) \subseteq Ino /\ Under(s, i) \subseteq Ino
  BY UnderIn
<1> QED
  BY <1>1, <1>2

LEMMA SameKids ==
  ASSUME NEW f, NEW g, NEW d, \A n \in Name : g[d][n] = f[d][n]
  PROVE  Kids(g, d) = Kids(f, d)
<1>1. \A y : y \in {g[d][n] : n \in Name} <=> y \in {f[d][n] : n \in Name}
  BY Zenon
<1> QED
  BY <1>1 DEF Kids

-----------------------------------------------------------------------------
(* What the calls do to a sound tree: each lemma is about a step from s to *)
(* t, that has spoilt what is in g and not in h.                           *)

(* No entry changes; inodes come and go, and what has no entry may become  *)
(* a directory.                                                            *)
LEMMA TreeRests ==
  ASSUME NEW s, NEW t, NEW h, NEW g, Typed(s), Sound(s, h), Typed(t),
         h \subseteq g, g \subseteq Ino, t.entry = s.entry,
         \A j \in Ino :
           \/ ~Has(s.entry, j)
           \/ t.kind[j] = s.kind[j] /\ t.dotdot[j] = s.dotdot[j]
           \/ s.dotdot[j] = NoIno /\ t.dotdot[j] \in g \cup {NoIno} /\ j \in g,
         \A i \in Ino \ g : /\ t.nlink[i] = s.nlink[i]
                            /\ i \in t.used <=> Has(s.entry, i) \/ i \in t.up
  PROVE  Sound(t, g)
<1>1. NoIno \notin Ino
  BY DEF NoIno, Ino
<1>2. ASSUME NEW i \in Ino \ g
      PROVE  Node(t, i)
  <2>1. Node(s, i)
    BY <1>2 DEF Sound
  <2>2. Under(t, i) = Under(s, i)
    <3>1. \A j \in Ino : j \in Under(t, i) <=> j \in Under(s, i)
      BY <1>1, <1>2 DEF Under
    <3> QED
      BY <3>1, UnderIn
  <2> QED
    BY <1>2, <2>1, <2>2 DEF Node
<1>3. ASSUME NEW j \in Ino \ {Root}
      PROVE  Home(t, g, j)
  <2>1. Home(s, h, j)
    BY DEF Sound
  <2> QED
    BY <2>1 DEF Home
<1> QED
  BY <1>2, <1>3 DEF Sound

(* A vacant slot is set to i, which is no directory, or is spoilt.         *)
LEMMA TreeAdds ==
  ASSUME NEW s, NEW t, NEW h, NEW g, Typed(s), Sound(s, h), Typed(t),
         h \subseteq g, g \subseteq Ino,
         NEW d \in Ino, NEW n \in Name, NEW i \in Ino, i # d, i # Root,
         s.entry[d][n] = NoIno, d \in h \/ Has(s.entry, d), s.kind[d] = "dir",
         Puts(s.entry, t.entry, d, n, i),
         t.dotdot = s.dotdot,
         \A j \in Ino \ {i} : t.kind[j] = s.kind[j],
         \/ t.kind[i] # "dir" /\ s.kind[i] # "dir"
         \/ i \in g /\ Has(s.entry, i) /\ t.kind[i] = s.kind[i],
         \A j \in Ino \ {i} : j \in t.used <=> j \in s.used,
         \A j \in Ino \ {i} : j \in t.up <=> j \in s.up,
         \A j \in Ino \ (g \cup {i}) : t.nlink[j] = s.nlink[j],
         d \in h \/ i \in h => d \in g /\ i \in g,
         i \notin g => i \in t.used /\ t.nlink[i] = s.nlink[i] + 1 /\ t.nlink[i] <= LinkMax
  PROVE  Sound(t, g)
<1>1. NoIno \notin Ino
  BY DEF NoIno, Ino
<1>2. ASSUME NEW e \in Ino \ {i}
      PROVE  Slots(t.entry, e) = Slots(s.entry, e)
  <2>1. e # s.entry[d][n] /\ e # NoIno /\ e # i
    BY <1>1, <1>2
  <2> QED
    BY <2>1, SlotsKept
<1>3. /\ Slots(t.entry, i) = Slots(s.entry, i) \cup {<<d, n>>}
      /\ <<d, n>> \notin Slots(s.entry, i)
  BY <1>1, SlotsAdded
<1>4. \A e \in Ino \ {d} : Kids(t.entry, e) = Kids(s.entry, e)
  BY SameKids DEF Puts
<1>5. \A e \in Ino \ {i} : Has(t.entry, e) = Has(s.entry, e)
  BY <1>2 DEF Has
<1>6. Has(t.entry, i)
  BY <1>3 DEF Has
<1>7. \A e \in Ino : Under(t, e) = Under(s, e)
  <2> SUFFICES ASSUME NEW e \in Ino PROVE Under(t, e) = Under(s, e)
    OBVIOUS
  <2>1. \A j \in {i} : j \in Under(t, e) <=> j \in Under(s, e)
    BY <1>6 DEF Under
  <2>2. SameBut(s, t, {i})
    BY <1>5 DEF SameBut
  <2> QED
    BY <2>1, <2>2, SameUnder
<1>8. ASSUME NEW e \in Ino \ (g \cup {i})
      PROVE  Node(t, e)
  <2>1. Node(s, e)
    BY <1>8 DEF Sound
  <2>2. Kids(t.entry, e) = Kids(s.entry, e) \/ (Has(s.entry, e) /\ s.kind[e] = "dir")
    BY <1>4
  <2>3. t.kind[e] = s.kind[e] /\ t.nlink[e] = s.nlink[e] /\ t.dotdot[e] = s.dotdot[e]
        /\ (e \in t.used <=> e \in s.used) /\ (e \in t.up <=> e \in s.up)
        /\ Slots(t.entry, e) = Slots(s.entry, e) /\ Under(t, e) = Under(s, e)
    BY <1>2, <1>7, <1>8
  <2> QED
    BY <2>1, <2>2, <2>3, SameNode
<1>9. ASSUME i \notin g
      PROVE  Node(t, i)
  <2>1. i \notin h /\ Node(s, i) /\ s.kind[i] # "dir"
    BY <1>9 DEF Sound
  <2>2. s.nlink[i] = Cardinality(Slots(s.entry, i)) /\ Kids(s.entry, i) = {}
    <3>1. CASE Has(s.entry, i)
      BY <2>1, <3>1 DEF Node
    <3>2. CASE ~Has(s.entry, i)
      BY <2>1, <3>2, Finite DEF Node, Has
    <3> QED
      BY <3>1, <3>2
  <2>3. Cardinality(Slots(t.entry, i)) = Cardinality(Slots(s.entry, i)) + 1
    <3>1. IsFiniteSet(Slots(s.entry, i))
      BY Finite
    <3> QED
      BY <1>3, <3>1, OneMore
  <2>4. t.nlink[i] = Cardinality(Slots(t.entry, i)) /\ Kids(t.entry, i) = {}
    BY <1>4, <1>9, <2>2, <2>3
  <2> QED
    BY <1>6, <1>9, <2>1, <2>4 DEF Node
<1>10. ASSUME NEW j \in Ino \ {Root}
       PROVE  Home(t, g, j)
  <2>1. Home(s, h, j)
    BY DEF Sound
  <2>2. t.kind[j] = "dir" /\ Has(t.entry, j) => s.kind[j] = "dir" /\ Has(s.entry, j)
    BY <1>5
  <2>3. s.dotdot[j] \in Ino \cup {NoIno}
    BY DEF Typed
  <2>4. ASSUME NEW m \in Name, s.dotdot[j] \in Ino, s.entry[s.dotdot[j]][m] = j
        PROVE  t.entry[t.dotdot[j]][m] = j
    BY <1>1, <2>4 DEF Puts
  <2> QED
    BY <2>1, <2>2, <2>3, <2>4 DEF Home
<1> QED
  BY <1>8, <1>9, <1>10 DEF Sound

(* The slot of i, which is no directory, is cleared.                       *)
LEMMA TreeRemoves ==
  ASSUME NEW s, NEW t, NEW h, NEW g, Typed(s), Sound(s, h), Typed(t),
         h \subseteq g, g \subseteq Ino,
         NEW d \in Ino, NEW n \in Name, NEW i \in Ino, i # d, i # Root,
         s.entry[d][n] = i, d \in h \/ Has(s.entry, d), s.kind[d] = "dir", s.kind[i] # "dir",
         Puts(s.entry, t.entry, d, n, NoIno),
         t.dotdot = s.dotdot, t.kind = s.kind,
         t.used = s.used, t.up = s.up, i \in s.used, i \in s.up,
         \A j \in Ino \ (g \cup {i}) : t.nlink[j] = s.nlink[j],
         i \notin g => t.nlink[i] = s.nlink[i] - 1
  PROVE  Sound(t, g)
<1>1. NoIno \notin Ino
  BY DEF NoIno, Ino
<1>2. ASSUME NEW e \in Ino \ {i}
      PROVE  Slots(t.entry, e) = Slots(s.entry, e)
  <2>1. e # s.entry[d][n] /\ e # NoIno /\ e # i
    BY <1>1, <1>2
  <2> QED
    BY <2>1, SlotsKept
<1>3. /\ Slots(t.entry, i) = Slots(s.entry, i) \ {<<d, n>>}
      /\ <<d, n>> \in Slots(s.entry, i)
  BY <1>1, SlotsLost
<1>4. \A e \in Ino \ {d} : Kids(t.entry, e) = Kids(s.entry, e)
  BY SameKids DEF Puts
<1>5. \A e \in Ino \ {i} : Has(t.entry, e) = Has(s.entry, e)
  BY <1>2 DEF Has
<1>6. Has(s.entry, i)
  BY <1>3 DEF Has
<1>7. \A e \in Ino : Under(t, e) = Under(s, e)
  <2> SUFFICES ASSUME NEW e \in Ino PROVE Under(t, e) = Under(s, e)
    OBVIOUS
  <2>1. \A j \in {i} : j \in Under(t, e) <=> j \in Under(s, e)
    BY DEF Under
  <2>2. SameBut(s, t, {i})
    BY <1>5 DEF SameBut
  <2> QED
    BY <2>1, <2>2, SameUnder
<1>8. ASSUME NEW e \in Ino \ (g \cup {i})
      PROVE  Node(t, e)
  <2>1. Node(s, e)
    BY <1>8 DEF Sound
  <2>2. Kids(t.entry, e) = Kids(s.entry, e) \/ (Has(s.entry, e) /\ s.kind[e] = "dir")
    BY <1>4
  <2>3. t.nlink[e] = s.nlink[e]
        /\ Slots(t.entry, e) = Slots(s.entry, e) /\ Under(t, e) = Under(s, e)
    BY <1>2, <1>7, <1>8
  <2> QED
    BY <2>1, <2>2, <2>3, SameNode
<1>9. ASSUME i \notin g
      PROVE  Node(t, i)
  <2>1. i \notin h /\ Node(s, i)
    BY <1>9 DEF Sound
  <2>2. s.nlink[i] = Cardinality(Slots(s.entry, i)) /\ Kids(s.entry, i) = {}
        /\ s.nlink[i] <= LinkMax /\ s.nlink[i] \in Nat
    BY <1>6, <2>1, Linkage DEF Node
  <2>3. Cardinality(Slots(t.entry, i)) = Cardinality(Slots(s.entry, i)) - 1
    <3>1. PICK S : S = Slots(s.entry, i)
      OBVIOUS
    <3>2. IsFiniteSet(S) /\ <<d, n>> \in S /\ Slots(t.entry, i) = S \ {<<d, n>>}
      BY <1>3, <3>1, Finite
    <3>3. Cardinality(S \ {<<d, n>>}) = Cardinality(S) - 1
      BY <3>2, OneMore
    <3> QED
      BY <3>1, <3>2, <3>3
  <2>4. t.nlink[i] = Cardinality(Slots(t.entry, i)) /\ Kids(t.entry, i) = {}
    BY <1>4, <1>9, <2>2, <2>3
  <2>5. t.nlink[i] <= LinkMax
    BY <1>9, <2>2, NameiAssumption
  <2>6. ~Has(t.entry, i) => t.nlink[i] = 0
    BY <2>4, Finite DEF Has
  <2> QED
    BY <2>4, <2>5, <2>6 DEF Node
<1>10. ASSUME NEW j \in Ino \ {Root}
       PROVE  Home(t, g, j)
  <2>1. Home(s, h, j)
    BY DEF Sound
  <2>2. t.kind[j] = "dir" /\ Has(t.entry, j) => s.kind[j] = "dir" /\ Has(s.entry, j) /\ j # i
    BY <1>5
  <2>3. s.dotdot[j] \in Ino \cup {NoIno}
    BY DEF Typed
  <2>4. ASSUME NEW m \in Name, s.dotdot[j] \in Ino, s.entry[s.dotdot[j]][m] = j, j # i
        PROVE  t.entry[t.dotdot[j]][m] = j
    BY <1>1, <2>4 DEF Puts
  <2> QED
    BY <2>1, <2>2, <2>3, <2>4 DEF Home
<1> QED
  BY <1>8, <1>9, <1>10 DEF Sound

(* A vacant slot is set to i, a new directory.                             *)
LEMMA TreeMakesDir ==
  ASSUME NEW s, NEW t, NEW h, NEW g, Typed(s), Sound(s, h), Typed(t),
         h \subseteq g, g \subseteq Ino,
         NEW d \in Ino, NEW n \in Name, NEW i \in Ino, i # d, i # Root,
         s.entry[d][n] = NoIno, d \in h \/ Has(s.entry, d), s.kind[d] = "dir",
         Puts(s.entry, t.entry, d, n, i),
         \A j \in Ino : t.dotdot[j] = IF j = i THEN d ELSE s.dotdot[j],
         s.dotdot[i] = NoIno, t.kind[i] = "dir", i \notin s.used, i \in t.used,
         \A j \in Ino \ {i} : /\ t.kind[j] = s.kind[j]
                              /\ j \in t.used <=> j \in s.used
                              /\ j \in t.up <=> j \in s.up,
         \A j \in Ino \ (g \cup {d, i}) : t.nlink[j] = s.nlink[j],
         d \in h \/ i \in h => d \in g /\ i \in g,
         i \in g <=> d \in g,
         i \notin g => /\ t.nlink[i] = 2
                       /\ t.nlink[d] = s.nlink[d] + 1 /\ t.nlink[d] <= LinkMax
  PROVE  Sound(t, g)
<1>1. NoIno \notin Ino
  BY DEF NoIno, Ino
<1>2. ASSUME NEW e \in Ino \ {i}
      PROVE  Slots(t.entry, e) = Slots(s.entry, e)
  <2>1. e # s.entry[d][n] /\ e # NoIno /\ e # i
    BY <1>1, <1>2
  <2> QED
    BY <2>1, SlotsKept
<1>3. /\ Slots(t.entry, i) = Slots(s.entry, i) \cup {<<d, n>>}
      /\ <<d, n>> \notin Slots(s.entry, i)
  BY <1>1, SlotsAdded
<1>4. \A e \in Ino \ {d} : Kids(t.entry, e) = Kids(s.entry, e)
  BY SameKids DEF Puts
<1>5. \A e \in Ino \ {i} : Has(t.entry, e) = Has(s.entry, e)
  BY <1>2 DEF Has
<1>6. Has(t.entry, i)
  BY <1>3 DEF Has
<1>7. ASSUME NEW e \in Ino
      PROVE  /\ e # d => Under(t, e) = Under(s, e)
             /\ e = d => Under(t, e) = Under(s, e) \cup {i} /\ i \notin Under(s, e)
  <2>1. SameBut(s, t, {i})
    BY <1>5 DEF SameBut
  <2>2. i \notin Under(s, e) /\ (i \in Under(t, e) <=> e = d)
    BY <1>1, <1>6, <1>7 DEF Under
  <2>3. \A j \in Ino \ {i} : j \in Under(t, e) <=> j \in Under(s, e)
    BY <2>1, SameUnder
  <2>4. Under(t, e) \in SUBSET Ino /\ Under(s, e) \in SUBSET Ino
    BY UnderIn
  <2>5. CASE e = d
    <3>1. Under(t, e) = Under(s, e) \cup {i}
      BY <2>2, <2>3, <2>4, <2>5
    <3> QED
      BY <2>2, <2>5, <3>1
  <2>6. CASE e # d
    <3>1. Under(t, e) = Under(s, e)
      BY <2>2, <2>3, <2>4, <2>6
    <3> QED
      BY <2>6, <3>1
  <2> QED
    BY <2>5, <2>6
<1>8. ASSUME NEW e \in Ino \ (g \cup {d, i})
      PROVE  Node(t, e)
  <2>1. Node(s, e)
    BY <1>8 DEF Sound
  <2>2. Kids(t.entry, e) = Kids(s.entry, e)
    BY <1>4, <1>8
  <2>3. t.kind[e] = s.kind[e] /\ t.nlink[e] = s.nlink[e] /\ t.dotdot[e] = s.dotdot[e]
        /\ (e \in t.used <=> e \in s.used) /\ (e \in t.up <=> e \in s.up)
        /\ Slots(t.entry, e) = Slots(s.entry, e) /\ Under(t, e) = Under(s, e)
    BY <1>2, <1>7, <1>8
  <2> QED
    BY <2>1, <2>2, <2>3, SameNode
<1>9. ASSUME i \notin g
      PROVE  Node(t, i)
  <2>1. i \in Ino \ h /\ Node(s, i)
    BY <1>9 DEF Sound
  <2>2. ~Has(s.entry, i) /\ Kids(s.entry, i) = {}
    BY <2>1 DEF Node
  <2>3. Under(t, i) = {}
    BY <1>7, <2>1, <2>2, Linkage
  <2>4. Slots(t.entry, i) = {<<d, n>>} /\ t.dotdot[i] = d
    BY <1>3, <2>2 DEF Has
  <2>5. Cardinality({}) = 0
    BY FS_EmptySet
  <2> QED
    BY <1>6, <1>9, <2>3, <2>4, <2>5, NameiAssumption DEF Node
<1>10. ASSUME d \notin g
       PROVE  Node(t, d)
  <2>1. d \in Ino \ h /\ Node(s, d)
    BY <1>10 DEF Sound
  <2>2. Under(t, d) = Under(s, d) \cup {i} /\ i \notin Under(s, d)
    BY <1>7
  <2>3. Cardinality(Under(t, d)) = Cardinality(Under(s, d)) + 1
        /\ Cardinality(Under(s, d)) \in Nat
    <3>1. IsFiniteSet(Under(s, d)) /\ Cardinality(Under(s, d)) \in Nat
      BY UnderIn
    <3>2. Cardinality(Under(s, d) \cup {i}) = Cardinality(Under(s, d)) + 1
      BY <2>2, <3>1, FS_AddElement
    <3> QED
      BY <2>2, <3>1, <3>2
  <2>4. Has(t.entry, d) /\ t.kind[d] = "dir" /\ t.dotdot[d] = s.dotdot[d]
        /\ Slots(t.entry, d) = Slots(s.entry, d)
    BY <1>2, <1>5, <2>1
  <2>5. t.nlink[d] = 2 + Cardinality(Under(t, d)) /\ t.nlink[d] <= LinkMax
    BY <1>10, <2>1, <2>3 DEF Node
  <2> QED
    BY <2>1, <2>4, <2>5 DEF Node
<1>11. ASSUME NEW j \in Ino \ {Root}
       PROVE  Home(t, g, j)
  <2>1. CASE j = i
    BY <2>1 DEF Home, Puts
  <2>2. CASE j # i
    <3>1. Home(s, h, j)
      BY DEF Sound
    <3>2. /\ t.kind[j] = "dir" /\ Has(t.entry, j) => s.kind[j] = "dir" /\ Has(s.entry, j)
          /\ t.dotdot[j] = s.dotdot[j]
      BY <1>5, <2>2
    <3>3. s.dotdot[j] \in Ino \cup {NoIno}
      BY DEF Typed
    <3>4. ASSUME NEW m \in Name, s.dotdot[j] \in Ino, s.entry[s.dotdot[j]][m] = j
          PROVE  t.entry[t.dotdot[j]][m] = j
      BY <1>1, <3>2, <3>4 DEF Puts
    <3> QED
      BY <3>1, <3>2, <3>3, <3>4 DEF Home
  <2> QED
    BY <2>1, <2>2
<1> QED
  BY <1>8, <1>9, <1>10, <1>11 DEF Sound

(* The slot of i, a directory, is cleared.                                 *)
LEMMA TreeRemovesDir ==
  ASSUME NEW s, NEW t, NEW h, NEW g, Typed(s), Sound(s, h), Typed(t),
         h \subseteq g, g \subseteq Ino,
         NEW d \in Ino, NEW n \in Name, NEW i \in Ino, i # d, i # Root,
         s.entry[d][n] = i, d \in h \/ Has(s.entry, d), s.kind[d] = "dir", s.kind[i] = "dir",
         Puts(s.entry, t.entry, d, n, NoIno),
         t.dotdot = s.dotdot, t.kind = s.kind,
         t.used = s.used, t.up = s.up, i \in s.used, i \in s.up,
         \A j \in Ino \ (g \cup {d, i}) : t.nlink[j] = s.nlink[j],
         d \in h \/ i \in h => d \in g /\ i \in g /\ s.dotdot[i] \in g \cup {NoIno},
         i \notin g => Kids(s.entry, i) = {} /\ t.nlink[i] = s.nlink[i] - 2,
         d \notin g => t.nlink[d] = s.nlink[d] - 1
  PROVE  Sound(t, g)
<1>1. NoIno \notin Ino
  BY DEF NoIno, Ino
<1>2. ASSUME NEW e \in Ino \ {i}
      PROVE  Slots(t.entry, e) = Slots(s.entry, e)
  <2>1. e # s.entry[d][n] /\ e # NoIno /\ e # i
    BY <1>1, <1>2
  <2> QED
    BY <2>1, SlotsKept
<1>3. /\ Slots(t.entry, i) = Slots(s.entry, i) \ {<<d, n>>}
      /\ <<d, n>> \in Slots(s.entry, i)
  BY <1>1, SlotsLost
<1>4. \A e \in Ino \ {d} : Kids(t.entry, e) = Kids(s.entry, e)
  BY SameKids DEF Puts
<1>5. \A e \in Ino \ {i} : Has(t.entry, e) = Has(s.entry, e)
  BY <1>2 DEF Has
<1>6. Has(s.entry, i)
  BY <1>3 DEF Has
(* If nothing was spoilt, the slot is the only one of i.                   *)
<1>7. ASSUME d \notin h, i \notin h
      PROVE  s.dotdot[i] = d /\ Slots(s.entry, i) = {<<d, n>>} /\ ~Has(t.entry, i)
  <2>1. PICK m \in Name : Slots(s.entry, i) = {<<s.dotdot[i], m>>}
    BY <1>6, <1>7 DEF Sound, Node
  <2>2. s.dotdot[i] = d /\ m = n
    BY <1>3, <2>1
  <2>3. Slots(t.entry, i) = {}
    BY <1>3, <2>1, <2>2
  <2> QED
    BY <2>1, <2>2, <2>3 DEF Has
<1>8. ASSUME NEW e \in Ino \ g
      PROVE  /\ e # d => Under(t, e) = Under(s, e)
             /\ e = d => Under(t, e) = Under(s, e) \ {i} /\ i \in Under(s, e)
  <2>1. SameBut(s, t, {i})
    BY <1>5 DEF SameBut
  <2>2. (i \in Under(s, e) <=> e = d) /\ i \notin Under(t, e)
    BY <1>1, <1>6, <1>7, <1>8 DEF Under
  <2>3. \A j \in Ino \ {i} : j \in Under(t, e) <=> j \in Under(s, e)
    BY <2>1, SameUnder
  <2>4. Under(t, e) \in SUBSET Ino /\ Under(s, e) \in SUBSET Ino
    BY UnderIn
  <2>5. CASE e = d
    <3>1. Under(t, e) = Under(s, e) \ {i}
      BY <2>2, <2>3, <2>4, <2>5
    <3> QED
      BY <2>2, <2>5, <3>1
  <2>6. CASE e # d
    <3>1. Under(t, e) = Under(s, e)
      BY <2>2, <2>3, <2>4, <2>6
    <3> QED
      BY <2>6, <3>1
  <2> QED
    BY <2>5, <2>6
<1>9. ASSUME NEW e \in Ino \ (g \cup {d, i})
      PROVE  Node(t, e)
  <2>1. Node(s, e)
    BY <1>9 DEF Sound
  <2>2. Kids(t.entry, e) = Kids(s.entry, e)
    BY <1>4, <1>9
  <2>3. t.nlink[e] = s.nlink[e]
        /\ Slots(t.entry, e) = Slots(s.entry, e) /\ Under(t, e) = Under(s, e)
    BY <1>2, <1>8, <1>9
  <2> QED
    BY <2>1, <2>2, <2>3, SameNode
<1>10. ASSUME i \notin g
       PROVE  Node(t, i)
  <2>1. i \in Ino \ h /\ Node(s, i) /\ d \notin h /\ Kids(s.entry, i) = {}
    BY <1>10 DEF Sound
  <2>2. Under(s, i) = {} /\ Cardinality({}) = 0
    BY <2>1, Linkage, FS_EmptySet
  <2>3. s.nlink[i] = 2
    BY <1>6, <2>1, <2>2 DEF Node
  <2>4. ~Has(t.entry, i) /\ t.nlink[i] = 0 /\ Kids(t.entry, i) = {}
    BY <1>4, <1>7, <1>10, <2>1, <2>3
  <2> QED
    BY <2>4, NameiAssumption DEF Node
<1>11. ASSUME d \notin g
       PROVE  Node(t, d)
  <2>1. d \in Ino \ h /\ Node(s, d)
    BY <1>11 DEF Sound
  <2>2. Under(t, d) = Under(s, d) \ {i} /\ i \in Under(s, d)
    BY <1>8, <1>11
  <2>3. Cardinality(Under(t, d)) = Cardinality(Under(s, d)) - 1
        /\ Cardinality(Under(s, d)) \in Nat
    <3>1. PICK S : S = Under(s, d)
      OBVIOUS
    <3>2. IsFiniteSet(S) /\ i \in S /\ Under(t, d) = S \ {i}
      BY <2>2, <3>1, UnderIn
    <3>3. Cardinality(S \ {i}) = Cardinality(S) - 1 /\ Cardinality(S) \in Nat
      BY <3>2, OneMore
    <3> QED
      BY <3>1, <3>2, <3>3
  <2>4. Has(t.entry, d) /\ Slots(t.entry, d) = Slots(s.entry, d)
    BY <1>2, <1>5, <2>1
  <2>5. t.nlink[d] = 2 + Cardinality(Under(t, d)) /\ t.nlink[d] <= LinkMax
    BY <1>11, <2>1, <2>3, NameiAssumption DEF Node
  <2> QED
    BY <2>1, <2>4, <2>5 DEF Node
<1>12. ASSUME NEW j \in Ino \ {Root}
       PROVE  Home(t, g, j)
  <2>1. CASE j = i
    BY <1>7, <2>1 DEF Home
  <2>2. CASE j # i
    <3>1. Home(s, h, j)
      BY DEF Sound
    <3>2. Has(t.entry, j) => Has(s.entry, j)
      BY <1>5, <2>2
    <3>3. s.dotdot[j] \in Ino \cup {NoIno}
      BY DEF Typed
    <3>4. ASSUME NEW m \in Name, s.dotdot[j] \in Ino, s.entry[s.dotdot[j]][m] = j
          PROVE  t.entry[t.dotdot[j]][m] = j
      BY <1>1, <2>2, <3>4 DEF Puts
    <3> QED
      BY <3>1, <3>2, <3>3, <3>4 DEF Home
  <2> QED
    BY <2>1, <2>2
<1> QED
  BY <1>9, <1>10, <1>11, <1>12 DEF Sound

(* minix_evict_inode() of what has no link left.                           *)
LEMMA TreeEvicts ==
  ASSUME NEW s, NEW t, NEW h, NEW g, Typed(s), Sound(s, h), Typed(t),
         h \subseteq g, g \subseteq Ino,
         NEW i \in Ino, i # Root, s.nlink[i] = 0,
         \A x \in Ino, m \in Name : t.entry[x][m] = IF x = i THEN NoIno ELSE s.entry[x][m],
         \A j \in Ino : t.dotdot[j] = IF j = i THEN NoIno ELSE s.dotdot[j],
         t.kind = s.kind, t.nlink = s.nlink, t.used = s.used, t.up = s.up,
         Kids(s.entry, i) \subseteq g,
         Has(s.entry, i) => s.dotdot[i] \in g \cup {NoIno}
  PROVE  Sound(t, g)
<1>1. NoIno \notin Ino
  BY DEF NoIno, Ino
<1>2. i \notin h => ~Has(s.entry, i) /\ Kids(s.entry, i) = {}
  BY Linkage DEF Sound, Node
<1>3. ASSUME NEW e \in Ino \ Kids(s.entry, i)
      PROVE  Slots(t.entry, e) = Slots(s.entry, e)
  <2>1. \A m \in Name : s.entry[i][m] # e
    BY <1>1, <1>3, Zenon DEF Kids
  <2>2. \A x \in Ino \X Name : t.entry[x[1]][x[2]] = e <=> s.entry[x[1]][x[2]] = e
    BY <1>1, <1>3, <2>1
  <2> QED
    BY <2>2 DEF Slots
<1>4. \A e \in Ino \ {i} : Kids(t.entry, e) = Kids(s.entry, e)
  BY SameKids
<1>5. \A e \in Ino \ Kids(s.entry, i) : Has(t.entry, e) = Has(s.entry, e)
  BY <1>3 DEF Has
<1>6. \A e \in Ino : Has(t.entry, e) => Has(s.entry, e)
  <2> SUFFICES ASSUME NEW e \in Ino, e # Root, Slots(t.entry, e) # {}
               PROVE  Slots(s.entry, e) # {}
    BY DEF Has
  <2>1. PICK x \in Ino \X Name : t.entry[x[1]][x[2]] = e
    BY DEF Slots
  <2>2. s.entry[x[1]][x[2]] = e
    BY <1>1, <2>1
  <2> QED
    BY <2>2 DEF Slots
<1>7. ASSUME NEW e \in Ino \ g
      PROVE  Under(t, e) = Under(s, e)
  <2>1. ASSUME NEW j \in Under(s, e)
        PROVE  j \in Under(t, e)
    <3>1. j \in Ino \ {Root} /\ s.kind[j] = "dir" /\ Has(s.entry, j) /\ s.dotdot[j] = e
      BY <2>1 DEF Under
    <3>2. j # i
      BY <1>1, <1>7, <3>1
    <3>3. CASE j \notin Kids(s.entry, i)
      BY <1>5, <3>1, <3>2, <3>3 DEF Under
    <3>4. CASE j \in Kids(s.entry, i)
      <4>1. i \in h
        BY <1>2, <3>4
      <4>2. Home(s, h, j)
        BY <3>1 DEF Sound
      <4>3. PICK m \in Name : s.entry[e][m] = j
        BY <1>1, <1>7, <3>1, <4>2 DEF Home
      <4>4. t.entry[e][m] = j
        BY <1>7, <4>1, <4>3
      <4>5. <<e, m>> \in Slots(t.entry, j)
        BY <4>4 DEF Slots
      <4> QED
        BY <3>1, <3>2, <4>5 DEF Under, Has
    <3> QED
      BY <3>3, <3>4
  <2>2. ASSUME NEW j \in Under(t, e)
        PROVE  j \in Under(s, e)
    BY <1>1, <1>6, <1>7, <2>2 DEF Under
  <2> QED
    BY <2>1, <2>2
<1>8. ASSUME NEW e \in Ino \ g
      PROVE  Node(t, e)
  <2>1. Node(s, e) /\ e \notin Kids(s.entry, i)
    BY <1>8 DEF Sound
  <2>2. Kids(t.entry, e) = Kids(s.entry, e)
    <3>1. CASE e # i
      BY <1>4, <3>1
    <3>2. CASE e = i
      <4>1. Kids(s.entry, i) = {}
        BY <1>2, <1>8, <3>2
      <4>2. \A m \in Name : t.entry[i][m] = NoIno
        OBVIOUS
      <4>3. Kids(t.entry, i) = {}
        BY <4>2, Zenon DEF Kids
      <4> QED
        BY <3>2, <4>1, <4>3
    <3> QED
      BY <3>1, <3>2
  <2>3. Slots(t.entry, e) = Slots(s.entry, e) /\ Under(t, e) = Under(s, e)
        /\ (Has(s.entry, e) => t.dotdot[e] = s.dotdot[e])
    BY <1>2, <1>3, <1>7, <1>8, <2>1
  <2> QED
    BY <2>1, <2>2, <2>3, SameNode
<1>9. ASSUME NEW j \in Ino \ {Root}
      PROVE  Home(t, g, j)
  <2>1. CASE j = i
    BY <2>1 DEF Home
  <2>2. CASE j # i
    <3>1. Home(s, h, j) /\ t.dotdot[j] = s.dotdot[j]
      BY <2>2 DEF Sound
    <3>2. s.dotdot[j] \in Ino \cup {NoIno}
      BY DEF Typed
    <3>3. ASSUME NEW m \in Name, s.dotdot[j] \in Ino, s.entry[s.dotdot[j]][m] = j
          PROVE  s.dotdot[j] \in g \/ t.entry[t.dotdot[j]][m] = j
      <4>1. CASE s.dotdot[j] # i
        BY <3>1, <3>3, <4>1
      <4>2. CASE s.dotdot[j] = i
        <5>1. s.entry[i][m] = j /\ j # NoIno
          BY <1>1, <3>3, <4>2
        <5>2. j \in Kids(s.entry, i)
          BY <5>1, Zenon DEF Kids
        <5> QED
          BY <1>2, <4>2, <5>2
      <4> QED
        BY <4>1, <4>2
    <3> QED
      BY <1>6, <3>1, <3>2, <3>3 DEF Home
  <2> QED
    BY <2>1, <2>2
<1> QED
  BY <1>8, <1>9 DEF Sound

(* rename: slot <<d2, n2>>, of v or vacant, is set to i, and slot <<d, n>> *)
(* of i is cleared, unless these steps fail.                               *)
Moves(e, f, g, d, n, d2, n2, i, v, set, removed) ==
  /\ d \in Ino /\ d2 \in Ino /\ n \in Name /\ n2 \in Name
  /\ i \in Ino /\ v \in Ino \cup {NoIno} /\ set \in BOOLEAN /\ removed \in BOOLEAN
  /\ i \notin {d, d2, v, Root} /\ v \notin {d, d2, Root}
  /\ e[d][n] = i /\ e[d2][n2] = v
  /\ Puts(e, f, d2, n2, IF set THEN i ELSE v)
  /\ Puts(f, g, d, n, IF removed THEN NoIno ELSE i)

(* What has become of the slots.                                           *)
Moved(e, g, d, n, d2, n2, i, v, set, removed) ==
  /\ \A j \in Ino \ {i, v} : Slots(g, j) = Slots(e, j)
  /\ \A j \in Ino \ {i, v} : Has(g, j) = Has(e, j)
  /\ \A j \in Ino \ {d, d2} : Kids(g, j) = Kids(e, j)
  /\ <<d, n>> \in Slots(e, i) /\ <<d2, n2>> \notin Slots(e, i)
  /\ set /\ removed => Slots(g, i) = (Slots(e, i) \cup {<<d2, n2>>}) \ {<<d, n>>}
  /\ set => Has(g, i) /\ g[d2][n2] = i
  /\ v \in Ino => /\ <<d2, n2>> \in Slots(e, v)
                  /\ set => Slots(g, v) = Slots(e, v) \ {<<d2, n2>>}
                  /\ ~set => Slots(g, v) = Slots(e, v) /\ g[d2][n2] = v
  /\ \A j \in Ino \ {i, v}, x \in Ino, m \in Name : e[x][m] = j => g[x][m] = j

LEMMA MovedSlots ==
  ASSUME NEW e, NEW f, NEW g, NEW d, NEW n, NEW d2, NEW n2, NEW i, NEW v,
         NEW set, NEW removed, Moves(e, f, g, d, n, d2, n2, i, v, set, removed)
  PROVE  Moved(e, g, d, n, d2, n2, i, v, set, removed)
<1>1. NoIno \notin Ino
  BY DEF NoIno, Ino
<1>2. /\ d \in Ino /\ d2 \in Ino /\ n \in Name /\ n2 \in Name
      /\ i \in Ino /\ v \in Ino \cup {NoIno} /\ set \in BOOLEAN /\ removed \in BOOLEAN
      /\ i \notin {d, d2, v, Root} /\ v \notin {d, d2, Root}
      /\ e[d][n] = i /\ e[d2][n2] = v
      /\ Puts(e, f, d2, n2, IF set THEN i ELSE v)
      /\ Puts(f, g, d, n, IF removed THEN NoIno ELSE i)
  BY DEF Moves
<1> DEFINE p == IF set THEN i ELSE v
           q == IF removed THEN NoIno ELSE i
<1>3. Puts(e, f, d2, n2, p) /\ Puts(f, g, d, n, q)
  BY <1>2
<1>4. /\ p \in {i, v} /\ q \in {NoIno, i} /\ (set => p = i) /\ (~set => p = v)
      /\ (removed => q = NoIno)
  OBVIOUS
<1> HIDE DEF p, q
<1>5. <<d, n>> # <<d2, n2>>
  BY <1>2
<1>6. f[d][n] = i /\ f[d2][n2] = p /\ g[d2][n2] = p
  BY <1>2, <1>3, <1>5 DEF Puts
<1>7. ASSUME NEW j \in Ino
      PROVE  /\ \A x : x \notin {<<d, n>>, <<d2, n2>>} =>
                         (x \in Slots(g, j) <=> x \in Slots(e, j))
             /\ <<d2, n2>> \in Slots(g, j) <=> j = p
             /\ <<d, n>> \in Slots(g, j) <=> j = q
             /\ <<d2, n2>> \in Slots(e, j) <=> j = v
             /\ <<d, n>> \in Slots(e, j) <=> j = i
  <2>1. /\ \A x : x # <<d2, n2>> => (x \in Slots(f, j) <=> x \in Slots(e, j))
        /\ <<d2, n2>> \in Slots(e, j) <=> j = v
        /\ <<d2, n2>> \in Slots(f, j) <=> j = p
    BY <1>2, <1>3, SlotsPoints
  <2>2. /\ \A x : x # <<d, n>> => (x \in Slots(g, j) <=> x \in Slots(f, j))
        /\ <<d, n>> \in Slots(f, j) <=> j = i
        /\ <<d, n>> \in Slots(g, j) <=> j = q
    BY <1>2, <1>3, <1>6, SlotsPoints
  <2> QED
    BY <1>5, <2>1, <2>2
<1>8. ASSUME NEW j \in Ino \ {i, v}
      PROVE  Slots(g, j) = Slots(e, j)
  <2>1. j # p /\ j # q
    BY <1>1, <1>4, <1>8
  <2>2. \A x : x \in Slots(g, j) <=> x \in Slots(e, j)
    BY <1>7, <1>8, <2>1
  <2> QED
    BY <2>2
<1>9. \A j \in Ino \ {d, d2} : Kids(g, j) = Kids(e, j)
  <2>1. \A j \in Ino \ {d, d2} : \A m \in Name : g[j][m] = e[j][m]
    BY <1>3 DEF Puts
  <2> QED
    BY <2>1, SameKids
<1>10. <<d, n>> \in Slots(e, i) /\ <<d2, n2>> \notin Slots(e, i)
  BY <1>2, <1>7
<1>11. ASSUME set, removed
       PROVE  Slots(g, i) = (Slots(e, i) \cup {<<d2, n2>>}) \ {<<d, n>>}
  <2>1. p = i /\ q # i
    BY <1>1, <1>2, <1>4, <1>11
  <2>2. \A x : x \in Slots(g, i) <=> x \in (Slots(e, i) \cup {<<d2, n2>>}) \ {<<d, n>>}
    BY <1>2, <1>5, <1>7, <2>1
  <2> QED
    BY <2>2
<1>12. ASSUME set PROVE Has(g, i) /\ g[d2][n2] = i
  BY <1>2, <1>4, <1>6, <1>7, <1>12 DEF Has
<1>13. ASSUME v \in Ino
       PROVE  /\ <<d2, n2>> \in Slots(e, v)
              /\ set => Slots(g, v) = Slots(e, v) \ {<<d2, n2>>}
              /\ ~set => Slots(g, v) = Slots(e, v) /\ g[d2][n2] = v
  <2>1. v # q /\ v # i
    BY <1>1, <1>2, <1>4, <1>13
  <2>2. <<d2, n2>> \in Slots(e, v) /\ <<d, n>> \notin Slots(e, v) /\ <<d, n>> \notin Slots(g, v)
    BY <1>7, <1>13, <2>1
  <2>3. ASSUME set PROVE Slots(g, v) = Slots(e, v) \ {<<d2, n2>>}
    <3>1. <<d2, n2>> \notin Slots(g, v)
      BY <1>4, <1>7, <1>13, <2>1, <2>3
    <3>2. \A x : x \in Slots(g, v) <=> x \in Slots(e, v) \ {<<d2, n2>>}
      BY <1>7, <1>13, <2>2, <3>1
    <3> QED
      BY <3>2
  <2>4. ASSUME ~set PROVE Slots(g, v) = Slots(e, v) /\ g[d2][n2] = v
    <3>1. <<d2, n2>> \in Slots(g, v) /\ g[d2][n2] = v
      BY <1>4, <1>6, <1>7, <1>13, <2>4
    <3>2. \A x : x \in Slots(g, v) <=> x \in Slots(e, v)
      BY <1>7, <1>13, <2>2, <3>1
    <3> QED
      BY <3>1, <3>2
  <2> QED
    BY <2>2, <2>3, <2>4
<1>14. \A j \in Ino \ {i, v}, x \in Ino, m \in Name : e[x][m] = j => g[x][m] = j
  BY <1>2, <1>3 DEF Puts
<1>15. \A j \in Ino \ {i, v} : Has(g, j) = Has(e, j)
  BY <1>8 DEF Has
<1> QED
  BY <1>8, <1>9, <1>10, <1>11, <1>12, <1>13, <1>14, <1>15 DEF Moved

(* Of a file: s becomes t, and what is spoilt, h, becomes g.               *)
MovesFile(s, t, h, g, f, d, n, d2, n2, i, v, set, removed) ==
  /\ Typed(s) /\ Sound(s, h) /\ Typed(t) /\ h \subseteq g /\ g \subseteq Ino
  /\ Moves(s.entry, f, t.entry, d, n, d2, n2, i, v, set, removed)
  /\ (d \in h \/ Has(s.entry, d)) /\ (d2 \in h \/ Has(s.entry, d2))
  /\ s.kind[d] = "dir" /\ s.kind[d2] = "dir"
  /\ s.kind[i] # "dir" /\ (v \in Ino => s.kind[v] # "dir" /\ v \in s.used /\ v \in s.up)
  /\ t.dotdot = s.dotdot /\ t.kind = s.kind /\ t.used = s.used /\ t.up = s.up
  /\ ~removed \/ ~set => i \in g
  /\ ~set /\ v \in Ino => v \in g
  /\ \A j \in Ino \ (g \cup {v}) : t.nlink[j] = s.nlink[j]
  /\ v \in Ino \ g => t.nlink[v] = s.nlink[v] - 1

LEMMA TreeMovesFile ==
  ASSUME NEW s, NEW t, NEW h, NEW g, NEW f, NEW d, NEW n, NEW d2, NEW n2, NEW i, NEW v,
         NEW set, NEW removed, MovesFile(s, t, h, g, f, d, n, d2, n2, i, v, set, removed)
  PROVE  Sound(t, g)
<1> USE DEF MovesFile
<1>1. /\ d \in Ino /\ d2 \in Ino /\ i \in Ino /\ v \in Ino \cup {NoIno}
      /\ set \in BOOLEAN /\ removed \in BOOLEAN
      /\ i \notin {d, d2, v, Root} /\ v \notin {d, d2, Root}
  BY DEF Moves
<1>2. Moved(s.entry, t.entry, d, n, d2, n2, i, v, set, removed)
  BY MovedSlots
<1>3. /\ \A j \in Ino \ {i, v} : Slots(t.entry, j) = Slots(s.entry, j)
      /\ \A j \in Ino \ {i, v} : Has(t.entry, j) = Has(s.entry, j)
      /\ \A j \in Ino \ {d, d2} : Kids(t.entry, j) = Kids(s.entry, j)
      /\ <<d, n>> \in Slots(s.entry, i) /\ <<d2, n2>> \notin Slots(s.entry, i)
      /\ set /\ removed =>
           Slots(t.entry, i) = (Slots(s.entry, i) \cup {<<d2, n2>>}) \ {<<d, n>>}
      /\ v \in Ino => /\ <<d2, n2>> \in Slots(s.entry, v)
                      /\ set => Slots(t.entry, v) = Slots(s.entry, v) \ {<<d2, n2>>}
      /\ \A j \in Ino \ {i, v}, x \in Ino, m \in Name :
            s.entry[x][m] = j => t.entry[x][m] = j
  BY <1>2 DEF Moved
<1>4. \A e \in Ino : Under(t, e) = Under(s, e)
  <2> SUFFICES ASSUME NEW e \in Ino PROVE Under(t, e) = Under(s, e)
    OBVIOUS
  <2>1. SameBut(s, t, {i, v})
    BY <1>3 DEF SameBut
  <2>2. \A j \in {i, v} : j \in Under(t, e) <=> j \in Under(s, e)
    BY <1>1 DEF Under
  <2> QED
    BY <2>1, <2>2, SameUnder
<1>5. ASSUME NEW e \in Ino \ (g \cup {i, v})
      PROVE  Node(t, e)
  <2>1. Node(s, e)
    BY <1>5 DEF Sound
  <2>2. Kids(t.entry, e) = Kids(s.entry, e) \/ (Has(s.entry, e) /\ s.kind[e] = "dir")
    BY <1>3, <1>5
  <2>3. t.nlink[e] = s.nlink[e] /\ Slots(t.entry, e) = Slots(s.entry, e)
        /\ Under(t, e) = Under(s, e)
    BY <1>3, <1>4, <1>5
  <2> QED
    BY <2>1, <2>2, <2>3, SameNode
<1>6. ASSUME i \notin g
      PROVE  Node(t, i)
  <2>1. set /\ removed /\ Node(s, i) /\ t.nlink[i] = s.nlink[i]
    BY <1>1, <1>6 DEF Sound
  <2>2. Has(s.entry, i) /\ Has(t.entry, i)
    BY <1>3, <2>1 DEF Has, Moves
  <2>3. Cardinality(Slots(t.entry, i)) = Cardinality(Slots(s.entry, i))
    <3> DEFINE A == Slots(s.entry, i)
               B == A \cup {<<d2, n2>>}
    <3>1. IsFiniteSet(A) /\ Cardinality(A) \in Nat
      BY Finite
    <3>2. <<d, n>> \in B /\ <<d2, n2>> \notin A /\ Slots(t.entry, i) = B \ {<<d, n>>}
      BY <1>3, <2>1
    <3>3. IsFiniteSet(B) /\ Cardinality(B) = Cardinality(A) + 1
      BY <3>1, <3>2, FS_AddElement
    <3> HIDE DEF A, B
    <3>4. Cardinality(B \ {<<d, n>>}) = Cardinality(B) - 1
      BY <3>2, <3>3, FS_RemoveElement
    <3>5. Cardinality(Slots(t.entry, i)) = Cardinality(A)
      BY <3>1, <3>2, <3>3, <3>4
    <3> QED
      BY <3>5 DEF A
  <2>4. Kids(t.entry, i) = Kids(s.entry, i)
    BY <1>1, <1>3
  <2> QED
    BY <2>1, <2>2, <2>3, <2>4 DEF Node
<1>7. ASSUME v \in Ino \ g
      PROVE  Node(t, v)
  <2>1. set /\ Node(s, v) /\ v \in Ino \ h
    BY <1>1, <1>7 DEF Sound
  <2>2. Has(s.entry, v)
    BY <1>3, <1>7 DEF Has
  <2>3. s.nlink[v] = Cardinality(Slots(s.entry, v)) /\ Kids(s.entry, v) = {}
        /\ s.nlink[v] <= LinkMax /\ s.nlink[v] \in Nat
    BY <1>7, <2>1, <2>2, Linkage DEF Node
  <2>4. Cardinality(Slots(t.entry, v)) = Cardinality(Slots(s.entry, v)) - 1
    <3>1. IsFiniteSet(Slots(s.entry, v))
      BY Finite
    <3>2. <<d2, n2>> \in Slots(s.entry, v)
          /\ Slots(t.entry, v) = Slots(s.entry, v) \ {<<d2, n2>>}
      BY <1>3, <1>7, <2>1
    <3> QED
      BY <3>1, <3>2, FS_RemoveElement
  <2>5. t.nlink[v] = Cardinality(Slots(t.entry, v)) /\ Kids(t.entry, v) = {}
    BY <1>1, <1>3, <1>7, <2>3, <2>4
  <2>6. t.nlink[v] <= LinkMax
    BY <1>7, <2>3, NameiAssumption
  <2>7. ~Has(t.entry, v) => t.nlink[v] = 0
    BY <2>5, Finite DEF Has
  <2> QED
    BY <1>7, <2>5, <2>6, <2>7 DEF Node
<1>8. ASSUME NEW j \in Ino \ {Root}
      PROVE  Home(t, g, j)
  <2>1. CASE j \in {i, v}
    BY <2>1 DEF Home
  <2>2. CASE j \notin {i, v}
    <3>1. Home(s, h, j) /\ Has(t.entry, j) = Has(s.entry, j)
      BY <1>3, <2>2 DEF Sound
    <3>2. s.dotdot[j] \in Ino \cup {NoIno}
      BY DEF Typed
    <3>3. ASSUME NEW m \in Name, s.dotdot[j] \in Ino, s.entry[s.dotdot[j]][m] = j
          PROVE  t.entry[t.dotdot[j]][m] = j
      BY <1>3, <2>2, <3>3
    <3> QED
      BY <3>1, <3>2, <3>3 DEF Home
  <2> QED
    BY <2>1, <2>2
<1> QED
  BY <1>5, <1>6, <1>7, <1>8 DEF Sound

(* Of a directory.                                                         *)
MovesDir(s, t, h, g, f, d, n, d2, n2, i, v, set, removed, moved) ==
  /\ Typed(s) /\ Sound(s, h) /\ Typed(t) /\ h \subseteq g /\ g \subseteq Ino
  /\ Moves(s.entry, f, t.entry, d, n, d2, n2, i, v, set, removed)
  /\ (d \in h \/ Has(s.entry, d)) /\ (d2 \in h \/ Has(s.entry, d2))
  /\ s.kind[d] = "dir" /\ s.kind[d2] = "dir"
  /\ s.kind[i] = "dir" /\ (v \in Ino => s.kind[v] = "dir" /\ v \in s.used /\ v \in s.up)
  /\ \A j \in Ino : t.dotdot[j] = IF j = i /\ moved THEN d2 ELSE s.dotdot[j]
  /\ t.kind = s.kind /\ t.used = s.used /\ t.up = s.up
  /\ ~removed \/ ~set => i \in g
  /\ ~set => d2 \in g /\ (v \in Ino => v \in g)
  /\ ~moved /\ d # d2 => d \in g /\ d2 \in g /\ i \in g
  /\ d \in h \/ d2 \in h \/ i \in h \/ v \in h =>
       /\ d \in g /\ d2 \in g /\ i \in g /\ s.dotdot[i] \in g \cup {NoIno}
       /\ v \in Ino => v \in g /\ s.dotdot[v] \in g \cup {NoIno}
  /\ \A j \in Ino \ (g \cup {d, d2, v}) : t.nlink[j] = s.nlink[j]
  /\ v \in Ino \ g => Kids(s.entry, v) = {} /\ t.nlink[v] = s.nlink[v] - 2
  /\ d \notin g => t.nlink[d] = IF d = d2 /\ v = NoIno THEN s.nlink[d] ELSE s.nlink[d] - 1
  /\ d2 \notin g /\ d # d2 =>
       /\ t.nlink[d2] <= LinkMax
       /\ t.nlink[d2] = IF v = NoIno THEN s.nlink[d2] + 1 ELSE s.nlink[d2]

LEMMA TreeMovesDir ==
  ASSUME NEW s, NEW t, NEW h, NEW g, NEW f, NEW d, NEW n, NEW d2, NEW n2, NEW i, NEW v,
         NEW set, NEW removed, NEW moved,
         MovesDir(s, t, h, g, f, d, n, d2, n2, i, v, set, removed, moved)
  PROVE  Sound(t, g)
<1> USE DEF MovesDir
<1>1. Moved(s.entry, t.entry, d, n, d2, n2, i, v, set, removed)
  BY MovedSlots
<1>2. /\ d \in Ino /\ d2 \in Ino /\ i \in Ino /\ v \in Ino \cup {NoIno} /\ NoIno \notin Ino
      /\ set \in BOOLEAN /\ removed \in BOOLEAN /\ n \in Name /\ n2 \in Name
      /\ i \notin {d, d2, v, Root} /\ v \notin {d, d2, Root}
  BY DEF Moves, NoIno, Ino
<1>3. /\ \A j \in Ino \ {i, v} : Slots(t.entry, j) = Slots(s.entry, j)
      /\ \A j \in Ino \ {i, v} : Has(t.entry, j) = Has(s.entry, j)
      /\ \A j \in Ino \ {d, d2} : Kids(t.entry, j) = Kids(s.entry, j)
      /\ <<d, n>> \in Slots(s.entry, i) /\ <<d2, n2>> \notin Slots(s.entry, i)
      /\ set /\ removed =>
           Slots(t.entry, i) = (Slots(s.entry, i) \cup {<<d2, n2>>}) \ {<<d, n>>}
      /\ set => Has(t.entry, i) /\ t.entry[d2][n2] = i
      /\ v \in Ino => /\ <<d2, n2>> \in Slots(s.entry, v)
                      /\ set => Slots(t.entry, v) = Slots(s.entry, v) \ {<<d2, n2>>}
                      /\ ~set => Slots(t.entry, v) = Slots(s.entry, v) /\ t.entry[d2][n2] = v
      /\ \A j \in Ino \ {i, v}, x \in Ino, m \in Name :
            s.entry[x][m] = j => t.entry[x][m] = j
  BY <1>1 DEF Moved
<1>4. Has(s.entry, i) /\ (v \in Ino => Has(s.entry, v))
  BY <1>3 DEF Has
<1>5. t.dotdot[i] = (IF moved THEN d2 ELSE s.dotdot[i])
      /\ \A j \in Ino \ {i} : t.dotdot[j] = s.dotdot[j]
  BY <1>2
(* If nothing was spoilt, the slots are the only ones of i and v.          *)
<1> DEFINE whole == d \notin h /\ d2 \notin h /\ i \notin h /\ v \notin h
<1>6. ASSUME whole
      PROVE  /\ s.dotdot[i] = d /\ Slots(s.entry, i) = {<<d, n>>}
             /\ v \in Ino => /\ s.dotdot[v] = d2 /\ Slots(s.entry, v) = {<<d2, n2>>}
                             /\ set => ~Has(t.entry, v)
  <2>1. s.dotdot[i] = d /\ Slots(s.entry, i) = {<<d, n>>}
    <3>1. PICK m \in Name : Slots(s.entry, i) = {<<s.dotdot[i], m>>}
      BY <1>2, <1>4, <1>6 DEF Sound, Node
    <3>2. s.dotdot[i] = d /\ m = n
      BY <1>3, <3>1
    <3> QED
      BY <3>1, <3>2
  <2>2. ASSUME v \in Ino
        PROVE  /\ s.dotdot[v] = d2 /\ Slots(s.entry, v) = {<<d2, n2>>}
               /\ set => ~Has(t.entry, v)
    <3>1. PICK m \in Name : Slots(s.entry, v) = {<<s.dotdot[v], m>>}
      BY <1>2, <1>4, <1>6, <2>2 DEF Sound, Node
    <3>2. s.dotdot[v] = d2 /\ m = n2
      BY <1>3, <2>2, <3>1
    <3>3. set => Slots(t.entry, v) = {}
      BY <1>3, <2>2, <3>1, <3>2
    <3> QED
      BY <1>2, <3>1, <3>2, <3>3 DEF Has
  <2> QED
    BY <2>1, <2>2
(* Who is in which directory.                                              *)
<1>7. ASSUME NEW e \in Ino \ g
      PROVE  /\ i \in Under(s, e) <=> e = d
             /\ i \in Under(t, e) <=> e = d2
             /\ v \in Ino => (v \in Under(s, e) <=> e = d2) /\ v \notin Under(t, e)
             /\ \A j \in Ino \ {i, v} : j \in Under(t, e) <=> j \in Under(s, e)
  <2>1. \A j \in Ino \ {i, v} : j \in Under(t, e) <=> j \in Under(s, e)
    <3>1. SameBut(s, t, {i, v})
      BY <1>3, <1>5 DEF SameBut
    <3> QED
      BY <3>1, SameUnder
  <2>2. i \in Under(s, e) <=> s.dotdot[i] = e
    BY <1>2, <1>4 DEF Under
  <2>3. i \in Under(t, e) <=> Has(t.entry, i) /\ t.dotdot[i] = e
    BY <1>2 DEF Under
  <2>4. v \in Ino => /\ v \in Under(s, e) <=> s.dotdot[v] = e
                     /\ v \in Under(t, e) <=> Has(t.entry, v) /\ s.dotdot[v] = e
    BY <1>2, <1>4, <1>5 DEF Under
  <2>5. CASE whole
    <3>1. i \in Under(s, e) <=> e = d
      BY <1>6, <2>2, <2>5
    <3>2. i \in Under(t, e) <=> e = d2
      <4>1. CASE moved
        BY <1>2, <1>3, <1>5, <1>7, <2>3, <4>1
      <4>2. CASE ~moved
        BY <1>2, <1>3, <1>5, <1>6, <1>7, <2>3, <2>5, <4>2
      <4> QED
        BY <4>1, <4>2
    <3>3. v \in Ino => (v \in Under(s, e) <=> e = d2) /\ v \notin Under(t, e)
      BY <1>2, <1>6, <1>7, <2>4, <2>5
    <3> QED
      BY <2>1, <3>1, <3>2, <3>3
  <2>6. CASE ~whole
    <3>1. /\ d \in g /\ d2 \in g /\ s.dotdot[i] \in g \cup {NoIno}
          /\ v \in Ino => s.dotdot[v] \in g \cup {NoIno}
      BY <2>6
    <3> QED
      BY <1>2, <1>5, <1>7, <2>1, <2>2, <2>3, <2>4, <3>1
  <2> QED
    BY <2>5, <2>6
<1>8. ASSUME NEW e \in Ino \ (g \cup {d, d2, i, v})
      PROVE  Node(t, e)
  <2>1. Node(s, e)
    BY <1>8 DEF Sound
  <2>2. Under(t, e) = Under(s, e)
    <3>1. \A j \in Ino : j \in Under(t, e) <=> j \in Under(s, e)
      BY <1>2, <1>7, <1>8
    <3>2. Under(t, e) \in SUBSET Ino /\ Under(s, e) \in SUBSET Ino
      BY UnderIn
    <3> QED
      BY <3>1, <3>2
  <2>3. t.nlink[e] = s.nlink[e] /\ Slots(t.entry, e) = Slots(s.entry, e)
        /\ Kids(t.entry, e) = Kids(s.entry, e) /\ t.dotdot[e] = s.dotdot[e]
    BY <1>3, <1>5, <1>8
  <2> QED
    BY <2>1, <2>2, <2>3, SameNode
<1>9. ASSUME i \notin g
      PROVE  Node(t, i)
  <2>1. set /\ removed /\ whole /\ Node(s, i) /\ t.nlink[i] = s.nlink[i]
    BY <1>2, <1>9 DEF Sound
  <2>2. Slots(t.entry, i) = {<<d2, n2>>} /\ Has(t.entry, i)
    <3>1. <<d, n>> # <<d2, n2>>
      BY <1>3
    <3> QED
      BY <1>3, <1>6, <2>1, <3>1
  <2>3. t.dotdot[i] = d2
    BY <1>5, <1>6, <1>9, <2>1
  <2>4. Under(t, i) = Under(s, i)
    <3>1. \A j \in Ino : j \in Under(t, i) <=> j \in Under(s, i)
      BY <1>2, <1>7, <1>9
    <3>2. Under(t, i) \in SUBSET Ino /\ Under(s, i) \in SUBSET Ino
      BY UnderIn
    <3> QED
      BY <3>1, <3>2
  <2> QED
    BY <1>2, <1>4, <2>1, <2>2, <2>3, <2>4 DEF Node
<1>10. ASSUME v \in Ino \ g
      PROVE  Node(t, v)
  <2>1. set /\ whole /\ Node(s, v) /\ v \in Ino \ h
        /\ Kids(s.entry, v) = {} /\ t.nlink[v] = s.nlink[v] - 2
    BY <1>2, <1>10 DEF Sound
  <2>2. Under(s, v) = {} /\ Cardinality({}) = 0
    BY <2>1, Linkage, FS_EmptySet
  <2>3. s.nlink[v] = 2
    BY <1>4, <1>10, <2>1, <2>2 DEF Node
  <2>4. ~Has(t.entry, v) /\ t.nlink[v] = 0 /\ Kids(t.entry, v) = {}
    BY <1>2, <1>3, <1>6, <1>10, <2>1, <2>3
  <2> QED
    BY <1>10, <2>4, NameiAssumption DEF Node
(* The directories, of which i leaves one and enters the other.            *)
<1>11. ASSUME NEW e \in {d, d2} \ g
       PROVE  Node(t, e)
  <2>1. e \in Ino \ h /\ Node(s, e) /\ Has(s.entry, e) /\ s.kind[e] = "dir" /\ e \notin {i, v}
    BY <1>2, <1>11 DEF Sound
  <2>2. Slots(t.entry, e) = Slots(s.entry, e) /\ Has(t.entry, e) /\ t.dotdot[e] = s.dotdot[e]
    BY <1>3, <1>5, <2>1
  <2>3. s.nlink[e] = 2 + Cardinality(Under(s, e)) /\ s.nlink[e] <= LinkMax
        /\ (e # Root => \E m \in Name : Slots(s.entry, e) = {<<s.dotdot[e], m>>})
        /\ (e \in s.used <=> Has(s.entry, e) \/ e \in s.up)
    BY <2>1 DEF Node
  <2> DEFINE A == Under(s, e)
             B == Under(t, e)
  <2>4. A \in SUBSET Ino /\ B \in SUBSET Ino /\ IsFiniteSet(A) /\ Cardinality(A) \in Nat
        /\ IsFiniteSet(B) /\ Cardinality(B) \in Nat
    BY UnderIn
  <2>5. /\ i \in A <=> e = d
        /\ i \in B <=> e = d2
        /\ v \in Ino => (v \in A <=> e = d2) /\ v \notin B
        /\ \A j \in Ino \ {i, v} : j \in B <=> j \in A
    BY <1>7, <1>11, <2>1
  <2>6. i # v /\ (v \notin Ino => v \notin A /\ v \notin B) /\ e \notin g
    BY <1>2, <1>11, <2>4
  <2> HIDE DEF A, B
  <2>7. CASE e = d /\ e = d2
    <3>1. CASE v = NoIno
      <4>1. A = B
        <5> HIDE DEF MovesDir
        <5>1. \A x \in Ino : x \in A <=> x \in B
          BY <1>2, <2>5, <2>6, <2>7, <3>1
        <5> QED
          BY <2>4, <5>1
      <4> QED
        BY <2>1, <2>2, <2>3, <2>6, <2>7, <3>1, <4>1 DEF Node, A, B
    <3>2. CASE v # NoIno
      <4>1. B = A \ {v} /\ v \in A
        BY <1>2, <2>4, <2>5, <2>6, <2>7, <3>2
      <4>2. Cardinality(B) = Cardinality(A) - 1
        BY <2>4, <4>1, FS_RemoveElement
      <4>3. t.nlink[e] = 2 + Cardinality(B) /\ t.nlink[e] <= LinkMax
        BY <2>3, <2>4, <2>6, <2>7, <3>2, <4>2, NameiAssumption DEF A
      <4> QED
        BY <2>1, <2>2, <2>3, <4>3 DEF Node, B
    <3> QED
      BY <3>1, <3>2
  <2>8. CASE e = d /\ e # d2
    <3>1. B = A \ {i} /\ i \in A
      BY <1>2, <2>4, <2>5, <2>6, <2>8
    <3>2. Cardinality(B) = Cardinality(A) - 1
      BY <2>4, <3>1, FS_RemoveElement
    <3>3. t.nlink[e] = 2 + Cardinality(B) /\ t.nlink[e] <= LinkMax
      BY <2>3, <2>4, <2>6, <2>8, <3>2, NameiAssumption DEF A
    <3> QED
      BY <2>1, <2>2, <2>3, <3>3 DEF Node, B
  <2>9. CASE e # d /\ e = d2
    <3>1. CASE v = NoIno
      <4>1. B = A \cup {i} /\ i \notin A
        BY <1>2, <2>4, <2>5, <2>6, <2>9, <3>1
      <4>2. Cardinality(A \cup {i}) = Cardinality(A) + 1
        BY <2>4, <4>1, FS_AddElement
      <4>3. t.nlink[e] = 2 + Cardinality(B) /\ t.nlink[e] <= LinkMax
        BY <2>3, <2>4, <2>6, <2>9, <3>1, <4>1, <4>2 DEF A
      <4> QED
        BY <2>1, <2>2, <2>3, <4>3 DEF Node, B
    <3>2. CASE v # NoIno
      <4> DEFINE C == A \ {v}
      <4>1. v \in A /\ i \notin C /\ B = C \cup {i}
        BY <1>2, <2>4, <2>5, <2>6, <2>9, <3>2
      <4>2. Cardinality(C) = Cardinality(A) - 1 /\ IsFiniteSet(C)
        BY <2>4, <4>1, FS_RemoveElement
      <4> HIDE DEF C
      <4>3. Cardinality(C \cup {i}) = Cardinality(C) + 1
        BY <4>1, <4>2, FS_AddElement
      <4>4. t.nlink[e] = 2 + Cardinality(B) /\ t.nlink[e] <= LinkMax
        BY <2>3, <2>4, <2>6, <2>9, <3>2, <4>1, <4>2, <4>3 DEF A
      <4> QED
        BY <2>1, <2>2, <2>3, <4>4 DEF Node, B
    <3> QED
      BY <3>1, <3>2
  <2> QED
    BY <1>11, <2>7, <2>8, <2>9
<1>12. ASSUME NEW j \in Ino \ {Root}
       PROVE  Home(t, g, j)
  <2>1. CASE j = i
    <3>1. Has(t.entry, i) => t.dotdot[i] \in g \cup {NoIno} \/ t.entry[t.dotdot[i]][n2] = i
      <4>1. CASE moved
        BY <1>2, <1>3, <1>5, <4>1
      <4>2. CASE ~moved /\ whole
        BY <1>2, <1>3, <1>5, <1>6, <4>2
      <4>3. CASE ~moved /\ ~whole
        BY <1>5, <4>3
      <4> QED
        BY <4>1, <4>2, <4>3
    <3> QED
      BY <1>2, <2>1, <3>1 DEF Home
  <2>2. CASE j = v
    <3>1. Has(t.entry, v) => t.dotdot[v] \in g \cup {NoIno} \/ t.entry[t.dotdot[v]][n2] = v
      BY <1>2, <1>3, <1>5, <1>6, <2>2
    <3> QED
      BY <1>2, <2>2, <3>1 DEF Home
  <2>3. CASE j \notin {i, v}
    <3>1. Home(s, h, j) /\ Has(t.entry, j) = Has(s.entry, j) /\ t.dotdot[j] = s.dotdot[j]
      BY <1>3, <1>5, <2>3 DEF Sound
    <3>2. s.dotdot[j] \in Ino \cup {NoIno}
      BY DEF Typed
    <3>3. ASSUME NEW m \in Name, s.dotdot[j] \in Ino, s.entry[s.dotdot[j]][m] = j
          PROVE  t.entry[t.dotdot[j]][m] = j
      BY <1>3, <2>3, <3>1, <3>3
    <3> QED
      BY <3>1, <3>2, <3>3 DEF Home
  <2> QED
    BY <2>1, <2>2, <2>3
<1> QED
  BY <1>8, <1>9, <1>10, <1>11, <1>12 DEF Sound

-----------------------------------------------------------------------------
(* The state of the tree that Namei is in.                                 *)

State(e, up, used, r, c) ==
  [entry |-> e, dotdot |-> up,
   kind |-> [j \in Ino |-> IF c[j].phase = "out" THEN r[j].kind ELSE c[j].kind],
   nlink |-> [j \in Ino |-> IF c[j].phase = "out" THEN r[j].nlink ELSE c[j].nlink],
   used |-> used, up |-> {j \in Ino : c[j].phase # "out"}]
Now == State(entry, dotdot, imap, raw, core)

LEMMA StateIs ==
  ASSUME NEW e, NEW up, NEW used, NEW r, NEW c
  PROVE  LET t == State(e, up, used, r, c)
         IN  /\ t.entry = e /\ t.dotdot = up /\ t.used = used
             /\ \A j \in Ino :
                  /\ t.kind[j] = IF c[j].phase = "out" THEN r[j].kind ELSE c[j].kind
                  /\ t.nlink[j] = IF c[j].phase = "out" THEN r[j].nlink ELSE c[j].nlink
                  /\ j \in t.up <=> c[j].phase # "out"
             /\ Tree(e) /\ up \in [Ino -> Ino \cup {NoIno}] /\ r \in [Ino -> OnDisk]
                  /\ c \in [Ino -> Inode] /\ t.kind[Root] = "dir"
                => Typed(t)
<1> DEFINE kinds == [j \in Ino |-> IF c[j].phase = "out" THEN r[j].kind ELSE c[j].kind]
           counts == [j \in Ino |-> IF c[j].phase = "out" THEN r[j].nlink ELSE c[j].nlink]
           ups == {j \in Ino : c[j].phase # "out"}
           t == State(e, up, used, r, c)
<1>1. /\ t.entry = e /\ t.dotdot = up /\ t.used = used
      /\ t.kind = kinds /\ t.nlink = counts /\ t.up = ups
  BY DEF State
<1>2. r \in [Ino -> OnDisk] /\ c \in [Ino -> Inode]
        => kinds \in [Ino -> Kinds] /\ counts \in [Ino -> Count]
  BY DEF OnDisk, Inode
<1> HIDE DEF t
<1>3. \A j \in Ino :
        /\ t.kind[j] = IF c[j].phase = "out" THEN r[j].kind ELSE c[j].kind
        /\ t.nlink[j] = IF c[j].phase = "out" THEN r[j].nlink ELSE c[j].nlink
        /\ j \in t.up <=> c[j].phase # "out"
  BY <1>1
<1> HIDE DEF kinds, counts
<1>4. Tree(e) /\ up \in [Ino -> Ino \cup {NoIno}] /\ r \in [Ino -> OnDisk]
        /\ c \in [Ino -> Inode] /\ t.kind[Root] = "dir" => Typed(t)
  BY <1>1, <1>2 DEF Typed
<1> QED
  BY <1>1, <1>3, <1>4 DEF t

LEMMA TypedNow == DiskInv => Typed(Now)
<1> SUFFICES ASSUME DiskInv PROVE Typed(Now)
  OBVIOUS
<1>1. /\ Tree(entry) /\ dotdot \in [Ino -> Ino \cup {NoIno}] /\ raw \in [Ino -> OnDisk]
      /\ core \in [Ino -> Inode]
  BY DEF DiskInv, TypeOK, OnDisk, Inode, Kinds, Count
<1>2. Root \in Ino /\ RootInv /\ InodeInv(Root)
  BY Looked, NameiAssumption DEF DiskInv, Root, Ino
<1>3. core[Root].phase \in {"out", "in"}
  BY <1>1, <1>2 DEF InodeInv, Inode
<1>4. Now.kind[Root] = "dir"
  BY <1>2, <1>3, StateIs DEF Now, RootInv
<1> QED
  BY <1>1, <1>4, StateIs DEF Now

LEMMA TypedNext == DiskInv' => Typed(Now')
<1>1. DiskInv => Typed(Now)
  BY TypedNow
<1>2. (DiskInv => Typed(Now))'
  BY <1>1, PTL
<1> QED
  BY <1>2

(* The count of an inode, before and after one step on an inode.           *)
Keeps(c, e) == \A j \in Ino : e[j].nlink = c[j].nlink
Raises(c, e, i) ==
  /\ \A j \in Ino \ {i} : e[j].nlink = c[j].nlink
  /\ c[i].nlink < LinkMax => e[i].nlink = c[i].nlink + 1
Lowers(c, e, i) ==
  /\ \A j \in Ino \ {i} : e[j].nlink = c[j].nlink
  /\ c[i].nlink > 0 => e[i].nlink = c[i].nlink - 1

LEMMA Counting ==
  ASSUME NEW c \in [Ino -> Inode], NEW i \in Ino
  PROVE  /\ Keeps(c, MarkDirty(c, i)) /\ Keeps(c, [c EXCEPT ![i].dead = TRUE])
         /\ Raises(c, IncLink(c, i), i)
         /\ Lowers(c, DecLink(c, i), i) /\ Lowers(c, DropLink(c, i), i)
         /\ MarkDirty(c, i) \in [Ino -> Inode] /\ [c EXCEPT ![i].dead = TRUE] \in [Ino -> Inode]
         /\ IncLink(c, i) \in [Ino -> Inode]
         /\ DecLink(c, i) \in [Ino -> Inode] /\ DropLink(c, i) \in [Ino -> Inode]
<1>1. c[i] \in Inode /\ c[i].nlink \in Count
  BY DEF Inode
<1> DEFINE x == (c[i].nlink + 1) % LinkSpace
           y == (c[i].nlink - 1) % LinkSpace
<1>2. /\ x \in Count /\ y \in Count
      /\ c[i].nlink < LinkMax => x = c[i].nlink + 1
      /\ c[i].nlink > 0 => y = c[i].nlink - 1
  BY <1>1, Wraps, NameiAssumption DEF Count
<1> HIDE DEF x, y
<1>3. ASSUME NEW z \in Count
      PROVE  /\ [c[i] EXCEPT !.nlink = z] \in Inode /\ [c[i] EXCEPT !.nlink = z].nlink = z
             /\ [c[i] EXCEPT !.nlink = z, !.dirty = TRUE] \in Inode
             /\ [c[i] EXCEPT !.nlink = z, !.dirty = TRUE].nlink = z
  BY <1>1, <1>3 DEF Inode
<1>4. /\ [c[i] EXCEPT !.dirty = TRUE] \in Inode
      /\ [c[i] EXCEPT !.dirty = TRUE].nlink = c[i].nlink
      /\ [c[i] EXCEPT !.dead = TRUE] \in Inode
      /\ [c[i] EXCEPT !.dead = TRUE].nlink = c[i].nlink
  BY <1>1 DEF Inode
<1>5. ASSUME NEW s \in Inode
      PROVE  /\ [c EXCEPT ![i] = s] \in [Ino -> Inode] /\ [c EXCEPT ![i] = s][i] = s
             /\ \A j \in Ino \ {i} : [c EXCEPT ![i] = s][j] = c[j]
  BY <1>5
<1>6. /\ MarkDirty(c, i) = [c EXCEPT ![i] = [c[i] EXCEPT !.dirty = TRUE]]
      /\ [c EXCEPT ![i].dead = TRUE] = [c EXCEPT ![i] = [c[i] EXCEPT !.dead = TRUE]]
  BY DEF MarkDirty
<1>7. /\ IncLink(c, i) = [c EXCEPT ![i] = [c[i] EXCEPT !.nlink = x, !.dirty = TRUE]]
      /\ DecLink(c, i) = [c EXCEPT ![i] = [c[i] EXCEPT !.nlink = y, !.dirty = TRUE]]
      /\ DropLink(c, i) = [c EXCEPT ![i] = [c[i] EXCEPT !.nlink = y]]
  BY DEF IncLink, DecLink, DropLink, x, y
<1>8. /\ MarkDirty(c, i) \in [Ino -> Inode] /\ [c EXCEPT ![i].dead = TRUE] \in [Ino -> Inode]
      /\ Keeps(c, MarkDirty(c, i)) /\ Keeps(c, [c EXCEPT ![i].dead = TRUE])
  BY <1>4, <1>5, <1>6 DEF Keeps
<1>9. Raises(c, IncLink(c, i), i) /\ IncLink(c, i) \in [Ino -> Inode]
  <2>1. PICK s : s = [c[i] EXCEPT !.nlink = x, !.dirty = TRUE]
    OBVIOUS
  <2>2. s \in Inode /\ s.nlink = x
    BY <1>2, <1>3, <2>1
  <2>3. IncLink(c, i) = [c EXCEPT ![i] = s]
    BY <1>7, <2>1
  <2>4. /\ IncLink(c, i) \in [Ino -> Inode] /\ IncLink(c, i)[i] = s
        /\ \A j \in Ino \ {i} : IncLink(c, i)[j] = c[j]
    BY <1>5, <2>2, <2>3
  <2> QED
    BY <1>2, <2>2, <2>4 DEF Raises
<1>10. Lowers(c, DecLink(c, i), i) /\ DecLink(c, i) \in [Ino -> Inode]
  <2>1. PICK s : s = [c[i] EXCEPT !.nlink = y, !.dirty = TRUE]
    OBVIOUS
  <2>2. s \in Inode /\ s.nlink = y
    BY <1>2, <1>3, <2>1
  <2>3. DecLink(c, i) = [c EXCEPT ![i] = s]
    BY <1>7, <2>1
  <2>4. /\ DecLink(c, i) \in [Ino -> Inode] /\ DecLink(c, i)[i] = s
        /\ \A j \in Ino \ {i} : DecLink(c, i)[j] = c[j]
    BY <1>5, <2>2, <2>3
  <2> QED
    BY <1>2, <2>2, <2>4 DEF Lowers
<1>11. Lowers(c, DropLink(c, i), i) /\ DropLink(c, i) \in [Ino -> Inode]
  <2>1. PICK s : s = [c[i] EXCEPT !.nlink = y]
    OBVIOUS
  <2>2. s \in Inode /\ s.nlink = y
    BY <1>2, <1>3, <2>1
  <2>3. DropLink(c, i) = [c EXCEPT ![i] = s]
    BY <1>7, <2>1
  <2>4. /\ DropLink(c, i) \in [Ino -> Inode] /\ DropLink(c, i)[i] = s
        /\ \A j \in Ino \ {i} : DropLink(c, i)[j] = c[j]
    BY <1>5, <2>2, <2>3
  <2> QED
    BY <1>2, <2>2, <2>4 DEF Lowers
<1> QED
  BY <1>8, <1>9, <1>10, <1>11

LEMMA StorePuts ==
  ASSUME NEW e, Tree(e), NEW d \in Ino, NEW n \in Name, NEW i, NEW how
  PROVE  /\ how # "prepare" => Puts(e, Store(e, d, n, i, how), d, n, i)
         /\ how = "prepare" => Store(e, d, n, i, how) = e
BY DEF Tree, Store, Puts

(* What TreeInv says of Namei: the tree is sound, but for what is spoilt.  *)
TreeInv == Sound(Now, hurt)

LEMMA Tied ==
  ASSUME NEW f, NEW i
  PROVE  f = entry => /\ Linked(i) <=> Has(f, i)
                      /\ Entries(i) = Slots(f, i) /\ Children(i) = Kids(f, i)
BY DEF Linked, Has, Entries, Slots, Children, Kids

(* The tree before a call and after it.                                    *)
LEMMA CallNow ==
  ASSUME DiskInv, DiskInv', NEW new, CallShape(new), NEW s, s = Now, NEW t, t = Now'
  PROVE  /\ Typed(s) /\ Typed(t)
         /\ s.entry = entry /\ t.entry = entry' /\ s.dotdot = dotdot /\ t.dotdot = dotdot'
         /\ s.used = imap /\ t.used = imap \cup new /\ new \subseteq Ino \ imap
         /\ hurt \subseteq hurt' /\ hurt' \subseteq Ino
         /\ \A j \in Ino \ new : /\ t.kind[j] = s.kind[j] /\ (j \in t.up <=> j \in s.up)
                                 /\ j \in t.used <=> j \in s.used
                                 /\ core'[j].nlink = core[j].nlink => t.nlink[j] = s.nlink[j]
         /\ \A j \in Ino : core[j].phase = "in" =>
              /\ s.kind[j] = core[j].kind /\ s.nlink[j] = core[j].nlink
              /\ t.nlink[j] = core'[j].nlink
              /\ j \in s.up /\ j \in s.used /\ j \notin new
         /\ \A j \in new :
              /\ s.kind[j] = "none" /\ s.nlink[j] = 0 /\ j \notin s.up /\ j \notin s.used
              /\ s.dotdot[j] = NoIno /\ t.kind[j] = core'[j].kind
              /\ t.nlink[j] = core'[j].nlink /\ j \in t.up /\ j \in t.used
<1> USE DEF CallShape
<1>1. Typed(s) /\ Typed(t)
  BY TypedNow, TypedNext
<1>2. /\ s.entry = entry /\ s.dotdot = dotdot /\ s.used = imap
      /\ \A j \in Ino :
           /\ s.kind[j] = IF core[j].phase = "out" THEN raw[j].kind ELSE core[j].kind
           /\ s.nlink[j] = IF core[j].phase = "out" THEN raw[j].nlink ELSE core[j].nlink
           /\ j \in s.up <=> core[j].phase # "out"
  BY StateIs DEF Now
<1>3. /\ t.entry = entry' /\ t.dotdot = dotdot' /\ t.used = imap'
      /\ \A j \in Ino :
           /\ t.kind[j] = IF core'[j].phase = "out" THEN raw'[j].kind ELSE core'[j].kind
           /\ t.nlink[j] = IF core'[j].phase = "out" THEN raw'[j].nlink ELSE core'[j].nlink
           /\ j \in t.up <=> core'[j].phase # "out"
  BY StateIs DEF Now
<1>4. \A j \in Ino \ new : core'[j].phase = core[j].phase /\ core'[j].kind = core[j].kind
  BY DEF Grown, Successor
<1>5. \A j \in Ino \ new : /\ t.kind[j] = s.kind[j] /\ (j \in t.up <=> j \in s.up)
                           /\ j \in t.used <=> j \in s.used
                           /\ core'[j].nlink = core[j].nlink => t.nlink[j] = s.nlink[j]
  BY <1>2, <1>3, <1>4
<1>6. \A j \in Ino : core[j].phase # "out" => j \in imap
  BY DEF DiskInv, InodeInv
<1>7. \A j \in Ino : core[j].phase = "in" =>
              /\ s.kind[j] = core[j].kind /\ s.nlink[j] = core[j].nlink
              /\ t.nlink[j] = core'[j].nlink
              /\ j \in s.up /\ j \in s.used /\ j \notin new
  BY <1>2, <1>3, <1>4, <1>6
<1>8. ASSUME NEW j \in new
      PROVE  /\ s.kind[j] = "none" /\ s.nlink[j] = 0 /\ j \notin s.up /\ j \notin s.used
             /\ s.dotdot[j] = NoIno /\ t.kind[j] = core'[j].kind
             /\ t.nlink[j] = core'[j].nlink /\ j \in t.up /\ j \in t.used
  <2>1. j \in Ino \ imap /\ core[j].phase = "out" /\ raw[j] = Clear /\ dotdot[j] = NoIno
    BY <1>6 DEF DiskInv, InodeInv
  <2>2. core'[j].phase = "in"
    BY DEF Grown
  <2>3. raw[j].kind = "none" /\ raw[j].nlink = 0
    BY <2>1 DEF Clear
  <2> QED
    BY <1>2, <1>3, <2>1, <2>2, <2>3
<1>9. /\ imap' = imap \cup new /\ new \subseteq Ino \ imap
      /\ hurt \subseteq hurt' /\ hurt' \subseteq Ino
  OBVIOUS
<1> QED
  BY <1>1, <1>2, <1>3, <1>5, <1>7, <1>8, <1>9

(* What a spoilt inode's number names is spoilt too, see Spoil.            *)
LEMMA RestsSound ==
  ASSUME DiskInv, DiskInv', TreeInv, NEW new, CallShape(new), entry' = entry,
         \A j \in new : dotdot'[j] \in hurt' \cup {NoIno} \/ j \notin hurt,
         \A j \in Ino \ new : dotdot'[j] = dotdot[j],
         \A j \in Ino \ hurt' : core'[j].nlink = IF j \in new THEN 0 ELSE core[j].nlink
  PROVE  TreeInv'
<1>1. PICK s : s = Now
  OBVIOUS
<1>2. PICK t : t = Now'
  OBVIOUS
<1>3. Sound(s, hurt)
  BY <1>1 DEF TreeInv
<1>4. /\ Typed(s) /\ Typed(t)
      /\ s.entry = entry /\ t.entry = entry' /\ s.dotdot = dotdot /\ t.dotdot = dotdot'
      /\ s.used = imap /\ t.used = imap \cup new /\ new \subseteq Ino \ imap
      /\ hurt \subseteq hurt' /\ hurt' \subseteq Ino
      /\ \A j \in Ino \ new : /\ t.kind[j] = s.kind[j] /\ (j \in t.up <=> j \in s.up)
                              /\ j \in t.used <=> j \in s.used
                              /\ core'[j].nlink = core[j].nlink => t.nlink[j] = s.nlink[j]
      /\ \A j \in new :
           /\ s.nlink[j] = 0 /\ j \notin s.used
           /\ s.dotdot[j] = NoIno /\ t.nlink[j] = core'[j].nlink /\ j \in t.up /\ j \in t.used
  BY <1>1, <1>2, CallNow
<1>5. \A j \in Ino :
        \/ ~Has(s.entry, j)
        \/ t.kind[j] = s.kind[j] /\ t.dotdot[j] = s.dotdot[j]
        \/ s.dotdot[j] = NoIno /\ t.dotdot[j] \in hurt' \cup {NoIno} /\ j \in hurt'
  <2> SUFFICES ASSUME NEW j \in new, Has(s.entry, j)
               PROVE  /\ s.dotdot[j] = NoIno /\ t.dotdot[j] \in hurt' \cup {NoIno}
                      /\ j \in hurt'
    BY <1>4
  <2>1. j \in hurt
    BY <1>3, <1>4 DEF Sound, Node
  <2> QED
    BY <1>4, <2>1
<1>6. \A j \in Ino \ hurt' : /\ t.nlink[j] = s.nlink[j]
                             /\ j \in t.used <=> Has(s.entry, j) \/ j \in t.up
  <2> SUFFICES ASSUME NEW j \in Ino \ hurt'
               PROVE  /\ t.nlink[j] = s.nlink[j]
                      /\ j \in t.used <=> Has(s.entry, j) \/ j \in t.up
    OBVIOUS
  <2>1. Node(s, j)
    BY <1>3, <1>4 DEF Sound
  <2> QED
    BY <1>4, <2>1 DEF Node
<1>7. Sound(t, hurt')
  BY <1>3, <1>4, <1>5, <1>6, TreeRests
<1> QED
  BY <1>2, <1>7 DEF TreeInv

LEMMA FailsSound ==
  ASSUME DiskInv, DiskInv', TreeInv, Fails
  PROVE  TreeInv'
<1>1. CallShape({})
  BY FailsShape
<1> QED
  BY <1>1, RestsSound DEF Fails, tree

-----------------------------------------------------------------------------
(* The calls keep the tree sound.                                          *)

(* add_nondir() of i, that has one link more in c than it had.             *)
LEMMA AddNondirSound ==
  ASSUME DiskInv, DiskInv', TreeInv, Rooted, NEW new, CallShape(new),
         NEW c \in [Ino -> Inode], NEW d \in Ino, NEW n \in Name, NEW i \in Ino, new \subseteq {i},
         i \notin {d, Root}, Vacant(d, n), AddNondir(c, d, n, i),
         core'[i].kind # "dir", i \notin new => core[i].phase = "in" /\ core[i].kind # "dir",
         \A j \in Ino \ {i} : c[j].nlink = core[j].nlink,
         i \notin hurt => /\ c[i].nlink = (IF i \in new THEN 0 ELSE core[i].nlink) + 1
                          /\ c[i].nlink <= LinkMax
  PROVE  TreeInv'
<1>1. PICK s : s = Now
  OBVIOUS
<1>2. PICK t : t = Now'
  OBVIOUS
<1>3. PICK how \in Outcome :
        /\ entry' = Store(entry, d, n, i, how)
        /\ \/ how = "done"    /\ core' = MarkDirty(c, d)
           \/ how = "prepare" /\ core' = DecLink(c, i)
           \/ how = "commit"  /\ core' = DecLink(MarkDirty(c, d), i)
        /\ Spoil({d, i}, IF how = "commit" THEN {i} ELSE {})
        /\ UNCHANGED <<raw, dotdot>>
  BY DEF AddNondir
<1>4. /\ Sound(s, hurt) /\ hurt \subseteq Ino /\ core \in [Ino -> Inode]
      /\ core[d].phase = "in" /\ core[d].kind = "dir" /\ (d \in hurt \/ Linked(d)) /\ entry[d][n] = NoIno
  BY <1>1, Looked, Starts DEF TreeInv, Vacant, Ready, Rooted, DiskInv, TypeOK
<1>5. /\ Typed(s) /\ Typed(t)
      /\ s.entry = entry /\ t.entry = entry' /\ s.dotdot = dotdot /\ t.dotdot = dotdot'
      /\ s.used = imap /\ t.used = imap \cup new /\ new \subseteq Ino \ imap
      /\ hurt \subseteq hurt' /\ hurt' \subseteq Ino
      /\ \A j \in Ino \ new : /\ t.kind[j] = s.kind[j] /\ (j \in t.up <=> j \in s.up)
                              /\ j \in t.used <=> j \in s.used
                              /\ core'[j].nlink = core[j].nlink => t.nlink[j] = s.nlink[j]
      /\ \A j \in Ino : core[j].phase = "in" =>
           /\ s.kind[j] = core[j].kind /\ s.nlink[j] = core[j].nlink
           /\ t.nlink[j] = core'[j].nlink
           /\ j \in s.up /\ j \in s.used /\ j \notin new
      /\ \A j \in new :
           /\ s.kind[j] = "none" /\ s.nlink[j] = 0 /\ s.dotdot[j] = NoIno
           /\ t.kind[j] = core'[j].kind
           /\ t.nlink[j] = core'[j].nlink /\ j \in t.used
  BY <1>1, <1>2, CallNow
<1>6. /\ how = "commit" => i \in hurt'
      /\ d \in hurt \/ i \in hurt => d \in hurt' /\ i \in hurt'
  <2>1. {d, i} \in SUBSET Ino /\ (IF how = "commit" THEN {i} ELSE {}) \in SUBSET Ino
    OBVIOUS
  <2>2. /\ (IF how = "commit" THEN {i} ELSE {}) \subseteq hurt'
        /\ {d, i} \cap hurt # {} => {d, i} \subseteq hurt'
    BY <1>3, <2>1, Spoils
  <2> QED
    BY <2>2
<1>7. Keeps(c, MarkDirty(c, d)) /\ Lowers(c, DecLink(c, i), i)
  BY Counting
<1>8. CASE how = "prepare"
  <2>1. entry' = entry
    BY <1>3, <1>8, StorePuts DEF DiskInv
  <2>2. ASSUME NEW j \in Ino \ hurt'
        PROVE  core'[j].nlink = IF j \in new THEN 0 ELSE core[j].nlink
    <3>1. core' = DecLink(c, i)
      BY <1>3, <1>8
    <3>2. CASE j # i
      BY <1>7, <3>1, <3>2 DEF Lowers
    <3>3. CASE j = i
      <4>1. core[i].nlink \in Nat /\ i \notin hurt
        BY <1>4, <1>5, <2>2, <3>3, NameiAssumption DEF Inode, Count
      <4> QED
        BY <1>7, <3>1, <3>3, <4>1 DEF Lowers
    <3> QED
      BY <3>2, <3>3
  <2> QED
    BY <1>3, <1>5, <2>1, <2>2, RestsSound
<1>9. CASE how # "prepare"
  <2>1. Puts(entry, entry', d, n, i)
    BY <1>3, <1>9, StorePuts DEF DiskInv
  <2>2. \/ core' = MarkDirty(c, d)
        \/ i \in hurt' /\ core' = DecLink(MarkDirty(c, d), i)
    <3>1. CASE core' = MarkDirty(c, d)
      BY <3>1
    <3>2. CASE core' # MarkDirty(c, d)
      <4>1. how = "commit" /\ core' = DecLink(MarkDirty(c, d), i)
        BY <1>3, <1>9, <3>2
      <4> QED
        BY <1>6, <4>1
    <3> QED
      BY <3>1, <3>2
  <2>3. \A j \in Ino \ (hurt' \cup {i}) : core'[j].nlink = core[j].nlink
    <3>1. Lowers(MarkDirty(c, d), DecLink(MarkDirty(c, d), i), i)
      BY Counting
    <3> QED
      BY <1>7, <2>2, <3>1 DEF Keeps, Lowers
  <2>4. i \notin hurt' => core'[i].nlink = c[i].nlink /\ i \notin hurt
    BY <1>5, <1>7, <2>2 DEF Keeps
  <2>5. /\ (d \in hurt \/ Has(s.entry, d)) /\ s.kind[d] = "dir" /\ s.entry[d][n] = NoIno
        /\ t.dotdot = s.dotdot /\ i # d /\ i # Root /\ Puts(s.entry, t.entry, d, n, i)
    BY <1>3, <1>4, <1>5, <2>1, Tied
  <2>6. /\ \A j \in Ino \ {i} : t.kind[j] = s.kind[j]
        /\ t.kind[i] # "dir" /\ s.kind[i] # "dir"
        /\ \A j \in Ino \ {i} : j \in t.used <=> j \in s.used
        /\ \A j \in Ino \ {i} : j \in t.up <=> j \in s.up
        /\ \A j \in Ino \ (hurt' \cup {i}) : t.nlink[j] = s.nlink[j]
    BY <1>5, <2>3
  <2>7. i \notin hurt' => i \in t.used /\ t.nlink[i] = s.nlink[i] + 1 /\ t.nlink[i] <= LinkMax
    <3>1. CASE i \in new
      BY <1>5, <2>4, <3>1
    <3>2. CASE i \notin new
      BY <1>5, <2>4, <3>2
    <3> QED
      BY <3>1, <3>2
  <2>8. Sound(t, hurt')
    BY <1>4, <1>5, <1>6, <2>5, <2>6, <2>7, TreeAdds
  <2> QED
    BY <1>2, <2>8 DEF TreeInv
<1> QED
  BY <1>8, <1>9

LEMMA MadeIs ==
  ASSUME NEW c \in [Ino -> Inode], NEW i \in Ino, NEW k \in {"file", "dir"}
  PROVE  /\ NewInode(c, i, k) \in [Ino -> Inode]
         /\ NewInode(c, i, k)[i].nlink = 1 /\ NewInode(c, i, k)[i].kind = k
         /\ \A j \in Ino \ {i} : NewInode(c, i, k)[j] = c[j]
<1> DEFINE r == [Out EXCEPT !.phase = "in", !.kind = k, !.nlink = 1, !.dirty = TRUE]
<1>1. r \in Inode /\ r.kind = k /\ r.nlink = 1
  <2>1. 0 \in Count /\ 1 \in Count /\ k \in Kinds
    BY NameiAssumption DEF Count, Kinds
  <2>2. Out \in Inode
    BY <2>1 DEF Out, Inode, Kinds
  <2> QED
    BY <2>1, <2>2 DEF Inode
<1>2. NewInode(c, i, k) = [c EXCEPT ![i] = r]
  BY DEF NewInode
<1> HIDE DEF r
<1> QED
  BY <1>1, <1>2

(* Steps that count change no kind.                                        *)
SameKind(c, e) == \A j \in Ino : e[j].kind = c[j].kind
LEMMA KindKept ==
  ASSUME NEW c \in [Ino -> Inode], NEW i \in Ino
  PROVE  /\ SameKind(c, MarkDirty(c, i)) /\ SameKind(c, IncLink(c, i))
         /\ SameKind(c, DecLink(c, i)) /\ SameKind(c, [c EXCEPT ![i].dead = TRUE])
<1>1. \A j \in Ino : c[j] = [phase |-> c[j].phase, kind |-> c[j].kind, nlink |-> c[j].nlink,
                            dirty |-> c[j].dirty, dead |-> c[j].dead, held |-> c[j].held]
  BY DEF Inode
<1> QED
  BY <1>1 DEF SameKind, MarkDirty, IncLink, DecLink, Inode

LEMMA MknodSound ==
  ASSUME DiskInv, DiskInv', TreeInv, Rooted, NEW d \in Ino, NEW n \in Name, Mknod(d, n) \/ Symlink(d, n)
  PROVE  TreeInv'
<1>1. CASE Fails
  BY <1>1, FailsSound
<1>2. CASE ~Fails
  <2> DEFINE i == FirstZero
             c == NewInode(core, i, "file")
  <2>1. Vacant(d, n) /\ Unused # {} /\ imap' = imap \cup {i}
    BY <1>2 DEF Mknod, Symlink
  <2>2. \/ AddNondir(c, d, n, i)
        \/ core' = DecLink(c, i) /\ failed' = TRUE /\ UNCHANGED <<raw, tree, hurt>>
    BY <1>2 DEF Mknod, Symlink
  <2>3. i \in Ino \ imap /\ d \in imap /\ Root \in imap /\ core \in [Ino -> Inode]
    BY <2>1, FirstZeroUnused, Looked, Starts DEF Vacant
  <2>4. PICK new : CallShape(new)
    BY MknodShape
  <2>5. new = {i}
    <3>1. new \subseteq Ino \ imap /\ imap' = imap \cup new
      BY <2>4 DEF CallShape
    <3> HIDE DEF i
    <3> QED
      BY <2>1, <2>3, <3>1
  <2> HIDE DEF i
  <2>6. /\ c \in [Ino -> Inode] /\ c[i].nlink = 1 /\ c[i].kind = "file"
        /\ \A j \in Ino \ {i} : c[j] = core[j]
    BY <2>3, MadeIs
  <2> HIDE DEF c
  <2>7. i \notin {d, Root} /\ CallShape({i})
    BY <2>3, <2>4, <2>5
  <2>8. CASE AddNondir(c, d, n, i)
    <3>1. core'[i].kind # "dir"
      <4>1. /\ MarkDirty(c, d) \in [Ino -> Inode] /\ SameKind(c, MarkDirty(c, d))
            /\ SameKind(c, DecLink(c, i))
        BY <2>3, <2>6, Counting, KindKept
      <4>2. SameKind(MarkDirty(c, d), DecLink(MarkDirty(c, d), i))
        BY <2>3, <4>1, KindKept
      <4>3. core' \in {MarkDirty(c, d), DecLink(c, i), DecLink(MarkDirty(c, d), i)}
        BY <2>8 DEF AddNondir
      <4> QED
        BY <2>3, <2>6, <4>1, <4>2, <4>3 DEF SameKind
    <3>2. c[i].nlink = 0 + 1 /\ c[i].nlink <= LinkMax
      BY <2>6, NameiAssumption
    <3> QED
      BY <2>1, <2>3, <2>6, <2>7, <2>8, <3>1, <3>2, AddNondirSound
  <2>9. CASE core' = DecLink(c, i) /\ failed' = TRUE /\ UNCHANGED <<raw, tree, hurt>>
    <3>1. Lowers(c, DecLink(c, i), i)
      BY <2>3, <2>6, Counting
    <3>2. \A j \in Ino \ hurt' : core'[j].nlink = IF j \in {i} THEN 0 ELSE core[j].nlink
      BY <2>6, <2>9, <3>1 DEF Lowers
    <3>3. entry' = entry /\ dotdot' = dotdot /\ dotdot[i] = NoIno
      BY <2>3, <2>9 DEF tree, DiskInv, InodeInv
    <3> QED
      BY <2>7, <3>2, <3>3, RestsSound
  <2> QED
    BY <2>2, <2>8, <2>9
<1> QED
  BY <1>1, <1>2

LEMMA LinkSound ==
  ASSUME DiskInv, DiskInv', TreeInv, Rooted, NEW d \in Ino, NEW n \in Name, NEW i \in Ino, Link(i, d, n)
  PROVE  TreeInv'
<1>1. CASE Fails
  BY <1>1, FailsSound
<1>2. CASE ~Fails
  <2> DEFINE c == IncLink(core, i)
  <2>1. /\ Vacant(d, n) /\ core[i].phase = "in" /\ core[i].kind # "dir"
        /\ core[i].nlink < LinkMax /\ AddNondir(c, d, n, i)
    BY <1>2 DEF Link
  <2>2. CallShape({}) /\ core \in [Ino -> Inode] /\ core[d].kind = "dir" /\ RootInv
    BY <2>1, LinkShape, Starts DEF Vacant, Ready, Rooted, DiskInv
  <2>3. c \in [Ino -> Inode] /\ Raises(core, c, i)
    BY <2>2, Counting
  <2> HIDE DEF c
  <2>4. /\ \A j \in Ino \ {i} : c[j].nlink = core[j].nlink
        /\ c[i].nlink = (IF i \in {} THEN 0 ELSE core[i].nlink) + 1 /\ c[i].nlink <= LinkMax
    <3>1. core[i].nlink \in Nat /\ LinkMax \in Nat
      BY <2>2, NameiAssumption DEF Inode, Count
    <3> QED
      BY <2>1, <2>3, <3>1 DEF Raises
  <2>5. i \notin {d, Root} /\ core'[i].kind # "dir"
    BY <2>1, <2>2 DEF RootInv, CallShape, Grown, Successor
  <2> QED
    BY <2>1, <2>2, <2>3, <2>4, <2>5, AddNondirSound
<1> QED
  BY <1>1, <1>2

(* The counts while mkdir is under way, and when it has been undone.       *)
LEMMA MadeDirCounts ==
  ASSUME NEW d \in Ino, NEW i \in Ino, d # i, core \in [Ino -> Inode], core[d].nlink < LinkMax
  PROVE  LET e == MarkDirty(MadeDir(d, i), d)
         IN  /\ e[i].nlink = 2 /\ e[d].nlink = core[d].nlink + 1
             /\ \A j \in Ino \ {d, i} : e[j].nlink = core[j].nlink
             /\ UndoneDir(d, i)[i].nlink = 0
             /\ \A j \in Ino \ {i} : UndoneDir(d, i)[j].nlink = core[j].nlink
<1> DEFINE a == IncLink(core, d)
           b == NewInode(a, i, "dir")
           c == MadeDir(d, i)
           x == DecLink(c, i)
           y == DecLink(x, i)
           w == [y EXCEPT ![i].dead = TRUE]
           z == DecLink(w, d)
           e == MarkDirty(c, d)
<1>1. a \in [Ino -> Inode] /\ Raises(core, a, d)
  BY Counting
<1> HIDE DEF a
<1>2. b \in [Ino -> Inode] /\ b[i].nlink = 1 /\ \A j \in Ino \ {i} : b[j] = a[j]
  BY <1>1, MadeIs
<1>3. c = IncLink(b, i)
  BY DEF MadeDir, a, b
<1> HIDE DEF b, c
<1>4. c \in [Ino -> Inode] /\ Raises(b, c, i)
  BY <1>2, <1>3, Counting
<1>5. Keeps(c, e) /\ x \in [Ino -> Inode] /\ Lowers(c, x, i)
  BY <1>4, Counting
<1> HIDE DEF x, e
<1>6. y \in [Ino -> Inode] /\ Lowers(x, y, i)
  BY <1>5, Counting
<1> HIDE DEF y
<1>7. Keeps(y, w) /\ Lowers(w, z, d)
  BY <1>6, Counting
<1>8. z = UndoneDir(d, i)
  BY DEF UndoneDir, DroppedDir, w, y, x, c
<1> HIDE DEF z, w
<1>9. LinkMax \in Nat /\ LinkMax > 1 /\ core[d].nlink \in Nat
  BY NameiAssumption DEF Inode, Count
<1>10. /\ c[i].nlink = 2 /\ c[d].nlink = core[d].nlink + 1
       /\ \A j \in Ino \ {d, i} : c[j].nlink = core[j].nlink
  BY <1>1, <1>2, <1>4, <1>9 DEF Raises
<1>11. /\ y[i].nlink = 0 /\ y[d].nlink = core[d].nlink + 1
       /\ \A j \in Ino \ {d, i} : y[j].nlink = core[j].nlink
  BY <1>5, <1>6, <1>10 DEF Lowers
<1>12. /\ z[i].nlink = 0 /\ z[d].nlink = core[d].nlink
       /\ \A j \in Ino \ {d, i} : z[j].nlink = core[j].nlink
  BY <1>7, <1>9, <1>11 DEF Lowers, Keeps
<1>13. /\ e[i].nlink = 2 /\ e[d].nlink = core[d].nlink + 1
       /\ \A j \in Ino \ {d, i} : e[j].nlink = core[j].nlink
  BY <1>5, <1>10 DEF Keeps
<1> QED
  BY <1>8, <1>12, <1>13 DEF e, c

LEMMA MkdirSound ==
  ASSUME DiskInv, DiskInv', TreeInv, Rooted, NEW d \in Ino, NEW n \in Name, Mkdir(d, n)
  PROVE  TreeInv'
<1>1. /\ Vacant(d, n) /\ core[d].phase = "in" /\ d \in imap /\ Root \in imap
      /\ core \in [Ino -> Inode] /\ imap \subseteq Ino
  BY Looked, Starts DEF Mkdir, Vacant, DiskInv, TypeOK
<1>2. PICK new : CallShape(new)
  BY MkdirShape
<1>3. new \subseteq Ino \ imap /\ imap' = imap \cup new
  BY <1>2 DEF CallShape
<1>4. CASE Fails
  BY <1>4, FailsSound
<1>5. CASE core[d].nlink < LinkMax /\ core' = DecLink(IncLink(core, d), d)
           /\ UNCHANGED <<disk, tree, hurt>>
  <2>1. new = {}
    BY <1>3, <1>5 DEF disk
  <2>2. Raises(core, IncLink(core, d), d) /\ IncLink(core, d) \in [Ino -> Inode]
    BY <1>1, Counting
  <2>3. Lowers(IncLink(core, d), DecLink(IncLink(core, d), d), d)
    BY <2>2, Counting
  <2>4. core[d].nlink \in Nat
    BY <1>1, NameiAssumption DEF Inode, Count
  <2>5. \A j \in Ino : core'[j].nlink = core[j].nlink
    BY <1>5, <2>2, <2>3, <2>4 DEF Raises, Lowers
  <2> QED
    BY <1>2, <1>5, <2>1, <2>5, RestsSound DEF tree
<1>6. CASE ~Fails /\ ~(core[d].nlink < LinkMax /\ core' = DecLink(IncLink(core, d), d)
                       /\ UNCHANGED <<disk, tree, hurt>>)
  <2> DEFINE i == FirstZero
  <2>1. Unused # {} /\ imap' = imap \cup {i} /\ core[d].nlink < LinkMax
    BY <1>6 DEF Mkdir
  <2>2. \/ core' = UndoneDir(d, i) /\ UNCHANGED <<tree, hurt>>
        \/ \E how \in Outcome :
             /\ dotdot' = [dotdot EXCEPT ![i] = d]
             /\ entry' = Store(entry, d, n, i, how)
             /\ core' = IF how = "done" THEN MarkDirty(MadeDir(d, i), d)
                        ELSE UndoneDir(d, i)
             /\ Spoil({d, i}, IF how = "commit" THEN {d, i} ELSE {})
    BY <1>6 DEF Mkdir
  <2>3. i \in Ino \ imap
    BY <2>1, FirstZeroUnused
  <2> HIDE DEF i
  <2>4. new = {i} /\ i # d /\ i # Root /\ dotdot[i] = NoIno /\ dotdot \in [Ino -> Ino \cup {NoIno}]
    BY <1>1, <1>3, <2>1, <2>3 DEF DiskInv, InodeInv, TypeOK
  <2> DEFINE e == MarkDirty(MadeDir(d, i), d)
             u == UndoneDir(d, i)
  <2>5. /\ e[i].nlink = 2 /\ e[d].nlink = core[d].nlink + 1
        /\ \A j \in Ino \ {d, i} : e[j].nlink = core[j].nlink
        /\ u[i].nlink = 0
        /\ \A j \in Ino \ {i} : u[j].nlink = core[j].nlink
    BY <1>1, <2>1, <2>3, <2>4, MadeDirCounts
  <2> HIDE DEF e, u
  <2>6. CASE core' = u /\ UNCHANGED <<tree, hurt>>
    <3>1. \A j \in Ino : core'[j].nlink = IF j \in new THEN 0 ELSE core[j].nlink
      BY <2>4, <2>5, <2>6
    <3> QED
      BY <1>2, <2>4, <2>6, <3>1, RestsSound DEF tree
  <2>7. ASSUME NEW how \in Outcome,
               dotdot' = [dotdot EXCEPT ![i] = d],
               entry' = Store(entry, d, n, i, how),
               core' = IF how = "done" THEN e ELSE u,
               Spoil({d, i}, IF how = "commit" THEN {d, i} ELSE {})
        PROVE  TreeInv'
    <3>1. /\ how = "commit" => d \in hurt' /\ i \in hurt'
          /\ d \in hurt \/ i \in hurt => d \in hurt' /\ i \in hurt'
          /\ i \in hurt' <=> d \in hurt'
      <4> DEFINE more == IF how = "commit" THEN {d, i} ELSE {}
      <4>1. {d, i} \in SUBSET Ino /\ more \in SUBSET Ino
        BY <2>3
      <4>2. /\ more \subseteq hurt'
            /\ {d, i} \cap hurt # {} => {d, i} \subseteq hurt'
            /\ {d, i} \cap hurt = {} => hurt' = hurt \cup more
        BY <2>7, <4>1, Spoils
      <4> QED
        BY <4>2
    <3>2. \A j \in Ino : dotdot'[j] = IF j = i THEN d ELSE dotdot[j]
      BY <2>4, <2>7
    <3>3. CASE how = "prepare"
      <4>1. entry' = entry
        BY <2>7, <3>3, StorePuts DEF DiskInv
      <4>2. \A j \in Ino : core'[j].nlink = IF j \in new THEN 0 ELSE core[j].nlink
        BY <2>4, <2>5, <2>7, <3>3
      <4>3. \A j \in new : dotdot'[j] \in hurt' \cup {NoIno} \/ j \notin hurt
        BY <2>3, <2>4, <3>1, <3>2
      <4>4. \A j \in Ino \ new : dotdot'[j] = dotdot[j]
        BY <2>4, <3>2
      <4> QED
        BY <1>2, <4>1, <4>2, <4>3, <4>4, RestsSound
    <3>4. CASE how # "prepare"
      <4>1. PICK s : s = Now
        OBVIOUS
      <4>2. PICK t : t = Now'
        OBVIOUS
      <4>3. /\ Sound(s, hurt) /\ Puts(entry, entry', d, n, i)
            /\ core[d].kind = "dir" /\ (d \in hurt \/ Linked(d)) /\ entry[d][n] = NoIno
        BY <1>1, <2>7, <3>4, <4>1, StorePuts DEF TreeInv, Vacant, Ready, Rooted, DiskInv
      <4>4. /\ Typed(s) /\ Typed(t)
            /\ s.entry = entry /\ t.entry = entry' /\ s.dotdot = dotdot /\ t.dotdot = dotdot'
            /\ s.used = imap /\ t.used = imap \cup new
            /\ hurt \subseteq hurt' /\ hurt' \subseteq Ino
            /\ \A j \in Ino \ new : /\ t.kind[j] = s.kind[j] /\ (j \in t.up <=> j \in s.up)
                                    /\ j \in t.used <=> j \in s.used
                                    /\ core'[j].nlink = core[j].nlink => t.nlink[j] = s.nlink[j]
            /\ \A j \in Ino : core[j].phase = "in" =>
                 s.kind[j] = core[j].kind /\ s.nlink[j] = core[j].nlink
                 /\ t.nlink[j] = core'[j].nlink
            /\ \A j \in new : t.kind[j] = core'[j].kind /\ t.nlink[j] = core'[j].nlink
        BY <1>2, <4>1, <4>2, CallNow
      <4>5. t.kind[i] = "dir"
        <5>1. core'[i].kind = "dir"
          <6>1. MadeDir(d, i) \in [Ino -> Inode] /\ MadeDir(d, i)[i].kind = "dir"
            <7> DEFINE b == NewInode(IncLink(core, d), i, "dir")
            <7>1. IncLink(core, d) \in [Ino -> Inode]
              BY <1>1, Counting
            <7>2. b \in [Ino -> Inode] /\ b[i].kind = "dir"
              BY <2>3, <7>1, MadeIs
            <7>3. MadeDir(d, i) = IncLink(b, i)
              BY DEF MadeDir
            <7> HIDE DEF b
            <7>4. IncLink(b, i) \in [Ino -> Inode] /\ SameKind(b, IncLink(b, i))
              BY <2>3, <7>2, Counting, KindKept
            <7> QED
              BY <2>3, <7>2, <7>3, <7>4 DEF SameKind
          <6>2. e[i].kind = "dir"
            BY <2>3, <6>1, KindKept DEF SameKind, e
          <6>3. u[i].kind = "dir"
            <7> DEFINE c == MadeDir(d, i)
                       x == DecLink(c, i)
                       y == DecLink(x, i)
            <7>1. c \in [Ino -> Inode] /\ c[i].kind = "dir"
              BY <6>1
            <7> HIDE DEF c
            <7>2. x \in [Ino -> Inode] /\ SameKind(c, x)
              BY <2>3, <7>1, Counting, KindKept
            <7> HIDE DEF x
            <7>3. y \in [Ino -> Inode] /\ SameKind(x, y)
              BY <2>3, <7>2, Counting, KindKept
            <7> HIDE DEF y
            <7> DEFINE z == [y EXCEPT ![i].dead = TRUE]
            <7>4. z \in [Ino -> Inode] /\ SameKind(y, z)
              BY <2>3, <7>3, Counting, KindKept
            <7> HIDE DEF z
            <7>5. SameKind(z, DecLink(z, d))
              BY <7>4, KindKept
            <7>6. u = DecLink(z, d)
              BY DEF u, UndoneDir, DroppedDir, c, x, y, z
            <7> QED
              BY <2>3, <7>1, <7>2, <7>3, <7>4, <7>5, <7>6 DEF SameKind
          <6> QED
            BY <2>7, <6>2, <6>3
        <5> QED
          BY <2>4, <4>4, <5>1
      <4>6. /\ \A j \in Ino \ (hurt' \cup {d, i}) : t.nlink[j] = s.nlink[j]
            /\ i \notin hurt' => /\ t.nlink[i] = 2
                                 /\ t.nlink[d] = s.nlink[d] + 1 /\ t.nlink[d] <= LinkMax
        <5>1. \A j \in Ino \ {d, i} : core'[j].nlink = core[j].nlink
          BY <2>5, <2>7
        <5>2. i \notin hurt' => core' = e
          BY <2>7, <3>1, <3>4 DEF Outcome
        <5>3. core[d].nlink + 1 <= LinkMax
          BY <1>1, <2>1, NameiAssumption DEF Inode, Count
        <5> QED
          BY <1>1, <2>3, <2>4, <2>5, <4>4, <5>1, <5>2, <5>3
      <4>7. /\ s.entry[d][n] = NoIno /\ (d \in hurt \/ Has(s.entry, d)) /\ s.kind[d] = "dir"
            /\ Puts(s.entry, t.entry, d, n, i)
            /\ \A j \in Ino : t.dotdot[j] = IF j = i THEN d ELSE s.dotdot[j]
            /\ s.dotdot[i] = NoIno /\ i \notin s.used /\ i \in t.used
        BY <1>1, <2>3, <2>4, <3>2, <4>3, <4>4, Tied
      <4>8. \A j \in Ino \ {i} : /\ t.kind[j] = s.kind[j]
                                 /\ j \in t.used <=> j \in s.used
                                 /\ j \in t.up <=> j \in s.up
        BY <2>4, <4>4
      <4>9. Sound(t, hurt')
        BY <2>3, <2>4, <3>1, <4>3, <4>4, <4>5, <4>6, <4>7, <4>8, TreeMakesDir
      <4> QED
        BY <4>2, <4>9 DEF TreeInv
    <3> QED
      BY <3>3, <3>4
  <2> QED
    BY <2>2, <2>6, <2>7 DEF e, u
<1> QED
  BY <1>4, <1>5, <1>6

(* Nothing but entries, "..", counts and marks changes when no inode is    *)
(* made.                                                                   *)
LEMMA CallStill ==
  ASSUME DiskInv, CallShape({}), NEW s, s = Now, NEW t, t = Now'
  PROVE  t.kind = s.kind /\ t.used = s.used /\ t.up = s.up
<1>1. \A j \in Ino : core'[j].phase = core[j].phase /\ core'[j].kind = core[j].kind
  BY DEF CallShape, Grown, Successor
<1>2. raw' = raw /\ imap' = imap
  BY DEF CallShape
<1>3. t.used = s.used
  BY <1>2 DEF Now, State
<1>4. t.up = s.up
  BY <1>1 DEF Now, State
<1>5. t.kind = s.kind
  BY <1>1, <1>2 DEF Now, State
<1> QED
  BY <1>3, <1>4, <1>5

LEMMA HasSlot ==
  ASSUME NEW f, NEW d \in Ino, NEW n \in Name, NEW i, f[d][n] = i
  PROVE  Has(f, i)
<1>1. <<d, n>> \in Slots(f, i)
  BY DEF Slots
<1> QED
  BY <1>1 DEF Has

LEMMA UnlinkSound ==
  ASSUME DiskInv, DiskInv', TreeInv, Rooted, NEW d \in Ino, NEW n \in Name, Unlink(d, n)
  PROVE  TreeInv'
<1>1. CASE Fails
  BY <1>1, FailsSound
<1>2. CASE ~Fails
  <2>1. PICK i : i = entry[d][n]
    OBVIOUS
  <2> DEFINE c == MarkDirty(core, d)
  <2>2. PICK how \in Outcome :
          /\ entry' = Store(entry, d, n, NoIno, how)
          /\ core' = IF how = "done" THEN DecLink(c, i) ELSE c
          /\ Spoil({d, i}, IF how = "commit" THEN {i} ELSE {})
    BY <1>2, <2>1 DEF Unlink
  <2>3. /\ i \in Ino /\ i # d /\ i # Root /\ core[i].phase = "in" /\ core[i].kind # "dir"
        /\ core[d].phase = "in" /\ core[d].kind = "dir" /\ (d \in hurt \/ Linked(d))
        /\ core \in [Ino -> Inode] /\ dotdot' = dotdot
    BY <1>2, <2>1, Looked, Starts DEF Unlink, Found, Ready, Rooted
  <2>4. CallShape({})
    BY UnlinkShape
  <2>5. c \in [Ino -> Inode] /\ Keeps(core, c)
    BY <2>3, Counting
  <2> HIDE DEF c
  <2>6. Lowers(c, DecLink(c, i), i)
    BY <2>3, <2>5, Counting
  <2>7. how = "commit" => i \in hurt'
    <3> DEFINE more == IF how = "commit" THEN {i} ELSE {}
    <3>1. {d, i} \in SUBSET Ino /\ more \in SUBSET Ino
      BY <2>3
    <3>2. more \subseteq hurt'
      BY <2>2, <3>1, Spoils
    <3> QED
      BY <3>2
  <2>8. CASE how = "prepare"
    <3>1. entry' = entry /\ \A j \in Ino : core'[j].nlink = core[j].nlink
      BY <2>2, <2>5, <2>8, StorePuts DEF DiskInv, Keeps
    <3> QED
      BY <2>3, <2>4, <3>1, RestsSound
  <2>9. CASE how # "prepare"
    <3>1. PICK s : s = Now
      OBVIOUS
    <3>2. PICK t : t = Now'
      OBVIOUS
    <3>3. Sound(s, hurt) /\ Puts(entry, entry', d, n, NoIno)
      BY <2>2, <2>9, <3>1, StorePuts DEF TreeInv, DiskInv
    <3>4. /\ Typed(s) /\ Typed(t)
          /\ s.entry = entry /\ t.entry = entry' /\ s.dotdot = dotdot /\ t.dotdot = dotdot'
          /\ hurt \subseteq hurt' /\ hurt' \subseteq Ino
          /\ \A j \in Ino : core'[j].nlink = core[j].nlink => t.nlink[j] = s.nlink[j]
          /\ \A j \in Ino : core[j].phase = "in" =>
               s.kind[j] = core[j].kind /\ s.nlink[j] = core[j].nlink
               /\ t.nlink[j] = core'[j].nlink /\ j \in s.up /\ j \in s.used
      BY <2>4, <3>1, <3>2, CallNow
    <3>5. t.kind = s.kind /\ t.used = s.used /\ t.up = s.up
      BY <2>4, <3>1, <3>2, CallStill
    <3>6. /\ s.entry[d][n] = i /\ (d \in hurt \/ Has(s.entry, d)) /\ s.kind[d] = "dir" /\ s.kind[i] # "dir"
          /\ Puts(s.entry, t.entry, d, n, NoIno) /\ t.dotdot = s.dotdot
          /\ i \in s.used /\ i \in s.up
      BY <2>1, <2>3, <3>3, <3>4, Tied
    <3>7. \A j \in Ino \ {i} : core'[j].nlink = core[j].nlink
      BY <2>2, <2>5, <2>6 DEF Keeps, Lowers
    <3>8. i \notin hurt' => t.nlink[i] = s.nlink[i] - 1
      <4> SUFFICES ASSUME i \notin hurt' PROVE t.nlink[i] = s.nlink[i] - 1
        OBVIOUS
      <4>1. core' = DecLink(c, i)
        BY <2>2, <2>7, <2>9 DEF Outcome
      <4>2. Has(s.entry, i)
        BY <3>6, HasSlot
      <4>3. s.nlink[i] # 0 /\ s.nlink[i] \in Nat
        BY <2>3, <3>3, <3>4, <4>2, Linkage
      <4> QED
        BY <2>3, <2>5, <2>6, <3>4, <4>1, <4>3 DEF Keeps, Lowers
    <3>9. \A j \in Ino \ (hurt' \cup {i}) : t.nlink[j] = s.nlink[j]
      BY <3>4, <3>7
    <3>10. Sound(t, hurt')
      BY <2>3, <3>3, <3>4, <3>5, <3>6, <3>8, <3>9, TreeRemoves
    <3> QED
      BY <3>2, <3>10 DEF TreeInv
  <2> QED
    BY <2>8, <2>9
<1> QED
  BY <1>1, <1>2

LEMMA RmdirSound ==
  ASSUME DiskInv, DiskInv', TreeInv, Rooted, NEW d \in Ino, NEW n \in Name, Rmdir(d, n)
  PROVE  TreeInv'
<1>1. CASE Fails
  BY <1>1, FailsSound
<1>2. CASE ~Fails
  <2>1. PICK i : i = entry[d][n]
    OBVIOUS
  <2> DEFINE c == MarkDirty(core, d)
             x == DecLink(c, i)
             y == DecLink(x, d)
             z == DecLink(y, i)
             e == [z EXCEPT ![i].dead = TRUE]
  <2>2. PICK how \in Outcome :
          /\ entry' = Store(entry, d, n, NoIno, how)
          /\ core' = IF how = "done" THEN e ELSE c
          /\ Spoil({d, i}, CASE how = "done" -> Emptied(i)
                             [] how = "prepare" -> {}
                             [] how = "commit" -> {d, i})
    BY <1>2, <2>1 DEF Rmdir
  <2>3. /\ i \in Ino /\ i # d /\ i # Root /\ core[i].phase = "in" /\ core[i].kind = "dir"
        /\ core[d].phase = "in" /\ core[d].kind = "dir" /\ (d \in hurt \/ Linked(d))
        /\ core \in [Ino -> Inode] /\ dotdot' = dotdot
    BY <1>2, <2>1, Looked, Starts DEF Rmdir, Found, Ready, Rooted
  <2>4. CallShape({})
    BY RmdirShape
  <2>5. c \in [Ino -> Inode] /\ Keeps(core, c)
    BY <2>3, Counting
  <2> HIDE DEF c
  <2>6. x \in [Ino -> Inode] /\ Lowers(c, x, i)
    BY <2>3, <2>5, Counting
  <2> HIDE DEF x
  <2>7. y \in [Ino -> Inode] /\ Lowers(x, y, d)
    BY <2>3, <2>6, Counting
  <2> HIDE DEF y
  <2>8. z \in [Ino -> Inode] /\ Lowers(y, z, i)
    BY <2>3, <2>7, Counting
  <2> HIDE DEF z
  <2>9. Keeps(z, e)
    BY <2>3, <2>8, Counting
  <2> HIDE DEF e
  <2>10. /\ \A j \in Ino \ {d, i} : e[j].nlink = core[j].nlink
         /\ core[i].nlink > 1 => e[i].nlink = core[i].nlink - 2
         /\ core[d].nlink > 0 => e[d].nlink = core[d].nlink - 1
    <3>1. core[i].nlink \in Nat /\ core[d].nlink \in Nat
      BY <2>3, NameiAssumption DEF Inode, Count
    <3> QED
      BY <2>3, <2>5, <2>6, <2>7, <2>8, <2>9, <3>1 DEF Keeps, Lowers
  <2>11. /\ how = "done" => Emptied(i) \subseteq hurt'
         /\ how = "commit" => d \in hurt' /\ i \in hurt'
         /\ d \in hurt \/ i \in hurt =>
              d \in hurt' /\ i \in hurt' /\ dotdot[i] \in hurt' \cup {NoIno}
    <3> DEFINE more == CASE how = "done" -> Emptied(i)
                         [] how = "prepare" -> {}
                         [] how = "commit" -> {d, i}
    <3>1. {d, i} \in SUBSET Ino /\ more \in SUBSET Ino
      BY <2>2, <2>3, EmptiedTyped DEF Outcome
    <3>2. Spoil({d, i}, more)
      BY <2>2
    <3>3. /\ how = "done" => more = Emptied(i)
          /\ how = "commit" => more = {d, i}
      OBVIOUS
    <3> HIDE DEF more
    <3>4. /\ more \subseteq hurt'
          /\ {d, i} \cap hurt # {} => /\ {d, i} \subseteq hurt'
                                     /\ \A j \in {d, i} : dotdot[j] \in hurt' \cup {NoIno}
      BY <3>1, <3>2, Spoils
    <3> QED
      BY <3>3, <3>4
  <2>12. CASE how = "prepare"
    <3>1. entry' = entry /\ \A j \in Ino : core'[j].nlink = core[j].nlink
      BY <2>2, <2>5, <2>12, StorePuts DEF DiskInv, Keeps
    <3> QED
      BY <2>3, <2>4, <3>1, RestsSound
  <2>13. CASE how # "prepare"
    <3>1. PICK s : s = Now
      OBVIOUS
    <3>2. PICK t : t = Now'
      OBVIOUS
    <3>3. Sound(s, hurt) /\ Puts(entry, entry', d, n, NoIno)
      BY <2>2, <2>13, <3>1, StorePuts DEF TreeInv, DiskInv
    <3>4. /\ Typed(s) /\ Typed(t)
          /\ s.entry = entry /\ t.entry = entry' /\ s.dotdot = dotdot /\ t.dotdot = dotdot'
          /\ hurt \subseteq hurt' /\ hurt' \subseteq Ino
          /\ \A j \in Ino : core'[j].nlink = core[j].nlink => t.nlink[j] = s.nlink[j]
          /\ \A j \in Ino : core[j].phase = "in" =>
               s.kind[j] = core[j].kind /\ s.nlink[j] = core[j].nlink
               /\ t.nlink[j] = core'[j].nlink /\ j \in s.up /\ j \in s.used
      BY <2>4, <3>1, <3>2, CallNow
    <3>5. t.kind = s.kind /\ t.used = s.used /\ t.up = s.up
      BY <2>4, <3>1, <3>2, CallStill
    <3>6. /\ s.entry[d][n] = i /\ (d \in hurt \/ Has(s.entry, d)) /\ s.kind[d] = "dir" /\ s.kind[i] = "dir"
          /\ Puts(s.entry, t.entry, d, n, NoIno) /\ t.dotdot = s.dotdot
          /\ i \in s.used /\ i \in s.up
      BY <2>1, <2>3, <3>3, <3>4, Tied
    <3>7. \A j \in Ino \ (hurt' \cup {d, i}) : t.nlink[j] = s.nlink[j]
      BY <2>2, <2>5, <2>10, <3>4 DEF Keeps
    <3>8. \/ how = "done" /\ core' = e
          \/ d \in hurt' /\ i \in hurt'
      BY <2>2, <2>11, <2>13 DEF Outcome
    <3>9. i \notin hurt' => Kids(s.entry, i) = {} /\ t.nlink[i] = s.nlink[i] - 2
      <4> SUFFICES ASSUME i \notin hurt'
                   PROVE  Kids(s.entry, i) = {} /\ t.nlink[i] = s.nlink[i] - 2
        OBVIOUS
      <4>1. how = "done" /\ core' = e
        BY <3>8
      <4>2. Children(i) = {}
        BY <2>11, <4>1 DEF Emptied
      <4>3. Has(s.entry, i)
        BY <3>6, HasSlot
      <4>4. s.nlink[i] = 2 + Cardinality(Under(s, i))
        BY <2>3, <3>3, <3>4, <3>6, <4>3 DEF Sound, Node
      <4>5. s.nlink[i] > 1
        BY <4>4, UnderIn
      <4> QED
        BY <2>3, <2>10, <3>4, <4>1, <4>2, <4>5, Tied
    <3>10. d \notin hurt' => t.nlink[d] = s.nlink[d] - 1
      <4> SUFFICES ASSUME d \notin hurt' PROVE t.nlink[d] = s.nlink[d] - 1
        OBVIOUS
      <4>1. s.nlink[d] # 0 /\ s.nlink[d] \in Nat
        BY <3>3, <3>4, <3>6, Linkage
      <4> QED
        BY <2>3, <2>10, <3>4, <3>8, <4>1
    <3>11. d \in hurt \/ i \in hurt =>
             d \in hurt' /\ i \in hurt' /\ s.dotdot[i] \in hurt' \cup {NoIno}
      BY <2>11, <3>4
    <3>12. Sound(t, hurt')
      BY <2>3, <3>3, <3>4, <3>5, <3>6, <3>7, <3>9, <3>10, <3>11, TreeRemovesDir
    <3> QED
      BY <3>2, <3>12 DEF TreeInv
  <2> QED
    BY <2>12, <2>13
<1> QED
  BY <1>1, <1>2

(* The second half of rename, that of i to slot <<d2, n2>>, of v or        *)
(* vacant; c are the counts when v has lost its links and d2 has its new   *)
(* one.                                                                    *)
Renaming(d, n, d2, n2, i, v, set, e, c, spoilt) ==
  /\ d \in Ino /\ n \in Name /\ d2 \in Ino /\ n2 \in Name
  /\ i \in Ino /\ v \in Ino \cup {NoIno} /\ set \in BOOLEAN /\ (~set => v \in Ino)
  /\ entry[d][n] = i /\ entry[d2][n2] = v
  /\ i \notin {d, d2, v, Root} /\ v \notin {d, d2, Root}
  /\ core[i].phase = "in" /\ Ready(d) /\ Ready(d2)
  /\ v \in Ino => core[v].phase = "in" /\ (core[v].kind = "dir" <=> core[i].kind = "dir")
  /\ e = Store(entry, d2, n2, i, IF set THEN "done" ELSE "prepare")
  /\ c \in [Ino -> Inode]
  /\ \A j \in Ino \ {v, d2} : c[j].nlink = core[j].nlink
  /\ v \in Ino \ hurt' => c[v].nlink = core[v].nlink - (IF core[i].kind = "dir" THEN 2 ELSE 1)
  /\ c[d2].nlink = core[d2].nlink + (IF core[i].kind = "dir" /\ v = NoIno THEN 1 ELSE 0)
  /\ core[i].kind = "dir" /\ v = NoIno => core[d2].nlink < LinkMax
  /\ spoilt \in SUBSET Ino
  /\ ~set => {i, v, d2} \subseteq spoilt
  /\ v \in Ino => Emptied(v) \subseteq spoilt

LEMMA MoveEntrySound ==
  ASSUME DiskInv, DiskInv', TreeInv, Rooted, CallShape({}),
         NEW d, NEW n, NEW d2, NEW n2, NEW i, NEW v, NEW set, NEW e, NEW c, NEW spoilt,
         Renaming(d, n, d2, n2, i, v, set, e, c, spoilt),
         MoveEntry(e, c, d, n, d2, i, spoilt, {v} \ {NoIno})
  PROVE  TreeInv'
<1> USE DEF Renaming
<1>1. PICK s : s = Now
  OBVIOUS
<1>2. PICK t : t = Now'
  OBVIOUS
<1> DEFINE dir == core[i].kind = "dir"
           a == MarkDirty(c, d)
           gone == MarkDirty(a, i)
           S == {d, d2, i} \cup ({v} \ {NoIno})
<1>3. NoIno \notin Ino
  BY DEF NoIno, Ino
<1>4. PICK removed \in {"done", "prepare"}, moved \in {"done", "prepare"} :
        /\ entry' = Store(e, d, n, NoIno, removed)
        /\ dotdot' = SetDotDot(i, d2, moved)
        /\ core' = IF dir THEN DecLink(gone, d) ELSE gone
        /\ Spoil(S, (IF removed = "prepare" THEN {i} ELSE {})
                      \cup (IF dir /\ moved = "prepare" /\ d # d2 THEN {d, d2, i} ELSE {})
                      \cup spoilt)
  BY DEF MoveEntry
<1>5. /\ spoilt \subseteq hurt'
      /\ removed = "prepare" => i \in hurt'
      /\ dir /\ moved = "prepare" /\ d # d2 => d \in hurt' /\ d2 \in hurt' /\ i \in hurt'
      /\ d \in hurt \/ d2 \in hurt \/ i \in hurt \/ v \in hurt =>
           /\ d \in hurt' /\ d2 \in hurt' /\ i \in hurt' /\ dotdot[i] \in hurt' \cup {NoIno}
           /\ v \in Ino => v \in hurt' /\ dotdot[v] \in hurt' \cup {NoIno}
  <2> DEFINE more == (IF removed = "prepare" THEN {i} ELSE {})
                       \cup (IF dir /\ moved = "prepare" /\ d # d2 THEN {d, d2, i} ELSE {})
                       \cup spoilt
  <2>1. S \in SUBSET Ino /\ more \in SUBSET Ino /\ Spoil(S, more)
    BY <1>4
  <2>2. /\ spoilt \subseteq more
        /\ removed = "prepare" => i \in more
        /\ dir /\ moved = "prepare" /\ d # d2 => d \in more /\ d2 \in more /\ i \in more
    OBVIOUS
  <2>3. /\ d \in S /\ d2 \in S /\ i \in S /\ (v \in Ino => v \in S) /\ hurt \subseteq Ino
    BY <1>3 DEF DiskInv, TypeOK
  <2> HIDE DEF S, more
  <2>4. /\ more \subseteq hurt'
        /\ S \cap hurt # {} => S \subseteq hurt' /\ \A j \in S : dotdot[j] \in hurt' \cup {NoIno}
    BY <2>1, Spoils
  <2> QED
    BY <2>2, <2>3, <2>4
<1>6. /\ Sound(s, hurt) /\ core \in [Ino -> Inode]
      /\ core[d].phase = "in" /\ core[d].kind = "dir" /\ (d \in hurt \/ Linked(d))
      /\ core[d2].phase = "in" /\ core[d2].kind = "dir" /\ (d2 \in hurt \/ Linked(d2))
  BY <1>1, Starts DEF TreeInv, Ready, Rooted
<1>7. /\ Typed(s) /\ Typed(t)
      /\ s.entry = entry /\ t.entry = entry' /\ s.dotdot = dotdot /\ t.dotdot = dotdot'
      /\ hurt \subseteq hurt' /\ hurt' \subseteq Ino
      /\ \A j \in Ino : core'[j].nlink = core[j].nlink => t.nlink[j] = s.nlink[j]
      /\ \A j \in Ino : core[j].phase = "in" =>
           s.kind[j] = core[j].kind /\ s.nlink[j] = core[j].nlink
           /\ t.nlink[j] = core'[j].nlink /\ j \in s.up /\ j \in s.used
  BY <1>1, <1>2, CallNow
<1>8. t.kind = s.kind /\ t.used = s.used /\ t.up = s.up
  BY <1>1, <1>2, CallStill
<1>9. Keeps(c, a) /\ a \in [Ino -> Inode]
  BY Counting
<1> HIDE DEF a
<1>10. Keeps(a, gone) /\ gone \in [Ino -> Inode]
  BY <1>9, Counting
<1> HIDE DEF gone
<1>11. Lowers(gone, DecLink(gone, d), d)
  BY <1>10, Counting
<1>12. PICK cleared \in BOOLEAN : cleared <=> removed = "done"
  OBVIOUS
<1>13. PICK up \in BOOLEAN : up <=> moved = "done"
  OBVIOUS
<1>14. Moves(s.entry, e, t.entry, d, n, d2, n2, i, v, set, cleared)
  <2>1. Tree(entry) /\ Tree(e)
    <3>1. i \in (Ino \cup {NoIno}) \ {d2, Root}
      OBVIOUS
    <3> QED
      BY <3>1, Stored DEF DiskInv
  <2>2. Puts(entry, e, d2, n2, IF set THEN i ELSE v)
    <3>1. CASE set
      BY <2>1, <3>1, StorePuts
    <3>2. CASE ~set
      <4>1. e = entry
        BY <2>1, <3>2, StorePuts
      <4> QED
        BY <3>2, <4>1 DEF Puts
    <3> QED
      BY <3>1, <3>2
  <2>3. e[d][n] = i
    BY <2>2 DEF Puts
  <2>4. Puts(e, entry', d, n, IF cleared THEN NoIno ELSE i)
    <3>1. CASE removed = "done"
      BY <1>4, <1>12, <2>1, <3>1, StorePuts
    <3>2. CASE removed # "done"
      <4>1. entry' = e
        BY <1>4, <2>1, <3>2, StorePuts
      <4> QED
        BY <1>12, <2>3, <3>2, <4>1 DEF Puts
    <3> QED
      BY <3>1, <3>2
  <2> QED
    BY <1>7, <2>2, <2>4 DEF Moves
<1>15. /\ (d \in hurt \/ Has(s.entry, d)) /\ (d2 \in hurt \/ Has(s.entry, d2)) /\ s.kind[d] = "dir" /\ s.kind[d2] = "dir"
       /\ v \in Ino => v \in s.used /\ v \in s.up /\ s.kind[v] = core[v].kind
       /\ s.kind[i] = core[i].kind
  BY <1>6, <1>7, Tied
<1>16. ~set => i \in hurt' /\ d2 \in hurt' /\ v \in hurt'
  BY <1>5
<1>17. v \in Ino \ hurt' => Kids(s.entry, v) = {}
  <2> SUFFICES ASSUME v \in Ino \ hurt' PROVE Kids(s.entry, v) = {}
    OBVIOUS
  <2>1. Children(v) = {}
    BY <1>5 DEF Emptied
  <2> QED
    BY <1>7, <2>1, Tied
<1>18. CASE ~dir
  <2>1. \A j \in Ino : core'[j].nlink = c[j].nlink
    BY <1>4, <1>9, <1>10, <1>18 DEF Keeps
  <2>2. t.dotdot = s.dotdot
    BY <1>4, <1>7, <1>18 DEF SetDotDot
  <2>3. \A j \in Ino \ (hurt' \cup {v}) : t.nlink[j] = s.nlink[j]
    <3>1. c[d2].nlink = core[d2].nlink
      BY <1>6, <1>18, NameiAssumption DEF Inode, Count
    <3> QED
      BY <1>7, <2>1, <3>1
  <2>4. v \in Ino \ hurt' => t.nlink[v] = s.nlink[v] - 1
    BY <1>7, <1>18, <2>1
  <2>5. ~cleared \/ ~set => i \in hurt'
    BY <1>5, <1>16, <1>12
  <2>6. MovesFile(s, t, hurt, hurt', e, d, n, d2, n2, i, v, set, cleared)
    BY <1>6, <1>7, <1>8, <1>14, <1>15, <1>16, <1>18, <2>2, <2>3, <2>4, <2>5 DEF MovesFile
  <2>7. Sound(t, hurt')
    BY <2>6, TreeMovesFile
  <2> QED
    BY <1>2, <2>7 DEF TreeInv
<1>19. CASE dir
  <2>1. \A j \in Ino \ {d} : core'[j].nlink = c[j].nlink
    BY <1>4, <1>9, <1>10, <1>11, <1>19 DEF Keeps, Lowers
  <2>2. c[d].nlink > 0 => core'[d].nlink = c[d].nlink - 1
    BY <1>4, <1>9, <1>10, <1>11, <1>19 DEF Keeps, Lowers
  <2>3. \A j \in Ino : t.dotdot[j] = IF j = i /\ up THEN d2 ELSE s.dotdot[j]
    <3>1. dotdot \in [Ino -> Ino \cup {NoIno}]
      BY DEF DiskInv, TypeOK
    <3> QED
      BY <1>4, <1>7, <1>19, <1>13, <3>1 DEF SetDotDot
  <2>4. \A j \in Ino \ (hurt' \cup {d, d2, v}) : t.nlink[j] = s.nlink[j]
    BY <1>7, <2>1
  <2>5. v \in Ino \ hurt' => t.nlink[v] = s.nlink[v] - 2
    BY <1>7, <1>19, <2>1
  <2>6. core[d].nlink \in Nat /\ core[d2].nlink \in Nat /\ LinkMax \in Nat
    BY <1>6, NameiAssumption DEF Inode, Count
  <2>7. d \notin hurt' => t.nlink[d] = IF d = d2 /\ v = NoIno THEN s.nlink[d] ELSE s.nlink[d] - 1
    <3> SUFFICES ASSUME d \notin hurt'
                 PROVE  t.nlink[d] = IF d = d2 /\ v = NoIno THEN s.nlink[d] ELSE s.nlink[d] - 1
      OBVIOUS
    <3>1. s.nlink[d] # 0 /\ s.nlink[d] \in Nat
      BY <1>6, <1>7, <1>15, Linkage
    <3>2. c[d].nlink = IF d = d2 /\ v = NoIno THEN core[d].nlink + 1 ELSE core[d].nlink
      BY <1>19, <2>6
    <3>3. t.nlink[d] = core'[d].nlink /\ s.nlink[d] = core[d].nlink
      BY <1>6, <1>7
    <3>4. t.nlink[d] = c[d].nlink - 1
      BY <2>2, <2>6, <3>1, <3>2, <3>3
    <3> QED
      BY <2>6, <3>2, <3>3, <3>4
  <2>8. d2 \notin hurt' /\ d # d2 =>
          /\ t.nlink[d2] <= LinkMax
          /\ t.nlink[d2] = IF v = NoIno THEN s.nlink[d2] + 1 ELSE s.nlink[d2]
    <3> SUFFICES ASSUME d2 \notin hurt', d # d2
                 PROVE  /\ t.nlink[d2] <= LinkMax
                        /\ t.nlink[d2] = IF v = NoIno THEN s.nlink[d2] + 1 ELSE s.nlink[d2]
      OBVIOUS
    <3>1. s.nlink[d2] <= LinkMax
      BY <1>6, <1>7 DEF Sound, Node
    <3>2. t.nlink[d2] = c[d2].nlink /\ s.nlink[d2] = core[d2].nlink
      BY <1>6, <1>7, <2>1
    <3> QED
      BY <1>19, <2>6, <3>1, <3>2
  <2>9. d \in hurt \/ d2 \in hurt \/ i \in hurt \/ v \in hurt =>
          /\ d \in hurt' /\ d2 \in hurt' /\ i \in hurt' /\ s.dotdot[i] \in hurt' \cup {NoIno}
          /\ v \in Ino => v \in hurt' /\ s.dotdot[v] \in hurt' \cup {NoIno}
    BY <1>5, <1>7
  <2>10. /\ ~cleared \/ ~set => i \in hurt'
         /\ ~set => d2 \in hurt' /\ (v \in Ino => v \in hurt')
         /\ ~up /\ d # d2 => d \in hurt' /\ d2 \in hurt' /\ i \in hurt'
    BY <1>5, <1>16, <1>19, <1>12, <1>13
  <2>11. /\ s.kind[i] = "dir"
         /\ v \in Ino => s.kind[v] = "dir" /\ v \in s.used /\ v \in s.up
         /\ v \in Ino \ hurt' => Kids(s.entry, v) = {} /\ t.nlink[v] = s.nlink[v] - 2
    BY <1>15, <1>17, <1>19, <2>5
  <2>12. MovesDir(s, t, hurt, hurt', e, d, n, d2, n2, i, v, set, cleared, up)
    BY <1>6, <1>7, <1>8, <1>14, <1>15, <2>3, <2>4, <2>7, <2>8, <2>9, <2>10, <2>11 DEF MovesDir
  <2>13. Sound(t, hurt')
    BY <2>12, TreeMovesDir
  <2> QED
    BY <1>2, <2>13 DEF TreeInv
<1> QED
  BY <1>18, <1>19

LEMMA RenameSound ==
  ASSUME DiskInv, DiskInv', TreeInv, Rooted, NEW d \in Ino, NEW n \in Name, NEW d2 \in Ino,
         NEW n2 \in Name, Rename(d, n, d2, n2)
  PROVE  TreeInv'
<1>1. PICK i : i = entry[d][n]
  OBVIOUS
<1>2. PICK v : v = entry[d2][n2]
  OBVIOUS
<1> DEFINE dir == core[i].kind = "dir"
<1>3. /\ Found(d, n) /\ (Found(d2, n2) \/ Vacant(d2, n2))
      /\ i # v
      /\ v # NoIno => dir = (core[v].kind = "dir") /\ d # v
      /\ dir => d2 # i
  BY <1>1, <1>2 DEF Rename, MayRename
<1>4. /\ i \in Ino /\ core[i].phase = "in" /\ Ready(d) /\ Ready(d2)
      /\ core[d2].phase = "in" /\ core[d2].kind = "dir" /\ core[d].phase = "in" /\ (d2 \in hurt \/ Linked(d2))
      /\ i \notin {d, Root} /\ v \in Ino \cup {NoIno} /\ v \notin {d2, Root}
  BY <1>1, <1>2, <1>3, Looked DEF Vacant, Ready, Rooted
<1>5. NoIno \notin Ino /\ core \in [Ino -> Inode] /\ CallShape({})
  BY Starts, RenameShape DEF NoIno, Ino
<1>6. i \notin {d, d2, v, Root} /\ v \notin {d, d2, Root}
  BY <1>3, <1>4, <1>5
<1>7. v \in Ino => core[v].phase = "in"
  BY <1>2, <1>3, <1>5, Looked DEF Vacant
<1>8. \A j \in Ino : core[j].nlink \in Nat
  BY <1>5, NameiAssumption DEF Inode, Count
<1>9. CASE Fails
  BY <1>9, FailsSound
<1>10. CASE RenameOnto(d, n, d2, n2)
  <2> DEFINE a == DropLink(core, v)
             dropped == IF dir THEN [a EXCEPT ![v].dead = TRUE] ELSE core
             b == MarkDirty(dropped, d2)
             c == DecLink(b, v)
  <2>1. v \in Ino
    BY <1>2, <1>4, <1>10 DEF RenameOnto
  <2>2. PICK how \in {"done", "prepare"} :
          MoveEntry(Store(entry, d2, n2, i, how), c, d, n, d2, i,
                    Emptied(v) \cup (IF how = "prepare" THEN {i, v, d2} ELSE {}), {v})
    BY <1>1, <1>2, <1>10 DEF RenameOnto
  <2>3. dropped \in [Ino -> Inode]
        /\ (\A j \in Ino \ {v} : dropped[j].nlink = core[j].nlink)
        /\ (dir => (core[v].nlink > 0 => dropped[v].nlink = core[v].nlink - 1))
        /\ (~dir => dropped[v].nlink = core[v].nlink)
    <3>1. a \in [Ino -> Inode] /\ Lowers(core, a, v)
      BY <1>5, <2>1, Counting
    <3> HIDE DEF a
    <3>2. [a EXCEPT ![v].dead = TRUE] \in [Ino -> Inode] /\ Keeps(a, [a EXCEPT ![v].dead = TRUE])
      BY <2>1, <3>1, Counting
    <3>3. CASE dir
      BY <2>1, <3>1, <3>2, <3>3 DEF Keeps, Lowers
    <3>4. CASE ~dir
      BY <1>5, <3>4
    <3> QED
      BY <3>3, <3>4
  <2> HIDE DEF dropped
  <2>4. b \in [Ino -> Inode] /\ Keeps(dropped, b)
    BY <2>3, Counting
  <2> HIDE DEF b
  <2>5. c \in [Ino -> Inode] /\ Lowers(b, c, v)
    BY <2>1, <2>4, Counting
  <2>6. \A j \in Ino \ {v} : c[j].nlink = core[j].nlink
    BY <2>3, <2>4, <2>5 DEF Keeps, Lowers
  <2>7. v \in Ino \ hurt' => c[v].nlink = core[v].nlink - (IF dir THEN 2 ELSE 1)
    <3> SUFFICES ASSUME v \notin hurt'
                 PROVE  c[v].nlink = core[v].nlink - (IF dir THEN 2 ELSE 1)
      OBVIOUS
    <3>1. PICK s : s = Now
      OBVIOUS
    <3>2. PICK t : t = Now'
      OBVIOUS
    <3>3. /\ Sound(s, hurt) /\ Typed(s) /\ s.entry = entry /\ v \in Ino \ hurt
          /\ s.kind[v] = core[v].kind /\ s.nlink[v] = core[v].nlink
      BY <1>5, <1>7, <2>1, <3>1, <3>2, CallNow DEF TreeInv
    <3>4. Has(s.entry, v)
      BY <1>2, <3>3, HasSlot
    <3>5. core[v].nlink # 0 /\ core[v].nlink \in Nat
      BY <3>3, <3>4, Linkage
    <3>6. dir => core[v].nlink > 1
      <4> SUFFICES ASSUME dir PROVE core[v].nlink > 1
        OBVIOUS
      <4>1. s.kind[v] = "dir"
        BY <1>3, <1>5, <2>1, <3>3
      <4>2. s.nlink[v] = 2 + Cardinality(Under(s, v))
        BY <3>3, <3>4, <4>1 DEF Sound, Node
      <4> QED
        BY <3>3, <4>2, UnderIn
    <3>7. b[v].nlink = dropped[v].nlink
      BY <2>1, <2>4 DEF Keeps
    <3>8. b[v].nlink > 0 => c[v].nlink = b[v].nlink - 1
      BY <2>5 DEF Lowers
    <3>9. CASE dir
      BY <2>3, <3>5, <3>6, <3>7, <3>8, <3>9
    <3>10. CASE ~dir
      BY <2>3, <3>5, <3>7, <3>8, <3>10
    <3> QED
      BY <3>9, <3>10
  <2> HIDE DEF c
  <2>8. c[d2].nlink = core[d2].nlink + (IF dir /\ v = NoIno THEN 1 ELSE 0)
    BY <1>4, <1>5, <1>8, <2>1, <2>6
  <2> DEFINE spoilt == Emptied(v) \cup (IF how = "prepare" THEN {i, v, d2} ELSE {})
             e == Store(entry, d2, n2, i, how)
  <2>9. /\ spoilt \in SUBSET Ino /\ Emptied(v) \subseteq spoilt
        /\ how = "prepare" => {i, v, d2} \subseteq spoilt
    BY <1>4, <2>1, EmptiedTyped
  <2>10. PICK set \in BOOLEAN : set <=> how = "done"
    OBVIOUS
  <2>11. e = Store(entry, d2, n2, i, IF set THEN "done" ELSE "prepare")
    BY <2>10
  <2>12. {v} = {v} \ {NoIno}
    BY <1>5, <2>1
  <2>13. MoveEntry(e, c, d, n, d2, i, spoilt, {v} \ {NoIno})
    BY <2>2, <2>12
  <2> HIDE DEF spoilt, e
  <2>14. ~set => {i, v, d2} \subseteq spoilt
    BY <2>9, <2>10
  <2>15. /\ (core[v].kind = "dir") = (core[i].kind = "dir")
         /\ core[i].kind = "dir" /\ v = NoIno => core[d2].nlink < LinkMax
         /\ \A j \in Ino \ {v, d2} : c[j].nlink = core[j].nlink
    BY <1>3, <1>5, <2>1, <2>6
  <2>16. Renaming(d, n, d2, n2, i, v, set, e, c, spoilt)
    BY <1>1, <1>2, <1>4, <1>5, <1>6, <1>7, <2>1, <2>5, <2>7, <2>8, <2>9, <2>11, <2>14,
       <2>15 DEF Renaming
  <2> QED
    BY <1>5, <2>13, <2>16, MoveEntrySound
<1>11. CASE RenameTo(d, n, d2, n2)
  <2> DEFINE c == IF dir THEN IncLink(core, d2) ELSE MarkDirty(core, d2)
             e == Store(entry, d2, n2, i, "done")
  <2>1. /\ v = NoIno
        /\ dir => core[d2].nlink < LinkMax
        /\ \/ MoveEntry(e, c, d, n, d2, i, {}, {})
           \/ /\ entry' = Store(entry, d2, n2, i, "commit")
              /\ core' = MarkDirty(core, d2)
              /\ Spoil({d, d2, i}, {i})
              /\ UNCHANGED <<disk, dotdot>>
    BY <1>1, <1>2, <1>11 DEF RenameTo
  <2>2. /\ IncLink(core, d2) \in [Ino -> Inode] /\ Raises(core, IncLink(core, d2), d2)
        /\ MarkDirty(core, d2) \in [Ino -> Inode] /\ Keeps(core, MarkDirty(core, d2))
    BY <1>5, Counting
  <2>3. CASE MoveEntry(e, c, d, n, d2, i, {}, {})
    <3>1. /\ c \in [Ino -> Inode]
          /\ \A j \in Ino \ {v, d2} : c[j].nlink = core[j].nlink
          /\ c[d2].nlink = core[d2].nlink + (IF dir /\ v = NoIno THEN 1 ELSE 0)
      <4>1. CASE dir
        BY <2>1, <2>2, <4>1 DEF Raises
      <4>2. CASE ~dir
        BY <1>8, <2>2, <4>2 DEF Keeps
      <4> QED
        BY <4>1, <4>2
    <3> HIDE DEF c
    <3>2. e = Store(entry, d2, n2, i, IF TRUE THEN "done" ELSE "prepare") /\ {} \in SUBSET Ino
      OBVIOUS
    <3> HIDE DEF e
    <3>3. MoveEntry(e, c, d, n, d2, i, {}, {v} \ {NoIno})
      <4>1. {v} \ {NoIno} = {}
        BY <2>1
      <4> QED
        BY <2>3, <4>1
    <3>4. /\ v \notin Ino /\ TRUE \in BOOLEAN
          /\ core[i].kind = "dir" /\ v = NoIno => core[d2].nlink < LinkMax
      BY <1>5, <2>1
    <3>5. Renaming(d, n, d2, n2, i, v, TRUE, e, c, {})
      BY <1>1, <1>2, <1>4, <1>5, <1>6, <3>1, <3>2, <3>4 DEF Renaming
    <3> QED
      BY <1>5, <3>3, <3>5, MoveEntrySound
  <2>4. CASE /\ entry' = Store(entry, d2, n2, i, "commit")
             /\ core' = MarkDirty(core, d2)
             /\ Spoil({d, d2, i}, {i})
             /\ UNCHANGED <<disk, dotdot>>
    <3>1. PICK s : s = Now
      OBVIOUS
    <3>2. PICK t : t = Now'
      OBVIOUS
    <3>3. Sound(s, hurt) /\ Puts(entry, entry', d2, n2, i)
      BY <2>4, <3>1, StorePuts DEF TreeInv, DiskInv
    <3>4. /\ Typed(s) /\ Typed(t)
          /\ s.entry = entry /\ t.entry = entry' /\ s.dotdot = dotdot /\ t.dotdot = dotdot'
          /\ hurt \subseteq hurt' /\ hurt' \subseteq Ino
          /\ \A j \in Ino : core'[j].nlink = core[j].nlink => t.nlink[j] = s.nlink[j]
          /\ \A j \in Ino : core[j].phase = "in" => s.kind[j] = core[j].kind
      BY <1>5, <3>1, <3>2, CallNow
    <3>5. t.kind = s.kind /\ t.used = s.used /\ t.up = s.up
      BY <1>5, <3>1, <3>2, CallStill
    <3>6. i \in hurt' /\ (d2 \in hurt \/ i \in hurt => d2 \in hurt' /\ i \in hurt')
      <4>1. {d, d2, i} \in SUBSET Ino /\ {i} \in SUBSET Ino
        BY <1>4
      <4>2. {i} \subseteq hurt' /\ ({d, d2, i} \cap hurt # {} => {d, d2, i} \subseteq hurt')
        <5>1. PICK S : S = {d, d2, i}
          OBVIOUS
        <5>2. S \in SUBSET Ino /\ Spoil(S, {i})
          BY <2>4, <4>1, <5>1
        <5>3. {i} \subseteq hurt' /\ (S \cap hurt # {} => S \subseteq hurt')
          BY <4>1, <5>2, Spoils
        <5> QED
          BY <5>1, <5>3
      <4> QED
        BY <4>2
    <3>7. /\ s.entry[d2][n2] = NoIno /\ (d2 \in hurt \/ Has(s.entry, d2)) /\ s.kind[d2] = "dir" /\ Has(s.entry, i)
          /\ Puts(s.entry, t.entry, d2, n2, i) /\ t.dotdot = s.dotdot
      BY <1>1, <1>2, <1>4, <2>1, <2>4, <3>3, <3>4, HasSlot, Tied
    <3>8. \A j \in Ino : t.nlink[j] = s.nlink[j]
      BY <2>2, <2>4, <3>4 DEF Keeps
    <3>9. Sound(t, hurt')
      BY <1>4, <1>6, <3>3, <3>4, <3>5, <3>6, <3>7, <3>8, TreeAdds
    <3> QED
      BY <3>2, <3>9 DEF TreeInv
  <2> QED
    BY <2>1, <2>3, <2>4
<1> QED
  BY <1>9, <1>10, <1>11 DEF Rename

LEMMA CallSound ==
  ASSUME DiskInv, DiskInv', TreeInv, Rooted, Call
  PROVE  TreeInv'
<1>1. PICK d \in Ino, n \in Name :
       \/ Mknod(d, n) \/ Symlink(d, n) \/ Mkdir(d, n) \/ Unlink(d, n) \/ Rmdir(d, n)
       \/ \E i \in Ino : Link(i, d, n)
       \/ \E d2 \in Ino, n2 \in Name : Rename(d, n, d2, n2)
  BY DEF Call
<1> QED
  BY <1>1, MknodSound, MkdirSound, UnlinkSound, RmdirSound, LinkSound, RenameSound

-----------------------------------------------------------------------------
(* The steps between the calls, and mounting                               *)

(* What the invariant says of an inode in the words of Namei.              *)
LEMMA Known ==
  ASSUME DiskInv, TreeInv, NEW i \in Ino \ hurt
  PROVE  /\ i \in imap <=> Linked(i) \/ core[i].phase # "out"
         /\ NLink(i) = 0 <=> ~Linked(i)
<1>1. PICK s : s = Now
  OBVIOUS
<1>2. Typed(s) /\ Sound(s, hurt)
  BY <1>1, TypedNow DEF TreeInv
<1>3. /\ s.entry = entry /\ s.used = imap /\ s.nlink[i] = NLink(i)
      /\ i \in s.up <=> core[i].phase # "out"
  BY <1>1, StateIs DEF Now, NLink
<1>4. Node(s, i) /\ (s.nlink[i] = 0 <=> ~Has(s.entry, i))
  BY <1>2, Linkage DEF Sound
<1>5. Linked(i) <=> Has(entry, i)
  BY Tied
<1> QED
  BY <1>3, <1>4, <1>5 DEF Node

(* A step that leaves the directories alone.                               *)
LEMMA StaysSound ==
  ASSUME DiskInv, DiskInv', TreeInv, entry' = entry, dotdot' = dotdot,
         hurt \subseteq hurt', hurt' \subseteq Ino,
         \A j \in Ino : \/ ~Linked(j)
                        \/ Kind(j)' = Kind(j)
                        \/ dotdot[j] = NoIno /\ j \in hurt',
         \A j \in Ino \ hurt' :
           /\ NLink(j)' = NLink(j)
           /\ j \in imap' <=> Linked(j) \/ core'[j].phase # "out"
  PROVE  TreeInv'
<1>1. PICK s : s = Now
  OBVIOUS
<1>2. PICK t : t = Now'
  OBVIOUS
<1>3. Typed(s) /\ Sound(s, hurt) /\ Typed(t)
  BY <1>1, <1>2, TypedNow, TypedNext DEF TreeInv
<1>4. /\ s.entry = entry /\ s.dotdot = dotdot
      /\ \A j \in Ino : s.kind[j] = Kind(j) /\ s.nlink[j] = NLink(j)
  BY <1>1, StateIs DEF Now, Kind, NLink
<1>5. /\ t.entry = entry' /\ t.dotdot = dotdot' /\ t.used = imap'
      /\ \A j \in Ino : /\ t.kind[j] = Kind(j)' /\ t.nlink[j] = NLink(j)'
                        /\ j \in t.up <=> core'[j].phase # "out"
  BY <1>2, StateIs DEF Now, Kind, NLink
<1>6. \A j \in Ino : Linked(j) <=> Has(s.entry, j)
  BY <1>4, Tied
<1>7. t.entry = s.entry /\ t.dotdot = s.dotdot
  BY <1>4, <1>5
<1>8. \A j \in Ino :
        \/ ~Has(s.entry, j)
        \/ t.kind[j] = s.kind[j] /\ t.dotdot[j] = s.dotdot[j]
        \/ s.dotdot[j] = NoIno /\ t.dotdot[j] \in hurt' \cup {NoIno} /\ j \in hurt'
  BY <1>4, <1>5, <1>6, <1>7
<1>9. \A j \in Ino \ hurt' : /\ t.nlink[j] = s.nlink[j]
                             /\ j \in t.used <=> Has(s.entry, j) \/ j \in t.up
  BY <1>4, <1>5, <1>6
<1>10. Sound(t, hurt')
  BY <1>3, <1>7, <1>8, <1>9, TreeRests
<1> QED
  BY <1>2, <1>10 DEF TreeInv

(* One that changes an inode, but neither its kind nor its count.          *)
LEMMA SameInode ==
  ASSUME DiskInv, DiskInv', TreeInv, Free, UNCHANGED <<imap, tree>>, NEW i \in Ino,
         \A j \in Ino \ {i} : core'[j] = core[j] /\ raw'[j] = raw[j],
         Kind(i)' = Kind(i), NLink(i)' = NLink(i),
         i \in imap, i \in hurt \/ Linked(i) \/ core'[i].phase # "out"
  PROVE  TreeInv'
<1>1. entry' = entry /\ dotdot' = dotdot /\ hurt' = hurt /\ hurt \subseteq Ino /\ imap' = imap
  BY DEF tree, Free, DiskInv, TypeOK
<1>2. \A j \in Ino : Kind(j)' = Kind(j) /\ NLink(j)' = NLink(j)
  BY DEF Kind, NLink
<1>3. ASSUME NEW j \in Ino \ hurt
      PROVE  j \in imap' <=> Linked(j) \/ core'[j].phase # "out"
  BY <1>1, Known
<1> QED
  BY <1>1, <1>2, <1>3, StaysSound

LEMMA HoldSound ==
  ASSUME DiskInv, DiskInv', TreeInv, NEW d \in Ino, NEW n \in Name, Hold(d, n)
  PROVE  TreeInv'
<1>1. PICK i \in Ino : i = entry[d][n] /\ core[i].phase = "in"
  BY Looked DEF Hold
<1>2. /\ core' = [core EXCEPT ![i].held = TRUE] /\ raw' = raw
      /\ Free /\ UNCHANGED <<imap, tree>>
  BY <1>1 DEF Hold, disk
<1>3. core[i] \in Inode /\ i \in imap /\ core \in [Ino -> Inode]
  BY <1>1, Rests, Starts DEF InodeInv
<1>4. /\ core'[i].phase = "in" /\ core'[i].kind = core[i].kind /\ core'[i].nlink = core[i].nlink
      /\ \A j \in Ino \ {i} : core'[j] = core[j] /\ raw'[j] = raw[j]
  BY <1>2, <1>3, <1>1 DEF Inode
<1>5. Kind(i)' = Kind(i) /\ NLink(i)' = NLink(i)
  BY <1>1, <1>4 DEF Kind, NLink
<1> QED
  BY <1>2, <1>3, <1>4, <1>5, SameInode

LEMMA ReleaseSound ==
  ASSUME DiskInv, DiskInv', TreeInv, NEW i \in Ino, Release(i)
  PROVE  TreeInv'
<1>1. /\ core' = [core EXCEPT ![i].held = FALSE] /\ raw' = raw /\ core[i].held
      /\ Free /\ UNCHANGED <<imap, tree>>
  BY DEF Release, disk
<1>2. core[i] \in Inode /\ core[i].phase = "in" /\ i \in imap /\ core \in [Ino -> Inode]
  BY <1>1, Rests, Starts DEF InodeInv
<1>3. /\ core'[i].phase = "in" /\ core'[i].kind = core[i].kind /\ core'[i].nlink = core[i].nlink
      /\ \A j \in Ino \ {i} : core'[j] = core[j] /\ raw'[j] = raw[j]
  BY <1>1, <1>2 DEF Inode
<1>4. Kind(i)' = Kind(i) /\ NLink(i)' = NLink(i)
  BY <1>2, <1>3 DEF Kind, NLink
<1> QED
  BY <1>1, <1>2, <1>3, <1>4, SameInode

LEMMA WriteInodeSound ==
  ASSUME DiskInv, DiskInv', TreeInv, NEW i \in Ino, WriteInode(i)
  PROVE  TreeInv'
<1>1. /\ core' = [core EXCEPT ![i].dirty = FALSE] /\ core[i].phase = "in"
      /\ raw' = [raw EXCEPT ![i] = [kind |-> core[i].kind, nlink |-> core[i].nlink]]
      /\ Free /\ UNCHANGED <<imap, tree>>
  BY DEF WriteInode
<1>2. core[i] \in Inode /\ i \in imap /\ core \in [Ino -> Inode]
  BY <1>1, Rests, Starts DEF InodeInv
<1>3. /\ core'[i].phase = "in" /\ core'[i].kind = core[i].kind /\ core'[i].nlink = core[i].nlink
      /\ \A j \in Ino \ {i} : core'[j] = core[j]
  BY <1>1, <1>2 DEF Inode
<1>4. \A j \in Ino \ {i} : raw'[j] = raw[j]
  BY <1>1 DEF DiskInv, TypeOK
<1>5. Kind(i)' = Kind(i) /\ NLink(i)' = NLink(i)
  BY <1>1, <1>3 DEF Kind, NLink
<1> QED
  BY <1>1, <1>2, <1>3, <1>4, <1>5, SameInode

(* What leaves the cache is on the disk as it was in core, and linked.     *)
LEMMA ReclaimSound ==
  ASSUME DiskInv, DiskInv', TreeInv, NEW i \in Ino, Reclaim(i)
  PROVE  TreeInv'
<1>1. /\ core' = [core EXCEPT ![i] = Out] /\ raw' = raw
      /\ core[i].phase = "in" /\ ~core[i].dirty /\ core[i].nlink # 0
      /\ Free /\ UNCHANGED <<imap, tree>>
  BY DEF Reclaim, Idle, disk
<1>2. /\ core[i] \in Inode /\ i \in imap /\ core \in [Ino -> Inode]
      /\ raw[i] = [kind |-> core[i].kind, nlink |-> core[i].nlink]
  BY <1>1, Rests, Starts DEF InodeInv
<1>3. /\ core'[i] = Out
      /\ \A j \in Ino \ {i} : core'[j] = core[j] /\ raw'[j] = raw[j]
  BY <1>1, <1>2
<1>4. Kind(i)' = Kind(i) /\ NLink(i)' = NLink(i)
  <2>1. raw'[i].kind = core[i].kind /\ raw'[i].nlink = core[i].nlink
    BY <1>1, <1>2
  <2> QED
    BY <1>1, <1>3, <2>1, OutTyped DEF Kind, NLink
<1>5. i \in hurt \/ Linked(i)
  BY <1>1, Known DEF NLink
<1> QED
  BY <1>1, <1>2, <1>3, <1>4, <1>5, SameInode

LEMMA LookupSound ==
  ASSUME DiskInv, DiskInv', TreeInv, NEW d \in Ino, NEW n \in Name, Lookup(d, n), hurt' # Ino
  PROVE  TreeInv'
<1>1. PICK i \in Ino : i = entry[d][n] /\ i \in imap
  BY Looked, Rests DEF Lookup
<1> DEFINE s == [Out EXCEPT !.phase = "in", !.kind = raw[i].kind, !.nlink = raw[i].nlink]
<1>2. /\ core[i].phase = "out" /\ core' = [core EXCEPT ![i] = s] /\ raw' = raw
      /\ Free /\ UNCHANGED <<imap, tree>>
  BY <1>1 DEF Lookup, disk, Free
<1>3. s.phase = "in" /\ s.kind = raw[i].kind /\ s.nlink = raw[i].nlink
  BY ReadTyped
<1> HIDE DEF s
<1>4. /\ core'[i] = s
      /\ \A j \in Ino \ {i} : core'[j] = core[j] /\ raw'[j] = raw[j]
  BY <1>2, Starts
<1>5. Kind(i)' = Kind(i) /\ NLink(i)' = NLink(i)
  BY <1>2, <1>3, <1>4 DEF Kind, NLink
<1> QED
  BY <1>1, <1>2, <1>3, <1>4, <1>5, SameInode

LEMMA ClearInodeSound ==
  ASSUME DiskInv, DiskInv', TreeInv, NEW i \in Ino, ClearInode(i)
  PROVE  TreeInv'
<1>1. /\ core' = [core EXCEPT ![i].phase = "cleared"] /\ core[i].phase = "freeing"
      /\ raw' = [raw EXCEPT ![i] = [kind |-> "none", nlink |-> 0]]
      /\ Free /\ UNCHANGED <<imap, tree>>
  BY DEF ClearInode
<1>2. core[i] \in Inode /\ i \in imap /\ core \in [Ino -> Inode]
  BY <1>1, Rests, Starts DEF InodeInv
<1>3. /\ core'[i].phase = "cleared" /\ core'[i].kind = core[i].kind
      /\ core'[i].nlink = core[i].nlink
      /\ \A j \in Ino \ {i} : core'[j] = core[j]
  BY <1>1, <1>2 DEF Inode
<1>4. \A j \in Ino \ {i} : raw'[j] = raw[j]
  BY <1>1 DEF DiskInv, TypeOK
<1>5. Kind(i)' = Kind(i) /\ NLink(i)' = NLink(i)
  BY <1>1, <1>3 DEF Kind, NLink
<1> QED
  BY <1>1, <1>2, <1>3, <1>4, <1>5, SameInode

(* The bit is cleared of an inode that has no entry, or is spoilt.         *)
LEMMA ClearBitSound ==
  ASSUME DiskInv, DiskInv', TreeInv, NEW i \in Ino, ClearBit(i)
  PROVE  TreeInv'
<1>1. /\ core' = [core EXCEPT ![i] = Out] /\ core[i].phase = "cleared"
      /\ imap' = imap \ {i} /\ raw' = raw /\ hurt' = hurt
      /\ entry' = entry /\ dotdot' = dotdot
  BY DEF ClearBit, Free, tree
<1>2. /\ core[i].nlink = 0 /\ dotdot[i] = NoIno /\ raw[i] = Clear
      /\ core \in [Ino -> Inode] /\ hurt \subseteq Ino
  BY <1>1, Rests, Starts DEF InodeInv
<1>3. /\ core'[i] = Out
      /\ \A j \in Ino \ {i} : core'[j] = core[j] /\ raw'[j] = raw[j]
  BY <1>1, <1>2
<1>4. \A j \in Ino \ {i} : Kind(j)' = Kind(j) /\ NLink(j)' = NLink(j)
  BY <1>3 DEF Kind, NLink
<1>5. NLink(i) = 0 /\ NLink(i)' = 0
  BY <1>1, <1>2, <1>3, OutTyped DEF NLink, Clear
<1>6. i \in hurt \/ ~Linked(i)
  BY <1>5, Known
<1>7. ASSUME NEW j \in Ino \ hurt
      PROVE  NLink(j)' = NLink(j) /\ (j \in imap' <=> Linked(j) \/ core'[j].phase # "out")
  BY <1>1, <1>3, <1>4, <1>5, <1>6, OutTyped, Known
<1> QED
  BY <1>1, <1>2, <1>4, <1>6, <1>7, StaysSound

(* An evicted directory that was not empty leaves spoilt inodes behind.    *)
LEMMA EvictSound ==
  ASSUME DiskInv, DiskInv', TreeInv, NEW i \in Ino, Evict(i)
  PROVE  TreeInv'
<1>1. PICK s : s = Now
  OBVIOUS
<1>2. PICK t : t = Now'
  OBVIOUS
<1>3. /\ core' = [core EXCEPT ![i].phase = "freeing", ![i].dirty = FALSE]
      /\ core[i].phase = "in" /\ core[i].nlink = 0 /\ i # Root
      /\ entry' = [entry EXCEPT ![i] = EmptyDir]
      /\ dotdot' = [dotdot EXCEPT ![i] = NoIno]
      /\ hurt' = hurt \cup Children(i)
                     \cup (IF Linked(i) THEN {dotdot[i]} \ {NoIno} ELSE {})
      /\ imap' = imap /\ raw' = raw
  BY DEF Evict, Idle, disk
<1>4. core[i] \in Inode /\ core \in [Ino -> Inode]
  BY Rests, Starts
<1>5. /\ core'[i].phase = "freeing" /\ core'[i].kind = core[i].kind
      /\ core'[i].nlink = core[i].nlink
      /\ \A j \in Ino \ {i} : core'[j] = core[j]
  BY <1>3, <1>4 DEF Inode
<1>6. Typed(s) /\ Sound(s, hurt) /\ Typed(t)
  BY <1>1, <1>2, TypedNow, TypedNext DEF TreeInv
<1>7. /\ s.entry = entry /\ s.dotdot = dotdot /\ s.used = imap
      /\ \A j \in Ino :
           /\ s.kind[j] = IF core[j].phase = "out" THEN raw[j].kind ELSE core[j].kind
           /\ s.nlink[j] = IF core[j].phase = "out" THEN raw[j].nlink ELSE core[j].nlink
           /\ j \in s.up <=> core[j].phase # "out"
      /\ s.up \subseteq Ino
  BY <1>1, StateIs DEF Now, State
<1>8. /\ t.entry = entry' /\ t.dotdot = dotdot' /\ t.used = imap'
      /\ \A j \in Ino :
           /\ t.kind[j] = IF core'[j].phase = "out" THEN raw'[j].kind ELSE core'[j].kind
           /\ t.nlink[j] = IF core'[j].phase = "out" THEN raw'[j].nlink ELSE core'[j].nlink
           /\ j \in t.up <=> core'[j].phase # "out"
      /\ t.up \subseteq Ino
  BY <1>2, StateIs DEF Now, State
<1>9. ASSUME NEW j \in Ino
      PROVE  /\ t.kind[j] = s.kind[j] /\ t.nlink[j] = s.nlink[j]
             /\ j \in t.up <=> j \in s.up
  <2>1. CASE j = i
    BY <1>3, <1>5, <1>7, <1>8, <2>1
  <2>2. CASE j # i
    <3>1. core'[j] = core[j] /\ raw'[j] = raw[j]
      BY <1>3, <1>5, <2>2
    <3> QED
      BY <1>7, <1>8, <3>1
  <2> QED
    BY <2>1, <2>2
<1>10. t.kind = s.kind /\ t.nlink = s.nlink /\ t.used = s.used /\ t.up = s.up
  BY <1>3, <1>6, <1>7, <1>8, <1>9 DEF Typed
<1>11. \A x \in Ino, m \in Name :
         t.entry[x][m] = IF x = i THEN NoIno ELSE s.entry[x][m]
  BY <1>3, <1>6, <1>7, <1>8 DEF Typed, Tree, EmptyDir
<1>12. \A j \in Ino : t.dotdot[j] = IF j = i THEN NoIno ELSE s.dotdot[j]
  BY <1>3, <1>6, <1>7, <1>8 DEF Typed
<1>13. hurt \subseteq hurt' /\ hurt' \subseteq Ino
  BY <1>3 DEF DiskInv, TypeOK
<1>14. Kids(s.entry, i) \subseteq hurt' /\ (Has(s.entry, i) => s.dotdot[i] \in hurt' \cup {NoIno})
  <2>1. (Linked(i) <=> Has(s.entry, i)) /\ Children(i) = Kids(s.entry, i)
    BY <1>7, Tied
  <2> QED
    BY <1>3, <1>7, <2>1
<1>15. s.nlink[i] = 0
  BY <1>3, <1>7
<1>16. Sound(t, hurt')
  BY <1>3, <1>6, <1>10, <1>11, <1>12, <1>13, <1>14, <1>15, TreeEvicts
<1> QED
  BY <1>2, <1>16 DEF TreeInv

LEMMA BetweenSound ==
  ASSUME DiskInv, DiskInv', TreeInv, Between, hurt' # Ino
  PROVE  TreeInv'
BY HoldSound, LookupSound, ReleaseSound, WriteInodeSound, ReclaimSound, EvictSound,
   ClearInodeSound, ClearBitSound DEF Between

(* The count of an inode that is not spoilt, by the directories there are. *)
LEMMA Counted ==
  ASSUME DiskInv, TreeInv, NEW i \in Ino \ hurt, NEW dirs \in SUBSET Ino,
         \A j \in Ino : Linked(j) => (j \in dirs <=> Kind(j) = "dir")
  PROVE  /\ NLink(i) = References(i, dirs) /\ NLink(i) <= LinkMax
         /\ i # Root /\ Linked(i) /\ Kind(i) = "dir"
              => \E n \in Name : Entries(i) = {<<dotdot[i], n>>}
<1>1. PICK s : s = Now
  OBVIOUS
<1>2. Typed(s) /\ Sound(s, hurt)
  BY <1>1, TypedNow DEF TreeInv
<1>3. /\ s.entry = entry /\ s.dotdot = dotdot
      /\ \A j \in Ino : s.kind[j] = Kind(j) /\ s.nlink[j] = NLink(j)
  BY <1>1, StateIs DEF Now, Kind, NLink
<1>4. \A j \in Ino : (Linked(j) <=> Has(s.entry, j)) /\ Entries(j) = Slots(s.entry, j)
  BY <1>3, Tied
<1>5. Node(s, i)
  BY <1>2 DEF Sound
<1> DEFINE S == {j \in dirs \ {Root} : Linked(j) /\ dotdot[j] = i}
<1>6. S = Under(s, i)
  BY <1>3, <1>4 DEF Under
<1>7. References(i, dirs) =
        IF ~Linked(i) THEN 0
        ELSE Cardinality(Entries(i)) + (IF i = Root THEN 1 ELSE 0)
               + (IF i \in dirs THEN 1 + Cardinality(S) ELSE 0)
  BY DEF References
<1> HIDE DEF S
<1>8. i = Root => Entries(i) = {} /\ Linked(i) /\ Kind(i) = "dir"
  BY <1>2, <1>3 DEF Entries, Linked, Typed, Tree
<1>9. i # Root /\ Linked(i) /\ Kind(i) = "dir"
              => \E n \in Name : Entries(i) = {<<dotdot[i], n>>}
  BY <1>3, <1>4, <1>5 DEF Node
<1>10. /\ Cardinality(Entries(i)) \in Nat /\ Cardinality(S) \in Nat
       /\ i = Root => Cardinality(Entries(i)) = 0
       /\ i # Root /\ Linked(i) /\ Kind(i) = "dir" => Cardinality(Entries(i)) = 1
  BY <1>6, <1>8, <1>9, EntriesFinite, UnderIn, FS_EmptySet, FS_Singleton
<1>11. /\ NLink(i) <= LinkMax
       /\ ~Linked(i) => NLink(i) = 0
       /\ Linked(i) /\ Kind(i) # "dir" => NLink(i) = Cardinality(Entries(i))
       /\ Linked(i) /\ Kind(i) = "dir" => NLink(i) = 2 + Cardinality(S)
  BY <1>3, <1>4, <1>5, <1>6 DEF Node
<1>12. NLink(i) = References(i, dirs)
  BY <1>7, <1>8, <1>10, <1>11
<1> QED
  BY <1>9, <1>11, <1>12

LEMMA FillSuperSound ==
  ASSUME MountInv, MountInv', TreeInv, NEW ro \in BOOLEAN, FillSuper(ro)
  PROVE  TreeInv'
<1> DEFINE s == [Out EXCEPT !.phase = "in", !.kind = raw[Root].kind, !.nlink = raw[Root].nlink]
<1>1. /\ DiskInv /\ DiskInv' /\ core' = [core EXCEPT ![Root] = s] /\ raw' = raw
      /\ Free /\ UNCHANGED <<imap, tree>> /\ \A i \in Ino : core[i] = Out
  BY DEF FillSuper, MountInv, disk
<1>2. Root \in Ino /\ Root \in imap /\ Linked(Root)
  BY <1>1, NameiAssumption DEF Root, Ino, DiskInv, RootInv, Linked
<1>3. s.phase = "in" /\ s.kind = raw[Root].kind /\ s.nlink = raw[Root].nlink
  BY <1>1, <1>2, ReadTyped
<1> HIDE DEF s
<1>4. /\ core'[Root] = s
      /\ \A j \in Ino \ {Root} : core'[j] = core[j] /\ raw'[j] = raw[j]
  BY <1>1, <1>2, Starts
<1>5. Kind(Root)' = Kind(Root) /\ NLink(Root)' = NLink(Root)
  BY <1>1, <1>2, <1>3, <1>4, OutTyped DEF Kind, NLink
<1> QED
  BY <1>1, <1>2, <1>4, <1>5, SameInode

LEMMA PutSuperSound ==
  ASSUME MountInv, MountInv', TreeInv, PutSuper
  PROVE  TreeInv'
<1>1. /\ DiskInv /\ DiskInv' /\ core' = [i \in Ino |-> Out] /\ Synced
      /\ Free /\ UNCHANGED <<disk, tree>>
  BY DEF PutSuper, MountInv
<1>2. /\ imap' = imap /\ raw' = raw /\ entry' = entry /\ dotdot' = dotdot /\ hurt' = hurt
      /\ hurt \subseteq Ino
  BY <1>1 DEF disk, tree, Free, DiskInv, TypeOK
<1>3. ASSUME NEW j \in Ino
      PROVE  Kind(j)' = Kind(j) /\ NLink(j)' = NLink(j)
  <2>1. core'[j].phase = "out" /\ InodeInv(j)
    BY <1>1, OutTyped DEF DiskInv
  <2>2. core[j].phase = "out" \/ raw[j] = [kind |-> core[j].kind, nlink |-> core[j].nlink]
    BY <1>1, <2>1 DEF Synced, InodeInv
  <2>3. raw'[j].kind = Kind(j) /\ raw'[j].nlink = NLink(j)
    BY <1>2, <2>2 DEF Kind, NLink
  <2> QED
    BY <2>1, <2>3 DEF Kind, NLink
<1>4. ASSUME NEW j \in Ino \ hurt
      PROVE  j \in imap' <=> Linked(j) \/ core'[j].phase # "out"
  <2>1. core'[j].phase = "out"
    BY <1>1, OutTyped
  <2>2. core[j].phase # "out" => Linked(j)
    BY <1>1, Known DEF Synced, NLink
  <2> QED
    BY <1>1, <1>2, <2>1, <2>2, Known
<1> QED
  BY <1>1, <1>2, <1>3, <1>4, StaysSound

(* After a crash that has left the inodes wrong nothing is left to say.    *)
LEMMA AllSpoilt ==
  ASSUME DiskInv', hurt' = Ino
  PROVE  TreeInv'
<1>1. PICK t : t = Now'
  OBVIOUS
<1>2. Typed(t)
  BY <1>1, TypedNext
<1>3. \A j \in Ino : t.dotdot[j] \in Ino \cup {NoIno}
  BY <1>2 DEF Typed
<1>4. Sound(t, hurt')
  BY <1>3 DEF Sound, Home
<1> QED
  BY <1>1, <1>4 DEF TreeInv

(* What has an entry has been written once it is counted on the disk.      *)
LEMMA OnDiskKind ==
  ASSUME DiskInv, DiskSound, NEW j \in Ino, Linked(j)
  PROVE  raw[j].kind # "none" /\ raw[j].kind = Kind(j)
<1> DEFINE dirs == {k \in Ino : raw[k].kind = "dir"}
           S == {k \in dirs \ {Root} : Linked(k) /\ dotdot[k] = j}
<1>1. j \in imap /\ raw[j].nlink = References(j, dirs) /\ InodeInv(j) /\ S \in SUBSET Ino
  BY DEF DiskSound, DiskInv
<1>2. References(j, dirs) =
        Cardinality(Entries(j)) + (IF j = Root THEN 1 ELSE 0)
               + (IF j \in dirs THEN 1 + Cardinality(S) ELSE 0)
  BY DEF References
<1>3. Cardinality(S) \in Nat
  BY <1>1, EntriesFinite
<1> HIDE DEF dirs, S
<1>4. Cardinality(Entries(j)) \in Nat /\ (j # Root => Cardinality(Entries(j)) # 0)
  BY EntriesFinite, FS_EmptySet DEF Linked
<1>5. raw[j].nlink # 0
  BY <1>1, <1>2, <1>3, <1>4
<1> QED
  BY <1>1, <1>5 DEF InodeInv, Kind

(* A crash that finds the inodes as they should be on the disk.            *)
LEMMA CrashSound ==
  ASSUME MountInv, MountInv', TreeInv, Crash
  PROVE  TreeInv'
<1>1. /\ DiskInv /\ DiskInv' /\ core' = [i \in Ino |-> Out]
      /\ hurt' = (IF DiskSound THEN hurt ELSE Ino) /\ UNCHANGED <<disk, tree>>
  BY DEF Crash, MountInv
<1>2. /\ imap' = imap /\ raw' = raw /\ entry' = entry /\ dotdot' = dotdot
      /\ hurt \subseteq Ino
  BY <1>1 DEF disk, tree, DiskInv, TypeOK
<1>3. CASE ~DiskSound
  BY <1>1, <1>3, AllSpoilt
<1>4. CASE DiskSound
  <2>1. \A j \in Ino : Kind(j)' = raw[j].kind /\ NLink(j)' = raw[j].nlink /\ core'[j].phase = "out"
    BY <1>1, <1>2, OutTyped DEF Kind, NLink
  <2>2. \A j \in Ino : Linked(j) => Kind(j)' = Kind(j)
    BY <1>1, <1>4, <2>1, OnDiskKind
  <2>3. ASSUME NEW j \in Ino \ hurt
        PROVE  NLink(j)' = NLink(j)
    <3>1. CASE Linked(j)
      <4> DEFINE dirs == {k \in Ino : raw[k].kind = "dir"}
      <4>1. \A k \in Ino : Linked(k) => (k \in dirs <=> Kind(k) = "dir")
        BY <1>1, <1>4, OnDiskKind
      <4>2. raw[j].nlink = References(j, dirs)
        BY <1>4, <3>1 DEF DiskSound
      <4>3. dirs \in SUBSET Ino
        OBVIOUS
      <4> HIDE DEF dirs
      <4>4. NLink(j) = References(j, dirs)
        BY <1>1, <4>1, <4>3, Counted
      <4> QED
        BY <2>1, <4>2, <4>4
    <3>2. CASE ~Linked(j)
      <4>1. j \notin imap /\ InodeInv(j)
        BY <1>1, <1>4, <3>2 DEF DiskSound, DiskInv
      <4>2. raw[j].nlink = 0 /\ NLink(j) = 0
        BY <1>1, <3>2, <4>1, Known DEF InodeInv, Clear
      <4> QED
        BY <2>1, <4>2
    <3> QED
      BY <3>1, <3>2
  <2>4. \A j \in Ino : j \in imap' <=> Linked(j) \/ core'[j].phase # "out"
    BY <1>2, <1>4, <2>1 DEF DiskSound
  <2> QED
    BY <1>1, <1>2, <1>4, <2>2, <2>3, <2>4, StaysSound
<1> QED
  BY <1>3, <1>4

LEMMA QuietSound ==
  ASSUME MountInv, TreeInv, WriteSuper \/ RemountReadOnly \/ RemountWritable \/ UNCHANGED fsvars
  PROVE  TreeInv'
<1>1. UNCHANGED <<imap, raw, core, entry, dotdot, hurt>>
  BY DEF WriteSuper, RemountReadOnly, RemountWritable, fsvars, vars, disk, tree, Free
<1> QED
  BY <1>1, Zenon DEF TreeInv, Now

LEMMA MountedSound ==
  ASSUME MountInv, MountInv', TreeInv, Rooted, [MountedNext]_fsvars, hurt' # Ino
  PROVE  TreeInv'
<1>1. CASE Serve
  BY <1>1, CallSound, BetweenSound DEF Serve, Next, MountInv
<1> QED
  BY <1>1, FillSuperSound, PutSuperSound, CrashSound, QuietSound DEF MountedNext

(* The file system of the first mount is without faults.                   *)
LEMMA MountedFirst == MountedInit => TreeInv
<1> SUFFICES ASSUME MountedInit PROVE TreeInv
  OBVIOUS
<1>1. PICK dirs \in SUBSET imap :
       /\ Root \in dirs
       /\ \A d \in Ino \ dirs : entry[d] = EmptyDir
       /\ \A d \in dirs \ {Root} : Cardinality(Entries(d)) = 1
       /\ dotdot = [d \in Ino |-> IF d = Root THEN Root
                                 ELSE IF d \in dirs THEN Parent(d) ELSE NoIno]
       /\ raw = [i \in Ino |->
                   [kind |-> IF i \in dirs THEN "dir" ELSE IF i \in imap THEN "file" ELSE "none",
                    nlink |-> References(i, dirs)]]
       /\ \A i \in imap : raw[i].nlink <= LinkMax
  BY DEF MountedInit, Init
<1>2. /\ imap = {i \in Ino : Linked(i)} /\ hurt = {} /\ DiskInv
      /\ core = [i \in Ino |-> IF i \in imap
                               THEN [Out EXCEPT !.phase = "in", !.kind = raw[i].kind,
                                                !.nlink = raw[i].nlink]
                               ELSE Out]
  BY Mounted DEF MountedInit, Init, MountInv
<1>3. Root \in Ino /\ NoIno \notin Ino
  BY NameiAssumption DEF Root, Ino, NoIno
<1>4. PICK s : s = Now
  OBVIOUS
<1>5. Typed(s)
  BY <1>2, <1>4, TypedNow
<1>6. /\ s.entry = entry /\ s.dotdot = dotdot /\ s.used = imap
      /\ \A j \in Ino :
           /\ s.kind[j] = IF core[j].phase = "out" THEN raw[j].kind ELSE core[j].kind
           /\ s.nlink[j] = IF core[j].phase = "out" THEN raw[j].nlink ELSE core[j].nlink
           /\ j \in s.up <=> core[j].phase # "out"
  BY <1>4, StateIs DEF Now
<1>7. \A j \in Ino : (Linked(j) <=> Has(s.entry, j)) /\ Entries(j) = Slots(s.entry, j)
                     /\ Children(j) = Kids(s.entry, j)
  BY <1>6, Tied
<1>8. \A j \in Ino : /\ s.kind[j] = raw[j].kind /\ s.nlink[j] = raw[j].nlink
                     /\ core[j].phase # "out" => j \in imap
  <2> SUFFICES ASSUME NEW j \in Ino
               PROVE  /\ s.kind[j] = raw[j].kind /\ s.nlink[j] = raw[j].nlink
                      /\ core[j].phase # "out" => j \in imap
    OBVIOUS
  <2>1. CASE j \in imap
    <3>1. PICK r : r = [Out EXCEPT !.phase = "in", !.kind = raw[j].kind, !.nlink = raw[j].nlink]
      OBVIOUS
    <3>2. r.phase = "in" /\ r.kind = raw[j].kind /\ r.nlink = raw[j].nlink
      BY <1>2, <3>1, ReadTyped
    <3>3. core[j] = r
      BY <1>2, <2>1, <3>1
    <3> QED
      BY <1>6, <2>1, <3>2, <3>3
  <2>2. CASE j \notin imap
    <3>1. core[j] = Out
      BY <1>2, <2>2
    <3> QED
      BY <1>6, <3>1, OutTyped
  <2> QED
    BY <2>1, <2>2
<1>9. \A j \in Ino :
        /\ raw[j].nlink = References(j, dirs)
        /\ raw[j].kind = (IF j \in dirs THEN "dir" ELSE IF j \in imap THEN "file" ELSE "none")
  BY <1>1
<1>10. \A j \in Ino \ dirs : Kids(s.entry, j) = {}
  BY <1>1, <1>6 DEF Kids, EmptyDir
<1>11. ASSUME NEW j \in dirs \ {Root}
       PROVE  /\ \E n \in Name : Slots(s.entry, j) = {<<s.dotdot[j], n>>}
              /\ \E n \in Name : s.entry[s.dotdot[j]][n] = j
  <2>1. j \in Ino /\ Cardinality(Entries(j)) = 1 /\ s.dotdot[j] = Parent(j)
    <3>1. j \in Ino /\ j # Root
      BY <1>2
    <3>2. Cardinality(Entries(j)) = 1
      BY <1>1
    <3>3. dotdot[j] = Parent(j)
      BY <1>1, <3>1
    <3> QED
      BY <1>6, <3>1, <3>2, <3>3
  <2>2. PICK x : Entries(j) = {x}
    BY <2>1, EntriesFinite, FS_Singleton
  <2>3. x \in Ino \X Name /\ entry[x[1]][x[2]] = j
    BY <2>2 DEF Entries
  <2>4. PICK d \in Ino, n \in Name : x = <<d, n>>
    BY <2>3
  <2>5. \A e \in Ino : \A m \in Name : entry[e][m] = j => e = d
    <3> SUFFICES ASSUME NEW e \in Ino, NEW m \in Name, entry[e][m] = j PROVE e = d
      OBVIOUS
    <3>1. <<e, m>> \in Entries(j)
      BY DEF Entries
    <3> QED
      BY <2>2, <2>4, <3>1
  <2>6. \E m \in Name : entry[d][m] = j
    BY <2>3, <2>4
  <2>7. Parent(j) = d
    BY <2>5, <2>6, Zenon DEF Parent
  <2> QED
    BY <1>6, <1>7, <2>1, <2>2, <2>4, <2>6, <2>7
<1>12. ASSUME NEW i \in Ino
       PROVE  Node(s, i)
  <2> DEFINE S == {j \in dirs \ {Root} : Linked(j) /\ dotdot[j] = i}
  <2>1. S = Under(s, i)
    <3>1. \A j \in Ino : j \in dirs <=> s.kind[j] = "dir"
      BY <1>8, <1>9
    <3>2. dirs \subseteq Ino
      BY <1>2
    <3>3. \A j : j \in S <=> j \in Under(s, i)
      BY <1>6, <1>7, <3>1, <3>2 DEF Under
    <3> QED
      BY <3>3
  <2>2. References(i, dirs) =
          IF ~Linked(i) THEN 0
          ELSE Cardinality(Entries(i)) + (IF i = Root THEN 1 ELSE 0)
                 + (IF i \in dirs THEN 1 + Cardinality(S) ELSE 0)
    BY DEF References
  <2> HIDE DEF S
  <2>3. i = Root => Cardinality(Entries(i)) = 0
    <3>1. i = Root => Entries(i) = {}
      BY <1>6, <1>5 DEF Entries, Typed, Tree
    <3> QED
      BY <3>1, FS_EmptySet
  <2>4. Cardinality(Entries(i)) \in Nat /\ Cardinality(S) \in Nat
    BY <2>1, EntriesFinite, UnderIn
  <2>5. /\ i \in s.used <=> Has(s.entry, i) \/ i \in s.up
        /\ ~Has(s.entry, i) => i \notin dirs /\ i \notin imap
    BY <1>2, <1>6, <1>7, <1>8
  <2>6. s.nlink[i] <= LinkMax
    <3>1. CASE i \in imap
      BY <1>1, <1>8, <3>1
    <3>2. CASE i \notin imap
      <4>1. s.nlink[i] = 0
        BY <1>2, <1>8, <1>9, <2>2, <3>2
      <4> QED
        BY <4>1, NameiAssumption
    <3> QED
      BY <3>1, <3>2
  <2>7. /\ ~Has(s.entry, i) => s.nlink[i] = 0 /\ Kids(s.entry, i) = {}
        /\ Has(s.entry, i) /\ s.kind[i] # "dir"
             => s.nlink[i] = Cardinality(Slots(s.entry, i)) /\ Kids(s.entry, i) = {}
    BY <1>1, <1>7, <1>8, <1>9, <1>10, <2>2, <2>4, <2>5
  <2>8. ASSUME Has(s.entry, i), s.kind[i] = "dir"
        PROVE  /\ s.nlink[i] = 2 + Cardinality(Under(s, i))
               /\ i # Root => \E n \in Name : Slots(s.entry, i) = {<<s.dotdot[i], n>>}
    <3>1. i \in dirs /\ Linked(i)
      BY <1>7, <1>8, <1>9, <2>8
    <3>2. i # Root => Cardinality(Entries(i)) = 1
      BY <1>1, <3>1
    <3>3. s.nlink[i] = 2 + Cardinality(S)
      BY <1>8, <1>9, <2>2, <2>3, <2>4, <3>1, <3>2
    <3> QED
      BY <1>11, <2>1, <3>1, <3>3
  <2> QED
    BY <2>5, <2>6, <2>7, <2>8 DEF Node
<1>13. \A j \in Ino \ {Root} : Home(s, hurt, j)
  BY <1>8, <1>9, <1>11 DEF Home
<1>14. Sound(s, hurt)
  BY <1>2, <1>12, <1>13 DEF Sound
<1> QED
  BY <1>4, <1>14 DEF TreeInv

(* Both hold until a tree is given up.                                     *)
Kept == hurt # Ino => MountInv /\ TreeInv

LEMMA KeptHolds == MountedSpec => []Kept
<1>1. MountedInit => (hurt # Ino => TreeInv)
  BY MountedFirst
<1>2. /\ MountTypeOK /\ Rooted /\ [MountedNext]_fsvars
      /\ (hurt # Ino => MountInv) /\ (hurt # Ino => MountInv)'
      /\ hurt # Ino => TreeInv
      => (hurt # Ino => TreeInv)'
  BY MountedSound, HurtGrows
<1>3. (hurt # Ino => MountInv) /\ (hurt # Ino => TreeInv) => Kept
  BY DEF Kept
<1> QED
  BY <1>1, <1>2, <1>3, PlainInvHolds, MountInvHolds, PTL DEF MountedSpec

(* Outside of a tree that is given up there is nothing to say.             *)
LEMMA Outside ==
  ASSUME MountTypeOK, Kept, NEW i \in Ino \ hurt
  PROVE  MountInv /\ DiskInv /\ TreeInv
BY DEF Kept, MountInv

(* The link count of an inode, in core or on disk, is the number of its    *)
(* entries and, of a directory, of "." and of the ".." of the directories  *)
(* in it, and no more than LinkMax, whichever calls fail at whichever      *)
(* step, and across crashes, unless the failure is one that hurt names.    *)
THEOREM LinkCountsHold == MountedSpec => []LinkCountsMatch
<1>1. MountTypeOK /\ Kept => LinkCountsMatch
  <2> SUFFICES ASSUME MountTypeOK, Kept, NEW i \in imap \ hurt
               PROVE  NLink(i) = References(i, {j \in Ino : Kind(j) = "dir"})
                      /\ NLink(i) <= LinkMax
    BY DEF LinkCountsMatch
  <2> DEFINE dirs == {j \in Ino : Kind(j) = "dir"}
  <2>1. DiskInv /\ TreeInv /\ i \in Ino \ hurt
    BY Outside DEF MountTypeOK, TypeOK
  <2>2. dirs \in SUBSET Ino /\ \A j \in Ino : Linked(j) => (j \in dirs <=> Kind(j) = "dir")
    OBVIOUS
  <2> HIDE DEF dirs
  <2>3. NLink(i) = References(i, dirs) /\ NLink(i) <= LinkMax
    BY <2>1, <2>2, Counted
  <2> QED
    BY <2>3 DEF dirs
<1> QED
  BY <1>1, PlainInvHolds, KeptHolds, PTL

(* A number is in use just as long as an entry, a user or the eviction     *)
(* needs it: no inode is lost, and none is freed under its last user.      *)
THEOREM InodesAccountedHolds == MountedSpec => []InodesAccounted
<1>1. MountTypeOK /\ Kept => InodesAccounted
  BY Outside, Known DEF InodesAccounted, DiskInv, InodeInv
<1> QED
  BY <1>1, PlainInvHolds, KeptHolds, PTL

(* The entry ".." of a directory that has an entry is that entry's         *)
(* directory, and a directory has one entry, whatever was renamed.         *)
THEOREM ParentIsDotDotHolds == MountedSpec => []ParentIsDotDot
<1>1. MountTypeOK /\ Kept => ParentIsDotDot
  <2> SUFFICES ASSUME MountTypeOK, Kept, NEW i \in imap \ (hurt \cup {Root}),
                      Kind(i) = "dir", Linked(i)
               PROVE  \E n \in Name : Entries(i) = {<<dotdot[i], n>>}
    BY DEF ParentIsDotDot
  <2> DEFINE dirs == {j \in Ino : Kind(j) = "dir"}
  <2>1. DiskInv /\ TreeInv /\ i \in Ino \ hurt /\ i # Root
    BY Outside DEF MountTypeOK, TypeOK
  <2>2. dirs \in SUBSET Ino /\ \A j \in Ino : Linked(j) => (j \in dirs <=> Kind(j) = "dir")
    OBVIOUS
  <2> HIDE DEF dirs
  <2> QED
    BY <2>1, <2>2, Counted
<1> QED
  BY <1>1, PlainInvHolds, KeptHolds, PTL

-----------------------------------------------------------------------------
(* A call that returns an error.                                           *)

(* Nothing has changed but what was made and taken back, in new.           *)
Undone(new) ==
  /\ CallShape(new) /\ entry' = entry
  /\ \A j \in Ino \ new : core'[j].nlink = core[j].nlink /\ dotdot'[j] = dotdot[j]

FailureKeeps ==
  \A i \in Ino \ hurt' : Linked(i) =>
    Linked(i)' /\ NLink(i)' = NLink(i) /\ entry'[i] = entry[i] /\ dotdot'[i] = dotdot[i]

LEMMA UndoneKeeps ==
  ASSUME DiskInv, TreeInv, NEW new, Undone(new)
  PROVE  FailureKeeps
<1> SUFFICES ASSUME NEW i \in Ino \ hurt', Linked(i)
             PROVE  /\ Linked(i)' /\ NLink(i)' = NLink(i)
                    /\ entry'[i] = entry[i] /\ dotdot'[i] = dotdot[i]
  BY DEF FailureKeeps
<1>1. i \in Ino \ hurt /\ i \in imap /\ i \notin new
  BY Known DEF Undone, CallShape
<1>2. core'[i].phase = core[i].phase /\ raw' = raw /\ core'[i].nlink = core[i].nlink
  BY <1>1 DEF Undone, CallShape, Grown, Successor
<1>3. NLink(i)' = NLink(i)
  BY <1>2 DEF NLink
<1>4. Linked(i)'
  BY DEF Linked, Entries, Undone
<1> QED
  BY <1>1, <1>3, <1>4 DEF Undone

LEMMA FailsUndone ==
  ASSUME DiskInv, Fails
  PROVE  Undone({})
BY FailsShape DEF Undone, Fails, tree

LEMMA MknodUndone ==
  ASSUME DiskInv, NEW d \in Ino, NEW n \in Name, Mknod(d, n) \/ Symlink(d, n), failed'
  PROVE  \E new : Undone(new)
<1>1. CASE Fails
  BY <1>1, FailsUndone
<1>2. CASE ~Fails
  <2> DEFINE i == FirstZero
             c == NewInode(core, i, "file")
  <2>1. Vacant(d, n) /\ Unused # {} /\ imap' = imap \cup {i}
    BY <1>2 DEF Mknod, Symlink
  <2>2. \/ AddNondir(c, d, n, i)
        \/ core' = DecLink(c, i) /\ failed' = TRUE /\ UNCHANGED <<raw, tree, hurt>>
    BY <1>2 DEF Mknod, Symlink
  <2>3. i \in Ino \ imap /\ core \in [Ino -> Inode]
    BY <2>1, FirstZeroUnused, Starts
  <2>4. PICK new : CallShape(new)
    BY MknodShape
  <2>5. new = {i}
    <3>1. new \subseteq Ino \ imap /\ imap' = imap \cup new
      BY <2>4 DEF CallShape
    <3> HIDE DEF i
    <3> QED
      BY <2>1, <2>3, <3>1
  <2> HIDE DEF i
  <2>6. c \in [Ino -> Inode] /\ \A j \in Ino \ {i} : c[j] = core[j]
    BY <2>3, MadeIs
  <2> HIDE DEF c
  <2>7. core' = DecLink(c, i) /\ entry' = entry /\ dotdot' = dotdot
    <3>1. CASE AddNondir(c, d, n, i)
      <4>1. entry' = Store(entry, d, n, i, "prepare") /\ core' = DecLink(c, i) /\ dotdot' = dotdot
        BY <3>1 DEF AddNondir
      <4> QED
        BY <4>1, StorePuts DEF DiskInv
    <3> QED
      BY <2>2, <3>1 DEF tree
  <2>8. Lowers(c, DecLink(c, i), i)
    BY <2>3, <2>6, Counting
  <2>9. Undone(new)
    BY <2>4, <2>5, <2>6, <2>7, <2>8 DEF Undone, Lowers
  <2> QED
    BY <2>9
<1> QED
  BY <1>1, <1>2

LEMMA LinkUndone ==
  ASSUME DiskInv, NEW d \in Ino, NEW n \in Name, NEW i \in Ino, Link(i, d, n), failed'
  PROVE  \E new : Undone(new)
<1>1. CASE Fails
  BY <1>1, FailsUndone
<1>2. CASE ~Fails
  <2> DEFINE c == IncLink(core, i)
  <2>1. core[i].nlink < LinkMax /\ AddNondir(c, d, n, i)
    BY <1>2 DEF Link
  <2>2. CallShape({}) /\ core \in [Ino -> Inode]
    BY LinkShape, Starts
  <2>3. c \in [Ino -> Inode] /\ Raises(core, c, i)
    BY <2>2, Counting
  <2> HIDE DEF c
  <2>4. entry' = Store(entry, d, n, i, "prepare") /\ core' = DecLink(c, i) /\ dotdot' = dotdot
    BY <2>1 DEF AddNondir
  <2>5. Lowers(c, DecLink(c, i), i)
    BY <2>3, Counting
  <2>6. core[i].nlink \in Nat
    BY <2>2, NameiAssumption DEF Inode, Count
  <2>7. entry' = entry
    BY <2>4, StorePuts DEF DiskInv
  <2>8. \A j \in Ino : core'[j].nlink = core[j].nlink
    BY <2>1, <2>3, <2>4, <2>5, <2>6 DEF Raises, Lowers
  <2>9. Undone({})
    BY <2>2, <2>4, <2>7, <2>8 DEF Undone
  <2> QED
    BY <2>9
<1> QED
  BY <1>1, <1>2

LEMMA MkdirUndone ==
  ASSUME DiskInv, NEW d \in Ino, NEW n \in Name, Mkdir(d, n), failed'
  PROVE  \E new : Undone(new)
<1>1. /\ core[d].phase = "in" /\ d \in imap /\ core \in [Ino -> Inode] /\ imap \subseteq Ino
      /\ dotdot \in [Ino -> Ino \cup {NoIno}]
  BY Looked, Starts DEF Mkdir, Vacant, DiskInv, TypeOK
<1>2. PICK new : CallShape(new)
  BY MkdirShape
<1>3. new \subseteq Ino \ imap /\ imap' = imap \cup new
  BY <1>2 DEF CallShape
<1>4. CASE Fails
  BY <1>4, FailsUndone
<1>5. CASE core[d].nlink < LinkMax /\ core' = DecLink(IncLink(core, d), d)
           /\ UNCHANGED <<disk, tree, hurt>>
  <2>1. Raises(core, IncLink(core, d), d) /\ IncLink(core, d) \in [Ino -> Inode]
    BY <1>1, Counting
  <2>2. Lowers(IncLink(core, d), DecLink(IncLink(core, d), d), d)
    BY <2>1, Counting
  <2>3. core[d].nlink \in Nat
    BY <1>1, NameiAssumption DEF Inode, Count
  <2>4. \A j \in Ino : core'[j].nlink = core[j].nlink
    BY <1>5, <2>1, <2>2, <2>3 DEF Raises, Lowers
  <2> QED
    BY <1>2, <1>5, <2>4 DEF Undone, tree
<1>6. CASE ~Fails /\ ~(core[d].nlink < LinkMax /\ core' = DecLink(IncLink(core, d), d)
                       /\ UNCHANGED <<disk, tree, hurt>>)
  <2> DEFINE i == FirstZero
  <2>1. Unused # {} /\ imap' = imap \cup {i} /\ core[d].nlink < LinkMax
    BY <1>6 DEF Mkdir
  <2>2. \/ core' = UndoneDir(d, i) /\ UNCHANGED tree
        \/ /\ dotdot' = [dotdot EXCEPT ![i] = d]
           /\ entry' = Store(entry, d, n, i, "prepare")
           /\ core' = UndoneDir(d, i)
    BY <1>6 DEF Mkdir
  <2>3. i \in Ino \ imap
    BY <2>1, FirstZeroUnused
  <2> HIDE DEF i
  <2>4. new = {i} /\ i # d
    BY <1>1, <1>3, <2>1, <2>3
  <2>5. \A j \in Ino \ {i} : UndoneDir(d, i)[j].nlink = core[j].nlink
    BY <1>1, <2>1, <2>3, <2>4, MadeDirCounts
  <2>6. entry' = entry /\ core' = UndoneDir(d, i)
    BY <2>2, StorePuts DEF tree, DiskInv
  <2>7. \A j \in Ino \ {i} : dotdot'[j] = dotdot[j]
    BY <1>1, <2>2 DEF tree
  <2>8. Undone(new)
    BY <1>2, <2>4, <2>5, <2>6, <2>7 DEF Undone
  <2> QED
    BY <2>8
<1> QED
  BY <1>4, <1>5, <1>6

LEMMA RemoveUndone ==
  ASSUME DiskInv, NEW d \in Ino, NEW n \in Name, Unlink(d, n) \/ Rmdir(d, n), failed'
  PROVE  \E new : Undone(new)
<1>1. CASE Fails
  BY <1>1, FailsUndone
<1>2. CASE ~Fails
  <2>1. /\ entry' = Store(entry, d, n, NoIno, "prepare") /\ core' = MarkDirty(core, d)
        /\ dotdot' = dotdot
    BY <1>2 DEF Unlink, Rmdir
  <2>2. CallShape({}) /\ Keeps(core, MarkDirty(core, d))
    BY UnlinkShape, RmdirShape, Starts, Counting
  <2>3. entry' = entry
    BY <2>1, StorePuts DEF DiskInv
  <2>4. Undone({})
    BY <2>1, <2>2, <2>3 DEF Undone, Keeps
  <2> QED
    BY <2>4
<1> QED
  BY <1>1, <1>2

LEMMA RenameUndone ==
  ASSUME DiskInv, NEW d \in Ino, NEW n \in Name, NEW d2 \in Ino, NEW n2 \in Name,
         Rename(d, n, d2, n2), failed'
  PROVE  \E new : Undone(new)
<1>1. Fails
  BY DEF Rename, RenameOnto, RenameTo, MoveEntry
<1> QED
  BY <1>1, FailsUndone

(* A call that returns an error has changed no entry and no link count of  *)
(* anything that is linked, unless the error came after the entry was      *)
(* written, of which hurt tells.                                           *)
THEOREM FailureChangesNothingHolds == MountedSpec => FailureChangesNothing
<1>1. ASSUME MountTypeOK, Rooted, Kept, [MountedNext]_fsvars
      PROVE  [failed' => FailureKeeps]_vars
  <2> SUFFICES ASSUME failed', ~UNCHANGED vars, hurt' # Ino
               PROVE  FailureKeeps
    <3>1. hurt' = Ino => FailureKeeps
      BY DEF FailureKeeps
    <3> QED
      BY <3>1
  <2>1. DiskInv /\ TreeInv
    BY <1>1, HurtGrows DEF Kept, MountInv
  <2>2. Call
    BY <1>1 DEF MountedNext, Serve, Next, Between, Hold, Lookup, Release, WriteInode,
                Reclaim, Evict, ClearInode, ClearBit, Free, WriteSuper, FillSuper, PutSuper,
                RemountReadOnly, RemountWritable, Crash, fsvars
  <2>3. PICK d \in Ino, n \in Name :
         \/ Mknod(d, n) \/ Symlink(d, n) \/ Mkdir(d, n) \/ Unlink(d, n) \/ Rmdir(d, n)
         \/ \E i \in Ino : Link(i, d, n)
         \/ \E d2 \in Ino, n2 \in Name : Rename(d, n, d2, n2)
    BY <2>2 DEF Call
  <2>4. PICK new : Undone(new)
    BY <2>1, <2>3, MknodUndone, LinkUndone, MkdirUndone, RemoveUndone, RenameUndone
  <2> QED
    BY <2>1, <2>4, UndoneKeeps
<1>2. MountedSpec => [][failed' => FailureKeeps]_vars
  BY <1>1, PlainInvHolds, KeptHolds, PTL DEF MountedSpec
<1> QED
  BY <1>2 DEF FailureChangesNothing, FailureKeeps

-----------------------------------------------------------------------------
(* The bit MINIX_VALID_FS                                                  *)

(* Nothing is in core that the disk does not have, or is to be freed.      *)
Quiet ==
  \A i \in Ino : /\ core[i].phase \in {"in", "out"} /\ ~core[i].dirty
                 /\ core[i].phase = "in" => core[i].nlink # 0

(* Until a crash the bit is set just while the file system is not written  *)
(* to, and then, unless a call has spoilt it, the disk is as it should be. *)
(* After a crash that has left it otherwise the bit is clear for good.     *)
FlagInv ==
  /\ crash = "none" => s_mount_state /\ (s_state <=> ~mounted \/ readonly)
  /\ crash = "none" /\ (~mounted \/ readonly) /\ hurt = {} => Quiet
  /\ crash = "sound" => DiskSound
  /\ crash = "lost" => ~s_state /\ ~s_ondisk /\ (mounted => ~s_mount_state)

LEMMA QuietDisk ==
  ASSUME MountInv, TreeInv, Quiet, hurt = {}
  PROVE  DiskSound
<1> DEFINE dirs == {j \in Ino : raw[j].kind = "dir"}
<1>1. \A j \in Ino : /\ \/ core[j].phase = "out"
                        \/ raw[j] = [kind |-> core[j].kind, nlink |-> core[j].nlink]
                     /\ raw[j].kind = Kind(j) /\ raw[j].nlink = NLink(j)
  BY DEF MountInv, DiskInv, InodeInv, Quiet, Kind, NLink
<1>2. \A j \in Ino : j \in imap <=> Linked(j)
  BY Known DEF MountInv, Quiet, NLink
<1>3. imap = {j \in Ino : Linked(j)}
  BY <1>2 DEF MountInv, DiskInv, TypeOK
<1>4. dirs \in SUBSET Ino /\ \A j \in Ino : Linked(j) => (j \in dirs <=> Kind(j) = "dir")
  BY <1>1
<1> HIDE DEF dirs
<1>5. \A j \in imap : raw[j].nlink = References(j, dirs)
  BY <1>1, <1>3, <1>4, Counted DEF MountInv
<1> QED
  BY <1>3, <1>5 DEF DiskSound, dirs

(* What a read-only mount does not end.                                    *)
LEMMA BetweenQuiet ==
  ASSUME DiskInv, TreeInv, Quiet, hurt = {}, Between
  PROVE  Quiet'
<1>1. ASSUME NEW i \in Ino, NEW r \in Inode, core' = [core EXCEPT ![i] = r],
             r.phase \in {"in", "out"}, ~r.dirty, r.phase = "in" => r.nlink # 0
      PROVE  Quiet'
  <2>1. core'[i] = r /\ \A j \in Ino \ {i} : core'[j] = core[j]
    BY <1>1, Starts
  <2> QED
    BY <1>1, <2>1 DEF Quiet
<1>2. ASSUME NEW d \in Ino, NEW n \in Name, Hold(d, n)
      PROVE  Quiet'
  <2>1. PICK i \in Ino : i = entry[d][n]
    BY <1>2, Looked DEF Hold
  <2>2. PICK r : r = [core[i] EXCEPT !.held = TRUE]
    OBVIOUS
  <2>3. /\ r \in Inode /\ r.phase = core[i].phase /\ r.dirty = core[i].dirty
        /\ r.nlink = core[i].nlink
    BY <2>2, Rests DEF Inode
  <2>4. core' = [core EXCEPT ![i] = r]
    BY <1>2, <2>1, <2>2 DEF Hold
  <2> QED
    BY <1>1, <2>3, <2>4 DEF Quiet
<1>3. ASSUME NEW i \in Ino, Release(i)
      PROVE  Quiet'
  <2>1. PICK r : r = [core[i] EXCEPT !.held = FALSE]
    OBVIOUS
  <2>2. /\ r \in Inode /\ r.phase = core[i].phase /\ r.dirty = core[i].dirty
        /\ r.nlink = core[i].nlink
    BY <2>1, Rests DEF Inode
  <2>3. core' = [core EXCEPT ![i] = r]
    BY <1>3, <2>1 DEF Release
  <2> QED
    BY <1>1, <2>2, <2>3 DEF Quiet
<1>4. ASSUME NEW i \in Ino, Reclaim(i)
      PROVE  Quiet'
  BY <1>1, <1>4, OutTyped DEF Reclaim
<1>5. ASSUME NEW d \in Ino, NEW n \in Name, Lookup(d, n)
      PROVE  Quiet'
  <2>1. PICK i \in Ino : i = entry[d][n] /\ core[i].phase = "out"
    BY <1>5, Looked, Rests DEF Lookup
  <2>2. PICK r : r = [Out EXCEPT !.phase = "in", !.kind = raw[i].kind, !.nlink = raw[i].nlink]
    OBVIOUS
  <2>3. r \in Inode /\ r.phase = "in" /\ ~r.dirty /\ r.nlink = NLink(i)
    <3>1. r \in Inode /\ r.phase = "in" /\ ~r.dirty /\ r.nlink = raw[i].nlink
      <4>1. i \in Ino /\ DiskInv
        BY <2>1
      <4> QED
        BY <4>1, <2>2, ReadTyped, Zenon
    <3> QED
      BY <2>1, <3>1 DEF NLink
  <2>4. core' = [core EXCEPT ![i] = r]
    BY <1>5, <2>1, <2>2 DEF Lookup
  <2>5. Linked(i)
    BY <2>1, HasSlot, Tied
  <2>6. r.nlink # 0
    BY <2>3, <2>5, Known
  <2> QED
    BY <1>1, <2>3, <2>4, <2>6
<1>6. ASSUME NEW i \in Ino
      PROVE  ~WriteInode(i) /\ ~Evict(i) /\ ~ClearInode(i) /\ ~ClearBit(i)
  BY DEF Quiet, WriteInode, Evict, Idle, ClearInode, ClearBit
<1> QED
  BY <1>2, <1>3, <1>4, <1>5, <1>6 DEF Between

LEMMA FillQuiet ==
  ASSUME MountInv, TreeInv, hurt = {}, NEW ro \in BOOLEAN, FillSuper(ro)
  PROVE  Quiet'
<1>1. PICK r : r = [Out EXCEPT !.phase = "in", !.kind = raw[Root].kind, !.nlink = raw[Root].nlink]
  OBVIOUS
<1>2. /\ Root \in Ino /\ DiskInv /\ core' = [core EXCEPT ![Root] = r]
      /\ \A i \in Ino : core[i] = Out
  BY <1>1, NameiAssumption DEF FillSuper, MountInv, Root, Ino
<1>3. r \in Inode /\ r.phase = "in" /\ ~r.dirty /\ r.nlink = NLink(Root)
  BY <1>1, <1>2, ReadTyped, OutTyped DEF NLink
<1>4. r.nlink # 0
  BY <1>2, <1>3, Known DEF Linked
<1>5. core'[Root] = r /\ \A j \in Ino \ {Root} : core'[j] = Out
  BY <1>2, Starts
<1> QED
  BY <1>3, <1>4, <1>5, OutTyped DEF Quiet

LEMMA DiskStays ==
  ASSUME UNCHANGED <<disk, tree>>
  PROVE  DiskSound' <=> DiskSound
<1>1. imap' = imap /\ raw' = raw /\ entry' = entry /\ dotdot' = dotdot
  BY DEF disk, tree
<1>2. \A i \in Ino : Linked(i)' <=> Linked(i)
  BY <1>1 DEF Linked, Entries
<1>3. ASSUME NEW i \in Ino, NEW D
      PROVE  References(i, D)' = References(i, D)
  BY <1>1, Zenon DEF References, Linked, Entries
<1>4. PICK D : D = {j \in Ino : raw[j].kind = "dir"}
  OBVIOUS
<1>5. D = {j \in Ino : raw'[j].kind = "dir"}
  BY <1>1, <1>4
<1>6. DiskSound <=> /\ imap = {i \in Ino : Linked(i)}
                    /\ \A i \in imap : raw[i].nlink = References(i, D)
  BY <1>4 DEF DiskSound
<1>7. DiskSound' <=> /\ imap' = {i \in Ino : Linked(i)'}
                     /\ \A i \in imap' : raw'[i].nlink = References(i, D)'
  BY <1>5 DEF DiskSound
<1>8. {i \in Ino : Linked(i)'} = {i \in Ino : Linked(i)}
  BY <1>2
<1> QED
  BY <1>1, <1>3, <1>6, <1>7, <1>8

(* Nothing that is spoilt is ever mended between the calls.                *)
LEMMA ServeFlag ==
  ASSUME MountTypeOK, Rooted, hurt = {} => MountInv /\ TreeInv, FlagInv, Serve
  PROVE  FlagInv'
<1>1. /\ mounted /\ crash = "none" /\ crash' = crash /\ mounted' = mounted
      /\ readonly' = readonly /\ s_state' = s_state /\ s_ondisk' = s_ondisk
      /\ s_mount_state' = s_mount_state
  BY DEF Serve, super
<1>2. hurt \subseteq hurt'
  BY MountedPlain DEF MountedNext, Serve, Next
<1>3. readonly /\ hurt' = {} => Quiet'
  <2> SUFFICES ASSUME readonly, hurt' = {} PROVE Quiet'
    OBVIOUS
  <2>1. Between
    BY DEF Serve
  <2>2. hurt = {}
    BY <1>2
  <2> QED
    BY <1>1, <2>1, <2>2, BetweenQuiet DEF FlagInv, MountInv
<1> QED
  BY <1>1, <1>3 DEF FlagInv

LEMMA CrashFlag ==
  ASSUME MountTypeOK, hurt = {} => MountInv /\ TreeInv, FlagInv, Crash
  PROVE  FlagInv'
<1>1. /\ mounted' = FALSE /\ s_state' = s_ondisk /\ s_ondisk' = s_ondisk
      /\ crash' = (IF crash \in {"spoilt", "early", "lost"} THEN crash
                   ELSE IF DiskSound THEN "sound"
                   ELSE IF hurt # {} THEN "spoilt"
                   ELSE IF mounted /\ ~readonly /\ s_ondisk # s_state THEN "early" ELSE "lost")
      /\ UNCHANGED <<disk, tree>>
  BY DEF Crash
<1>2. DiskSound' <=> DiskSound
  BY <1>1, DiskStays
<1>3. crash \in {"none", "sound", "spoilt", "early", "lost"}
      /\ s_ondisk \in BOOLEAN /\ s_state \in BOOLEAN
  BY DEF MountTypeOK
<1>4. crash' # "none"
  BY <1>1, <1>3
<1>5. crash' = "sound" => DiskSound'
  BY <1>1, <1>2, <1>3 DEF FlagInv
<1>6. ASSUME crash' = "lost"
      PROVE  ~s_ondisk
  <2>1. CASE crash = "lost"
    BY <2>1 DEF FlagInv
  <2>2. CASE crash # "lost"
    <3>1. ~DiskSound /\ hurt = {} /\ ~(mounted /\ ~readonly /\ s_ondisk # s_state)
      BY <1>1, <1>3, <1>6, <2>2
    <3>2. crash = "none"
      BY <1>1, <1>3, <1>6, <2>2, <3>1 DEF FlagInv
    <3>3. mounted /\ ~readonly
      BY <3>1, <3>2, QuietDisk DEF FlagInv
    <3> QED
      BY <1>3, <3>1, <3>2, <3>3 DEF FlagInv
  <2> QED
    BY <2>1, <2>2
<1> QED
  BY <1>1, <1>4, <1>5, <1>6 DEF FlagInv

LEMMA SuperFlag ==
  ASSUME MountTypeOK, hurt = {} => MountInv /\ TreeInv, FlagInv,
         \/ WriteSuper \/ RemountReadOnly \/ RemountWritable \/ UNCHANGED fsvars
         \/ PutSuper \/ \E ro \in BOOLEAN : FillSuper(ro)
  PROVE  FlagInv'
<1>1. UNCHANGED <<disk, tree>> /\ crash' = crash /\ hurt' = hurt
  BY DEF WriteSuper, RemountReadOnly, RemountWritable, PutSuper, FillSuper, fsvars, vars, Free
<1>2. DiskSound' <=> DiskSound
  BY <1>1, DiskStays
<1>3. s_ondisk \in BOOLEAN /\ s_state \in BOOLEAN /\ s_mount_state \in BOOLEAN
      /\ mounted \in BOOLEAN /\ readonly \in BOOLEAN
  BY DEF MountTypeOK
<1>4. core' = core => (Quiet' <=> Quiet)
  BY DEF Quiet
<1>5. CASE WriteSuper \/ UNCHANGED fsvars
  <2>1. /\ core' = core /\ mounted' = mounted /\ readonly' = readonly /\ s_state' = s_state
        /\ s_mount_state' = s_mount_state /\ s_ondisk' \in {s_ondisk, s_state}
    BY <1>5 DEF WriteSuper, fsvars, vars, super
  <2> QED
    BY <1>1, <1>2, <1>4, <2>1 DEF FlagInv
<1>6. CASE RemountReadOnly
  <2>1. /\ core' = core /\ mounted /\ mounted' = mounted /\ readonly' = TRUE /\ Synced
        /\ s_state' = (IF s_state \/ ~s_mount_state THEN s_state ELSE s_mount_state)
        /\ s_mount_state' = s_mount_state /\ s_ondisk' = s_ondisk
    BY <1>6 DEF RemountReadOnly
  <2>2. Quiet'
    BY <1>4, <2>1 DEF Synced, Quiet
  <2> QED
    BY <1>1, <1>2, <1>3, <2>1, <2>2 DEF FlagInv
<1>7. CASE RemountWritable
  <2>1. /\ core' = core /\ mounted /\ readonly /\ mounted' = mounted /\ readonly' = FALSE
        /\ s_state' = FALSE /\ s_mount_state' = s_state /\ s_ondisk' = s_ondisk
    BY <1>7 DEF RemountWritable
  <2> QED
    BY <1>1, <1>2, <1>3, <2>1 DEF FlagInv
<1>8. CASE PutSuper
  <2>1. /\ mounted /\ mounted' = FALSE /\ \A i \in Ino : core'[i] = Out
        /\ s_state' = (IF readonly THEN s_state ELSE s_mount_state) /\ readonly' = readonly
        /\ s_mount_state' = s_mount_state /\ s_ondisk' = s_ondisk
    BY <1>8 DEF PutSuper
  <2>2. Quiet'
    BY <2>1, OutTyped DEF Quiet
  <2> QED
    BY <1>1, <1>2, <1>3, <2>1, <2>2 DEF FlagInv
<1>9. ASSUME NEW ro \in BOOLEAN, FillSuper(ro)
      PROVE  FlagInv'
  <2>1. /\ ~mounted /\ mounted' = TRUE /\ readonly' = ro
        /\ s_state' = (s_state /\ ro) /\ s_mount_state' = s_state /\ s_ondisk' = s_ondisk
    BY <1>9 DEF FillSuper
  <2>2. hurt = {} => Quiet'
    BY <1>9, FillQuiet
  <2> QED
    BY <1>1, <1>2, <1>3, <2>1, <2>2 DEF FlagInv
<1> QED
  BY <1>5, <1>6, <1>7, <1>8, <1>9

(* inode.c: "running fsck is recommended" is said just when it should be.  *)
(* What is unmounted and marked valid has inodes, a bitmap and counts that *)
(* agree with the directories, unless a call had spoilt them or the crash  *)
(* came before the cleared bit was on the disk; and without a crash every  *)
(* unmount leaves the mark.                                                *)
THEOREM ValidFlagHolds == MountedSpec => []ValidFlag
<1>1. MountedInit => FlagInv
  BY DEF MountedInit, Init, FlagInv
<1>2. Kept => (hurt = {} => MountInv /\ TreeInv)
  BY NameiAssumption DEF Kept, Ino
<1>3. MountTypeOK /\ Rooted /\ Kept /\ FlagInv /\ [MountedNext]_fsvars => FlagInv'
  BY <1>2, ServeFlag, CrashFlag, SuperFlag DEF MountedNext
<1>4. MountTypeOK /\ Kept /\ FlagInv => ValidFlag
  BY <1>2, QuietDisk DEF MountTypeOK, FlagInv, ValidFlag
<1> QED
  BY <1>1, <1>3, <1>4, PlainInvHolds, KeptHolds, PTL DEF MountedSpec

=============================================================================
