------------------------------- MODULE Namei -------------------------------
(***************************************************************************)
(* hw5_b: the names of the Minix file system (namei.c, dir.c) and its      *)
(* inodes (bitmap.c, inode.c): link counts against directory entries, and  *)
(* the inode in core against the one on disk.                              *)
(*                                                                         *)
(* A call of namei.c is one step: the VFS holds i_mutex of the directories *)
(* and of the inode that loses a link throughout.  Between the calls       *)
(* inodes are written back, leave the inode cache, are read again, and,    *)
(* when they have lost their last link and last user, are freed, bit after *)
(* bit.  The buffers of inodes and bitmaps are taken for the disk.         *)
(*                                                                         *)
(* A chunk of a directory is written in two steps that may both fail:      *)
(* minix_prepare_chunk(), before anything has changed, and, of a mount     *)
(* with dirsync, dir_commit_chunk(), after the entry has changed.  The     *)
(* calls undo what they did only as if the first had failed, and rename    *)
(* looks at neither.  What is spoilt then is remembered in hurt.           *)
(* The blocks of inodes and of the bitmaps are taken to be readable.       *)
(***************************************************************************)
EXTENDS Integers, FiniteSets

CONSTANTS
  NInodes,                (* s_ninodes                                     *)
  Name,                   (* the names that a directory may hold           *)
  LinkMax,                (* s_link_max: 65530                             *)
  LinkSpace,              (* the values of i_nlinks: 65536                 *)
  MaxHeld,                (* bound of the inodes users hold at a time      *)
  MaxCalls,               (* bound of the calls                            *)
  MaxHurt                 (* bound of what is spoilt when a call begins    *)

ASSUME NameiAssumption ==
  /\ NInodes \in Nat \ {0} /\ MaxHeld \in Nat /\ MaxCalls \in Nat /\ MaxHurt \in Nat
  /\ LinkMax \in Nat \ {0, 1} /\ LinkSpace \in Nat /\ LinkMax < LinkSpace
  /\ IsFiniteSet(Name)

Ino  == 1 .. NInodes
Root == 1                 (* MINIX_ROOT_INO                                *)
NoIno == 0

VARIABLES
  imap,                   (* the inode bitmap: the numbers in use          *)
  raw,                    (* inodes on disk: [kind, nlink]                 *)
  core,                   (* inodes in core:                               *)
                          (*   [phase, kind, nlink, dirty, dead, held];    *)
                          (*   dead: no name is made in it any more        *)
  entry,                  (* directories: entry[d][n] is an inode number   *)
  dotdot,                 (* their entry ".."                              *)
  calls,                  (* the calls so far, for the bound MaxCalls      *)
  hurt,                   (* history: inodes whose counts were spoilt      *)
  failed                  (* the step was a call that returned an error,   *)
                          (* and not one of a commit                       *)

disk == <<imap, raw>>
tree == <<entry, dotdot>>
vars == <<disk, core, tree, hurt, calls, failed>>

Out == [phase |-> "out", kind |-> "none", nlink |-> 0, dirty |-> FALSE,
        dead |-> FALSE, held |-> FALSE]
EmptyDir == [n \in Name |-> NoIno]

-----------------------------------------------------------------------------
(* The tree                                                                *)

Entries(i) == {x \in Ino \X Name : entry[x[1]][x[2]] = i}
Linked(i) == i = Root \/ Entries(i) # {}

Children(d) == {entry[d][n] : n \in Name} \ {NoIno}
Below(d) ==
  LET B[k \in 0 .. NInodes] ==
        IF k = 0 THEN {d}
        ELSE LET above == B[k - 1] IN above \cup UNION {Children(e) : e \in above}
  IN  B[NInodes]

(* The link count an inode should have: its entries and, of a directory,   *)
(* "." and ".." of each directory in it.                                   *)
References(i, dirs) ==
  IF ~Linked(i) THEN 0
  ELSE Cardinality(Entries(i))
         + (IF i = Root THEN 1 ELSE 0)
         + (IF i \in dirs
            THEN 1 + Cardinality({j \in dirs \ {Root} : Linked(j) /\ dotdot[j] = i})
            ELSE 0)

(* A file system without faults has just been mounted, and all of it is in *)
(* core.  What has an entry is below the root; its inodes have the lowest  *)
(* numbers, the directories first.                                         *)
Parent(j) == CHOOSE d \in Ino : \E n \in Name : entry[d][n] = j
Init ==
  /\ entry \in [Ino -> [Name -> (Ino \cup {NoIno}) \ {Root}]]
  /\ imap = {i \in Ino : Linked(i)} /\ imap = Below(Root)
  /\ \A d \in Ino : d \notin Children(d)
  /\ imap = 1 .. Cardinality(imap)
  /\ \E dirs \in SUBSET imap :
       /\ Root \in dirs /\ dirs = 1 .. Cardinality(dirs)
       /\ \A d \in Ino \ dirs : entry[d] = EmptyDir
       /\ \A d \in dirs \ {Root} : Cardinality(Entries(d)) = 1
       /\ dotdot = [d \in Ino |-> IF d = Root THEN Root
                                 ELSE IF d \in dirs THEN Parent(d) ELSE NoIno]
       /\ raw = [i \in Ino |->
                   [kind |-> IF i \in dirs THEN "dir" ELSE IF i \in imap THEN "file" ELSE "none",
                    nlink |-> References(i, dirs)]]
       /\ \A i \in imap : raw[i].nlink <= LinkMax
  /\ core = [i \in Ino |-> IF i \in imap
                           THEN [Out EXCEPT !.phase = "in", !.kind = raw[i].kind,
                                            !.nlink = raw[i].nlink]
                           ELSE Out]
  /\ hurt = {}
  /\ calls = 0
  /\ failed = FALSE

-----------------------------------------------------------------------------
(* Inodes in core.  A new in-core state is built from c, the old one.      *)

MarkDirty(c, i) == [c EXCEPT ![i].dirty = TRUE]

(* inode_inc_link_count(), inode_dec_link_count()                          *)
IncLink(c, i) == [c EXCEPT ![i].nlink = (@ + 1) % LinkSpace, ![i].dirty = TRUE]
(* drop_nlink() alone does not mark the inode.                             *)
DropLink(c, i) == [c EXCEPT ![i].nlink = (@ - 1) % LinkSpace]
DecLink(c, i) == [c EXCEPT ![i].nlink = (@ - 1) % LinkSpace, ![i].dirty = TRUE]

(* minix_new_inode(): the first zero bit                                   *)
Unused == Ino \ imap
FirstZero == CHOOSE i \in Unused : \A j \in Unused : i <= j
NewInode(c, i, kind) ==
  [c EXCEPT ![i] = [Out EXCEPT !.phase = "in", !.kind = kind, !.nlink = 1, !.dirty = TRUE]]

(* Of the VFS: where a name may be looked up, and be made.                 *)
Ready(d) == core[d].phase = "in" /\ core[d].kind = "dir" /\ ~core[d].dead
Found(d, n) == Ready(d) /\ entry[d][n] # NoIno /\ core[entry[d][n]].phase = "in"
Vacant(d, n) == Ready(d) /\ entry[d][n] = NoIno

-----------------------------------------------------------------------------
(* Directories                                                             *)

Outcome == {"done", "prepare", "commit"}
Store(e, d, n, i, how) == IF how = "prepare" THEN e ELSE [e EXCEPT ![d][n] = i]

(* minix_empty_dir() passes over a page that it cannot read, so that any   *)
(* directory may be taken for empty.  What is spoilt if it was not.        *)
Emptied(d) == IF Children(d) = {} THEN {} ELSE {d} \cup Children(d)

(* The call has involved S, and spoilt new; what is involved with what is  *)
(* spoilt, and the directories that its ".." name, is given up too.        *)
Spoil(S, new) ==
  hurt' = hurt \cup new
           \cup (IF S \cap hurt # {} THEN (S \cup {dotdot[i] : i \in S}) \ {NoIno} ELSE {})

Fails == failed' = TRUE /\ UNCHANGED <<disk, core, tree, hurt>>

(* Variant: a failure leaves the link count as it is.                      *)
AddNondirKeepsLink(c, d, n, i) ==
  \E how \in Outcome :
    /\ entry' = Store(entry, d, n, i, how)
    /\ core' = MarkDirty(c, d)
    /\ failed' = (how = "prepare")
    /\ Spoil({d, i}, IF how = "commit" THEN {i} ELSE {})
    /\ UNCHANGED <<raw, dotdot>>

(* add_nondir(), with the in-core inodes c                                 *)
AddNondir(c, d, n, i) ==
  \E how \in Outcome :
    /\ entry' = Store(entry, d, n, i, how)
    /\ \/ how = "done"    /\ core' = MarkDirty(c, d)
       \/ how = "prepare" /\ core' = DecLink(c, i)
       \/ how = "commit"  /\ core' = DecLink(MarkDirty(c, d), i)
    /\ failed' = (how = "prepare")
    /\ Spoil({d, i}, IF how = "commit" THEN {i} ELSE {})
    /\ UNCHANGED <<raw, dotdot>>

(* minix_mknod(), minix_create()                                           *)
Mknod(d, n) ==
  /\ Vacant(d, n)
  /\ \/ Fails
     \/ /\ Unused # {}
        /\ imap' = imap \cup {FirstZero}
        /\ AddNondir(NewInode(core, FirstZero, "file"), d, n, FirstZero)

(* page_symlink() may fail before the link is added.                       *)
Symlink(d, n) ==
  /\ Vacant(d, n)
  /\ \/ Fails
     \/ /\ Unused # {}
        /\ imap' = imap \cup {FirstZero}
        /\ \/ AddNondir(NewInode(core, FirstZero, "file"), d, n, FirstZero)
           \/ /\ core' = DecLink(NewInode(core, FirstZero, "file"), FirstZero)
              /\ failed' = TRUE
              /\ UNCHANGED <<raw, tree, hurt>>

(* The VFS links no directory, and nothing whose count is 0.               *)
Link(i, d, n) ==
  /\ Vacant(d, n)
  /\ core[i].phase = "in" /\ core[i].kind # "dir" /\ core[i].nlink # 0
  /\ \/ Fails
     \/ core[i].nlink < LinkMax /\ AddNondir(IncLink(core, i), d, n, i) /\ UNCHANGED imap

(* What mkdir does to its inode i, and takes back if a step fails.         *)
MadeDir(d, i) == IncLink(NewInode(IncLink(core, d), i, "dir"), i)

(* The last reference goes with it: nobody ever gets at i.                 *)
DroppedDir(d, i) == [DecLink(DecLink(MadeDir(d, i), i), i) EXCEPT ![i].dead = TRUE]

(* Variant: the directory keeps the link of the lost "..".                 *)
UndoneDirKeepsLink(d, i) == DroppedDir(d, i)
UndoneDir(d, i) == DecLink(DroppedDir(d, i), d)

Mkdir(d, n) ==
  /\ Vacant(d, n)
  /\ \/ core[d].nlink >= LinkMax /\ Fails
     \/ /\ core[d].nlink < LinkMax
        /\ core' = DecLink(IncLink(core, d), d)
        /\ failed' = TRUE /\ UNCHANGED <<disk, tree, hurt>>
     \/ /\ core[d].nlink < LinkMax /\ Unused # {}
        /\ LET i == FirstZero
           IN  /\ imap' = imap \cup {i}
               /\ \/ core' = UndoneDir(d, i) /\ failed' = TRUE /\ UNCHANGED <<tree, hurt>>
                  \/ \E how \in Outcome :
                       /\ dotdot' = [dotdot EXCEPT ![i] = d]
                       /\ entry' = Store(entry, d, n, i, how)
                       /\ core' = IF how = "done" THEN MarkDirty(MadeDir(d, i), d)
                                  ELSE UndoneDir(d, i)
                       /\ failed' = (how = "prepare")
                       /\ Spoil({d, i}, IF how = "commit" THEN {d, i} ELSE {})
        /\ UNCHANGED raw

(* minix_delete_entry() marks the directory dirty in any case.             *)
Unlink(d, n) ==
  /\ Found(d, n) /\ core[entry[d][n]].kind # "dir"
  /\ \/ Fails
     \/ \E how \in Outcome :
          LET i == entry[d][n]
              c == MarkDirty(core, d)
          IN  /\ entry' = Store(entry, d, n, NoIno, how)
              /\ core' = IF how = "done" THEN DecLink(c, i) ELSE c
              /\ failed' = (how = "prepare")
              /\ Spoil({d, i}, IF how = "commit" THEN {i} ELSE {})
              /\ UNCHANGED <<disk, dotdot>>

(* The VFS marks what it removed dead; nothing is made in it any more.     *)
Rmdir(d, n) ==
  /\ Found(d, n) /\ core[entry[d][n]].kind = "dir"
  /\ \/ Fails
     \/ \E how \in Outcome :
          LET i == entry[d][n]
              c == MarkDirty(core, d)
          IN  /\ entry' = Store(entry, d, n, NoIno, how)
              /\ core' = IF how = "done"
                         THEN [DecLink(DecLink(DecLink(c, i), d), i) EXCEPT ![i].dead = TRUE]
                         ELSE c
              /\ failed' = (how = "prepare")
              /\ Spoil({d, i}, CASE how = "done" -> Emptied(i)
                                 [] how = "prepare" -> {}
                                 [] how = "commit" -> {d, i})
              /\ UNCHANGED <<disk, dotdot>>

-----------------------------------------------------------------------------
(* minix_rename(), of entry n of d to entry n2 of d2, which is an entry of *)
(* j or vacant.  The VFS has seen to it that i and j are of one kind and   *)
(* that no directory is moved below itself.                                *)

MayRename(d, n, d2, n2) ==
  /\ Found(d, n) /\ (Found(d2, n2) \/ Vacant(d2, n2))
  /\ LET i == entry[d][n]
         j == entry[d2][n2]
     IN  /\ i # j
         /\ j # NoIno => /\ (core[i].kind = "dir") = (core[j].kind = "dir")
                         /\ d # j /\ d \notin Below(j)
         /\ core[i].kind = "dir" => d2 # i /\ d2 \notin Below(i)

(* Variant: ".." is left as it is.                                         *)
KeepDotDot(i, d, how) == dotdot
SetDotDot(i, d, how) ==
  IF core[i].kind = "dir" /\ how = "done" THEN [dotdot EXCEPT ![i] = d] ELSE dotdot

(* The end of rename: the old entry goes, ".." is set, and whatever fails  *)
(* is passed over.  e and c are the entries and the inodes until now.      *)
MoveEntry(e, c, d, n, d2, i, spoilt, lost) ==
  \E removed, moved \in {"done", "prepare"} :
    LET dir == core[i].kind = "dir"
        gone == MarkDirty(MarkDirty(c, d), i)
    IN  /\ entry' = Store(e, d, n, NoIno, removed)
        /\ dotdot' = SetDotDot(i, d2, moved)
        /\ core' = IF dir THEN DecLink(gone, d) ELSE gone
        /\ Spoil({d, d2, i} \cup lost,
                 (IF removed = "prepare" THEN {i} ELSE {})
                   \cup (IF dir /\ moved = "prepare" /\ d # d2 THEN {d, d2, i} ELSE {})
                   \cup spoilt)
        /\ failed' = FALSE
        /\ UNCHANGED disk

(* Onto j.  A commit that fails has set the entry, and is passed over too. *)
RenameOnto(d, n, d2, n2) ==
  LET i == entry[d][n]
      j == entry[d2][n2]
      dir == core[i].kind = "dir"
      dropped == IF dir THEN [DropLink(core, j) EXCEPT ![j].dead = TRUE] ELSE core
  IN  /\ j # NoIno
      /\ \E set \in {"done", "prepare"} :
           MoveEntry(Store(entry, d2, n2, i, set), DecLink(MarkDirty(dropped, d2), j),
                     d, n, d2, i,
                     Emptied(j) \cup (IF set = "prepare" THEN {i, j, d2} ELSE {}), {j})

(* To a name that is vacant.                                               *)
RenameTo(d, n, d2, n2) ==
  LET i == entry[d][n]
      dir == core[i].kind = "dir"
  IN  /\ entry[d2][n2] = NoIno
      /\ dir => core[d2].nlink < LinkMax
      /\ \/ MoveEntry(Store(entry, d2, n2, i, "done"),
                      IF dir THEN IncLink(core, d2) ELSE MarkDirty(core, d2),
                      d, n, d2, i, {}, {})
         \/ /\ entry' = Store(entry, d2, n2, i, "commit")
            /\ core' = MarkDirty(core, d2)
            /\ failed' = FALSE
            /\ Spoil({d, d2, i}, {i})
            /\ UNCHANGED <<disk, dotdot>>

Rename(d, n, d2, n2) ==
  /\ MayRename(d, n, d2, n2)
  /\ Fails \/ RenameOnto(d, n, d2, n2) \/ RenameTo(d, n, d2, n2)

-----------------------------------------------------------------------------
(* The inodes between the calls                                            *)

Free == UNCHANGED hurt /\ failed' = FALSE

(* A user opens a file, or makes a directory its own, and lets it go.      *)
Held == {i \in Ino : core[i].held}
Hold(d, n) ==
  /\ Found(d, n) /\ Cardinality(Held) < MaxHeld
  /\ core' = [core EXCEPT ![entry[d][n]].held = TRUE]
  /\ Free /\ UNCHANGED <<disk, tree>>
Release(i) ==
  /\ core[i].held
  /\ core' = [core EXCEPT ![i].held = FALSE]
  /\ Free /\ UNCHANGED <<disk, tree>>

(* minix_write_inode()                                                     *)
WriteInode(i) ==
  /\ core[i].phase = "in" /\ core[i].dirty
  /\ raw' = [raw EXCEPT ![i] = [kind |-> core[i].kind, nlink |-> core[i].nlink]]
  /\ core' = [core EXCEPT ![i].dirty = FALSE]
  /\ Free /\ UNCHANGED <<imap, tree>>

(* Variant: the users of the inode are not asked for.                      *)
IdleOrHeld(i) == core[i].phase = "in" /\ i # Root
Idle(i) == core[i].phase = "in" /\ ~core[i].held /\ i # Root

(* A clean inode leaves the cache; minix_evict_inode() has nothing to do.  *)
Reclaim(i) ==
  /\ Idle(i) /\ ~core[i].dirty /\ core[i].nlink # 0
  /\ core' = [core EXCEPT ![i] = Out]
  /\ Free /\ UNCHANGED <<disk, tree>>

(* minix_lookup(), minix_iget(): neither looks whether the inode has been  *)
(* freed, as after a commit that failed.  Then its number may be taken     *)
(* anew while it is in core, and everything is given up.                   *)
Lookup(d, n) ==
  LET i == entry[d][n]
  IN  /\ Ready(d) /\ i # NoIno /\ core[i].phase = "out"
      /\ core' = [core EXCEPT ![i] = [Out EXCEPT !.phase = "in", !.kind = raw[i].kind,
                                                !.nlink = raw[i].nlink]]
      /\ hurt' = IF i \in imap THEN hurt ELSE Ino
      /\ failed' = FALSE
      /\ UNCHANGED <<disk, tree>>

(* minix_evict_inode() of an inode without links, after its last iput()    *)
Evict(i) ==
  /\ Idle(i) /\ core[i].nlink = 0
  /\ core' = [core EXCEPT ![i].phase = "freeing", ![i].dirty = FALSE]
  /\ entry' = [entry EXCEPT ![i] = EmptyDir]
  /\ dotdot' = [dotdot EXCEPT ![i] = NoIno]
  /\ hurt' = hurt \cup Children(i)
                 \cup (IF Linked(i) THEN {dotdot[i]} \ {NoIno} ELSE {})
  /\ failed' = FALSE
  /\ UNCHANGED disk

(* minix_free_inode(): minix_clear_inode(), and then the bit               *)
ClearInode(i) ==
  /\ core[i].phase = "freeing"
  /\ raw' = [raw EXCEPT ![i] = [kind |-> "none", nlink |-> 0]]
  /\ core' = [core EXCEPT ![i].phase = "cleared"]
  /\ Free /\ UNCHANGED <<imap, tree>>
ClearBit(i) ==
  /\ core[i].phase = "cleared"
  /\ imap' = imap \ {i}
  /\ core' = [core EXCEPT ![i] = Out]
  /\ Free /\ UNCHANGED <<raw, tree>>

Call ==
  /\ calls < MaxCalls /\ calls' = calls + 1 /\ Cardinality(hurt) <= MaxHurt
  /\ \E d \in Ino, n \in Name :
       \/ Mknod(d, n) \/ Symlink(d, n) \/ Mkdir(d, n) \/ Unlink(d, n) \/ Rmdir(d, n)
       \/ \E i \in Ino : Link(i, d, n)
       \/ \E d2 \in Ino, n2 \in Name : Rename(d, n, d2, n2)

Between ==
  /\ UNCHANGED calls
  /\ \/ \E d \in Ino, n \in Name : Hold(d, n) \/ Lookup(d, n)
     \/ \E i \in Ino : \/ Release(i) \/ WriteInode(i) \/ Reclaim(i)
                      \/ Evict(i) \/ ClearInode(i) \/ ClearBit(i)

Next == Call \/ Between

Spec == Init /\ [][Next]_vars

-----------------------------------------------------------------------------
(* Properties                                                              *)

Kind(i) == IF core[i].phase = "out" THEN raw[i].kind ELSE core[i].kind
NLink(i) == IF core[i].phase = "out" THEN raw[i].nlink ELSE core[i].nlink

TypeOK ==
  /\ imap \subseteq Ino
  /\ raw \in [Ino -> [kind : {"none", "file", "dir"}, nlink : 0 .. LinkSpace - 1]]
  /\ core \in [Ino -> [phase : {"out", "in", "freeing", "cleared"},
                       kind : {"none", "file", "dir"},
                       nlink : 0 .. LinkSpace - 1,
                       dirty : BOOLEAN, dead : BOOLEAN, held : BOOLEAN]]
  /\ entry \in [Ino -> [Name -> Ino \cup {NoIno}]]
  /\ dotdot \in [Ino -> Ino \cup {NoIno}]
  /\ hurt \subseteq Ino
  /\ calls \in 0 .. MaxCalls
  /\ failed \in BOOLEAN

(* The link count of an inode, in core or on disk if it has left the       *)
(* cache, is the number of its references; and it never exceeds LinkMax,   *)
(* whichever calls fail at whichever step, unless the failure is one that  *)
(* hurt names.                                                             *)
LinkCountsMatch ==
  \A i \in imap \ hurt :
    /\ NLink(i) = References(i, {j \in Ino : Kind(j) = "dir"})
    /\ NLink(i) <= LinkMax

(* A number is in use just as long as an entry, a user or the eviction     *)
(* needs it: no inode is lost, and none is freed under its last user.      *)
InodesAccounted ==
  \A i \in Ino \ hurt :
    /\ i \in imap <=> Linked(i) \/ core[i].phase # "out"
    /\ core[i].held => core[i].phase = "in"

(* An inode in core that is not marked dirty is the one on disk, so that   *)
(* it may leave the cache; and what is free is clear on disk, even while   *)
(* another eviction or a call that takes the number anew runs, and on a    *)
(* tree that is spoilt in part.  A tree that is given up altogether is     *)
(* excepted.                                                               *)
DiskAgrees ==
  hurt # Ino => \A i \in Ino :
    /\ core[i].phase = "in" /\ ~core[i].dirty
         => raw[i] = [kind |-> core[i].kind, nlink |-> core[i].nlink]
    /\ i \notin imap => raw[i] = [kind |-> "none", nlink |-> 0]

(* The entry ".." of a directory that has an entry is that entry's         *)
(* directory, and a directory has one entry.                               *)
ParentIsDotDot ==
  \A i \in imap \ (hurt \cup {Root}) :
    Kind(i) = "dir" /\ Linked(i) => \E n \in Name : Entries(i) = {<<dotdot[i], n>>}

(* A call that returns an error has changed no entry and no link count of  *)
(* anything that is linked, unless the error came after the entry was      *)
(* written.                                                                *)
FailureChangesNothing ==
  [][failed' =>
       \A i \in Ino \ hurt' : Linked(i) =>
         Linked(i)' /\ NLink(i)' = NLink(i) /\ entry'[i] = entry[i] /\ dotdot'[i] = dotdot[i]]_vars

=============================================================================
