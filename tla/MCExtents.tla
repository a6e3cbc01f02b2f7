----------------------------- MODULE MCExtents -----------------------------
(***************************************************************************)
(* TLC instances of Extents: two words to an inode and extents of at most  *)
(* two zones, so that a file of a few blocks has all its words in use, an  *)
(* extent of its greatest length, and a neighbour.  Sectors 0 and 1 share  *)
(* a page; 4 is the last one that is_valid_block() takes, and a zone; 5 is *)
(* out of range.                                                           *)
(***************************************************************************)
EXTENDS Extents, TLC
CONSTANTS f1, f2, p1, p2

MCSector == {0, 1, 4, 5}
MCAllSectors == 0 .. NBLOCKS_INODE_MAX + 1

Symmetric == Permutations(File) \cup Permutations(Process)
SymmetricFiles == Permutations(File)

(* The first zone that is freed in use is the last thing that is followed. *)
Undamaged == ~damaged
=============================================================================
