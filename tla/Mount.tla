------------------------------- MODULE Mount -------------------------------
(***************************************************************************)
(* hw5_b/inode.c: mounting the file system of Namei (V1 and V2), and the   *)
(* bit MINIX_VALID_FS by which the next mount tells whether the last one   *)
(* ended well.  The bit is in the buffer of the superblock, and reaches    *)
(* the disk when the kernel writes the buffer.  A crash loses the buffer   *)
(* and the inodes in core.                                                 *)
(*                                                                         *)
(* A mount that fails writes nothing, and is no step.  After a crash only  *)
(* the superblock is followed: mounts warn of the missing bit, and go on.  *)
(***************************************************************************)
EXTENDS Namei

VARIABLES
  mounted, readonly,      (* is it, and is it with MS_RDONLY               *)
  s_state,                (* is MINIX_VALID_FS set in the buffer ...       *)
  s_ondisk,               (* ... on the disk ...                           *)
  s_mount_state,          (* ... and when the file system was mounted      *)
  crash                   (* history: "none", "sound", or a crash that has *)
                          (* left the inodes wrong: "spoilt" if a call had *)
                          (* done so before (hurt), "early" if the bit had *)
                          (* not been cleared on the disk, or else "lost"  *)

super == <<mounted, readonly, s_state, s_ondisk, s_mount_state>>
fsvars == <<vars, super, crash>>

(* The inodes and the bitmap on the disk agree with the directories.       *)
DiskSound ==
  /\ imap = {i \in Ino : Linked(i)}
  /\ \A i \in imap : raw[i].nlink = References(i, {j \in Ino : raw[j].kind = "dir"})

(* The first mount, of a file system that mkfs or fsck has marked valid.   *)
MountedInit ==
  /\ Init
  /\ mounted = TRUE /\ readonly = FALSE
  /\ s_state = FALSE /\ s_ondisk = TRUE /\ s_mount_state = TRUE
  /\ crash = "none"

-----------------------------------------------------------------------------
(* The calls of Namei; of a read-only mount the VFS lets none through that *)
(* changes the tree.                                                       *)
Serve ==
  /\ mounted /\ crash = "none"
  /\ IF readonly THEN Between ELSE Next
  /\ UNCHANGED <<super, crash>>

WriteSuper ==
  /\ s_ondisk # s_state
  /\ s_ondisk' = s_state
  /\ Free /\ UNCHANGED <<disk, core, tree, calls, mounted, readonly, s_state, s_mount_state, crash>>

(* What a call has spoilt is followed within the bound of Namei.           *)
Followed == crash # "none" \/ Cardinality(hurt) <= MaxHurt

(* Before a remount or an unmount the kernel has written everything, and   *)
(* sees to it that no file is removed and open; before an unmount, that no *)
(* file is open at all.                                                    *)
Synced ==
  /\ Followed /\ s_ondisk = s_state
  /\ \A i \in Ino : /\ core[i].phase \in {"in", "out"} /\ ~core[i].dirty
                    /\ core[i].phase = "in" => core[i].nlink # 0

(* Variant: the bit stays set while the file system is mounted.            *)
FillSuperKeepsValid(ro) ==
  /\ ~mounted /\ s_ondisk = s_state
  /\ mounted' = TRUE /\ readonly' = ro
  /\ s_mount_state' = s_state
  /\ core' = [core EXCEPT ![Root] = [Out EXCEPT !.phase = "in", !.kind = raw[Root].kind,
                                                !.nlink = raw[Root].nlink]]
  /\ Free /\ UNCHANGED <<disk, tree, calls, s_state, s_ondisk, crash>>

FillSuper(ro) ==
  /\ ~mounted /\ s_ondisk = s_state
  /\ mounted' = TRUE /\ readonly' = ro
  /\ s_mount_state' = s_state
  /\ s_state' = (s_state /\ ro)
  /\ core' = [core EXCEPT ![Root] = [Out EXCEPT !.phase = "in", !.kind = raw[Root].kind,
                                                !.nlink = raw[Root].nlink]]
  /\ Free /\ UNCHANGED <<disk, tree, calls, s_ondisk, crash>>

(* Variant: an unmount marks the file system valid, whatever it was.       *)
PutSuperValid ==
  /\ mounted /\ Synced /\ Held = {}
  /\ mounted' = FALSE
  /\ s_state' = (s_state \/ ~readonly)
  /\ core' = [i \in Ino |-> Out]
  /\ Free /\ UNCHANGED <<disk, tree, calls, readonly, s_ondisk, s_mount_state, crash>>

PutSuper ==
  /\ mounted /\ Synced /\ Held = {}
  /\ mounted' = FALSE
  /\ s_state' = IF readonly THEN s_state ELSE s_mount_state
  /\ core' = [i \in Ino |-> Out]
  /\ Free /\ UNCHANGED <<disk, tree, calls, readonly, s_ondisk, s_mount_state, crash>>

(* minix_remount()                                                         *)
RemountReadOnly ==
  /\ mounted /\ ~readonly /\ Synced
  /\ readonly' = TRUE
  /\ s_state' = IF s_state \/ ~s_mount_state THEN s_state ELSE s_mount_state
  /\ Free /\ UNCHANGED <<disk, core, tree, calls, mounted, s_ondisk, s_mount_state, crash>>

RemountWritable ==
  /\ mounted /\ readonly /\ Synced
  /\ readonly' = FALSE
  /\ s_mount_state' = s_state
  /\ s_state' = FALSE
  /\ Free /\ UNCHANGED <<disk, core, tree, calls, mounted, s_ondisk, crash>>

Crash ==
  /\ Followed /\ (mounted \/ s_ondisk # s_state)
  /\ mounted' = FALSE
  /\ s_state' = s_ondisk
  /\ core' = [i \in Ino |-> Out]
  /\ crash' = IF crash \in {"spoilt", "early", "lost"} THEN crash
              ELSE IF DiskSound THEN "sound"
              ELSE IF hurt # {} THEN "spoilt"
              ELSE IF mounted /\ ~readonly /\ s_ondisk # s_state THEN "early" ELSE "lost"
  /\ hurt' = IF DiskSound THEN hurt ELSE Ino
  /\ failed' = FALSE
  /\ UNCHANGED <<disk, tree, calls, readonly, s_ondisk, s_mount_state>>

MountedNext ==
  \/ Serve \/ WriteSuper
  \/ \E ro \in BOOLEAN : FillSuper(ro)
  \/ PutSuper \/ RemountReadOnly \/ RemountWritable \/ Crash

MountedSpec == MountedInit /\ [][MountedNext]_fsvars

-----------------------------------------------------------------------------
(* Properties                                                              *)

MountTypeOK ==
  /\ TypeOK
  /\ {mounted, readonly, s_state, s_ondisk, s_mount_state} \subseteq BOOLEAN
  /\ crash \in {"none", "sound", "spoilt", "early", "lost"}

(* inode.c, "MINIX-fs: mounting unchecked file system, running fsck is     *)
(* recommended": what is not mounted and marked valid needs no fsck.  The  *)
(* mark does not come back after a crash, however often the file system is *)
(* mounted, remounted and unmounted; and it does after each unmount if     *)
(* there was no crash.                                                     *)
ValidFlag ==
  ~mounted =>
    /\ s_state => \/ DiskSound
                  \/ crash \in {"spoilt", "early"}
                  \/ crash = "none" /\ hurt # {}
    /\ crash = "none" => s_state

=============================================================================
