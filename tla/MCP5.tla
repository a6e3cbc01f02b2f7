------------------------------- MODULE MCP5 -------------------------------
(***************************************************************************)
(* TLC instances of P5.  MCP5Tree.cfg has folders in folders and files of  *)
(* one block, on a device that is full after three blocks, and two         *)
(* descriptors.  MCP5Data.cfg has one folder with one file, which reaches  *)
(* over the direct block, both tables and the end of a map block.          *)
(***************************************************************************)
EXTENDS P5
CONSTANTS n1, n2, s1, s2

(* The first call that leaves the device unsound is the last one that is   *)
(* followed.                                                               *)
OnlySound == Sound
CleanMaps == {{}, {MAP - 1}}
Zeros == {{}}
Symmetric == Permutations(Name) \cup Permutations(Source)
=============================================================================
