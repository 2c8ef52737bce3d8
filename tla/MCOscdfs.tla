------------------------------ MODULE MCOscdfs ------------------------------
(* Model values and front ends for the runs of Oscdfs. *)
EXTENDS OscdfsStore, TLC

Cli == {"cli"}
Fuse == {"fuse"}
Both == {"cli", "fuse"}

(* Nothing in Oscdfs or FileStore prefers one name to another. *)
SameNames == Permutations(Names)
=============================================================================
