----------------------------- MODULE MCDiskLock -----------------------------
(* The configuration gives two processes and three files. *)
EXTENDS DiskLock
=============================================================================
