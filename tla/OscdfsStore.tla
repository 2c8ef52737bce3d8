----------------------------- MODULE OscdfsStore -----------------------------
(***************************************************************************)
(* The blocks, bitmaps and inodes of Oscdfs implement the FileStore a user *)
(* relies on: what the linked inodes lead to changes as FileStore allows,  *)
(* one whole call at a time, also when the process dies inside one.        *)
(***************************************************************************)
EXTENDS Oscdfs

(* The data of a file: the blocks that were written, in logical order. *)
Data(i) ==
    [j \in 1 .. inode[i].size |->
        LET b == Lookup(inode[i], j - 1)
        IN  IF b # 0 /\ kind[b] = "data" THEN b ELSE 0]

Store == INSTANCE FileStore WITH
    Nodes   <- Inodes,
    Tokens  <- Blocks,
    Hole    <- 0,
    named   <- entry,
    dirs    <- Dirs,
    content <- [f \in Linked \ Dirs |-> Data(f)],
    opened  <- fd

(* Every behaviour of the file system is one of a FileStore. *)
IsAFileStore == Store!Spec

=============================================================================
