------------------------------ MODULE DiskLock ------------------------------
(***************************************************************************)
(* Processes of oscdfs that share the name of an image file: mkfs, the     *)
(* interactive program and the FUSE daemon (mkfs.c, disk.c, main.c).       *)
(*                                                                         *)
(* A file is what the name leads to, not the name: it lives on while a     *)
(* process has it open after unlink, and its lock goes with it.            *)
(***************************************************************************)
EXTENDS Naturals

CONSTANTS
    Procs,     \* processes of oscdfs
    MaxFiles   \* bound: files ever made under the name

Files == 1 .. MaxFiles

(* What mkfs puts into a file, in this order once it holds the lock:
   superblock, bitmaps and root directory; user table; home directories. *)
Pieces == {"root", "users", "homes"}

VARIABLES
    made,   \* number of files made so far
    path,   \* the file the name leads to, or 0
    holds,  \* holds[f]: the pieces that are in file f
    lock,   \* lock[f]: who has locked f, at most one process
    proc    \* what each process does, and the file it has open

vars == <<made, path, holds, lock, proc>>

Ended == [does |-> "nothing", pc |-> "out", file |-> 0]

TypeOK ==
    /\ made \in 0 .. MaxFiles
    /\ path \in 0 .. made
    /\ holds \in [Files -> SUBSET Pieces]
    /\ lock \in [Files -> SUBSET Procs]
    /\ proc \in [Procs -> [does : {"nothing", "mkfs", "cli", "fuse"},
                           pc : {"out", "made", "open", "flock", "fail", "login",
                                 "session", "unlink", "finish"} \union Pieces,
                           file : Files \union {0}]]

(* There is no image yet, or one that mkfs has finished. *)
Init ==
    /\ made \in {0, 1}
    /\ path = made
    /\ holds = [f \in Files |-> IF f = made THEN Pieces ELSE {}]
    /\ lock = [f \in Files |-> {}]
    /\ proc = [p \in Procs |-> Ended]

At(p, pc) == proc[p].pc = pc
Goes(p, pc) == proc' = [proc EXCEPT ![p].pc = pc]

(* The descriptor is closed, by disk_close or by the kernel; its lock goes. *)
Ends(p) ==
    /\ proc' = [proc EXCEPT ![p] = Ended]
    /\ lock' = [f \in Files |-> lock[f] \ {p}]

Start(p) ==
    /\ At(p, "out")
    /\ \E does \in {"cli", "fuse"} :
        proc' = [proc EXCEPT ![p] = [Ended EXCEPT !.does = does, !.pc = "open"]]
    /\ UNCHANGED <<made, path, holds, lock>>

(* mkfs: open with O_CREAT and O_TRUNC, whoever has locked the file. *)
StartMkfs(p) ==
    /\ At(p, "out")
    /\ \/ /\ path = 0 /\ made < MaxFiles
          /\ made' = made + 1
          /\ path' = made'
          /\ UNCHANGED holds
       \/ /\ path # 0
          /\ holds' = [holds EXCEPT ![path] = {}]
          /\ UNCHANGED <<made, path>>
    /\ proc' = [proc EXCEPT ![p] = [Ended EXCEPT !.does = "mkfs", !.pc = "made"]]
    /\ UNCHANGED lock

(* ftruncate to 8 MB, then close. *)
SetLength(p) ==
    /\ At(p, "made")
    /\ Goes(p, "open") \/ Goes(p, "fail")
    /\ UNCHANGED <<made, path, holds, lock>>

(* disk_open: open what the name leads to now, then lock it without waiting. *)
DiskOpen(p) ==
    /\ At(p, "open")
    /\ proc' = [proc EXCEPT ![p].file = path,
                            ![p].pc = IF path = 0 THEN "fail" ELSE "flock"]
    /\ UNCHANGED <<made, path, holds, lock>>

(* With the lock held pthread_mutex_init may still fail; disk_open then unlocks
   and closes the file on its way out, the first half of Fail. *)
Flock(p) ==
    LET f == proc[p].file
    IN  /\ At(p, "flock")
        /\ \/ /\ lock[f] = {}
              /\ lock' = [lock EXCEPT ![f] = {p}]
              /\ \/ proc[p].does = "mkfs" /\ Goes(p, "root")
                 \/ proc[p].does = "cli" /\ Goes(p, "login")
                 \/ proc[p].does = "fuse" /\ Goes(p, "session")
                 \/ Goes(p, "fail")
           \/ /\ lock[f] # {}
              /\ Goes(p, "fail")
              /\ UNCHANGED lock
        /\ UNCHANGED <<made, path, holds>>

(* The program gives up.  mkfs first closes the file, if it has it open, then
   removes the name, whatever that leads to by then. *)
Fail(p) ==
    /\ At(p, "fail")
    /\ \/ proc[p].does # "mkfs" /\ Ends(p)
       \/ /\ proc[p].does = "mkfs"
          /\ Goes(p, "unlink")
          /\ lock' = [f \in Files |-> lock[f] \ {p}]
    /\ UNCHANGED <<made, path, holds>>

Unlink(p) ==
    /\ At(p, "unlink")
    /\ path' = 0
    /\ Ends(p)
    /\ UNCHANGED <<made, holds>>

Write(p, piece, then) ==
    /\ At(p, piece)
    /\ \/ /\ holds' = [holds EXCEPT ![proc[p].file] = @ \union {piece}]
          /\ Goes(p, then)
       \/ holds' = holds /\ Goes(p, "fail")
    /\ UNCHANGED <<made, path, lock>>

Format(p) ==
    \/ Write(p, "root", "users")
    \/ Write(p, "users", "homes")
    \/ Write(p, "homes", "finish")

(* The interactive program logs root in, which needs the user table.  The FUSE
   daemon serves whatever the file holds. *)
Login(p) ==
    /\ At(p, "login")
    /\ Goes(p, IF "users" \in holds[proc[p].file] THEN "session" ELSE "fail")
    /\ UNCHANGED <<made, path, holds, lock>>

(* disk_close, or death at any point. *)
Leave(p) ==
    /\ ~At(p, "out")
    /\ Ends(p)
    /\ UNCHANGED <<made, path, holds>>

Next ==
    \E p \in Procs :
        \/ Start(p) \/ StartMkfs(p) \/ SetLength(p) \/ DiskOpen(p) \/ Flock(p)
        \/ Fail(p) \/ Unlink(p) \/ Format(p) \/ Login(p) \/ Leave(p)

Spec == Init /\ [][Next]_vars

-----------------------------------------------------------------------------
(* While a program works on an image it has locked, nobody else empties the
   file or takes its name away: what the exclusive lock that disk_open takes on
   the image file is for. *)
LockExcludes ==
    [][\A p \in Procs : At(p, "session") =>
         LET f == proc[p].file
         IN  holds'[f] = holds[f] /\ (path = f => path' = f)]_vars
=============================================================================
