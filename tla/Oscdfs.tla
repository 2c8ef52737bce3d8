------------------------------- MODULE Oscdfs -------------------------------
(***************************************************************************)
(* The calls of oscdfs, from the interactive shell of the file system and  *)
(* from FUSE, run over the disk of OscdfsDisk and stopped at any point.    *)
(*                                                                         *)
(* disk_open takes an exclusive lock on the image, so one process uses it  *)
(* at a time: the interactive program or the FUSE daemon, which runs       *)
(* single-threaded (main adds "-s").  The next process finds the disk as   *)
(* the last one left it; open files live in memory and are gone.           *)
(***************************************************************************)
EXTENDS OscdfsDisk

CONSTANTS
    Modes,     \* which front ends run: a subset of {"cli", "fuse"}
    MaxWrite,  \* bound: blocks one write call covers
    MaxSize,   \* bound: blocks of a file
    MaxKills   \* bound: processes killed inside a call

ASSUME CallAssumption ==
    /\ Modes \subseteq {"cli", "fuse"}
    /\ MaxWrite \in Nat
    /\ MaxSize \in 0 .. Reach(NLevel)
    /\ MaxKills \in Nat

VARIABLES
    mode,    \* the front end running, or "none"
    fd,      \* fd_table: the inode (0: slot free) and offset of each slot
    kills,   \* how many processes were killed inside a call
    dropped  \* whether a FUSE write returned without storing a pointer it set

vars == <<diskVars, op, mode, fd, kills, dropped>>

NoFile == [ino |-> 0, off |-> 0]
NoEntries == [n \in Names |-> 0]

TypeOK ==
    /\ DiskTypeOK
    /\ mode \in Modes \union {"none"}
    /\ fd \in [Fds -> [ino : Inodes \union {0}, off : Nat]]
    /\ kills \in 0 .. MaxKills
    /\ dropped \in BOOLEAN

(* What mkfs leaves, a root directory with one block, without the directories
   it then makes in it, /home and those of the users: FUSE may remove them. *)
Init ==
    /\ bbm = {1}
    /\ ibm = {Root}
    /\ inode = [i \in Inodes |->
                  IF i = Root
                  THEN [FreshInode(TRUE) EXCEPT !.ptr[0] = 1, !.size = 1]
                  ELSE FreshInode(FALSE)]
    /\ kind = [b \in Blocks |-> IF b = 1 THEN "data" ELSE "old"]
    /\ array = [b \in Blocks |-> Zeros]
    /\ entry = [i \in Inodes |-> NoEntries]
    /\ op = Idle
    /\ mode = "none"
    /\ fd = [k \in Fds |-> NoFile]
    /\ kills = 0
    /\ dropped = FALSE

Lowest(i, S) == i \in S /\ \A j \in S : i <= j

(* The inodes a path leads to, and the directories among them. *)
Linked == {Root} \union ({entry[d][n] : d \in Inodes, n \in Names} \ {0})
Dirs == {d \in Linked : inode[d].dir}

Ready(modes) == mode \in modes /\ op.pc = "idle"

-----------------------------------------------------------------------------
(* Processes come and go. *)

Start(m) ==
    /\ mode = "none"
    /\ mode' = m
    /\ UNCHANGED <<diskVars, op, fd, kills, dropped>>

Gone ==
    /\ mode # "none"
    /\ mode' = "none"
    /\ op' = Idle
    /\ fd' = [k \in Fds |-> NoFile]
    /\ UNCHANGED <<diskVars, dropped>>

Exit == op.pc = "idle" /\ Gone /\ UNCHANGED kills
Kill == op.pc # "idle" /\ Gone /\ kills < MaxKills /\ kills' = kills + 1

-----------------------------------------------------------------------------
(* oscdfs_create, fuse_create, fuse_mkdir.  dir_add_entry takes a free slot of
   a block the directory has, or the first slot of a new block. *)

HasRoom(d) ==
    2 + Cardinality({n \in Names : entry[d][n] # 0})
        < EntriesPerBlock * inode[d].size

(* The locals of dir_add_entry(par, name, ino) about to start. *)
AddEntry(locals) ==
    LET parent == [locals EXCEPT !.put = locals.par, !.mem = inode[locals.par]]
    IN  IF HasRoom(locals.par)
        THEN [parent EXCEPT !.pc = "dirent"]
        ELSE WalkFrom(parent, parent.mem.size)

(* alloc_inode, for a name that is free. *)
NewInode(call, d, n) ==
    /\ d \in Dirs
    /\ entry[d][n] = 0
    /\ \E i \in Inodes :
        /\ Lowest(i, Inodes \ ibm)
        /\ ibm' = ibm \union {i}
        /\ op' = [Idle EXCEPT !.call = call, !.pc = "iinit",
                              !.ino = i, !.par = d, !.name = n]
    /\ UNCHANGED <<bbm, inode, kind, array, entry, mode, fd, kills, dropped>>

Create(d, n) == Ready({"cli", "fuse"}) /\ NewInode("create", d, n)
Mkdir(d, n) == Ready({"fuse"}) /\ NewInode("mkdir", d, n)

InitInodeNoBlock ==
    /\ op.pc = "iinit"
    /\ inode' = [inode EXCEPT ![op.ino] = FreshInode(op.call = "mkdir")]
    /\ op' = AddEntry(op)
    /\ UNCHANGED <<bbm, ibm, kind, array, entry, mode, fd, kills, dropped>>
InitInode ==
    /\ op.pc = "iinit"
    /\ LET new == FreshInode(op.call = "mkdir")
       IN  /\ inode' = [inode EXCEPT ![op.ino] = new]
           /\ op' = IF op.call = "create"
                    THEN AddEntry(op)
                    ELSE WalkFrom([op EXCEPT !.put = op.ino, !.mem = new], 0)
    /\ UNCHANGED <<bbm, ibm, kind, array, entry, mode, fd, kills, dropped>>

WriteEntry ==
    /\ op.pc = "dirent"
    /\ entry' = [entry EXCEPT ![op.par][op.name] = op.ino]
    /\ op' = Idle
    /\ UNCHANGED <<bbm, ibm, inode, kind, array, mode, fd, kills, dropped>>

-----------------------------------------------------------------------------
(* oscdfs_delete and fuse_rmdir: the name goes first, then blocks and inode. *)

RemoveKeepsName(d, n) ==
    /\ d \in Dirs
    /\ entry[d][n] # 0
    /\ entry' = entry
    /\ op' = [Idle EXCEPT !.call = "delete", !.pc = "free",
                          !.ino = entry[d][n],
                          !.todo = FreeList(inode[entry[d][n]])]
    /\ UNCHANGED <<bbm, ibm, inode, kind, array, mode, fd, kills, dropped>>
Remove(d, n) ==
    /\ d \in Dirs
    /\ entry[d][n] # 0
    /\ entry' = [entry EXCEPT ![d][n] = 0]
    /\ op' = [Idle EXCEPT !.call = "delete", !.pc = "free",
                          !.ino = entry[d][n],
                          !.todo = FreeList(inode[entry[d][n]])]
    /\ UNCHANGED <<bbm, ibm, inode, kind, array, mode, fd, kills, dropped>>

DeleteOpenFile(d, n) ==
    Ready({"cli", "fuse"}) /\ Remove(d, n) /\ ~inode[entry[d][n]].dir
Delete(d, n) ==
    /\ Ready({"cli", "fuse"})
    /\ Remove(d, n)
    /\ ~inode[entry[d][n]].dir
    /\ \A k \in Fds : fd[k].ino # entry[d][n]

RmdirNotEmpty(d, n) ==
    Ready({"fuse"}) /\ Remove(d, n) /\ inode[entry[d][n]].dir
Rmdir(d, n) ==
    /\ Ready({"fuse"})
    /\ Remove(d, n)
    /\ inode[entry[d][n]].dir
    /\ entry[entry[d][n]] = NoEntries

-----------------------------------------------------------------------------
(* Open files of the interactive program. *)

Open(d, n) ==
    /\ Ready({"cli"})
    /\ d \in Dirs
    /\ entry[d][n] # 0
    /\ ~inode[entry[d][n]].dir
    /\ \E k \in Fds :
        /\ Lowest(k, {j \in Fds : fd[j].ino = 0})
        /\ fd' = [fd EXCEPT ![k] = [ino |-> entry[d][n], off |-> 0]]
    /\ UNCHANGED <<diskVars, op, mode, kills, dropped>>

Close(k) ==
    /\ Ready({"cli"})
    /\ fd[k].ino # 0
    /\ fd' = [fd EXCEPT ![k] = NoFile]
    /\ UNCHANGED <<diskVars, op, mode, kills, dropped>>

(* Only the offset moves: the access time is not modelled.  Read and Write take
   every open file, also one whose open mode the code refuses. *)
Read(k, n) ==
    /\ Ready({"cli"})
    /\ fd[k].ino # 0
    /\ fd[k].off + n <= inode[fd[k].ino].size
    /\ fd' = [fd EXCEPT ![k].off = @ + n]
    /\ UNCHANGED <<diskVars, op, mode, kills, dropped>>

-----------------------------------------------------------------------------
(* oscdfs_write and oscdfs_write_inode: n blocks, one after the other. *)

BeginWrite(call, i, k, lb, n) ==
    /\ lb + n <= MaxSize
    /\ op' = WalkFrom([Idle EXCEPT !.call = call, !.ino = i, !.put = i,
                         !.mem = inode[i], !.fd = k, !.left = n], lb)
    /\ UNCHANGED <<diskVars, mode, fd, kills, dropped>>

Write(k, n) ==
    /\ Ready({"cli"})
    /\ fd[k].ino # 0
    /\ BeginWrite("write", fd[k].ino, k, fd[k].off, n)

FuseWrite(i, lb, n) ==
    /\ Ready({"fuse"})
    /\ i \in Linked \ Dirs
    /\ BeginWrite("fwrite", i, 0, lb, n)

(* A FUSE write returns without write_inode: what it put in mem is gone. *)
ReturnWithoutInode ==
    /\ op' = Idle
    /\ dropped' = (dropped \/ op.mem.ptr # inode[op.ino].ptr)

(* write_block of the data.  The next block follows; after the last one the
   FUSE write stores the inode only if the file grew.  For mkdir the block is
   the empty directory. *)
WriteData ==
    /\ op.pc = "data"
    /\ kind' = [kind EXCEPT ![op.new] = "data"]
    /\ array' = [array EXCEPT ![op.new] = Zeros]
    /\ entry' = IF op.call = "mkdir" /\ op.put = op.ino
                THEN [entry EXCEPT ![op.ino] = NoEntries] ELSE entry
    /\ IF op.left > 1
       THEN /\ op' = WalkFrom([op EXCEPT !.left = @ - 1], op.lb + 1)
            /\ UNCHANGED dropped
       ELSE IF op.call = "fwrite" /\ op.lb + 1 <= op.mem.size
       THEN ReturnWithoutInode
       ELSE /\ op' = [op EXCEPT !.pc = "iput", !.lb = @ + 1, !.left = 0]
            /\ UNCHANGED dropped
    /\ UNCHANGED <<bbm, ibm, inode, mode, fd, kills>>

(* The undo of create and mkdir.  Once the new directory is on disk its blocks
   go too. *)
UndoKeepsBlocks == [op EXCEPT !.pc = "ifree"]
UndoFreesParent ==
    IF op.call = "mkdir" /\ op.put = op.par
    THEN [op EXCEPT !.pc = "free", !.todo = FreeList(inode[op.par])]
    ELSE [op EXCEPT !.pc = "ifree"]
Undo ==
    IF op.call = "mkdir" /\ op.put = op.par
    THEN [op EXCEPT !.pc = "free", !.todo = FreeList(inode[op.ino])]
    ELSE [op EXCEPT !.pc = "ifree"]

(* The short write of oscdfs_write: it keeps what it has. *)
CutShortTooLate == [op EXCEPT !.pc = "iput", !.lb = @ + 1]
CutShortRetries == op
CutShort == [op EXCEPT !.pc = "iput"]

(* No block left: oscdfs_write_inode just returns. *)
RunOut ==
    /\ OutOfSpace
    /\ \/ /\ op.call = "write"
          /\ op' = CutShort
          /\ UNCHANGED dropped
       \/ /\ op.call = "fwrite"
          /\ ReturnWithoutInode
       \/ /\ op.call \in {"create", "mkdir"}
          /\ op' = Undo
          /\ UNCHANGED dropped
    /\ UNCHANGED <<diskVars, mode, fd, kills>>

(* The record write_inode stores: the size never shrinks. *)
StoredWithoutPointers ==
    [inode[op.put] EXCEPT !.size = IF op.lb > @ THEN op.lb ELSE @]
Stored == [op.mem EXCEPT !.size = IF op.lb > @ THEN op.lb ELSE @]

(* write_inode at the end of a write, of mkdir's new directory, or of a
   directory that got a new block, whose entry is visible from here on. *)
PutInode ==
    /\ op.pc = "iput"
    /\ inode' = [inode EXCEPT ![op.put] = Stored]
    /\ entry' = IF op.put = op.par
                THEN [entry EXCEPT ![op.par][op.name] = op.ino] ELSE entry
    /\ fd' = IF op.call = "write"
             THEN [fd EXCEPT ![op.fd].off = op.lb] ELSE fd
    /\ op' = IF op.call = "mkdir" /\ op.put = op.ino
             THEN AddEntry(op) ELSE Idle
    /\ UNCHANGED <<bbm, ibm, kind, array, mode, kills, dropped>>

-----------------------------------------------------------------------------
(* A step of the call in progress. *)
Map == FollowPointer \/ AllocBlock \/ ZeroBlock \/ LinkBlock
Free == ExpandPointerBlock \/ FreeBlock \/ ClearInode \/ FreeInode
Continue ==
    \/ (Map \/ Free) /\ UNCHANGED <<mode, fd, kills, dropped>>
    \/ InitInode \/ WriteEntry \/ WriteData \/ RunOut \/ PutInode

Call ==
    \/ \E d \in Inodes, n \in Names :
        \/ Create(d, n) \/ Mkdir(d, n)
        \/ Delete(d, n) \/ Rmdir(d, n)
        \/ Open(d, n)
    \/ \E k \in Fds : Close(k)
    \/ \E k \in Fds, n \in 1 .. MaxWrite : Read(k, n) \/ Write(k, n)
    \/ \E i \in Inodes, lb \in 0 .. MaxSize, n \in 1 .. MaxWrite :
        FuseWrite(i, lb, n)

Next ==
    \/ \E m \in Modes : Start(m)
    \/ Exit
    \/ Kill
    \/ Call
    \/ Continue

(* A call in progress keeps running: nothing in it waits for anything. *)
Spec == Init /\ [][Next]_vars /\ WF_vars(Continue)

-----------------------------------------------------------------------------
(* What a reader of the disk finds. *)

(* The blocks an inode leads to, each with the number of levels below it. *)
Kids(P) == UNION {{<<c, p[2] - 1>> : c \in Children(p[1])} :
                    p \in {q \in P : q[2] > 0}}
Grow(P) == P \union Kids(P)
Tree(rec) == Grow(Grow(Grow(ToFree(rec))))    \* NLevel is at most 3

Forest == UNION {Tree(inode[i]) : i \in Linked}
Mapped == {p[1] : p \in Forest}
PointerBlocks == {p[1] : p \in {q \in Forest : q[2] > 0}}

(* inode_get_block with allocate = 0. *)
Lookup(rec, lb) ==
    LET index == Indices(lb)
        first == rec.ptr[SlotOf(lb)]
        Down(b, j) ==
            IF b = 0 \/ j > Len(index) THEN b ELSE array[b][index[j]]
    IN  IF first = 0 \/ index = <<>> THEN first
        ELSE Down(Down(Down(first, 1), 2), 3)

(* Pointers on disk to a block, from linked inodes and their pointer blocks. *)
PointersTo(b) ==
    ({"inode"} \X {l \in Linked \X Slots : inode[l[1]].ptr[l[2]] = b})
      \union
    ({"block"} \X {l \in PointerBlocks \X (0 .. NPtr - 1) :
                     array[l[1]][l[2]] = b})

(* No block belongs to two files, or to two places of one file, at any step
   and after any crash: a reused block can have no pointer left to it. *)
NoSharedBlock == \A b \in Blocks : Cardinality(PointersTo(b)) <= 1

(* What a path leads to is marked used in the bitmaps, at every step: neither
   a block nor an inode in use can be handed out again. *)
LinkedIsMarked == Mapped \subseteq bbm /\ Linked \subseteq ibm

(* A block used for pointers was cleared before anything led to it, on disk or
   in the inode of the call in progress. *)
PointersInitialised ==
    \A p \in ToFree(op.mem) \union Forest :
        p[2] > 0 /\ op.pc # "zero" => kind[p[1]] = "ptrs"

(* Directory entries form a tree of live inodes: an inode has one name, the
   root none, only a linked directory has entries, and no set of inodes is
   named by its own members alone, so every chain of names starts at the
   root. *)
EntriesFormTree ==
    /\ \A d \in Inodes, n \in Names : entry[d][n] # 0 => d \in Dirs
    /\ \A l, m \in Inodes \X Names :
        entry[l[1]][l[2]] = entry[m[1]][m[2]] /\ l # m => entry[l[1]][l[2]] = 0
    /\ Root \notin {entry[d][n] : d \in Inodes, n \in Names}
    /\ \A S \in SUBSET (Linked \ {Root}) : S # {} =>
         \E d \in Inodes \ S, n \in Names : entry[d][n] \in S

(* A directory that a path leads to has all its blocks on disk, from the step on
   in which its name appears and also if mkdir, or a call that gives its parent
   a new block, was killed in the middle. *)
DirectoriesWhole ==
    \A d \in Dirs :
        /\ inode[d].size > 0
        /\ \A lb \in 0 .. inode[d].size - 1 :
             LET b == Lookup(inode[d], lb) IN b # 0 /\ kind[b] = "data"

(* The interactive program leaves no holes: every block below the size is
   mapped and written, even if the last process died in the middle of a
   write, because size and root pointers reach the disk last. *)
NoHoles ==
    \A i \in Linked : \A lb \in 0 .. inode[i].size - 1 :
        LET b == Lookup(inode[i], lb) IN b # 0 /\ kind[b] = "data"

(* Two logical blocks, of one file or of two, never end up in one block: the
   thresholds and the divisions that pick a pointer (inode.c:92-388) fit
   together at every boundary between the levels of indirection, and a block
   freed from one file leads nowhere when another file gets it. *)
BlocksApart ==
    \A i \in Linked : \A lb1 \in 0 .. inode[i].size - 1 :
      LET b == Lookup(inode[i], lb1)
      IN  b # 0 => \A j \in Linked : \A lb2 \in 0 .. inode[j].size - 1 :
                     Lookup(inode[j], lb2) = b => i = j /\ lb1 = lb2

(* With FUSE a file can have holes, but a mapped block below the size was
   written since it was allocated, unless a process died inside a call. *)
MappedIsWritten ==
    op.pc = "idle" /\ kills = 0 =>
        \A i \in Linked : \A lb \in 0 .. inode[i].size - 1 :
            LET b == Lookup(inode[i], lb) IN b # 0 => kind[b] = "data"

(* Between calls exactly what paths lead to is marked used, failed calls
   included, unless a process died inside a call or a FUSE write dropped a
   pointer. *)
NoLeak ==
    op.pc = "idle" /\ kills = 0 /\ ~dropped => bbm = Mapped /\ ibm = Linked

(* test.txt:223: once every file is deleted the free block count is back at its
   initial value.  A process killed inside a call is excused, a FUSE write that
   loses a pointer is not. *)
CountsReturn ==
    op.pc = "idle" /\ kills = 0 /\ Linked = {Root} =>
        Cardinality(bbm) = inode[Root].size

(* An open file stays linked, is no directory, and its offset is covered by
   its size, so that the next write leaves no hole. *)
OpenFilesLive ==
    \A k \in Fds : fd[k].ino # 0 =>
        /\ fd[k].ino \in Linked \ Dirs
        /\ fd[k].off <= inode[fd[k].ino].size

(* Of a step of a write: the block about to be written is the one its number
   leads to in the local inode; where a number leads does not change; and at the
   return the inode on disk leads there too, unless the FUSE write returns
   without write_inode and drops the very pointer in front. *)
KeepsMapping ==
    op.call \in {"write", "fwrite"} =>
      \A i \in {op.ino}, lb \in 0 .. MaxSize - 1 :
        LET b == Lookup(op.mem, lb)
        IN  /\ op.pc = "data" /\ op.lb = lb => op.new = b
            /\ b # 0 =>
                 IF op'.pc # "idle" THEN Lookup(op.mem, lb)' = b
                 ELSE \/ Lookup(inode[i], lb)' = b
                      \/ /\ op.pc # "iput"
                         /\ op.mem.ptr[SlotOf(lb)] # inode[i].ptr[SlotOf(lb)]

(* What a write has written is what a later read finds: every block of every
   write, cut short or not, and what the file had before.  Excused are a kill
   and, behind a pointer that a FUSE write drops, that write's blocks. *)
WriteLands == [][mode' # "none" => KeepsMapping]_vars

(* Every call comes to an end. *)
CallsEnd == op.pc # "idle" ~> op.pc = "idle"

=============================================================================
