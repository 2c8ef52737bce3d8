---------------------------- MODULE OscdfsDisk ----------------------------
(***************************************************************************)
(* The blocks of an oscdfs disk image and the steps that map, fill and     *)
(* free them (inode.c, bitmap.c).                                          *)
(*                                                                         *)
(* oscdfs runs one call at a time, so the state is the disk plus the local *)
(* variables of the call in progress.  A step makes at most one block      *)
(* write visible (alloc_block and free_block count as one: BitmapAlloc     *)
(* looks inside them), so a crash between any two steps is a crash between *)
(* two writes of the code.                                                 *)
(*                                                                         *)
(* Block 0 and inode 0 stand for "none", as the zero pointers and zero     *)
(* directory entries of the code do.  Sizes and offsets count blocks.      *)
(*                                                                         *)
(* An operator right before another and named for an error (MarkedNever    *)
(* before Marked) is the same code with that error in it.  No              *)
(* specification uses it: it is there to check that the properties notice  *)
(* the error.  The same goes for Oscdfs.                                   *)
(***************************************************************************)
EXTENDS Integers, Sequences, FiniteSets

CONSTANTS
    NDirect,          \* direct pointers of an inode (12)
    NLevel,           \* indirection levels (3: single, double, triple)
    NPtr,             \* pointers in a pointer block (1024)
    NumBlocks,        \* data blocks of the image
    NumInodes,        \* inodes that can be allocated, root included
    Names,            \* file names
    EntriesPerBlock,  \* directory entries in a block (128)
    NumFds            \* slots of fd_table

Blocks == 1 .. NumBlocks
Inodes == 1 .. NumInodes
Root == 1
Slots == 0 .. NDirect + NLevel - 1
Fds == 1 .. NumFds

ASSUME DiskAssumption ==
    /\ NDirect \in Nat \ {0} /\ NLevel \in 1 .. 3 /\ NPtr \in Nat \ {0}
    /\ NumBlocks \in Nat \ {0} /\ NumInodes \in Nat \ {0}
    /\ NumFds \in Nat /\ EntriesPerBlock \in Nat \ {0}
    /\ IsFiniteSet(Names) /\ Names # {}
    \* 128 inodes and 128 entries a block: a directory never outgrows its
    \* direct blocks.
    /\ Cardinality(Names) + 2 <= EntriesPerBlock * NDirect

VARIABLES
    bbm,      \* block bitmap: blocks marked used
    ibm,      \* inode bitmap: inodes marked used
    inode,    \* the inode table
    kind,     \* what each block was last written as since it was allocated:
              \* "ptrs", "data", or "old" if it was not written since
    array,    \* the pointers in each block, if it was written as pointers
    entry,    \* entry[d][n]: the inode directory d names n, or 0
    op        \* the call in progress: its locals and what it does next

diskVars == <<bbm, ibm, inode, kind, array, entry>>

PtrArray == [0 .. NPtr - 1 -> Blocks \union {0}]
InodeRec == [dir  : BOOLEAN,
             ptr  : [Slots -> Blocks \union {0}],
             size : Nat]

Zeros == [k \in 0 .. NPtr - 1 |-> 0]
FreshInode(isDir) == [dir |-> isDir, ptr |-> [s \in Slots |-> 0], size |-> 0]

Calls == {"none", "create", "mkdir", "write", "fwrite", "delete"}
Points == {"idle", "iinit", "walk", "zero", "link", "data", "dirent", "iput",
           "free", "ifree"}

(* No call in progress. *)
Idle == [call |-> "none", pc |-> "idle", ino |-> 0, par |-> 0,
         name |-> CHOOSE n \in Names : TRUE, fd |-> 0, put |-> 0,
         mem |-> FreshInode(FALSE), lb |-> 0, left |-> 0,
         at |-> 0, k |-> 0, rest |-> <<>>, new |-> 0, todo |-> <<>>]

(* A pointer, or 0, and the levels of pointer blocks below it. *)
Piece == (Blocks \union {0}) \X (0 .. NLevel)

OpRec == [call : Calls, pc : Points,
          ino  : Inodes \union {0},   \* the inode the call is about
          par  : Inodes \union {0},   \* the directory that names it
          name : Names,
          fd   : Fds \union {0},
          mem  : InodeRec,            \* the local struct oscdfs_inode
          put  : Inodes \union {0},   \* the inode mem is a copy of
          lb   : Nat,                 \* logical block to map
          left : Nat,                 \* blocks still to write
          at   : Blocks \union {0},   \* pointer block looked at (0: mem)
          k    : Nat,                 \* pointer looked at, in it
          rest : Seq(0 .. NPtr - 1),  \* pointers to follow after that one
          new  : Blocks \union {0},   \* block being added or found
          todo : Seq(Piece)]          \* what inode_free_blocks will look at

DiskTypeOK ==
    /\ bbm \in SUBSET Blocks
    /\ ibm \in SUBSET Inodes
    /\ inode \in [Inodes -> InodeRec]
    /\ kind \in [Blocks -> {"old", "data", "ptrs"}]
    /\ array \in [Blocks -> PtrArray]
    /\ entry \in [Inodes -> [Names -> Inodes \union {0}]]
    /\ op \in OpRec

-----------------------------------------------------------------------------
(* Which pointers lead to a logical block. *)

(* Logical blocks behind one pointer of a pointer block at a level. *)
Span(level) == IF level = 0 THEN 1
               ELSE IF level = 1 THEN NPtr
               ELSE IF level = 2 THEN NPtr * NPtr ELSE NPtr * NPtr * NPtr

(* Logical blocks an inode can map with indirection up to a level. *)
Reach(level) == IF level = 0 THEN NDirect
                ELSE IF level = 1 THEN NDirect + Span(1)
                ELSE IF level = 2 THEN NDirect + Span(1) + Span(2)
                ELSE NDirect + Span(1) + Span(2) + Span(3)

(* The number of thresholds lb has passed; the last level has none. *)
LevelOf(lb) == Cardinality({level \in 0 .. NLevel - 1 : Reach(level) <= lb})

(* The slot of the inode to start from, and the index to take in each pointer
   block after it. *)
SlotOf(lb) == IF LevelOf(lb) = 0 THEN lb ELSE NDirect + LevelOf(lb) - 1
IndicesUndivided(lb) ==
    LET level == LevelOf(lb)
        offset == lb - Reach(level - 1)
    IN  [j \in 1 .. level |-> offset % NPtr]
Indices(lb) ==
    LET level == LevelOf(lb)
        offset == lb - Reach(level - 1)
    IN  [j \in 1 .. level |-> (offset \div Span(level - j)) % NPtr]

(* Pointer blocks between a slot and its data blocks. *)
DepthOfOneMore(slot) == IF slot < NDirect THEN 0 ELSE slot - NDirect + 2
DepthOf(slot) == IF slot < NDirect THEN 0 ELSE slot - NDirect + 1

(* The locals of inode_get_block(&mem, lb, 1) about to start. *)
WalkFrom(locals, lb) ==
    [locals EXCEPT !.pc = "walk", !.lb = lb, !.at = 0, !.new = 0,
                   !.k = SlotOf(lb), !.rest = Indices(lb)]

-----------------------------------------------------------------------------
(* inode_get_block with allocate = 1, one level at a time. *)

(* The pointer the walk looks at: in the local inode, or in block op.at. *)
Here == IF op.at = 0 THEN op.mem.ptr[op.k] ELSE array[op.at][op.k]

FollowPointer ==
    /\ op.pc = "walk"
    /\ Here # 0
    /\ op' = IF op.rest = <<>>
             THEN [op EXCEPT !.pc = "data", !.new = Here]
             ELSE [op EXCEPT !.at = Here, !.k = Head(op.rest),
                             !.rest = Tail(op.rest)]
    /\ UNCHANGED diskVars

(* The block bitmap once a block is allocated. *)
MarkedNever(b) == bbm
MarkedIfData(b) == IF op.rest = <<>> THEN bbm \union {b} ELSE bbm
Marked(b) == bbm \union {b}

(* alloc_block: the lowest free block.  A pointer of the inode is set in
   memory only; it reaches the disk with write_inode. *)
AllocBlock ==
    /\ op.pc = "walk"
    /\ Here = 0
    /\ \E b \in Blocks \ bbm :
        /\ \A c \in Blocks \ bbm : b <= c
        /\ bbm' = Marked(b)
        /\ op' = [op EXCEPT
             !.new = b,
             !.mem.ptr = IF op.at = 0 THEN [@ EXCEPT ![op.k] = b] ELSE @,
             !.pc = IF op.rest # <<>> THEN "zero"
                    ELSE IF op.at = 0 THEN "data" ELSE "link"]
    /\ UNCHANGED <<ibm, inode, kind, array, entry>>

(* A new pointer block is cleared before anything on disk points at it. *)
ZeroBlockNotWritten ==
    /\ op.pc = "zero"
    /\ op' = [op EXCEPT !.pc = IF op.at = 0 THEN "walk" ELSE "link"]
    /\ UNCHANGED diskVars
ZeroBlock ==
    /\ op.pc = "zero"
    /\ kind' = [kind EXCEPT ![op.new] = "ptrs"]
    /\ array' = [array EXCEPT ![op.new] = Zeros]
    /\ op' = [op EXCEPT !.pc = IF op.at = 0 THEN "walk" ELSE "link"]
    /\ UNCHANGED <<bbm, ibm, inode, entry>>

(* The pointer block that should point at the new block is written back. *)
LinkBlock ==
    /\ op.pc = "link"
    /\ array' = [array EXCEPT ![op.at][op.k] = op.new]
    /\ op' = [op EXCEPT !.pc = "walk"]
    /\ UNCHANGED <<bbm, ibm, inode, kind, entry>>

(* inode_get_block fails: a block is needed and none is free. *)
OutOfSpace == op.pc = "walk" /\ Here = 0 /\ Blocks \subseteq bbm

-----------------------------------------------------------------------------
(* inode_free_blocks and free_inode. *)

(* The blocks an inode points to, each with the number of levels below it. *)
ToFree(rec) ==
    {<<rec.ptr[s], DepthOf(s)>> : s \in {t \in Slots : rec.ptr[t] # 0}}

Children(b) == {array[b][k] : k \in 0 .. NPtr - 1} \ {0}

(* inode_free_blocks looks at the slots in order. *)
FreeListFlat(rec) == [j \in 1 .. NDirect + NLevel |-> <<rec.ptr[j - 1], 0>>]
FreeList(rec) ==
    [j \in 1 .. NDirect + NLevel |-> <<rec.ptr[j - 1], DepthOf(j - 1)>>]

(* The first pointer still to look at that is not 0. *)
FirstOf(j) ==
    /\ j \in 1 .. Len(op.todo)
    /\ op.todo[j][1] # 0
    /\ \A i \in 1 .. j - 1 : op.todo[i][1] = 0
Rest(j) == SubSeq(op.todo, j + 1, Len(op.todo))

(* A pointer block is read; what it points to is freed before the block. *)
Expanded(j) ==
    LET b == op.todo[j][1]
        below == [k \in 1 .. NPtr |-> <<array[b][k - 1], op.todo[j][2] - 1>>]
    IN  below \o <<<<b, 0>>>> \o Rest(j)

ExpandPointerBlock ==
    /\ op.pc = "free"
    /\ \E j \in 1 .. Len(op.todo) :
        /\ FirstOf(j)
        /\ op.todo[j][2] > 0
        /\ op' = [op EXCEPT !.todo = Expanded(j)]
    /\ UNCHANGED diskVars

(* free_block.  The bytes stay on disk, but they mean nothing to whoever gets
   the block next. *)
FreeBlock ==
    /\ op.pc = "free"
    /\ \E j \in 1 .. Len(op.todo) :
        /\ FirstOf(j)
        /\ op.todo[j][2] = 0
        /\ LET b == op.todo[j][1]
           IN  /\ bbm' = bbm \ {b}
               /\ kind' = [kind EXCEPT ![b] = "old"]
               /\ array' = [array EXCEPT ![b] = Zeros]
        /\ op' = [op EXCEPT !.todo = Rest(j)]
    /\ UNCHANGED <<ibm, inode, entry>>

(* The emptied inode is written, then its bit is cleared. *)
ClearInode ==
    /\ op.pc = "free"
    /\ \A j \in 1 .. Len(op.todo) : op.todo[j][1] = 0
    /\ inode' = [inode EXCEPT ![op.ino] = FreshInode(@.dir)]
    /\ op' = [op EXCEPT !.pc = "ifree"]
    /\ UNCHANGED <<bbm, ibm, kind, array, entry>>

FreeInode ==
    /\ op.pc = "ifree"
    /\ ibm' = ibm \ {op.ino}
    /\ op' = Idle
    /\ UNCHANGED <<bbm, inode, kind, array, entry>>

=============================================================================
