----------------------------- MODULE OscdfsOwners -----------------------------
(***************************************************************************)
(* Who owns the blocks of an oscdfs disk.  A map h gives each block the    *)
(* place that was chosen for it when it was allocated: the inode, the      *)
(* levels of pointer blocks below it, and the pointer meant to lead to it. *)
(* The predicates of this module say how the disk and the call in progress *)
(* agree with such a map; together they are the inductive invariant behind *)
(* NoSharedBlock, LinkedIsMarked, PointersInitialised, MappedIsWritten and *)
(* NoLeak.  Homes says how a step changes the map.  The last part adds     *)
(* what BlocksApart, NoHoles and WriteLands need.                          *)
(***************************************************************************)
EXTENDS Oscdfs

Place(i, level, at, k) == [ino |-> i, level |-> level, at |-> at, k |-> k]
Nowhere == Place(0, 0, 0, 0)
Places == [ino   : Inodes \union {0},
           level : 0 .. NLevel,
           at    : Blocks \union {0},   \* 0: the pointer is in the inode
           k     : Nat]
HomeMap == [Blocks -> Places]

(* The inodes whose blocks must be right: those a path leads to, and the one
   create or mkdir is about to name.  Those of delete, and of an undone mkdir,
   are being freed. *)
Making ==
    IF op.call \in {"create", "mkdir"} /\ op.pc \notin {"iinit", "free", "ifree"}
    THEN {op.ino} ELSE {}
Live == Linked \union Making
Doomed == IF op.pc = "free" THEN {op.ino} ELSE {}

Cleared(b, level) == level > 0 => kind[b] = "ptrs"

(* Every pointer leads to a block whose place is where the pointer is. *)
SlotsOwn(h, i, ptr) ==
    \A s \in Slots : ptr[s] # 0 =>
        /\ h[ptr[s]] = Place(i, DepthOf(s), 0, s)
        /\ Cleared(ptr[s], DepthOf(s))

InodesOwn(h) == \A i \in Live : SlotsOwn(h, i, inode[i].ptr)

MemOwns(h) ==
    /\ op.put \notin Live /\ op.pc # "ifree" =>
         \A s \in Slots : op.mem.ptr[s] = 0
    /\ \A s \in Slots :
         LET b == op.mem.ptr[s]
         IN  b # 0 =>
               /\ op.put \in Live => h[b] = Place(op.put, DepthOf(s), 0, s)
               /\ ~(op.pc = "zero" /\ b = op.new) => Cleared(b, DepthOf(s))

BlocksOwn(h) ==
    \A p \in Blocks, k \in 0 .. NPtr - 1 :
        LET c == array[p][k]
        IN  /\ h[p].ino \in Live \union Doomed /\ h[p].level > 0
            /\ kind[p] = "ptrs" /\ c # 0
            => /\ h[c] = Place(h[p].ino, h[p].level - 1, p, k)
               /\ h[p].ino \in Live => Cleared(c, h[p].level - 1)

(* What is owned is marked; what is free was not written since. *)
OwnedIsMarked(h) == \A b \in Blocks : h[b].ino \in Live => b \in bbm
FreeIsOld == \A b \in Blocks \ bbm : kind[b] = "old"
NoStrayPointers == \A b \in Blocks : kind[b] # "ptrs" => array[b] = Zeros

(* The walk of inode_get_block is where it believes to be. *)
WalkOwns(h) ==
    /\ op.pc \in {"walk", "zero", "link", "data", "iput"} => op.put \in Live
    /\ op.pc \in {"walk", "zero", "link"} =>
         /\ op.at = 0 => DepthOf(op.k) = Len(op.rest)
         /\ op.at # 0 => /\ h[op.at].ino = op.put
                         /\ h[op.at].level = Len(op.rest) + 1
                         /\ kind[op.at] = "ptrs"
    /\ op.pc \in {"zero", "link"} =>
         /\ op.new # 0
         /\ h[op.new] = Place(op.put, Len(op.rest), op.at, op.k)
    /\ op.pc = "zero" => op.rest # <<>>
    /\ op.pc = "link" => op.at # 0 /\ Cleared(op.new, Len(op.rest))
    /\ op.pc = "data" => op.new # 0 /\ h[op.new].ino = op.put
                         /\ h[op.new].level = 0

(* inode_free_blocks takes pointers at the level they are. *)
TodoOwns(h) ==
    op.pc = "free" =>
        \A j \in 1 .. Len(op.todo) :
            LET b == op.todo[j][1] level == op.todo[j][2]
            IN  b # 0 => h[b].ino = op.ino /\ (level > 0 => h[b].level = level)

Owned(h) ==
    /\ InodesOwn(h) /\ MemOwns(h) /\ BlocksOwn(h) /\ OwnedIsMarked(h)
    /\ WalkOwns(h) /\ TodoOwns(h) /\ FreeIsOld /\ NoStrayPointers

(* The map after a step: a block allocated gets the place the walk looks at, and
   an inode made anew owns nothing. *)
Homes(h) ==
    [b \in Blocks |->
        IF b \in bbm' \ bbm THEN Place(op.put, Len(op.rest), op.at, op.k)
        ELSE IF op.pc = "iinit" /\ op'.pc \in {"walk", "dirent"}
                /\ h[b].ino = op.ino THEN Nowhere
        ELSE h[b]]
FirstHomes ==
    [b \in Blocks |-> IF b = 1 THEN Place(Root, 0, 0, 0) ELSE Nowhere]

-----------------------------------------------------------------------------
(* The other direction: what is marked is owned, unless a process was killed
   inside a call or a FUSE write dropped a pointer. *)

(* The inode as the call in progress knows it. *)
Rec(i) == IF i = op.put THEN op.mem ELSE inode[i]

(* Which inode a call holds in memory, and that it has stored what it set.  A
   directory grows in its direct blocks only. *)
PutIsKnown ==
    /\ op.pc \in {"idle", "iinit"} => op.put = 0
    /\ op.call = "create" /\ op.pc # "iinit" => op.put = op.par
    /\ op.call = "mkdir" /\ op.pc # "iinit" => op.put \in {op.ino, op.par}
    /\ op.pc = "dirent" => op.put = op.par
    /\ op.call \in {"create", "mkdir"} =>
         /\ op.left = 0 /\ op.pc \notin {"zero", "link"}
         /\ op.pc = "walk" => op.rest = <<>> /\ op.at = 0
         /\ op.pc \in {"walk", "dirent", "free", "ifree"} /\ op.put = op.par
              => op.mem.ptr = inode[op.par].ptr

(* The pointer the new block goes to. *)
NewIsNew ==
    /\ op.pc = "zero" => kind[op.new] = "old"
    /\ op.pc = "zero" /\ op.at = 0 => op.mem.ptr[op.k] = op.new
    /\ op.pc \in {"zero", "link"} /\ op.at # 0 => array[op.at][op.k] = 0

(* The inode a call has taken, or not given back yet. *)
Taken == IF op.call \in {"create", "mkdir", "delete"} THEN {op.ino} ELSE {}
InodesExact == kills = 0 => ibm = Linked \union Taken

(* The pointer of b's place, in an inode or in a pointer block, leads to it. *)
InInode(h, b) ==
    /\ h[b].ino \in Live /\ h[b].at = 0 /\ h[b].k \in Slots
    /\ Rec(h[b].ino).ptr[h[b].k] = b
Under(h, b) ==
    LET at == h[b].at
    IN  /\ at \in bbm /\ h[b].k \in 0 .. NPtr - 1 /\ array[at][h[b].k] = b
        /\ kind[at] = "ptrs"
        /\ h[at].ino = h[b].ino /\ h[at].level = h[b].level + 1

Added(b) == op.pc \in {"zero", "link"} /\ op.new = b

(* inode_free_blocks is about to free b, or to read the pointer to it. *)
Listed(h, b) ==
    /\ op.pc = "free" /\ h[b].ino = op.ino
    /\ \/ \E j \in 1 .. Len(op.todo) : op.todo[j][1] = b
       \/ /\ Under(h, b)
          /\ \A j \in 1 .. Len(op.todo) :
               op.todo[j][1] = h[b].at => op.todo[j][2] > 0

Held(h, b) ==
    \/ InInode(h, b)
    \/ h[b].ino \in Live /\ Under(h, b)
    \/ Added(b)
    \/ Listed(h, b)

(* A new inode has no block as long as create or mkdir may free the inode
   alone. *)
Bare(h) ==
    /\ op.pc = "walk"
    /\ op.call = "create" \/ (op.call = "mkdir" /\ op.put # op.par)
    => \A b \in bbm : h[b].ino # op.ino

BlocksExact(h) ==
    kills = 0 /\ ~dropped => Bare(h) /\ \A b \in bbm : Held(h, b)

Exact(h) == PutIsKnown /\ NewIsNew /\ InodesExact /\ BlocksExact(h)

(* A data block of an inode in use is written, or it is the one the call is
   about to write. *)
Pending(b) ==
    \/ op.pc \in {"link", "data"} /\ b = op.new
    \/ op.pc = "walk" /\ Here = b
Written(h) ==
    kills = 0 =>
        \A b \in bbm : h[b].ino \in Live /\ h[b].level = 0 =>
            kind[b] = "data" \/ Pending(b)

-----------------------------------------------------------------------------
(* The way to a logical block, and what a process that grows a file knows. *)

(* The blocks inode_get_block goes through to the data of a logical block: one
   from the inode, each next one from the block before it. *)
Hop(arr, b, index, j) == IF b = 0 \/ j > Len(index) THEN b ELSE arr[b][index[j]]
Way(arr, rec, lb, n) ==
    LET way0 == rec.ptr[SlotOf(lb)]
        way1 == Hop(arr, way0, Indices(lb), 1)
        way2 == Hop(arr, way1, Indices(lb), 2)
        way3 == Hop(arr, way2, Indices(lb), 3)
    IN  IF n = 0 THEN way0 ELSE IF n = 1 THEN way1
        ELSE IF n = 2 THEN way2 ELSE way3

(* No call maps a block the indirection cannot reach. *)
InReach ==
    /\ \A i \in Inodes : inode[i].size <= Reach(NLevel)
    /\ op.pc \in {"walk", "zero", "link", "data"} =>
         op.lb + 1 <= Reach(NLevel) /\ op.lb + op.left <= Reach(NLevel)
    /\ op.pc = "iput" => op.lb <= Reach(NLevel)

(* The walk is on the way to the block it maps, and ends at its end. *)
OnWay ==
    /\ op.pc \in {"walk", "zero", "link"} =>
         LET index == Indices(op.lb)
             j == Len(index) - Len(op.rest)
         IN  /\ j >= 0 /\ \A m \in 1 .. Len(op.rest) : op.rest[m] = index[j + m]
             /\ op.at = 0 => j = 0 /\ op.k = SlotOf(op.lb)
             /\ op.at # 0 =>
                  /\ j >= 1 /\ op.at = Way(array, op.mem, op.lb, j - 1)
                  /\ op.k = index[j]
    /\ op.pc = "data" => op.new = Lookup(op.mem, op.lb)
    /\ op.pc = "iput" /\ op.left = 0 =>
         op.lb > 0 /\ op.new = Way(array, op.mem, op.lb - 1, 3)
    /\ op.call \in {"write", "fwrite"} /\ op.pc \in {"walk", "zero", "link", "data"}
         => op.left > 0

(* Every one of the first n blocks of a file is there and was written. *)
Filled(arr, knd, rec, n) ==
    \A lb \in 0 .. n - 1 :
        LET b == Way(arr, rec, lb, 3) IN b # 0 /\ knd[b] = "data"

(* What the interactive program alone keeps of its files. *)
HoleFree ==
    /\ mode # "fuse" /\ op.call \in {"none", "create", "write", "delete"}
    /\ \A i \in Live : Filled(array, kind, inode[i], inode[i].size)
    /\ op.pc \in {"walk", "zero", "link", "data", "iput"} =>
         /\ Filled(array, kind, op.mem, op.mem.size)
         /\ Filled(array, kind, op.mem, op.lb)

=============================================================================
