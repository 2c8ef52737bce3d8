--------------------------- MODULE OscdfsLeakProofs ---------------------------
(***************************************************************************)
(* What follows from the owner map of OscdfsBlockProofs, for every size of *)
(* the disk and of a pointer block.                                        *)
(*                                                                         *)
(* NoLeak, MappedIsWritten: the map says that what is owned is marked;     *)
(* here every marked block is shown to be held where the map says, by an   *)
(* inode, by a pointer block or by the call in progress.                   *)
(* BlocksApart: the place of a block gives the pointer that leads to it,   *)
(* so two lookups that meet came the same way, and then the slot and the   *)
(* digits of the two block numbers are the same.                           *)
(* WriteLands: the walk of a call is on the way a lookup takes, and no     *)
(* step of it changes the way above the pointer it is at.                  *)
(* NoHoles: what a call of the interactive program adds below the size, or *)
(* is about to count in it, is there and was written.                      *)
(***************************************************************************)
EXTENDS OscdfsBlockProofs

-----------------------------------------------------------------------------
(* Directories grow in their direct blocks. *)

LEMMA DirectHasNoIndices ==
    ASSUME NEW lb \in Nat, lb < NDirect PROVE Indices(lb) = <<>>
<1> DEFINE passed == {level \in 0 .. NLevel - 1 : Reach(level) <= lb}
<1>1. ASSUME NEW level PROVE Reach(level) >= NDirect
  <2>1. Span(1) \in Nat /\ Span(2) \in Nat /\ Span(3) \in Nat /\ NDirect \in Nat
    BY SpanType, DiskAssumption
  <2> QED BY <2>1 DEF Reach
<1>2. passed = {}
  <2>1. \A level : Reach(level) \in Nat /\ Reach(level) >= NDirect
    BY <1>1, ReachType
  <2> QED BY <2>1, DiskAssumption
<1>3. LevelOf(lb) = 0
  BY <1>2, FS_EmptySet DEF LevelOf
<1>4. Len(Indices(lb)) = 0 /\ Indices(lb) \in Seq(0 .. NPtr - 1)
  BY <1>3, IndicesLength, IndicesType
<1> QED BY <1>4

LEMMA FullDirIsSmall ==
    ASSUME TypeOK, NEW d \in Inodes, NEW n \in Names, entry[d][n] = 0,
           ~HasRoom(d)
    PROVE  inode[d].size \in Nat /\ inode[d].size < NDirect
<1> DEFINE size == inode[d].size
           used == {m \in Names : entry[d][m] # 0}
<1>1. size \in Nat
  BY DEF TypeOK, DiskTypeOK, InodeRec
<1>2. /\ IsFiniteSet(Names) /\ Cardinality(Names) \in Nat
      /\ EntriesPerBlock \in Nat \ {0} /\ NDirect \in Nat
      /\ Cardinality(Names) + 2 <= EntriesPerBlock * NDirect
  BY DiskAssumption, FS_CardinalityType
<1>3. IsFiniteSet(used) /\ Cardinality(used) \in Nat
      /\ Cardinality(used) < Cardinality(Names)
  <2>1. used \subseteq Names /\ used # Names
    OBVIOUS
  <2> HIDE DEF used
  <2>2. IsFiniteSet(used) /\ Cardinality(used) <= Cardinality(Names)
        /\ (Cardinality(used) = Cardinality(Names) => used = Names)
    BY <1>2, <2>1, FS_Subset
  <2>3. Cardinality(used) \in Nat
    BY <2>2, FS_CardinalityType
  <2> QED BY <1>2, <2>1, <2>2, <2>3
<1>4. EntriesPerBlock * size <= 2 + Cardinality(used)
  <2>1. EntriesPerBlock * size \in Nat
    BY <1>1, <1>2
  <2>2. ~(2 + Cardinality(used) < EntriesPerBlock * size)
    BY DEF HasRoom
  <2> HIDE DEF used, size
  <2> QED BY <1>3, <2>1, <2>2
<1> HIDE DEF size, used
<1>5. EntriesPerBlock * size < EntriesPerBlock * NDirect
  <2>1. EntriesPerBlock * size \in Nat /\ EntriesPerBlock * NDirect \in Nat
    BY <1>1, <1>2
  <2> QED BY <1>2, <1>3, <1>4, <2>1
<1>6. size < NDirect
  <2>1. ASSUME size >= NDirect PROVE FALSE
    <3>1. EntriesPerBlock * (size - NDirect) >= 0
      BY <1>1, <1>2, <2>1
    <3>2. EntriesPerBlock * size
            = EntriesPerBlock * NDirect + EntriesPerBlock * (size - NDirect)
      BY <1>1, <1>2
    <3> QED BY <1>1, <1>2, <1>5, <3>1, <3>2
  <2> QED BY <1>1, <1>2, <2>1
<1> QED BY <1>1, <1>6 DEF size

LEMMA DirsGrowDirectly ==
    ASSUME TypeOK, NEW d \in Inodes, NEW n \in Names, entry[d][n] = 0,
           ~HasRoom(d)
    PROVE  Indices(inode[d].size) = <<>>
BY FullDirIsSmall, DirectHasNoIndices

-----------------------------------------------------------------------------
(* What the operators on the locals of a call leave alone. *)

LEMMA WalkFromLocals ==
    ASSUME NEW o \in OpRec, NEW lb
    PROVE  /\ WalkFrom(o, lb).call = o.call /\ WalkFrom(o, lb).ino = o.ino
           /\ WalkFrom(o, lb).par = o.par /\ WalkFrom(o, lb).put = o.put
           /\ WalkFrom(o, lb).mem = o.mem /\ WalkFrom(o, lb).left = o.left
           /\ WalkFrom(o, lb).pc = "walk" /\ WalkFrom(o, lb).at = 0
           /\ WalkFrom(o, lb).rest = Indices(lb)
           /\ WalkFrom(o, lb).name = o.name /\ WalkFrom(o, lb).fd = o.fd
           /\ WalkFrom(o, lb).lb = lb /\ WalkFrom(o, lb).k = SlotOf(lb)
<1> DEFINE slot == SlotOf(lb)
           index == Indices(lb)
<1>1. WalkFrom(o, lb) = [o EXCEPT !.pc = "walk", !.lb = lb, !.at = 0,
                           !.new = 0, !.k = slot, !.rest = index]
  BY DEF WalkFrom
<1> HIDE DEF slot
<1>2. index = Indices(lb)
  OBVIOUS
<1> HIDE DEF index
<1>3. slot = SlotOf(lb)
  BY DEF slot
<1> QED BY <1>1, <1>2, <1>3 DEF OpRec

LEMMA AddEntryLocals ==
    ASSUME TypeOK, NEW o \in OpRec, o.par \in Inodes, o.name \in Names,
           entry[o.par][o.name] = 0
    PROVE  /\ AddEntry(o).call = o.call /\ AddEntry(o).ino = o.ino
           /\ AddEntry(o).par = o.par /\ AddEntry(o).put = o.par
           /\ AddEntry(o).left = o.left /\ AddEntry(o).mem = inode[o.par]
           /\ AddEntry(o).pc \in {"walk", "dirent"}
           /\ AddEntry(o).pc = "walk" =>
                /\ AddEntry(o).at = 0 /\ AddEntry(o).rest = <<>>
                /\ AddEntry(o).lb = inode[o.par].size
                /\ AddEntry(o).k = SlotOf(inode[o.par].size)
                /\ Indices(inode[o.par].size) = <<>>
                /\ inode[o.par].size < NDirect
<1> DEFINE mem == inode[o.par]
           parent == [o EXCEPT !.put = o.par, !.mem = mem]
<1>1. mem \in InodeRec
  BY DEF TypeOK, DiskTypeOK
<1>2. /\ parent \in OpRec /\ parent.mem = mem /\ parent.left = o.left
      /\ parent.call = o.call /\ parent.ino = o.ino /\ parent.par = o.par
      /\ parent.put = o.par
  <2> HIDE DEF mem
  <2>1. o.par \in Inodes \union {0} /\ parent = Taking(o, o.par, mem)
    BY DEF Taking
  <2> HIDE DEF parent
  <2>2. Took(parent, o, o.par, mem)
    BY <1>1, <2>1, WithInode
  <2> QED BY ONLY <2>2 DEF Took
<1>3. IF HasRoom(o.par) THEN AddEntry(o) = [parent EXCEPT !.pc = "dirent"]
      ELSE AddEntry(o) = WalkFrom(parent, parent.mem.size)
  BY DEF AddEntry
<1> HIDE DEF parent
<1>4. CASE HasRoom(o.par)
  BY <1>2, <1>3, <1>4 DEF OpRec
<1>5. CASE ~HasRoom(o.par)
  <2>1. Indices(mem.size) = <<>> /\ mem.size < NDirect /\ parent.mem.size = mem.size
    BY <1>2, <1>5, DirsGrowDirectly, FullDirIsSmall
  <2> QED BY <1>2, <1>3, <1>5, <2>1, WalkFromLocals
<1> QED BY <1>4, <1>5

-----------------------------------------------------------------------------
(* Which inode a call holds, and where the new block goes. *)

LEMMA IdleKnown ==
    op' = Idle => PutIsKnown' /\ NewIsNew' /\ op'.put = 0 /\ op'.pc = "idle"
                  /\ op'.call = "none"
<1> SUFFICES ASSUME op' = Idle
             PROVE  PutIsKnown' /\ NewIsNew' /\ op'.put = 0 /\ op'.pc = "idle"
                    /\ op'.call = "none"
  OBVIOUS
<1>1. op'.put = 0 /\ op'.pc = "idle" /\ op'.call = "none"
  BY IdleNames
<1> QED BY <1>1 DEF PutIsKnown, NewIsNew

(* The locals of create and mkdir stay what they are. *)
LEMMA KnownFrame ==
    ASSUME PutIsKnown,
           op'.call = op.call, op'.ino = op.ino, op'.par = op.par,
           op'.put = op.put, op'.left = op.left,
           op.pc \notin {"idle", "iinit"}, op'.pc \notin {"idle", "iinit", "dirent"},
           op.call \in {"create", "mkdir"} =>
             /\ op'.pc \notin {"walk", "zero", "link"}
             /\ op'.pc \in {"free", "ifree"} /\ op.put = op.par =>
                  /\ op.pc \in {"walk", "dirent", "free", "ifree"}
                  /\ op'.mem.ptr = op.mem.ptr
                  /\ inode'[op.par].ptr = inode[op.par].ptr
    PROVE  PutIsKnown'
BY DEF PutIsKnown

LEMMA FollowKnown ==
    ASSUME NameInv, PutIsKnown, FollowPointer
    PROVE  PutIsKnown' /\ NewIsNew'
<1>1. /\ SameLocals /\ op'.mem = op.mem /\ op.pc = "walk"
      /\ op'.pc = IF op.rest = <<>> THEN "data" ELSE "walk"
  BY FollowLocals DEF NameInv
<1>2. op.call \in {"create", "mkdir"} => op.rest = <<>>
  BY <1>1 DEF PutIsKnown
<1>3. op'.pc \in {"walk", "data"} /\ (op.call \in {"create", "mkdir"} => op'.pc = "data")
  BY <1>1, <1>2
<1> QED BY <1>1, <1>3, KnownFrame DEF SameLocals, NewIsNew

LEMMA AllocKnown ==
    ASSUME NameInv, FreeIsOld, PutIsKnown, AllocBlock
    PROVE  PutIsKnown' /\ NewIsNew'
<1>1. PICK b \in Blocks \ bbm :
        /\ SameLocals /\ op.pc = "walk" /\ Here = 0
        /\ bbm' = bbm \union {b}
        /\ UNCHANGED <<ibm, inode, kind, array, entry>>
        /\ op'.new = b /\ op'.at = op.at /\ op'.k = op.k
        /\ op'.rest = op.rest
        /\ op'.pc = (IF op.rest # <<>> THEN "zero"
                     ELSE IF op.at = 0 THEN "data" ELSE "link")
        /\ op.at = 0 => op'.mem.ptr = [op.mem.ptr EXCEPT ![op.k] = b]
  BY AllocLocals DEF NameInv
<1>2. op.call \in {"create", "mkdir"} => op'.pc = "data"
  BY <1>1 DEF PutIsKnown
<1>3. PutIsKnown'
  BY <1>1, <1>2, KnownFrame DEF SameLocals
<1>4. kind'[op'.new] = "old"
  BY <1>1 DEF FreeIsOld
<1>5. op'.at = 0 => op'.mem.ptr[op'.k] = op'.new
  <2>1. op.at = 0 => op.k \in Slots
    BY <1>1 DEF NameInv, TypeInv, OpShape
  <2>2. op.mem.ptr \in [Slots -> Blocks \union {0}]
    BY OpTypes DEF NameInv
  <2> QED BY <1>1, <2>1, <2>2
<1>6. op'.at # 0 => array'[op'.at][op'.k] = 0
  BY <1>1 DEF Here
<1>7. NewIsNew'
  BY <1>4, <1>5, <1>6 DEF NewIsNew
<1> QED BY <1>3, <1>7

LEMMA ZeroKnown ==
    ASSUME NameInv, NEW h \in HomeMap, Owned(h), PutIsKnown, NewIsNew, ZeroBlock
    PROVE  PutIsKnown' /\ NewIsNew'
<1>1. /\ SameLocals /\ op.pc = "zero" /\ op'.mem = op.mem
      /\ op'.at = op.at /\ op'.k = op.k /\ op'.new = op.new
      /\ op'.pc = (IF op.at = 0 THEN "walk" ELSE "link")
      /\ inode' = inode
  BY ZeroLocals DEF NameInv
<1>2. op.call \notin {"create", "mkdir"}
  BY <1>1 DEF PutIsKnown
<1>3. PutIsKnown'
  BY <1>1, <1>2, KnownFrame DEF SameLocals
<1>4. ASSUME op.at # 0 PROVE array'[op.at][op.k] = 0
  <2>1. op.at \in Blocks /\ op.new \in Blocks /\ op.k \in 0 .. NPtr - 1
    BY <1>1, <1>4, OpTypes DEF NameInv, OpShape, Owned, WalkOwns
  <2>2. array \in [Blocks -> PtrArray] /\ array[op.at][op.k] = 0
    BY <1>1, <1>4 DEF NewIsNew, NameInv, TypeInv, TypeOK, DiskTypeOK
  <2>3. array' = [array EXCEPT ![op.new] = Zeros]
    BY DEF ZeroBlock
  <2> QED BY <2>1, <2>2, <2>3 DEF Zeros
<1>5. NewIsNew'
  BY <1>1, <1>4 DEF NewIsNew
<1> QED BY <1>3, <1>5

LEMMA LinkKnown ==
    ASSUME NameInv, PutIsKnown, LinkBlock
    PROVE  PutIsKnown' /\ NewIsNew'
<1>1. /\ SameLocals /\ op.pc = "link" /\ op'.mem = op.mem
      /\ op'.pc = "walk" /\ inode' = inode
  BY LinkLocals DEF NameInv
<1>2. op.call \notin {"create", "mkdir"}
  BY <1>1 DEF PutIsKnown
<1>3. PutIsKnown'
  BY <1>1, <1>2, KnownFrame DEF SameLocals
<1> QED BY <1>1, <1>3 DEF NewIsNew

LEMMA FreeKnown ==
    ASSUME NameInv, PutIsKnown, Free
    PROVE  PutIsKnown' /\ NewIsNew'
<1>0. op \in OpRec /\ TypeInv
  BY DEF NameInv, TypeInv, TypeOK, DiskTypeOK
<1>1. ASSUME NEW todo, op.pc = "free", op' = [op EXCEPT !.todo = todo],
             inode' = inode
      PROVE  PutIsKnown' /\ NewIsNew'
  <2>1. /\ op'.call = op.call /\ op'.ino = op.ino /\ op'.par = op.par
        /\ op'.put = op.put /\ op'.left = op.left /\ op'.mem = op.mem
        /\ op'.pc = op.pc
    BY <1>0, <1>1 DEF OpRec
  <2> QED BY <1>1, <2>1, KnownFrame DEF NewIsNew
<1>2. CASE ExpandPointerBlock
  BY <1>1, <1>2 DEF ExpandPointerBlock, diskVars
<1>3. CASE FreeBlock
  BY <1>1, <1>3 DEF FreeBlock
<1>4. CASE ClearInode
  <2>1. /\ op.pc = "free" /\ op' = [op EXCEPT !.pc = "ifree"]
        /\ inode' = [inode EXCEPT ![op.ino] = FreshInode(@.dir)]
        /\ inode \in [Inodes -> InodeRec]
    BY <1>0, <1>4 DEF ClearInode, TypeInv, TypeOK, DiskTypeOK
  <2>2. /\ op'.call = op.call /\ op'.ino = op.ino /\ op'.par = op.par
        /\ op'.put = op.put /\ op'.left = op.left /\ op'.mem = op.mem
        /\ op'.pc = "ifree"
    BY <1>0, <2>1 DEF OpRec
  <2>3. op.call \in {"create", "mkdir"} => inode'[op.par] = inode[op.par]
    <3>1. op.call \in {"create", "mkdir"} =>
            op.par \in Inodes /\ op.par # op.ino
      BY <1>0 DEF NameInv, OpNames, Dirs, TypeInv, OpShape
    <3> QED BY <2>1, <3>1
  <2> QED BY <2>1, <2>2, <2>3, KnownFrame DEF NewIsNew
<1>5. CASE FreeInode
  BY <1>5, IdleKnown DEF FreeInode
<1> QED BY <1>2, <1>3, <1>4, <1>5 DEF Free

LEMMA NewInodeKnown ==
    ASSUME NEW call \in {"create", "mkdir"}, NEW d \in Inodes, NEW n \in Names,
           NewInode(call, d, n)
    PROVE  PutIsKnown' /\ NewIsNew' /\ op'.put = 0 /\ op'.pc = "iinit"
           /\ op'.call = call
<1>1. PICK i \in Inodes :
        op' = [Idle EXCEPT !.call = call, !.pc = "iinit",
                           !.ino = i, !.par = d, !.name = n]
  BY DEF NewInode
<1>2. op'.put = 0 /\ op'.pc = "iinit" /\ op'.left = 0 /\ op'.call = call
  BY <1>1 DEF Idle
<1> QED BY <1>2 DEF PutIsKnown, NewIsNew

LEMMA RemoveKnown ==
    ASSUME NEW d, NEW n, Remove(d, n)
    PROVE  PutIsKnown' /\ NewIsNew' /\ op'.put = 0
<1>1. op'.put = 0 /\ op'.pc = "free" /\ op'.call = "delete"
  BY DEF Remove, Idle
<1> QED BY <1>1 DEF PutIsKnown, NewIsNew

LEMMA BeginWriteKnown ==
    ASSUME TypeInv, NEW call \in {"write", "fwrite"}, NEW i \in Inodes,
           NEW k \in Fds \union {0}, NEW lb \in Nat, NEW n \in Nat,
           BeginWrite(call, i, k, lb, n)
    PROVE  /\ PutIsKnown' /\ NewIsNew'
           /\ op'.put = i /\ op'.mem = inode[i] /\ op'.pc = "walk"
           /\ op'.call = call
<1> DEFINE start == [Idle EXCEPT !.call = call, !.ino = i, !.put = i,
                       !.mem = inode[i], !.fd = k, !.left = n]
<1>1. op' = WalkFrom(start, lb)
  BY DEF BeginWrite
<1>2. start \in OpRec /\ start.put = i /\ start.mem = inode[i] /\ start.call = call
  <2> DEFINE mem == inode[i]
  <2>1. mem \in InodeRec
    BY DEF TypeInv, TypeOK, DiskTypeOK
  <2>2. start = [Idle EXCEPT !.call = call, !.ino = i, !.put = i,
                       !.mem = mem, !.fd = k, !.left = n]
    OBVIOUS
  <2>3. Idle \in OpRec /\ call \in Calls
    BY IdleType DEF Calls
  <2>4. mem = inode[i]
    OBVIOUS
  <2> HIDE DEF mem, start
  <2> QED BY <2>1, <2>2, <2>3, <2>4 DEF OpRec
<1> HIDE DEF start
<1>3. op'.put = i /\ op'.mem = inode[i] /\ op'.pc = "walk" /\ op'.call = call
  BY <1>1, <1>2, WalkFromLocals
<1> QED BY <1>3 DEF PutIsKnown, NewIsNew

(* What add_entry and mkdir's first block start with, at the call's second
   step and after mkdir's first write_inode. *)
LEMMA AddEntryKnown ==
    ASSUME NameInv, op.call \in {"create", "mkdir"}, op.left = 0,
           op' = AddEntry(op), inode'[op.par].ptr = inode[op.par].ptr
    PROVE  /\ PutIsKnown' /\ NewIsNew'
           /\ op'.call = op.call /\ op'.ino = op.ino /\ op'.put = op.par
           /\ op'.mem = inode[op.par] /\ op'.pc \in {"walk", "dirent"}
           /\ op'.par = op.par
<1>1. /\ TypeOK /\ op \in OpRec /\ op.par \in Inodes /\ op.name \in Names
      /\ entry[op.par][op.name] = 0
  BY DEF NameInv, OpNames, TypeInv, TypeOK, DiskTypeOK, OpShape, OpRec
<1>2. /\ op'.call = op.call /\ op'.ino = op.ino
      /\ op'.par = op.par /\ op'.put = op.par
      /\ op'.left = op.left /\ op'.mem = inode[op.par]
      /\ op'.pc \in {"walk", "dirent"}
      /\ op'.pc = "walk" => op'.at = 0 /\ op'.rest = <<>>
  BY <1>1, AddEntryLocals
<1>3. PutIsKnown'
  BY <1>2 DEF PutIsKnown
<1> QED BY <1>2, <1>3 DEF NewIsNew

LEMMA InitInodeKnown ==
    ASSUME NameInv, PutIsKnown, InitInode
    PROVE  /\ PutIsKnown' /\ NewIsNew'
           /\ op'.call = op.call /\ op'.ino = op.ino
           /\ op'.pc \in {"walk", "dirent"}
           /\ op.call = "create" => op'.put = op.par /\ op'.mem = inode[op.par]
           /\ op.call = "mkdir" => op'.put = op.ino /\ op'.mem = FreshInode(TRUE)
           /\ inode' = [inode EXCEPT ![op.ino] = FreshInode(op.call = "mkdir")]
           /\ op.call \in {"create", "mkdir"} /\ op.put = 0
           /\ op.par \in Inodes /\ op.par \in Linked
           /\ op.ino \in Inodes /\ op.ino \notin Linked
           /\ inode'[op.par] = inode[op.par]
<1> DEFINE new == FreshInode(op.call = "mkdir")
<1>1. /\ TypeOK /\ op \in OpRec /\ op.pc = "iinit"
      /\ op.call \in {"create", "mkdir"} /\ op.put = 0 /\ op.left = 0
      /\ op.par \in Inodes /\ op.par \in Linked
      /\ op.ino \in Inodes /\ op.ino \notin Linked
      /\ inode \in [Inodes -> InodeRec]
      /\ inode' = [inode EXCEPT ![op.ino] = new]
  BY DEF InitInode, NameInv, OpNames, Dirs, TypeInv, TypeOK, DiskTypeOK, OpShape,
     PutIsKnown
<1>2. inode'[op.par] = inode[op.par]
  BY <1>1
<1>3. CASE op.call = "create"
  <2>1. op' = AddEntry(op)
    BY <1>3 DEF InitInode
  <2> QED BY <1>1, <1>2, <1>3, <2>1, AddEntryKnown
<1>4. CASE op.call = "mkdir"
  <2> DEFINE start == [op EXCEPT !.put = op.ino, !.mem = new]
  <2>1. op' = WalkFrom(start, 0)
    BY <1>4 DEF InitInode
  <2>2. new \in InodeRec /\ new = FreshInode(TRUE)
    BY <1>4, FreshType
  <2>3. /\ start \in OpRec /\ start.put = op.ino /\ start.mem = new
        /\ start.call = op.call /\ start.ino = op.ino /\ start.par = op.par
        /\ start.left = 0
    <3> HIDE DEF new
    <3>1. op.ino \in Inodes \union {0} /\ start = Taking(op, op.ino, new)
      BY <1>1 DEF Taking
    <3>2. op \in OpRec /\ op.left = 0 /\ new \in InodeRec
      BY <1>1, <2>2
    <3> HIDE DEF start
    <3>3. Took(start, op, op.ino, new)
      BY ONLY <3>1, <3>2, WithInode
    <3> QED BY ONLY <3>2, <3>3 DEF Took
  <2> HIDE DEF start
  <2>4. Indices(0) = <<>>
    BY DirectHasNoIndices, DiskAssumption
  <2>5. /\ op'.call = op.call /\ op'.ino = op.ino /\ op'.par = op.par
        /\ op'.put = op.ino /\ op'.mem = new /\ op'.left = 0
        /\ op'.pc = "walk" /\ op'.at = 0 /\ op'.rest = <<>>
    BY <2>1, <2>3, <2>4, WalkFromLocals
  <2>6. PutIsKnown'
    BY <1>1, <1>4, <2>5 DEF PutIsKnown
  <2>7. NewIsNew'
    BY <2>5 DEF NewIsNew
  <2> QED BY <1>1, <1>2, <1>4, <2>2, <2>5, <2>6, <2>7
<1> QED BY <1>1, <1>3, <1>4

LEMMA WriteDataKnown ==
    ASSUME NameInv, PutIsKnown, WriteData
    PROVE  /\ PutIsKnown' /\ NewIsNew'
           /\ \/ op' = Idle /\ op.call = "fwrite"
                 /\ (~dropped' => op.mem.ptr = inode[op.ino].ptr)
              \/ /\ op'.call = op.call /\ op'.ino = op.ino /\ op'.put = op.put
                 /\ op'.mem.ptr = op.mem.ptr /\ op'.pc \in {"walk", "iput"}
                 /\ op'.pc = "walk" => op.call \notin {"create", "mkdir"}
<1>0. op \in OpRec /\ op.pc = "data" /\ op.left \in Nat /\ op.lb \in Nat
  BY OpTypes DEF WriteData, NameInv
<1>1. CASE op.left > 1
  <2> DEFINE start == [op EXCEPT !.left = @ - 1]
  <2>1. op' = WalkFrom(start, op.lb + 1)
    BY <1>1 DEF WriteData
  <2>2. /\ start \in OpRec /\ start.call = op.call /\ start.ino = op.ino
        /\ start.put = op.put /\ start.mem = op.mem
    BY <1>0, <1>1 DEF OpRec
  <2> HIDE DEF start
  <2>3. /\ op'.call = op.call /\ op'.ino = op.ino /\ op'.put = op.put
        /\ op'.mem = op.mem /\ op'.pc = "walk"
    BY <2>1, <2>2, WalkFromLocals
  <2>4. op.call \notin {"create", "mkdir"}
    BY <1>0, <1>1 DEF PutIsKnown
  <2> QED BY <2>3, <2>4 DEF PutIsKnown, NewIsNew
<1>2. CASE ~(op.left > 1) /\ op.call = "fwrite" /\ op.lb + 1 <= op.mem.size
  <2>1. ReturnWithoutInode
    BY <1>2 DEF WriteData
  <2> QED BY <1>2, <2>1, IdleKnown DEF ReturnWithoutInode
<1>3. CASE ~(op.left > 1) /\ ~(op.call = "fwrite" /\ op.lb + 1 <= op.mem.size)
  <2>1. op' = [op EXCEPT !.pc = "iput", !.lb = @ + 1, !.left = 0]
    BY <1>3 DEF WriteData
  <2>2. /\ op'.call = op.call /\ op'.ino = op.ino /\ op'.put = op.put
        /\ op'.par = op.par /\ op'.mem = op.mem /\ op'.pc = "iput" /\ op'.left = 0
    BY <1>0, <2>1 DEF OpRec
  <2>3. PutIsKnown'
    BY <1>0, <2>2 DEF PutIsKnown
  <2> QED BY <2>2, <2>3 DEF NewIsNew
<1> QED BY <1>1, <1>2, <1>3

LEMMA RunOutKnown ==
    ASSUME NameInv, PutIsKnown, RunOut
    PROVE  /\ PutIsKnown' /\ NewIsNew' /\ op.pc = "walk" /\ Here = 0
           /\ \/ op' = Idle /\ op.call = "fwrite"
                 /\ (~dropped' => op.mem.ptr = inode[op.ino].ptr)
              \/ /\ op'.call = op.call /\ op'.ino = op.ino /\ op'.put = op.put
                 /\ op'.mem = op.mem
                 /\ \/ op.call = "write" /\ op'.pc = "iput"
                    \/ op.call \in {"create", "mkdir"} /\ op'.pc = "ifree"
                       /\ ~(op.call = "mkdir" /\ op.put = op.par)
                    \/ op.call = "mkdir" /\ op.put = op.par /\ op'.pc = "free"
                       /\ op'.todo = FreeList(inode[op.ino])
<1>0. op \in OpRec /\ op.pc = "walk" /\ Here = 0 /\ inode' = inode
  BY OpTypes DEF RunOut, OutOfSpace, NameInv, diskVars
<1>1. CASE op.call = "write" /\ op' = CutShort
  <2>1. /\ op'.call = op.call /\ op'.ino = op.ino /\ op'.put = op.put
        /\ op'.mem = op.mem /\ op'.pc = "iput"
    BY <1>0, <1>1 DEF CutShort, OpRec
  <2> QED BY <1>0, <1>1, <2>1 DEF PutIsKnown, NewIsNew
<1>2. CASE op.call = "fwrite" /\ ReturnWithoutInode
  BY <1>0, <1>2, IdleKnown DEF ReturnWithoutInode
<1>3. CASE op.call \in {"create", "mkdir"} /\ op' = Undo
  <2>1. /\ op'.call = op.call /\ op'.ino = op.ino /\ op'.put = op.put
        /\ op'.mem = op.mem /\ op'.par = op.par /\ op'.left = op.left
        /\ IF op.call = "mkdir" /\ op.put = op.par
           THEN op'.pc = "free" /\ op'.todo = FreeList(inode[op.ino])
           ELSE op'.pc = "ifree"
    <3>1. CASE op.call = "mkdir" /\ op.put = op.par
      <4> DEFINE todo == FreeList(inode[op.ino])
      <4>1. op' = [op EXCEPT !.pc = "free", !.todo = todo]
        BY <1>3, <3>1 DEF Undo
      <4> HIDE DEF todo
      <4>2. /\ op'.call = op.call /\ op'.ino = op.ino /\ op'.put = op.put
            /\ op'.mem = op.mem /\ op'.par = op.par /\ op'.left = op.left
            /\ op'.pc = "free" /\ op'.todo = todo
        BY <1>0, <4>1 DEF OpRec
      <4> QED BY <3>1, <4>2 DEF todo
    <3>2. CASE ~(op.call = "mkdir" /\ op.put = op.par)
      <4>1. op' = [op EXCEPT !.pc = "ifree"]
        BY <1>3, <3>2 DEF Undo
      <4> QED BY <1>0, <3>2, <4>1 DEF OpRec
    <3> QED BY <3>1, <3>2
  <2>2. PutIsKnown'
    BY <1>0, <1>3, <2>1, KnownFrame
  <2>3. NewIsNew'
    BY <2>1 DEF NewIsNew
  <2> QED BY <1>0, <1>3, <2>1, <2>2, <2>3
<1> QED BY <1>1, <1>2, <1>3 DEF RunOut

LEMMA PutInodeKnown ==
    ASSUME NameInv, PutIsKnown, NEW h \in HomeMap, Owned(h), PutInode
    PROVE  /\ PutIsKnown' /\ NewIsNew' /\ op.pc = "iput" /\ op.put \in Inodes
           /\ inode'[op.put].ptr = op.mem.ptr
           /\ \A i \in Inodes : i # op.put => inode'[i] = inode[i]
           /\ \/ op' = Idle /\ (op.call \in {"create", "mkdir"} => op.put = op.par)
              \/ /\ op.call = "mkdir" /\ op.put = op.ino /\ op.put # op.par
                 /\ op'.call = op.call /\ op'.ino = op.ino
                 /\ op'.put = op.par /\ op'.mem = inode[op.par]
                 /\ op'.par = op.par /\ op'.pc \in {"walk", "dirent"}
<1>0. /\ TypeInv /\ op \in OpRec /\ op.pc = "iput" /\ op.put \in Live
      /\ inode \in [Inodes -> InodeRec]
  BY OpTypes DEF PutInode, NameInv, TypeInv, TypeOK, DiskTypeOK, Owned, WalkOwns
<1>1. op.put \in Inodes
  BY <1>0, LiveInodes
<1> DEFINE rec == Stored
<1>2. rec.ptr = op.mem.ptr
  <2> DEFINE size == IF op.lb > op.mem.size THEN op.lb ELSE op.mem.size
  <2>1. rec = [op.mem EXCEPT !.size = size] /\ op.mem \in InodeRec
    BY <1>0, OpTypes DEF Stored, InodeRec
  <2> HIDE DEF rec, size
  <2> QED BY <2>1 DEF InodeRec
<1>3. inode' = [inode EXCEPT ![op.put] = rec]
  BY DEF PutInode
<1> HIDE DEF rec
<1>4. /\ inode'[op.put].ptr = op.mem.ptr
      /\ \A i \in Inodes : i # op.put => inode'[i] = inode[i]
  BY <1>0, <1>1, <1>2, <1>3
<1>5. CASE op.call = "mkdir" /\ op.put = op.ino
  <2>1. op' = AddEntry(op)
    BY <1>5 DEF PutInode
  <2>2. op.par \in Inodes /\ op.put # op.par
    BY <1>0, <1>5 DEF NameInv, OpNames, Dirs, TypeInv, OpShape
  <2>3. inode'[op.par] = inode[op.par] /\ op.left = 0
    BY <1>4, <1>5, <2>2 DEF PutIsKnown
  <2> QED BY <1>0, <1>1, <1>4, <1>5, <2>1, <2>2, <2>3, AddEntryKnown
<1>6. CASE ~(op.call = "mkdir" /\ op.put = op.ino)
  <2>1. op' = Idle
    BY <1>6 DEF PutInode
  <2>2. op.call \in {"create", "mkdir"} => op.put = op.par
    BY <1>0, <1>6 DEF PutIsKnown
  <2> QED BY <1>0, <1>1, <1>4, <2>1, <2>2, IdleKnown
<1> QED BY <1>5, <1>6

-----------------------------------------------------------------------------
(* The inode bitmap. *)

LEMMA InodesFrame ==
    ASSUME InodesExact, kills' = kills, ibm' = ibm, entry' = entry,
           \/ op'.call = op.call /\ op'.ino = op.ino
           \/ op'.call \notin {"create", "mkdir", "delete"}
              /\ op.call \notin {"create", "mkdir", "delete"}
    PROVE  InodesExact'
BY DEF InodesExact, Taken, Linked

(* alloc_inode, free_inode and the directory entries keep in step. *)
LEMMA InodesStep ==
    ASSUME NameInv, NameInv', PutIsKnown, InodesExact,
           NEW h \in HomeMap, Owned(h), [Next]_vars
    PROVE  InodesExact'
<1>0. /\ op \in OpRec /\ TypeInv /\ TypeInv' /\ kills \in Nat
      /\ op.pc = "idle" => op.call = "none"
  BY CallAssumption DEF NameInv, OpNames, TypeInv, TypeOK, DiskTypeOK
<1>1. ASSUME UNCHANGED <<diskVars, op, kills>> PROVE InodesExact'
  BY <1>1, InodesFrame DEF diskVars
<1>2. CASE Exit \/ Kill
  <2>1. CASE Exit
    <3>1. /\ op.call = "none" /\ op'.call = "none" /\ kills' = kills
          /\ ibm' = ibm /\ entry' = entry
      BY <1>0, <2>1, IdleNames DEF Exit, Gone, diskVars
    <3> QED BY <3>1, InodesFrame
  <2>2. CASE Kill
    <3>1. kills' = kills + 1
      BY <2>2 DEF Kill
    <3> QED BY <1>0, <3>1 DEF InodesExact
  <2> QED BY <1>2, <2>1, <2>2
<1>3. ASSUME NEW call \in {"create", "mkdir"}, NEW d \in Inodes, NEW n \in Names,
             op.pc = "idle", NewInode(call, d, n)
      PROVE  InodesExact'
  <2>1. PICK i \in Inodes :
          /\ ibm' = ibm \union {i}
          /\ op' = [Idle EXCEPT !.call = call, !.pc = "iinit",
                                !.ino = i, !.par = d, !.name = n]
    BY <1>3 DEF NewInode
  <2>2. op'.call = call /\ op'.ino = i /\ kills' = kills /\ Linked' = Linked
    <3>1. op'.call = call /\ op'.ino = i
      BY ONLY <2>1 DEF Idle
    <3>2. kills' = kills /\ entry' = entry
      BY <1>3 DEF NewInode
    <3> QED BY <3>1, <3>2 DEF Linked
  <2>3. op.call = "none"
    BY <1>0, <1>3
  <2> QED BY <2>1, <2>2, <2>3 DEF InodesExact, Taken
<1>4. ASSUME NEW d \in Inodes, NEW n \in Names, op.pc = "idle", Remove(d, n)
      PROVE  InodesExact'
  <2>1. /\ op'.call = "delete" /\ op'.ino = entry[d][n]
        /\ ibm' = ibm /\ kills' = kills
    BY <1>4 DEF Remove, Idle
  <2>2. Linked' = Linked \ {entry[d][n]} /\ entry[d][n] \in Linked
    BY <1>0, <1>4, LinkedAfterRemove DEF Remove
  <2>3. op.call = "none"
    BY <1>0, <1>4
  <2> QED BY <2>1, <2>2, <2>3 DEF InodesExact, Taken
<1>5. ASSUME NEW call \in {"write", "fwrite"}, NEW i \in Inodes,
             NEW k \in Fds \union {0}, NEW lb \in Nat, NEW n \in Nat,
             op.pc = "idle", BeginWrite(call, i, k, lb, n)
      PROVE  InodesExact'
  <2>1. op'.call = call /\ op.call = "none"
    BY <1>0, <1>5, BeginWriteKnown
  <2>2. UNCHANGED <<ibm, entry, kills>>
    BY <1>5 DEF BeginWrite, diskVars
  <2> QED BY <2>1, <2>2, InodesFrame
<1>6. CASE Call
  <2>1. ASSUME NEW d \in Inodes, NEW n \in Names,
               \/ Create(d, n) \/ Mkdir(d, n)
               \/ Delete(d, n) \/ Rmdir(d, n)
               \/ Open(d, n)
        PROVE  InodesExact'
    BY <1>1, <1>3, <1>4, <2>1
       DEF Create, Mkdir, Delete, Rmdir, Open, Ready
  <2>2. ASSUME NEW k \in Fds, Close(k) PROVE InodesExact'
    BY <1>1, <2>2 DEF Close
  <2>3. ASSUME NEW k \in Fds, NEW n \in 1 .. MaxWrite, Read(k, n) \/ Write(k, n)
        PROVE  InodesExact'
    <3>1. CASE Read(k, n)
      BY <1>1, <3>1 DEF Read
    <3>2. CASE Write(k, n)
      <4>1. /\ fd[k].ino \in Inodes /\ fd[k].off \in Nat /\ n \in Nat
            /\ op.pc = "idle"
            /\ BeginWrite("write", fd[k].ino, k, fd[k].off, n)
        BY <1>0, <3>2 DEF Write, Ready, TypeInv, TypeOK
      <4> QED BY <1>5, <4>1
    <3> QED BY <2>3, <3>1, <3>2
  <2>4. ASSUME NEW i \in Inodes, NEW lb \in 0 .. MaxSize, NEW n \in 1 .. MaxWrite,
               FuseWrite(i, lb, n)
        PROVE  InodesExact'
    BY <1>5, <2>4 DEF FuseWrite, Ready
  <2> QED BY <1>6, <2>1, <2>2, <2>3, <2>4 DEF Call
<1>7. CASE Map /\ UNCHANGED <<mode, fd, kills, dropped>>
  <2>1. ibm' = ibm /\ entry' = entry /\ kills' = kills
    BY <1>7 DEF Map, FollowPointer, AllocBlock, ZeroBlock, LinkBlock, diskVars
  <2>2. op'.call = op.call /\ op'.ino = op.ino
    BY <1>0, <1>7, FollowLocals, AllocLocals, ZeroLocals, LinkLocals
       DEF Map, SameLocals
  <2> QED BY <2>1, <2>2, InodesFrame
<1>8. CASE Free /\ UNCHANGED <<mode, fd, kills, dropped>>
  <2>1. CASE FreeInode
    <3>1. /\ op.pc = "ifree" /\ ibm' = ibm \ {op.ino} /\ op'.call = "none"
          /\ Linked' = Linked /\ kills' = kills
      BY <1>8, <2>1, IdleNames DEF FreeInode, Linked
    <3>2. op.call \in {"create", "mkdir", "delete"} /\ op.ino \notin Linked
      BY <3>1, FreeFacts
    <3> QED BY <3>1, <3>2 DEF InodesExact, Taken
  <2>2. CASE ~FreeInode
    <3>1. ibm' = ibm /\ entry' = entry /\ kills' = kills
      BY <1>8, <2>2
         DEF Free, ExpandPointerBlock, FreeBlock, ClearInode, diskVars
    <3>2. op'.call = op.call /\ op'.ino = op.ino
      <4>1. ASSUME NEW todo, op' = [op EXCEPT !.todo = todo]
            PROVE  op'.call = op.call /\ op'.ino = op.ino
        BY <1>0, <4>1 DEF OpRec
      <4>2. CASE ClearInode
        BY <1>0, <4>2 DEF ClearInode, OpRec
      <4> QED BY <1>8, <2>2, <4>1, <4>2 DEF Free, ExpandPointerBlock, FreeBlock
    <3> QED BY <3>1, <3>2, InodesFrame
  <2> QED BY <2>1, <2>2
<1>9. CASE InitInode
  <2>1. op'.call = op.call /\ op'.ino = op.ino
    BY <1>9, InitInodeKnown
  <2>2. UNCHANGED <<ibm, entry, kills>>
    BY <1>9 DEF InitInode
  <2> QED BY <2>1, <2>2, InodesFrame
<1>10. ASSUME op.call \in {"create", "mkdir"}, ibm' = ibm, kills' = kills,
              entry' = [entry EXCEPT ![op.par][op.name] = op.ino], op' = Idle
       PROVE  InodesExact'
  <2>1. Linked' = Linked \union {op.ino} /\ op'.call = "none"
    BY <1>0, <1>10, LinkedAfterNaming, IdleNames
  <2> QED BY <1>10, <2>1 DEF InodesExact, Taken
<1>11. CASE WriteEntry
  <2>1. op.call \in {"create", "mkdir"}
    BY <1>0, <1>11 DEF WriteEntry, NameInv, OpNames, OpRec, Calls
  <2> QED BY <1>10, <1>11, <2>1 DEF WriteEntry
<1>12. CASE WriteData
  <2>1. UNCHANGED <<ibm, entry, kills>>
    BY <1>12, WriteDataEntries DEF WriteData
  <2>2. \/ op' = Idle /\ op.call = "fwrite"
        \/ op'.call = op.call /\ op'.ino = op.ino
    BY <1>12, WriteDataKnown
  <2> QED BY <2>1, <2>2, InodesFrame, IdleNames
<1>13. CASE RunOut
  <2>1. UNCHANGED <<ibm, entry, kills>>
    BY <1>13 DEF RunOut, diskVars
  <2>2. \/ op' = Idle /\ op.call = "fwrite"
        \/ op'.call = op.call /\ op'.ino = op.ino
    BY <1>13, RunOutKnown
  <2> QED BY <2>1, <2>2, InodesFrame, IdleNames
<1>14. CASE PutInode
  <2>1. /\ op.pc = "iput"
        /\ \/ op' = Idle /\ (op.call \in {"create", "mkdir"} => op.put = op.par)
           \/ /\ op.call = "mkdir" /\ op.put = op.ino /\ op.put # op.par
              /\ op'.call = op.call /\ op'.ino = op.ino
    BY <1>14, PutInodeKnown
  <2>2. UNCHANGED <<ibm, kills>>
    BY <1>14 DEF PutInode
  <2>3. CASE op.put = op.par
    <3>1. op.call \in {"create", "mkdir"}
      <4>1. op.put \in Inodes
        BY <1>14, PutInodeKnown
      <4>2. op.call \notin {"write", "fwrite"}
        BY <2>3, <4>1, RootIsInode DEF NameInv, OpNames
      <4> QED BY <1>0, <2>1, <4>2 DEF NameInv, OpNames, OpRec, Calls
    <3>2. entry' = [entry EXCEPT ![op.par][op.name] = op.ino]
      BY <1>14, <2>3 DEF PutInode
    <3> QED BY <1>10, <2>1, <2>2, <2>3, <3>1, <3>2
  <2>4. CASE op.put # op.par
    <3>1. entry' = entry
      BY <1>14, <2>4 DEF PutInode
    <3>2. op.call # "delete"
      BY <2>1 DEF NameInv, OpNames
    <3> QED BY <2>1, <2>2, <2>4, <3>1, <3>2, InodesFrame, IdleNames
  <2> QED BY <2>3, <2>4
<1>15. CASE Continue
  BY <1>7, <1>8, <1>9, <1>11, <1>12, <1>13, <1>14, <1>15 DEF Continue
<1>16. ASSUME NEW m \in Modes, Start(m) PROVE InodesExact'
  BY <1>1, <1>16 DEF Start
<1>17. CASE UNCHANGED vars
  BY <1>1, <1>17 DEF vars
<1> QED BY <1>2, <1>6, <1>15, <1>16, <1>17 DEF Next

-----------------------------------------------------------------------------
(* Steps that change no pointer. *)

LEMMA WrittenFrame ==
    ASSUME NEW h \in HomeMap, Written(h), kills' = kills,
           bbm' \subseteq bbm, Live' \subseteq Live,
           \A b \in bbm : h[b].ino \in Live /\ h[b].level = 0 =>
             /\ kind[b] = "data" => kind'[b] = "data"
             /\ Pending(b) => kind'[b] = "data" \/ Pending(b)'
    PROVE  Written(h)'
BY DEF Written

LEMMA StillHeld ==
    ASSUME NEW h \in HomeMap, NEW b, Held(h, b), op.pc \notin {"zero", "link", "free"},
           UNCHANGED <<bbm, kind, array>>,
           h[b].ino \in Live => /\ h[b].ino \in Live'
                                /\ Rec(h[b].ino)'.ptr = Rec(h[b].ino).ptr
    PROVE  Held(h, b)'
<1>1. CASE InInode(h, b)
  BY <1>1 DEF InInode, Held
<1>2. CASE h[b].ino \in Live /\ Under(h, b)
  BY <1>2 DEF Under, Held
<1> QED BY <1>1, <1>2 DEF Held, Added, Listed

(* The step keeps the inodes in use and what is known of them. *)
LEMMA ExactFrame ==
    ASSUME NEW h \in HomeMap, BlocksExact(h), Written(h),
           op.pc \notin {"zero", "link", "free"},
           UNCHANGED <<bbm, kind, array, kills>>, Live' = Live,
           ~dropped' => ~dropped /\ \A i \in Live : Rec(i)'.ptr = Rec(i).ptr,
           op'.pc = "walk" =>
             \/ op'.call \notin {"create", "mkdir"}
             \/ op'.call = "mkdir" /\ op'.put = op'.par,
           \A b \in bbm : h[b].ino \in Live /\ h[b].level = 0 =>
             (Pending(b) => kind'[b] = "data" \/ Pending(b)')
    PROVE  BlocksExact(h)' /\ Written(h)'
<1>1. Written(h)'
  BY WrittenFrame
<1>2. Bare(h)'
  BY DEF Bare
<1>3. ASSUME kills' = 0, ~dropped', NEW b \in bbm' PROVE Held(h, b)'
  <2>1. b \in bbm /\ Held(h, b)
    BY <1>3 DEF BlocksExact
  <2> QED BY <1>3, <2>1, StillHeld
<1> QED BY <1>1, <1>2, <1>3 DEF BlocksExact

LEMMA StillExact ==
    ASSUME NEW h \in HomeMap, BlocksExact(h), Written(h),
           UNCHANGED <<diskVars, op, kills, dropped>>
    PROVE  BlocksExact(h)' /\ Written(h)'
<1>1. UNCHANGED <<bbm, inode, kind, array, entry, op, kills, dropped>>
  BY DEF diskVars
<1>2. Live' = Live
  BY <1>1 DEF Live, Making, Linked
<1>3. \A b : Pending(b)' = Pending(b)
  BY <1>1 DEF Pending, Here
<1>4. Written(h)'
  BY <1>1, <1>2, <1>3 DEF Written
<1>5. \A b : Held(h, b)' = Held(h, b)
  <2>1. \A b : InInode(h, b)' = InInode(h, b)
    BY <1>1, <1>2 DEF InInode, Rec
  <2>2. \A b : Under(h, b)' = Under(h, b)
    BY <1>1 DEF Under
  <2>3. \A b : Listed(h, b)' = Listed(h, b)
    BY <1>1, <2>2 DEF Listed
  <2>4. \A b : Added(b)' = Added(b)
    BY <1>1 DEF Added
  <2> QED BY <1>2, <2>1, <2>2, <2>3, <2>4 DEF Held
<1>6. BlocksExact(h)'
  BY <1>1, <1>5 DEF BlocksExact, Bare
<1> QED BY <1>4, <1>6

LEMMA KilledExact ==
    ASSUME NEW h, kills' # 0
    PROVE  BlocksExact(h)' /\ Written(h)'
BY DEF BlocksExact, Written

(* What is known of an inode once no call has a copy of it. *)
LEMMA ReturnRec ==
    ASSUME op'.put = 0, NEW i \in Inodes PROVE Rec(i)' = inode'[i]
BY RootIsInode DEF Rec

LEMMA IdleLive ==
    ASSUME op.call \notin {"create", "mkdir"} \/ op.pc \in {"iinit", "free", "ifree"}
    PROVE  Live = Linked
BY DEF Live, Making

LEMMA LiveIdle == ASSUME op' = Idle PROVE Live' = Linked'
BY IdleNames DEF Live, Making

LEMMA ExitExact ==
    ASSUME NameInv, PutIsKnown, NEW h \in HomeMap, BlocksExact(h), Written(h), Exit
    PROVE  BlocksExact(h)' /\ Written(h)'
<1>1. /\ op.pc = "idle" /\ op' = Idle /\ op'.pc = "idle" /\ op'.put = 0
      /\ op.put = 0 /\ op.call = "none"
      /\ UNCHANGED <<bbm, kind, array, inode, entry, kills, dropped>>
  BY IdleNames DEF Exit, Gone, diskVars, PutIsKnown, NameInv, OpNames
<1>2. Live = Linked /\ Live' = Linked' /\ Linked' = Linked
  BY <1>1, IdleLive, LiveIdle DEF Linked
<1>3. \A i \in Live : Rec(i)' = Rec(i)
  BY <1>1, <1>2, ReturnRec, RootIsInode, LiveInodes DEF Rec
<1> QED BY <1>1, <1>2, <1>3, ExactFrame DEF Pending

LEMMA NewInodeExact ==
    ASSUME NameInv, PutIsKnown, NEW h \in HomeMap, BlocksExact(h), Written(h),
           op.pc = "idle",
           NEW call \in {"create", "mkdir"}, NEW d \in Inodes, NEW n \in Names,
           NewInode(call, d, n)
    PROVE  BlocksExact(h)' /\ Written(h)'
<1>1. /\ op'.pc = "iinit" /\ op'.put = 0 /\ op.put = 0 /\ op.call = "none"
      /\ UNCHANGED <<bbm, kind, array, inode, entry, kills, dropped>>
  <2>1. op'.pc = "iinit" /\ op'.put = 0
    BY NewInodeKnown
  <2>2. op.put = 0
    BY DEF PutIsKnown
  <2>3. op.call = "none"
    BY DEF NameInv, OpNames
  <2> QED BY <2>1, <2>2, <2>3 DEF NewInode
<1>2. Live = Linked /\ Live' = Linked' /\ Linked' = Linked
  BY <1>1 DEF Live, Making, Linked
<1>3. \A i \in Live : Rec(i)' = Rec(i)
  BY <1>1, <1>2, ReturnRec, RootIsInode, LiveInodes DEF Rec
<1> QED BY <1>1, <1>2, <1>3, ExactFrame DEF Pending

LEMMA BeginWriteExact ==
    ASSUME NameInv, PutIsKnown, NEW h \in HomeMap, BlocksExact(h), Written(h),
           op.pc = "idle", NEW call \in {"write", "fwrite"}, NEW i \in Inodes,
           NEW k \in Fds \union {0}, NEW lb \in Nat, NEW n \in Nat,
           BeginWrite(call, i, k, lb, n)
    PROVE  BlocksExact(h)' /\ Written(h)'
<1>1. /\ op'.pc = "walk" /\ op'.put = i /\ op'.mem = inode[i] /\ op'.call = call
      /\ op.put = 0 /\ op.call = "none"
  BY BeginWriteKnown DEF PutIsKnown, NameInv, OpNames
<1>2. UNCHANGED <<bbm, kind, array, inode, entry, kills, dropped>>
  BY DEF BeginWrite, diskVars
<1>3. Live = Linked /\ Live' = Linked' /\ Linked' = Linked
  BY <1>1, <1>2 DEF Live, Making, Linked
<1>4. \A j \in Live : Rec(j)' = Rec(j)
  BY <1>1, <1>2, <1>3, RootIsInode, LiveInodes DEF Rec
<1> QED BY <1>1, <1>2, <1>3, <1>4, ExactFrame DEF Pending

LEMMA WriteEntryExact ==
    ASSUME NameInv, NameInv', PutIsKnown, NEW h \in HomeMap,
           BlocksExact(h), Written(h), WriteEntry
    PROVE  BlocksExact(h)' /\ Written(h)'
<1>1. /\ op.pc = "dirent" /\ op.put = op.par /\ op' = Idle /\ op'.put = 0
      /\ op'.pc = "idle"
      /\ UNCHANGED <<bbm, kind, array, inode, kills, dropped>>
      /\ entry' = [entry EXCEPT ![op.par][op.name] = op.ino]
  BY IdleNames DEF WriteEntry, PutIsKnown
<1>2. op.call \in {"create", "mkdir"}
  BY <1>1 DEF NameInv, OpNames, TypeInv, TypeOK, DiskTypeOK, OpRec, Calls
<1>3. Live = Linked \union {op.ino} /\ Live' = Linked' /\ Live' = Live
  <2>1. Linked' = Linked \union {op.ino}
    BY <1>1, <1>2, LinkedAfterNaming DEF NameInv
  <2> QED BY <1>1, <1>2, <2>1, LiveIdle DEF Live, Making
<1>4. op.mem.ptr = inode[op.par].ptr
  BY <1>1, <1>2 DEF PutIsKnown
<1>5. \A i \in Live : Rec(i)'.ptr = Rec(i).ptr
  BY <1>1, <1>4, ReturnRec, LiveInodes DEF Rec
<1> QED BY <1>1, <1>3, <1>5, ExactFrame DEF Pending

LEMMA FollowExact ==
    ASSUME NameInv, PutIsKnown, NEW h \in HomeMap, Owned(h),
           BlocksExact(h), Written(h), FollowPointer, UNCHANGED <<kills, dropped>>
    PROVE  BlocksExact(h)' /\ Written(h)'
<1>1. /\ SameLocals /\ op'.mem = op.mem /\ op.pc = "walk" /\ Here # 0
      /\ UNCHANGED <<bbm, kind, array, inode, entry>>
      /\ op.rest = <<>> => op'.pc = "data" /\ op'.new = Here
      /\ op.rest # <<>> => op'.pc = "walk"
  BY FollowLocals DEF NameInv, diskVars
<1>2. Live' = Live
  BY <1>1, LiveStays DEF SameLocals
<1>3. \A i \in Live : Rec(i)' = Rec(i)
  BY <1>1 DEF Rec, SameLocals
<1>4. op'.pc = "walk" => op'.call \notin {"create", "mkdir"}
  BY <1>1 DEF SameLocals, PutIsKnown
<1>5. ASSUME NEW b \in bbm, h[b].level = 0, Pending(b)
      PROVE  kind'[b] = "data" \/ Pending(b)'
  <2>1. b = Here
    BY <1>1, <1>5 DEF Pending
  <2>2. h[Here] = Place(op.put, Len(op.rest), op.at, op.k)
    BY <1>1, HereOwns DEF NameInv
  <2>3. Len(op.rest) = 0
    BY <1>5, <2>1, <2>2, PlaceFields
  <2>4. op.rest = <<>>
    <3>1. op.rest \in Seq(0 .. NPtr - 1)
      BY OpTypes DEF NameInv
    <3> QED BY <2>3, <3>1
  <2> QED BY <1>1, <2>1, <2>4 DEF Pending
<1>6. op.pc \notin {"zero", "link", "free"} /\ kills' = kills
  BY <1>1
<1> QED BY <1>1, <1>2, <1>3, <1>4, <1>5, <1>6, ExactFrame

LEMMA FreeInodeExact ==
    ASSUME NameInv, PutIsKnown, NEW h \in HomeMap,
           BlocksExact(h), Written(h), FreeInode, UNCHANGED <<kills, dropped>>
    PROVE  BlocksExact(h)' /\ Written(h)'
<1>1. /\ op.pc = "ifree" /\ op' = Idle /\ op'.put = 0 /\ op'.pc = "idle"
      /\ UNCHANGED <<bbm, kind, array, inode, entry>>
  BY IdleNames DEF FreeInode
<1>2. op.ino \notin Linked /\ Live = Linked /\ op.call \in {"create", "mkdir", "delete"}
  BY <1>1, FreeFacts
<1>3. Live' = Live
  BY <1>1, <1>2, LiveIdle DEF Linked
<1>4. op.put \in Linked => op.put = op.par /\ op.mem.ptr = inode[op.par].ptr
  <2>1. op.call = "delete" => op.put = 0
    BY DEF NameInv, OpNames
  <2>2. Linked \subseteq Inodes
    BY LinkedInodes DEF NameInv, TypeInv
  <2> QED BY <1>1, <1>2, <2>1, <2>2, RootIsInode DEF PutIsKnown
<1>5. \A i \in Live : Rec(i)'.ptr = Rec(i).ptr
  BY <1>1, <1>2, <1>4, ReturnRec, LiveInodes DEF Rec
<1> QED BY <1>1, <1>3, <1>5, ExactFrame DEF Pending

LEMMA PutInodeExact ==
    ASSUME NameInv, NameInv', PutIsKnown, NEW h \in HomeMap, Owned(h),
           BlocksExact(h), Written(h), PutInode
    PROVE  BlocksExact(h)' /\ Written(h)'
<1>1. /\ op.pc = "iput" /\ op.put \in Inodes
      /\ inode'[op.put].ptr = op.mem.ptr
      /\ \A i \in Inodes : i # op.put => inode'[i] = inode[i]
      /\ \/ op' = Idle /\ (op.call \in {"create", "mkdir"} => op.put = op.par)
         \/ /\ op.call = "mkdir" /\ op.put = op.ino /\ op.put # op.par
            /\ op'.call = op.call /\ op'.ino = op.ino
            /\ op'.put = op.par /\ op'.mem = inode[op.par]
            /\ op'.par = op.par /\ op'.pc \in {"walk", "dirent"}
  BY PutInodeKnown
<1>2. UNCHANGED <<bbm, kind, array, kills, dropped>>
  BY DEF PutInode
<1>3. \A i \in Inodes : inode'[i].ptr = Rec(i).ptr
  BY <1>1 DEF Rec
<1>4. CASE op' = Idle /\ (op.call \in {"create", "mkdir"} => op.put = op.par)
  <2>1. op'.put = 0 /\ op'.pc = "idle"
    BY <1>4, IdleNames
  <2>2. \A i \in Live : Rec(i)'.ptr = Rec(i).ptr
    BY <1>3, <2>1, ReturnRec, LiveInodes
  <2>3. Live' = Live
    <3>1. CASE op.call \in {"create", "mkdir"}
      <4>1. entry' = [entry EXCEPT ![op.par][op.name] = op.ino]
        BY <1>4, <3>1 DEF PutInode
      <4>2. Linked' = Linked \union {op.ino}
        BY <3>1, <4>1, LinkedAfterNaming DEF NameInv
      <4> QED BY <1>1, <1>4, <3>1, <4>2, LiveIdle DEF Live, Making
    <3>2. CASE op.call \notin {"create", "mkdir"}
      <4>1. op.call \in {"write", "fwrite"}
        BY <1>1, <3>2, OpTypes DEF NameInv, OpNames, OpRec, Calls
      <4>2. op.put # op.par
        BY <1>1, <4>1, RootIsInode DEF NameInv, OpNames
      <4>3. entry' = entry
        BY <4>2 DEF PutInode
      <4> QED BY <1>4, <3>2, <4>3, LiveIdle, IdleLive DEF Linked
    <3> QED BY <3>1, <3>2
  <2> QED BY <1>1, <1>2, <2>1, <2>2, <2>3, ExactFrame DEF Pending
<1>5. CASE /\ op.call = "mkdir" /\ op.put = op.ino /\ op.put # op.par
           /\ op'.call = op.call /\ op'.ino = op.ino
           /\ op'.put = op.par /\ op'.mem = inode[op.par]
           /\ op'.par = op.par /\ op'.pc \in {"walk", "dirent"}
  <2>1. entry' = entry
    BY <1>5 DEF PutInode
  <2>2. Live' = Live
    BY <1>1, <1>5, <2>1, LiveStays
  <2>3. \A i \in Inodes : Rec(i)'.ptr = Rec(i).ptr
    BY <1>3, <1>5 DEF Rec
  <2>4. \A i \in Live : Rec(i)'.ptr = Rec(i).ptr
    BY <2>3, LiveInodes
  <2> QED BY <1>1, <1>2, <1>5, <2>2, <2>4, ExactFrame DEF Pending
<1> QED BY <1>1, <1>4, <1>5

(* A new inode owns nothing yet, so the map that forgets what it owned before
   still accounts for every marked block. *)
LEMMA InitInodeExact ==
    ASSUME NameInv, PutIsKnown, NEW h \in HomeMap, Owned(h),
           BlocksExact(h), Written(h), InitInode, NEW g, g = Homes(h)
    PROVE  BlocksExact(g)' /\ Written(g)'
<1>1. /\ op.pc = "iinit" /\ op.call \in {"create", "mkdir"} /\ op.put = 0
      /\ op'.call = op.call /\ op'.ino = op.ino /\ op'.pc \in {"walk", "dirent"}
      /\ op.call = "create" => op'.put = op.par /\ op'.mem = inode[op.par]
      /\ op.call = "mkdir" => op'.put = op.ino /\ op'.mem = FreshInode(TRUE)
      /\ inode' = [inode EXCEPT ![op.ino] = FreshInode(op.call = "mkdir")]
      /\ op.ino \in Inodes /\ op.ino \notin Linked
  BY InitInodeKnown DEF InitInode
<1>2. UNCHANGED <<bbm, kind, array, entry, kills, dropped>>
  BY DEF InitInode
<1>3. Live = Linked /\ Live' = Linked \union {op.ino} /\ Linked \subseteq Inodes
  <2>1. Linked \subseteq Inodes
    BY LinkedInodes DEF NameInv, TypeInv
  <2> QED BY <1>1, <1>2, <2>1 DEF Live, Making, Linked
<1>4. \A b \in Blocks : g[b] = IF h[b].ino = op.ino THEN Nowhere ELSE h[b]
  BY <1>1, <1>2 DEF Homes
<1>5. Nowhere.ino = 0 /\ op.ino # 0
  BY <1>1, RootIsInode DEF Nowhere, Place
<1>6. \A i \in Linked : Rec(i)'.ptr = Rec(i).ptr
  <2>1. \A i \in Linked : inode'[i] = inode[i]
    BY <1>1, <1>3 DEF NameInv, TypeInv, TypeOK, DiskTypeOK
  <2> QED BY <1>1, <1>3, <2>1, RootIsInode DEF Rec
<1>7. bbm \subseteq Blocks
  BY DEF NameInv, TypeInv, TypeOK, DiskTypeOK
<1>8. Written(g)'
  <2> SUFFICES ASSUME kills = 0, NEW b \in bbm, g[b].ino \in Live', g[b].level = 0
               PROVE  kind[b] = "data"
    BY <1>2 DEF Written
  <2>1. g[b].ino # 0
    BY <1>3, <1>5, RootIsInode
  <2>2. g[b] = h[b] /\ h[b].ino \in Live
    BY <1>3, <1>4, <1>5, <1>7, <2>1
  <2> QED BY <1>1, <2>2 DEF Written, Pending
<1>9. ASSUME kills' = 0, ~dropped' PROVE Bare(g)' /\ \A b \in bbm' : Held(g, b)'
  <2>1. \A b \in bbm : Held(h, b)
    BY <1>2, <1>9 DEF BlocksExact
  <2>2. \A b \in bbm :
          h[b].ino \in Linked /\ (InInode(h, b) \/ Under(h, b)) /\ g[b] = h[b]
    BY <1>1, <1>3, <1>4, <1>7, <2>1 DEF Held, InInode, Added, Listed
  <2>3. \A b \in bbm : g[b].ino # op.ino
    BY <1>1, <2>2
  <2>4. Bare(g)'
    BY <1>1, <1>2, <2>3 DEF Bare
  <2>5. ASSUME NEW b \in bbm PROVE Held(g, b)'
    <3>1. h[b].ino \in Linked /\ h[b].ino \in Live' /\ g[b] = h[b]
      BY <1>3, <2>2
    <3>2. CASE InInode(h, b)
      BY <1>6, <3>1, <3>2 DEF InInode, Held
    <3>3. CASE Under(h, b)
      <4>1. h[b].at \in bbm /\ g[h[b].at] = h[h[b].at]
        BY <2>2, <3>3 DEF Under
      <4> QED BY <1>2, <3>1, <3>3, <4>1 DEF Under, Held
    <3> QED BY <2>2, <3>2, <3>3
  <2> QED BY <1>2, <2>4, <2>5
<1> QED BY <1>8, <1>9 DEF BlocksExact

-----------------------------------------------------------------------------
(* The steps of inode_get_block and of the write. *)

(* Blocks may be written and marked as long as those that hold pointers keep
   them. *)
LEMMA HeldWhere ==
    ASSUME NEW h \in HomeMap, NEW b \in Blocks, InInode(h, b) \/ Under(h, b),
           bbm \subseteq bbm', bbm \subseteq Blocks, h[b].ino \in Live',
           Rec(h[b].ino)'.ptr = Rec(h[b].ino).ptr
             \/ (InInode(h, b) => Rec(h[b].ino)'.ptr[h[b].k] = b),
           \A p \in bbm : p = h[b].at /\ h[p].level > 0 /\ kind[p] = "ptrs" =>
             kind'[p] = "ptrs" /\ array'[p][h[b].k] = array[p][h[b].k]
    PROVE  Held(h, b)'
<1>1. CASE InInode(h, b)
  BY <1>1 DEF InInode, Held
<1>2. CASE Under(h, b)
  <2> DEFINE p == h[b].at
  <2>1. p \in bbm /\ h[p].level = h[b].level + 1 /\ h[b].level \in Nat
    BY <1>2, HomeTypes DEF Under
  <2>2. kind'[p] = "ptrs" /\ array'[p][h[b].k] = array[p][h[b].k]
    BY <1>2, <2>1 DEF Under
  <2> QED BY <1>2, <2>1, <2>2 DEF Under, Held
<1> QED BY <1>1, <1>2

LEMMA AllocExact ==
    ASSUME NameInv, PutIsKnown, NEW h \in HomeMap, Owned(h),
           BlocksExact(h), Written(h), AllocBlock, UNCHANGED <<kills, dropped>>,
           NEW g, g = Homes(h)
    PROVE  BlocksExact(g)' /\ Written(g)'
<1>1. PICK b \in Blocks \ bbm :
        /\ SameLocals /\ op.pc = "walk" /\ Here = 0
        /\ bbm' = bbm \union {b}
        /\ UNCHANGED <<ibm, inode, kind, array, entry>>
        /\ op'.new = b /\ op'.at = op.at /\ op'.k = op.k
        /\ op'.rest = op.rest
        /\ op'.pc = (IF op.rest # <<>> THEN "zero"
                     ELSE IF op.at = 0 THEN "data" ELSE "link")
        /\ op.at # 0 => op'.mem.ptr = op.mem.ptr
        /\ op.at = 0 => op'.mem.ptr = [op.mem.ptr EXCEPT ![op.k] = b]
  BY AllocLocals DEF NameInv
<1>2. /\ g[b] = Place(op.put, Len(op.rest), op.at, op.k)
      /\ \A c \in bbm : g[c] = h[c]
  <2>1. bbm \subseteq Blocks
    BY DEF NameInv, TypeInv, TypeOK, DiskTypeOK
  <2> QED BY <1>1, <2>1 DEF Homes
<1>3. Live' = Live /\ op.put \in Live /\ op.put \in Inodes
  <2>1. Live' = Live
    BY <1>1, LiveStays DEF SameLocals
  <2>2. op.put \in Live
    BY <1>1 DEF Owned, WalkOwns
  <2> QED BY <2>1, <2>2, LiveInodes
<1>4. /\ bbm \subseteq Blocks /\ op.mem.ptr \in [Slots -> Blocks \union {0}]
      /\ op.at = 0 => op.k \in Slots
      /\ op.rest \in Seq(0 .. NPtr - 1)
  BY <1>1, OpTypes DEF NameInv, TypeInv, TypeOK, DiskTypeOK, OpShape
<1>5. Written(g)'
  <2> SUFFICES ASSUME kills = 0, NEW c \in bbm', g[c].ino \in Live, g[c].level = 0
               PROVE  kind[c] = "data" \/ Pending(c)'
    BY <1>1, <1>3 DEF Written
  <2>1. CASE c = b
    <3>1. Len(op.rest) = 0
      BY <1>2, <2>1, PlaceFields
    <3>2. op.rest = <<>>
      BY <1>4, <3>1
    <3> QED BY <1>1, <2>1, <3>2 DEF Pending
  <2>2. CASE c # b
    <3>1. c \in bbm /\ g[c] = h[c]
      BY <1>1, <1>2, <2>2
    <3>2. ~Pending(c)
      BY <1>1, <1>4, <3>1 DEF Pending, Blocks
    <3> QED BY <3>1, <3>2 DEF Written
  <2> QED BY <2>1, <2>2
<1>6. Bare(g)'
  BY <1>1 DEF Bare
<1>7. ASSUME kills = 0, ~dropped, NEW c \in bbm PROVE Held(g, c)'
  <2>1. Held(h, c) /\ c \in Blocks /\ c # 0 /\ c # b
    BY <1>1, <1>4, <1>7 DEF BlocksExact, Blocks
  <2>2. h[c].ino \in Live /\ (InInode(h, c) \/ Under(h, c)) /\ g[c] = h[c]
    BY <1>1, <1>2, <2>1 DEF Held, InInode, Added, Listed
  <2>3. CASE InInode(h, c)
    <3> DEFINE i == h[c].ino
               k == h[c].k
    <3>1. i \in Live /\ k \in Slots /\ Rec(i).ptr[k] = c /\ h[c].at = 0
      BY <2>3 DEF InInode
    <3>2. CASE i # op.put
      <4>1. Rec(i)' = Rec(i)
        BY <1>1, <3>2 DEF Rec, SameLocals
      <4> QED BY <1>3, <2>2, <3>1, <4>1 DEF InInode, Held
    <3>3. CASE i = op.put
      <4>1. Rec(i) = op.mem /\ Rec(i)' = op'.mem
        BY <1>1, <3>3 DEF Rec, SameLocals
      <4>2. op.at = 0 => op.k # k
        BY <1>1, <2>1, <3>1, <4>1 DEF Here
      <4>3. op'.mem.ptr[k] = c
        BY <1>1, <1>4, <3>1, <4>1, <4>2
      <4> QED BY <1>3, <2>2, <3>1, <4>1, <4>3 DEF InInode, Held
    <3> QED BY <3>2, <3>3
  <2>4. CASE Under(h, c)
    <3>1. h[c].at \in bbm /\ g[h[c].at] = h[h[c].at] /\ h[c].at \in bbm'
      BY <1>1, <1>2, <2>4 DEF Under
    <3> QED BY <1>1, <1>3, <2>2, <2>4, <3>1 DEF Under, Held
  <2> QED BY <2>2, <2>3, <2>4
<1>8. Held(g, b)'
  <2>1. CASE op.rest = <<>> /\ op.at = 0
    <3>1. /\ g[b].ino = op.put /\ g[b].at = 0 /\ g[b].k = op.k
      BY <1>2, <2>1, PlaceFields
    <3>2. op'.mem.ptr[op.k] = b /\ \A i : i = op.put => Rec(i)' = op'.mem
      BY <1>1, <1>4, <2>1 DEF Rec, SameLocals
    <3> QED BY <1>3, <1>4, <2>1, <3>1, <3>2 DEF InInode, Held
  <2>2. CASE ~(op.rest = <<>> /\ op.at = 0)
    BY <1>1, <2>2 DEF Added, Held
  <2> QED BY <2>1, <2>2
<1> QED BY <1>1, <1>5, <1>6, <1>7, <1>8 DEF BlocksExact

LEMMA ZeroExact ==
    ASSUME NameInv, PutIsKnown, NewIsNew, NEW h \in HomeMap, Owned(h),
           BlocksExact(h), Written(h), ZeroBlock, UNCHANGED <<kills, dropped>>
    PROVE  BlocksExact(h)' /\ Written(h)'
<1>1. /\ SameLocals /\ op.pc = "zero" /\ op'.mem = op.mem
      /\ op'.at = op.at /\ op'.k = op.k /\ op'.new = op.new
      /\ op'.pc = (IF op.at = 0 THEN "walk" ELSE "link")
      /\ UNCHANGED <<bbm, ibm, inode, entry>>
  BY ZeroLocals DEF NameInv
<1>2. Live' = Live /\ op.put \in Live /\ op.put \in Inodes
  <2>1. Live' = Live
    BY <1>1, LiveStays DEF SameLocals
  <2>2. op.put \in Live
    BY <1>1 DEF Owned, WalkOwns
  <2> QED BY <2>1, <2>2, LiveInodes
<1>3. /\ op.new \in Blocks /\ op.rest # <<>> /\ kind[op.new] = "old"
      /\ h[op.new] = Place(op.put, Len(op.rest), op.at, op.k)
      /\ op.at = 0 => op.mem.ptr[op.k] = op.new /\ op.k \in Slots
      /\ op.rest \in Seq(0 .. NPtr - 1) /\ op.call \notin {"create", "mkdir"}
  BY <1>1, OpTypes DEF NameInv, OpShape, Owned, WalkOwns, NewIsNew, PutIsKnown
<1>4. /\ bbm \subseteq Blocks
      /\ \A c \in Blocks : c # op.new => kind'[c] = kind[c] /\ array'[c] = array[c]
  BY <1>1, <1>3 DEF ZeroBlock, NameInv, TypeInv, TypeOK, DiskTypeOK
<1>5. \A i : Rec(i)' = Rec(i)
  BY <1>1 DEF Rec, SameLocals
<1>6. Written(h)'
  <2>1. h[op.new].level # 0
    <3>1. Len(op.rest) # 0
      BY <1>3
    <3> QED BY <1>3, <3>1, PlaceFields
  <2>2. ASSUME NEW b \in bbm, h[b].level = 0
        PROVE  /\ kind[b] = "data" => kind'[b] = "data"
               /\ ~Pending(b)
    BY <1>1, <1>4, <2>1, <2>2 DEF Pending
  <2> QED BY <1>1, <1>2, <2>2, WrittenFrame
<1>7. Bare(h)'
  BY <1>1, <1>3 DEF Bare, SameLocals
<1>8. ASSUME kills = 0, ~dropped, NEW b \in bbm PROVE Held(h, b)'
  <2>1. Held(h, b) /\ b \in Blocks
    BY <1>4, <1>8 DEF BlocksExact
  <2>2. CASE b = op.new /\ op.at = 0
    <3>1. h[b].ino = op.put /\ h[b].at = 0 /\ h[b].k = op.k
      BY <1>3, <2>2, PlaceFields
    <3>2. \A i : i = op.put => Rec(i)' = op.mem
      BY <1>1 DEF Rec, SameLocals
    <3> QED BY <1>2, <1>3, <2>2, <3>1, <3>2 DEF InInode, Held
  <2>3. CASE b = op.new /\ op.at # 0
    BY <1>1, <2>3 DEF Added, Held
  <2>4. CASE b # op.new
    <3>1. InInode(h, b) \/ Under(h, b)
      BY <1>1, <2>1, <2>4 DEF Held, Added, Listed
    <3>2. h[b].ino \in Live
      BY <1>1, <2>1, <2>4 DEF Held, InInode, Added, Listed
    <3>3. \A p \in bbm : p = h[b].at /\ h[p].level > 0 /\ kind[p] = "ptrs" =>
            kind'[p] = "ptrs" /\ array'[p][h[b].k] = array[p][h[b].k]
      BY <1>3, <1>4
    <3> QED BY <1>1, <1>2, <1>4, <1>5, <2>1, <3>1, <3>2, <3>3, HeldWhere
  <2> QED BY <2>2, <2>3, <2>4
<1> QED BY <1>1, <1>6, <1>7, <1>8 DEF BlocksExact

LEMMA LinkExact ==
    ASSUME NameInv, PutIsKnown, NewIsNew, NEW h \in HomeMap, Owned(h),
           BlocksExact(h), Written(h), LinkBlock, UNCHANGED <<kills, dropped>>
    PROVE  BlocksExact(h)' /\ Written(h)'
<1>1. /\ SameLocals /\ op.pc = "link" /\ op'.mem = op.mem
      /\ op'.at = op.at /\ op'.k = op.k /\ op'.new = op.new /\ op'.pc = "walk"
      /\ UNCHANGED <<bbm, ibm, inode, kind, entry>>
  BY LinkLocals DEF NameInv
<1>2. Live' = Live /\ op.put \in Live /\ op.put \in Inodes
  <2>1. Live' = Live
    BY <1>1, LiveStays DEF SameLocals
  <2>2. op.put \in Live
    BY <1>1 DEF Owned, WalkOwns
  <2> QED BY <2>1, <2>2, LiveInodes
<1>3. /\ op.new \in Blocks /\ op.at \in Blocks /\ op.k \in 0 .. NPtr - 1
      /\ h[op.new] = Place(op.put, Len(op.rest), op.at, op.k)
      /\ h[op.at].ino = op.put /\ h[op.at].level = Len(op.rest) + 1
      /\ kind[op.at] = "ptrs" /\ op.at \in bbm /\ array[op.at][op.k] = 0
      /\ op.call \notin {"create", "mkdir"}
  <2>1. op.at # 0 /\ op.new # 0
    BY <1>1 DEF Owned, WalkOwns
  <2>2. op.at \in Blocks /\ op.new \in Blocks /\ op.k \in 0 .. NPtr - 1
    BY <1>1, <2>1, OpTypes DEF NameInv, OpShape
  <2>3. /\ h[op.new] = Place(op.put, Len(op.rest), op.at, op.k)
        /\ h[op.at].ino = op.put /\ h[op.at].level = Len(op.rest) + 1
        /\ kind[op.at] = "ptrs"
    BY <1>1, <2>1 DEF Owned, WalkOwns
  <2>4. op.at \in bbm
    BY <1>2, <2>2, <2>3 DEF Owned, OwnedIsMarked
  <2> QED BY <1>1, <2>1, <2>2, <2>3, <2>4 DEF NewIsNew, PutIsKnown
<1>4. /\ bbm \subseteq Blocks
      /\ array'[op.at][op.k] = op.new
      /\ \A p \in Blocks, k \in 0 .. NPtr - 1 :
           p # op.at \/ k # op.k => array'[p][k] = array[p][k]
  <2>1. array \in [Blocks -> PtrArray] /\ bbm \subseteq Blocks
    BY DEF NameInv, TypeInv, TypeOK, DiskTypeOK
  <2>2. array' = [array EXCEPT ![op.at][op.k] = op.new]
    BY DEF LinkBlock
  <2> QED BY <1>3, <2>1, <2>2 DEF PtrArray
<1>5. \A i : Rec(i)' = Rec(i)
  BY <1>1 DEF Rec, SameLocals
<1>6. Written(h)'
  <2>1. ASSUME NEW b \in bbm, Pending(b) PROVE Pending(b)'
    <3>1. b = op.new
      BY <1>1, <2>1 DEF Pending
    <3>2. Here' = op.new
      BY <1>1, <1>3, <1>4, RootIsInode DEF Here, Blocks
    <3> QED BY <1>1, <3>1, <3>2 DEF Pending
  <2> QED BY <1>1, <1>2, <2>1, WrittenFrame
<1>7. Bare(h)'
  BY <1>1, <1>3 DEF Bare, SameLocals
<1>8. ASSUME kills = 0, ~dropped, NEW b \in bbm PROVE Held(h, b)'
  <2>1. Held(h, b) /\ b \in Blocks /\ b # 0
    BY <1>4, <1>8 DEF BlocksExact, Blocks
  <2>2. CASE b = op.new
    <3>1. /\ h[b].ino = op.put /\ h[b].at = op.at /\ h[b].k = op.k
          /\ h[b].level = Len(op.rest)
      BY <1>3, <2>2, PlaceFields
    <3> QED BY <1>1, <1>2, <1>3, <1>4, <2>2, <3>1 DEF Under, Held
  <2>3. CASE b # op.new
    <3>1. InInode(h, b) \/ Under(h, b)
      BY <1>1, <2>1, <2>3 DEF Held, Added, Listed
    <3>2. h[b].ino \in Live
      BY <1>1, <2>1, <2>3 DEF Held, InInode, Added, Listed
    <3>3. CASE InInode(h, b)
      BY <1>2, <1>5, <3>2, <3>3 DEF InInode, Held
    <3>4. CASE Under(h, b)
      <4>1. /\ h[b].at \in Blocks /\ h[b].k \in 0 .. NPtr - 1
            /\ array[h[b].at][h[b].k] = b
        BY <1>4, <3>4 DEF Under
      <4>2. h[b].at # op.at \/ h[b].k # op.k
        BY <1>3, <2>1, <4>1
      <4>3. array'[h[b].at][h[b].k] = b
        BY <1>4, <4>1, <4>2
      <4> QED BY <1>1, <1>2, <3>2, <3>4, <4>3 DEF Under, Held
    <3> QED BY <3>1, <3>3, <3>4
  <2> QED BY <2>2, <2>3
<1> QED BY <1>1, <1>6, <1>7, <1>8 DEF BlocksExact

LEMMA WriteDataExact ==
    ASSUME NameInv, PutIsKnown, NEW h \in HomeMap, Owned(h),
           BlocksExact(h), Written(h), WriteData
    PROVE  BlocksExact(h)' /\ Written(h)'
<1>1. /\ op.pc = "data" /\ UNCHANGED <<bbm, ibm, inode, kills>>
      /\ entry' = entry /\ (~dropped' => ~dropped)
  BY WriteDataEntries DEF WriteData, ReturnWithoutInode
<1>2. \/ op' = Idle /\ op.call = "fwrite"
         /\ (~dropped' => op.mem.ptr = inode[op.ino].ptr)
      \/ /\ op'.call = op.call /\ op'.ino = op.ino /\ op'.put = op.put
         /\ op'.mem.ptr = op.mem.ptr /\ op'.pc \in {"walk", "iput"}
         /\ op'.pc = "walk" => op.call \notin {"create", "mkdir"}
  BY WriteDataKnown
<1>3. op.new \in Blocks /\ h[op.new].level = 0
  BY <1>1, OpTypes DEF NameInv, Owned, WalkOwns
<1>4. /\ bbm \subseteq Blocks
      /\ \A c \in Blocks : kind'[c] = IF c = op.new THEN "data" ELSE kind[c]
      /\ \A c \in Blocks : c # op.new => array'[c] = array[c]
  BY <1>3 DEF WriteData, NameInv, TypeInv, TypeOK, DiskTypeOK
<1>5. /\ Live' = Live
      /\ ~dropped' => \A i \in Live : Rec(i)'.ptr = Rec(i).ptr
      /\ Bare(h)'
  <2>1. CASE op' = Idle /\ op.call = "fwrite"
             /\ (~dropped' => op.mem.ptr = inode[op.ino].ptr)
    <3>1. Live' = Live
      <4>1. Live = Linked /\ Live' = Linked'
        BY <2>1, IdleLive, LiveIdle
      <4>2. Linked' = Linked
        BY <1>1 DEF Linked
      <4> QED BY <4>1, <4>2
    <3>2. op.put = op.ino
      BY <2>1 DEF NameInv, OpNames
    <3>3. \A i \in Live : Rec(i)' = inode[i]
      BY <1>1, <2>1, IdleNames, ReturnRec, LiveInodes
    <3> QED BY <2>1, <3>1, <3>2, <3>3, IdleNames DEF Rec, Bare
  <2>2. CASE /\ op'.call = op.call /\ op'.ino = op.ino /\ op'.put = op.put
             /\ op'.mem.ptr = op.mem.ptr /\ op'.pc \in {"walk", "iput"}
             /\ op'.pc = "walk" => op.call \notin {"create", "mkdir"}
    <3>1. Live' = Live
      BY <1>1, <2>2, LiveStays
    <3> QED BY <1>1, <2>2, <3>1 DEF Rec, Bare
  <2> QED BY <1>2, <2>1, <2>2
<1>6. Written(h)'
  <2>1. ASSUME NEW b \in bbm
        PROVE  /\ kind[b] = "data" => kind'[b] = "data"
               /\ Pending(b) => kind'[b] = "data"
    BY <1>1, <1>4 DEF Pending
  <2> QED BY <1>1, <1>5, <2>1, WrittenFrame
<1>7. ASSUME kills = 0, ~dropped', NEW b \in bbm PROVE Held(h, b)'
  <2>1. Held(h, b) /\ b \in Blocks
    BY <1>1, <1>4, <1>7 DEF BlocksExact
  <2>2. (InInode(h, b) \/ Under(h, b)) /\ h[b].ino \in Live
    BY <1>1, <2>1 DEF Held, InInode, Added, Listed
  <2>3. \A p \in bbm : p = h[b].at /\ h[p].level > 0 /\ kind[p] = "ptrs" =>
          kind'[p] = "ptrs" /\ array'[p][h[b].k] = array[p][h[b].k]
    BY <1>3, <1>4
  <2> QED BY <1>1, <1>4, <1>5, <1>7, <2>1, <2>2, <2>3, HeldWhere
<1> QED BY <1>1, <1>5, <1>6, <1>7 DEF BlocksExact

-----------------------------------------------------------------------------
(* Freeing. *)

LEMMA FreeListAt ==
    ASSUME NEW rec \in InodeRec, NEW s \in Slots
    PROVE  \E j \in 1 .. Len(FreeList(rec)) : FreeList(rec)[j][1] = rec.ptr[s]
<1> DEFINE length == NDirect + NLevel
           piece(j) == <<rec.ptr[j - 1], DepthOf(j - 1)>>
           j == s + 1
<1>1. length \in Nat /\ j \in 1 .. length /\ j - 1 = s
  BY DiskAssumption DEF Slots
<1>2. FreeList(rec) = [i \in 1 .. length |-> piece(i)]
  BY DEF FreeList
<1>3. piece(j)[1] = rec.ptr[s]
  BY <1>1
<1> HIDE DEF piece, length, j
<1>4. Len(FreeList(rec)) = length /\ FreeList(rec)[j] = piece(j)
  BY <1>1, <1>2
<1> QED BY <1>1, <1>3, <1>4

(* The call starts to free an inode: it has all its blocks before it. *)
LEMMA BeginFreeExact ==
    ASSUME NameInv, NEW h \in HomeMap, Owned(h), BlocksExact(h), Written(h),
           op.pc \notin {"zero", "link", "free"}, \A b \in bbm : ~Pending(b),
           UNCHANGED <<bbm, kind, array, kills, dropped>>,
           NEW i \in Live, Rec(i).ptr = inode[i].ptr, Live' = Live \ {i},
           op'.pc = "free", op'.ino = i, op'.todo = FreeList(inode[i]),
           \A j \in Live' : Rec(j)'.ptr = Rec(j).ptr
    PROVE  BlocksExact(h)' /\ Written(h)'
<1>1. i \in Inodes /\ inode[i] \in InodeRec /\ bbm \subseteq Blocks
  BY LiveInodes DEF NameInv, TypeInv, TypeOK, DiskTypeOK
<1>2. Written(h)'
  BY WrittenFrame
<1>3. Bare(h)'
  BY DEF Bare
<1>4. ASSUME kills = 0, ~dropped, NEW b \in bbm PROVE Held(h, b)'
  <2>1. Held(h, b)
    BY <1>4 DEF BlocksExact
  <2>2. h[b].ino \in Live /\ (InInode(h, b) \/ Under(h, b))
    BY <2>1 DEF Held, InInode, Added, Listed
  <2>3. CASE h[b].ino # i
    BY <2>1, <2>2, <2>3, StillHeld
  <2>4. CASE h[b].ino = i /\ InInode(h, b)
    <3>1. h[b].k \in Slots /\ inode[i].ptr[h[b].k] = b
      BY <2>4 DEF InInode
    <3>2. \E j \in 1 .. Len(FreeList(inode[i])) : FreeList(inode[i])[j][1] = b
      BY <1>1, <3>1, FreeListAt
    <3> QED BY <2>4, <3>2 DEF Listed, Held
  <2>5. CASE h[b].ino = i /\ Under(h, b)
    <3>1. Under(h, b)'
      BY <2>5 DEF Under
    <3>2. PICK rec \in InodeRec : rec = inode[i]
      BY <1>1
    <3>3. SlotsOwn(h, i, rec.ptr)
      BY <3>2 DEF Owned, InodesOwn
    <3>4. ASSUME NEW j \in 1 .. Len(FreeList(rec)),
                 FreeList(rec)[j][1] = h[b].at
          PROVE  FreeList(rec)[j][2] > 0
      <4>1. /\ h[b].at \in Blocks /\ h[b].at # 0
            /\ h[h[b].at].level = h[b].level + 1 /\ h[b].level \in Nat
        BY <1>1, <2>5, HomeTypes DEF Under, Blocks
      <4>2. PICK s \in Slots : FreeList(rec)[j] = <<rec.ptr[s], DepthOf(s)>>
        BY FreeListItem
      <4>3. h[rec.ptr[s]] = Place(i, DepthOf(s), 0, s)
        BY <3>3, <3>4, <4>1, <4>2 DEF SlotsOwn
      <4>4. PICK depth : depth = DepthOf(s)
        OBVIOUS
      <4>5. h[rec.ptr[s]].level = depth /\ rec.ptr[s] = h[b].at
        BY <3>4, <4>2, <4>3, <4>4, PlaceFields
      <4>6. depth = h[b].level + 1
        BY <4>1, <4>5
      <4>7. depth > 0
        BY <4>1, <4>6
      <4> QED BY <4>2, <4>4, <4>7
    <3> QED BY <2>5, <3>1, <3>2, <3>4 DEF Listed, Held
  <2> QED BY <2>2, <2>3, <2>4, <2>5
<1> QED BY <1>2, <1>3, <1>4 DEF BlocksExact

LEMMA RemoveExact ==
    ASSUME NameInv, NameInv', PutIsKnown, NEW h \in HomeMap, Owned(h),
           BlocksExact(h), Written(h), op.pc = "idle",
           NEW d \in Inodes, NEW n \in Names, Remove(d, n)
    PROVE  BlocksExact(h)' /\ Written(h)'
<1>1. PICK i : i = entry[d][n]
  OBVIOUS
<1>2. /\ UNCHANGED <<bbm, kind, array, inode, kills, dropped>>
      /\ op'.call = "delete" /\ op'.pc = "free" /\ op'.ino = i
      /\ op'.todo = FreeList(inode[i]) /\ op'.put = 0
  <2>1. op' = [Idle EXCEPT !.call = "delete", !.pc = "free", !.ino = i,
                           !.todo = FreeList(inode[i])]
    BY <1>1 DEF Remove
  <2>2. UNCHANGED <<bbm, kind, array, inode, kills, dropped>>
    BY DEF Remove
  <2>3. PICK todo : todo = FreeList(inode[i])
    OBVIOUS
  <2>4. op' = [Idle EXCEPT !.call = "delete", !.pc = "free", !.ino = i,
                           !.todo = todo]
    BY <2>1, <2>3
  <2>5. /\ op'.call = "delete" /\ op'.pc = "free" /\ op'.ino = i
        /\ op'.todo = todo /\ op'.put = 0
    BY ONLY <2>4 DEF Idle
  <2> QED BY <2>2, <2>3, <2>5
<1>3. Linked' = Linked \ {i} /\ i \in Linked
  BY <1>1, LinkedAfterRemove DEF Remove, NameInv
<1>4. op.put = 0 /\ op.call = "none"
  BY DEF PutIsKnown, NameInv, OpNames
<1>5. Live = Linked /\ Live' = Live \ {i}
  BY <1>2, <1>3, <1>4 DEF Live, Making
<1>6. \A j \in Live : Rec(j) = inode[j] /\ Rec(j)' = inode'[j]
  BY <1>2, <1>4, ReturnRec, LiveInodes, RootIsInode DEF Rec
<1>7. \A b \in bbm : ~Pending(b)
  BY DEF Pending
<1> QED BY <1>2, <1>3, <1>5, <1>6, <1>7, BeginFreeExact

LEMMA RunOutExact ==
    ASSUME NameInv, NameInv', PutIsKnown, NEW h \in HomeMap, Owned(h),
           BlocksExact(h), Written(h), RunOut
    PROVE  BlocksExact(h)' /\ Written(h)'
<1>1. /\ op.pc = "walk" /\ Here = 0
      /\ \/ op' = Idle /\ op.call = "fwrite"
            /\ (~dropped' => op.mem.ptr = inode[op.ino].ptr)
         \/ /\ op'.call = op.call /\ op'.ino = op.ino /\ op'.put = op.put
            /\ op'.mem = op.mem
            /\ \/ op.call = "write" /\ op'.pc = "iput"
               \/ op.call \in {"create", "mkdir"} /\ op'.pc = "ifree"
                  /\ ~(op.call = "mkdir" /\ op.put = op.par)
               \/ op.call = "mkdir" /\ op.put = op.par /\ op'.pc = "free"
                  /\ op'.todo = FreeList(inode[op.ino])
  BY RunOutKnown
<1>2. UNCHANGED <<bbm, kind, array, inode, entry, kills>> /\ Linked' = Linked
      /\ (op.call # "fwrite" => dropped' = dropped) /\ (~dropped' => ~dropped)
  <2>1. UNCHANGED <<diskVars, kills>>
    BY DEF RunOut
  <2>2. UNCHANGED <<bbm, kind, array, inode, entry, kills>>
    BY <2>1 DEF diskVars
  <2>3. Linked' = Linked
    BY <2>2 DEF Linked
  <2>4. op.call # "fwrite" => dropped' = dropped
    BY DEF RunOut
  <2>5. dropped \in BOOLEAN
    BY DEF NameInv, TypeInv, TypeOK
  <2>6. dropped' = dropped \/ ReturnWithoutInode
    BY DEF RunOut
  <2>7. ~dropped' => ~dropped
    BY <2>5, <2>6, Zenon DEF ReturnWithoutInode
  <2> QED BY <2>2, <2>3, <2>4, <2>7
<1>3. \A b \in bbm : b \in Blocks /\ ~Pending(b)
  BY <1>1 DEF Pending, NameInv, TypeInv, TypeOK, DiskTypeOK, Blocks
<1>4. CASE op' = Idle /\ op.call = "fwrite"
           /\ (~dropped' => op.mem.ptr = inode[op.ino].ptr)
  <2>1. Live' = Live
    BY <1>2, <1>4, IdleLive, LiveIdle
  <2>2. op.put = op.ino
    BY <1>4 DEF NameInv, OpNames
  <2>3. op'.put = 0 /\ op'.pc = "idle"
    BY <1>4, IdleNames
  <2>4. \A i \in Live : Rec(i)' = inode[i]
    BY <1>2, <2>3, ReturnRec, LiveInodes
  <2>5. ~dropped' => ~dropped /\ \A i \in Live : Rec(i)'.ptr = Rec(i).ptr
    BY <1>2, <1>4, <2>2, <2>4 DEF Rec
  <2> QED BY <1>1, <1>2, <1>3, <2>1, <2>3, <2>5, ExactFrame
<1>5. CASE /\ op'.call = op.call /\ op'.ino = op.ino /\ op'.put = op.put
           /\ op'.mem = op.mem /\ op.call = "write" /\ op'.pc = "iput"
  <2>1. Live' = Live
    BY <1>1, <1>2, <1>5, LiveStays
  <2>2. \A i \in Live : Rec(i)' = Rec(i)
    BY <1>2, <1>5 DEF Rec
  <2> QED BY <1>1, <1>2, <1>3, <1>5, <2>1, <2>2, ExactFrame
<1>6. CASE /\ op'.call = op.call /\ op'.ino = op.ino /\ op'.put = op.put
           /\ op'.mem = op.mem /\ op.call \in {"create", "mkdir"}
           /\ op'.pc = "ifree" /\ ~(op.call = "mkdir" /\ op.put = op.par)
  <2>1. Live' = Linked /\ Live = Linked \union {op.ino}
    BY <1>1, <1>2, <1>6 DEF Live, Making
  <2>2. Written(h)'
    BY <1>2, <1>3, <2>1, WrittenFrame
  <2>3. ASSUME kills = 0, ~dropped, NEW b \in bbm PROVE Held(h, b)'
    <3>1. Held(h, b) /\ h[b].ino # op.ino
      BY <1>1, <1>6, <2>3 DEF BlocksExact, Bare
    <3>2. \A i \in Live : Rec(i)' = Rec(i)
      BY <1>2, <1>6 DEF Rec
    <3> QED BY <1>1, <1>2, <2>1, <3>1, <3>2, StillHeld
  <2>4. Bare(h)'
    BY <1>6 DEF Bare
  <2> QED BY <1>2, <1>6, <2>2, <2>3, <2>4 DEF BlocksExact
<1>7. CASE /\ op'.call = op.call /\ op'.ino = op.ino /\ op'.put = op.put
           /\ op'.mem = op.mem /\ op.call = "mkdir" /\ op.put = op.par
           /\ op'.pc = "free" /\ op'.todo = FreeList(inode[op.ino])
  <2>1. PICK i : i = op.ino
    OBVIOUS
  <2>2. i \notin Linked /\ op.par \in Linked
    BY <1>7, <2>1 DEF NameInv, OpNames, Dirs
  <2>3. i \in Live /\ Live' = Live \ {i}
    BY <1>1, <1>2, <1>7, <2>1, <2>2 DEF Live, Making
  <2>4. Rec(i).ptr = inode[i].ptr
    BY <1>7, <2>1, <2>2 DEF Rec
  <2>5. \A j \in Live' : Rec(j)'.ptr = Rec(j).ptr
    BY <1>2, <1>7 DEF Rec
  <2>6. op'.ino = i /\ op'.todo = FreeList(inode[i]) /\ op'.pc = "free"
        /\ dropped' = dropped
    BY <1>2, <1>7, <2>1
  <2> QED BY <1>1, <1>2, <1>3, <2>3, <2>4, <2>5, <2>6, BeginFreeExact
<1> QED BY <1>1, <1>4, <1>5, <1>6, <1>7

(* Nothing of the list is lost when a pointer block is expanded. *)
LEMMA ExpandedHas ==
    ASSUME op.todo \in Seq(Piece), NEW j \in 1 .. Len(op.todo)
    PROVE  /\ \A k \in 0 .. NPtr - 1 : \E m \in 1 .. Len(Expanded(j)) :
                Expanded(j)[m] = <<array[op.todo[j][1]][k], op.todo[j][2] - 1>>
           /\ \E m \in 1 .. Len(Expanded(j)) :
                Expanded(j)[m] = <<op.todo[j][1], 0>>
           /\ \A l \in 1 .. Len(op.todo) : l > j =>
                \E m \in 1 .. Len(Expanded(j)) : Expanded(j)[m] = op.todo[l]
<1> DEFINE b == op.todo[j][1]
           level == op.todo[j][2] - 1
           rest == Rest(j)
           all == Expanded(j)
<1>0. NPtr \in Nat
  BY DiskAssumption
<1>1. /\ rest \in Seq(Piece) /\ Len(all) = NPtr + 1 + Len(rest)
      /\ \A k \in 1 .. NPtr : all[k] = <<array[b][k - 1], level>>
      /\ all[NPtr + 1] = <<b, 0>>
      /\ \A x \in 1 .. Len(rest) : all[NPtr + 1 + x] = rest[x]
  BY ExpandedShape
<1>2. Len(rest) = Len(op.todo) - j /\ Len(op.todo) \in Nat
  BY DEF Rest
<1>3. \A x \in 1 .. Len(rest) : rest[x] = op.todo[j + x]
  BY RestAt
<1> HIDE DEF b, level, rest, all
<1>4. ASSUME NEW k \in 0 .. NPtr - 1
      PROVE  \E m \in 1 .. Len(all) : all[m] = <<array[b][k], level>>
  <2>1. k + 1 \in 1 .. NPtr /\ (k + 1) - 1 = k /\ k + 1 \in 1 .. Len(all)
    BY <1>0, <1>1
  <2>2. all[k + 1] = <<array[b][k], level>>
    BY <1>1, <2>1
  <2> QED BY <2>1, <2>2
<1>5. NPtr + 1 \in 1 .. Len(all)
  BY <1>0, <1>1
<1>6. ASSUME NEW l \in 1 .. Len(op.todo), l > j
      PROVE  \E m \in 1 .. Len(all) : all[m] = op.todo[l]
  <2> DEFINE x == l - j
  <2>1. x \in 1 .. Len(rest) /\ j + x = l
    BY <1>2, <1>6
  <2>2. all[NPtr + 1 + x] = op.todo[l]
    BY <1>1, <1>3, <2>1
  <2> HIDE DEF x
  <2>3. NPtr + 1 + x \in 1 .. Len(all)
    BY <1>0, <1>1, <2>1
  <2> QED BY <2>2, <2>3
<1> QED BY <1>1, <1>4, <1>5, <1>6 DEF b, level, all

LEMMA ExpandExact ==
    ASSUME NameInv, NEW h \in HomeMap, Owned(h),
           BlocksExact(h), Written(h), ExpandPointerBlock,
           UNCHANGED <<kills, dropped>>
    PROVE  BlocksExact(h)' /\ Written(h)'
<1>0. /\ TypeInv /\ op \in OpRec /\ op.pc = "free" /\ bbm \subseteq Blocks
      /\ UNCHANGED <<bbm, inode, kind, array, entry>>
      /\ op.todo \in Seq(Piece) /\ array \in [Blocks -> PtrArray]
      /\ Doomed = {op.ino} /\ 0 \notin Blocks
  BY FreeFacts
     DEF ExpandPointerBlock, TypeInv, TypeOK, DiskTypeOK, Doomed, diskVars, Blocks
<1>1. PICK j \in 1 .. Len(op.todo) :
        /\ op.todo[j][1] # 0 /\ op.todo[j][2] > 0
        /\ \A i \in 1 .. j - 1 : op.todo[i][1] = 0
        /\ op' = [op EXCEPT !.todo = Expanded(j)]
  BY DEF ExpandPointerBlock, FirstOf
<1> DEFINE b0 == op.todo[j][1]
           level == op.todo[j][2]
           todo == Expanded(j)
<1>2. /\ b0 \in Blocks /\ level \in 1 .. NLevel
      /\ h[b0].ino = op.ino /\ h[b0].level = level
  <2>1. op.todo[j] \in Piece
    BY <1>0
  <2>2. b0 \in Blocks \union {0} /\ level \in 0 .. NLevel
    BY <2>1 DEF Piece
  <2>3. h[b0].ino = op.ino /\ h[b0].level = level
    BY <1>0, <1>1 DEF Owned, TodoOwns
  <2>4. b0 # 0 /\ level > 0
    BY <1>1
  <2>5. level \in 1 .. NLevel
    <3>1. NLevel \in Nat
      BY DiskAssumption
    <3> QED BY <2>2, <2>4, <3>1
  <2> QED BY <2>2, <2>3, <2>4, <2>5
<1>3. /\ op'.pc = "free" /\ op'.ino = op.ino /\ op'.call = op.call
      /\ op'.put = op.put /\ op'.mem = op.mem /\ op'.todo = todo
  <2>1. op' = [op EXCEPT !.todo = todo]
    BY <1>1
  <2> HIDE DEF todo
  <2> QED BY <1>0, <2>1 DEF OpRec
<1>4. Live' = Live
  BY <1>0, <1>3 DEF Live, Making, Linked
<1>5. \A i : Rec(i)' = Rec(i)
  BY <1>0, <1>3 DEF Rec
<1>6. Written(h)'
  BY <1>0, <1>4, WrittenFrame DEF Pending
<1>7. Bare(h)'
  BY <1>3 DEF Bare
<1>8. ASSUME NEW b \in bbm, Listed(h, b) PROVE Listed(h, b)'
  <2>0. h[b].ino = op.ino /\ b \in Blocks
    BY <1>0, <1>8 DEF Listed
  <2>1. CASE \E l \in 1 .. Len(op.todo) : op.todo[l][1] = b
    <3>1. PICK l \in 1 .. Len(op.todo) : op.todo[l][1] = b
      BY <2>1
    <3>2. Len(op.todo) \in Nat
      BY <1>0
    <3>3. l = j \/ l > j
      BY <1>0, <1>1, <2>0, <3>1, <3>2
    <3>4. \E m \in 1 .. Len(todo) : todo[m][1] = b
      <4>1. CASE l = j
        <5>1. PICK m \in 1 .. Len(todo) : todo[m] = <<b0, 0>>
          BY <1>0, ExpandedHas
        <5> QED BY <3>1, <4>1, <5>1
      <4>2. CASE l > j
        <5>1. PICK m \in 1 .. Len(todo) : todo[m] = op.todo[l]
          BY <1>0, <4>2, ExpandedHas
        <5> QED BY <3>1, <5>1
      <4> QED BY <3>3, <4>1, <4>2
    <3> QED BY <1>3, <2>0, <3>4 DEF Listed
  <2>2. CASE /\ Under(h, b)
             /\ \A l \in 1 .. Len(op.todo) :
                  op.todo[l][1] = h[b].at => op.todo[l][2] > 0
    <3>1. /\ h[b].at \in Blocks /\ h[b].k \in 0 .. NPtr - 1
          /\ array[h[b].at][h[b].k] = b
          /\ h[h[b].at].level = h[b].level + 1 /\ h[b].level \in Nat
      BY <1>0, <2>0, <2>2, HomeTypes DEF Under
    <3>2. CASE h[b].at = b0
      <4>1. PICK m \in 1 .. Len(todo) :
              todo[m] = <<array[b0][h[b].k], level - 1>>
        BY <1>0, <3>1, ExpandedHas
      <4>2. todo[m][1] = b
        BY <3>1, <3>2, <4>1
      <4> QED BY <1>3, <2>0, <4>2 DEF Listed
    <3>3. CASE h[b].at # b0
      <4>1. ASSUME NEW m \in 1 .. Len(todo), todo[m][1] = h[b].at
            PROVE  todo[m][2] > 0
        <5> DEFINE e == todo[m]
        <5>1. \/ \E k \in 0 .. NPtr - 1 : e = <<array[b0][k], level - 1>>
              \/ e = <<b0, 0>>
              \/ \E l \in 1 .. Len(op.todo) : l > j /\ e = op.todo[l]
          BY <1>0, <1>1, ExpandedAt
        <5>2. e[1] = h[b].at
          BY <4>1
        <5> HIDE DEF e, todo, level, b0
        <5>3. CASE \E k \in 0 .. NPtr - 1 : e = <<array[b0][k], level - 1>>
          <6>1. PICK k \in 0 .. NPtr - 1 : e = <<array[b0][k], level - 1>>
            BY <5>3
          <6>2. e[2] = level - 1 /\ array[b0][k] = h[b].at
            BY <5>2, <6>1
          <6>3. kind[b0] = "ptrs"
            <7>1. array[b0] # Zeros
              BY <1>0, <3>1, <6>2 DEF Zeros
            <7> QED BY <1>2, <7>1 DEF Owned, NoStrayPointers
          <6>4. h[h[b].at] = Place(h[b0].ino, h[b0].level - 1, b0, k)
            BY <1>0, <1>2, <3>1, <6>2, <6>3 DEF Owned, BlocksOwn
          <6>5. h[h[b].at].level = level - 1
            BY <1>2, <6>4, PlaceFields
          <6> QED BY <3>1, <6>2, <6>5 DEF e
        <5>4. CASE e = <<b0, 0>>
          BY <3>3, <5>2, <5>4
        <5>5. CASE \E l \in 1 .. Len(op.todo) : l > j /\ e = op.todo[l]
          BY <2>2, <5>2, <5>5 DEF e
        <5> QED BY <5>1, <5>3, <5>4, <5>5
      <4>2. Under(h, b)'
        BY <1>0, <2>2 DEF Under
      <4> QED BY <1>3, <2>0, <4>1, <4>2 DEF Listed
    <3> QED BY <3>2, <3>3
  <2> QED BY <1>8, <2>1, <2>2 DEF Listed
<1>9. ASSUME NEW b \in bbm, Held(h, b) PROVE Held(h, b)'
  <2>1. CASE InInode(h, b)
    BY <1>4, <1>5, <2>1 DEF InInode, Held
  <2>2. CASE h[b].ino \in Live /\ Under(h, b)
    BY <1>0, <1>4, <2>2 DEF Under, Held
  <2>3. CASE Listed(h, b)
    BY <1>8, <2>3 DEF Held
  <2> QED BY <1>0, <1>9, <2>1, <2>2, <2>3 DEF Held, Added
<1> QED BY <1>0, <1>6, <1>7, <1>9 DEF BlocksExact

LEMMA FreeBlockExact ==
    ASSUME NameInv, NEW h \in HomeMap, Owned(h),
           BlocksExact(h), Written(h), FreeBlock, UNCHANGED <<kills, dropped>>
    PROVE  BlocksExact(h)' /\ Written(h)'
<1>0. /\ TypeInv /\ op \in OpRec /\ op.pc = "free" /\ bbm \subseteq Blocks
      /\ op.todo \in Seq(Piece) /\ op.ino \notin Live /\ 0 \notin Blocks
      /\ inode' = inode /\ entry' = entry
  BY FreeFacts DEF FreeBlock, TypeInv, TypeOK, DiskTypeOK, Blocks
<1>1. PICK j \in 1 .. Len(op.todo) :
        /\ op.todo[j][1] # 0 /\ op.todo[j][2] = 0
        /\ \A i \in 1 .. j - 1 : op.todo[i][1] = 0
        /\ bbm' = bbm \ {op.todo[j][1]}
        /\ kind' = [kind EXCEPT ![op.todo[j][1]] = "old"]
        /\ array' = [array EXCEPT ![op.todo[j][1]] = Zeros]
        /\ op' = [op EXCEPT !.todo = Rest(j)]
  BY DEF FreeBlock, FirstOf
<1> DEFINE b0 == op.todo[j][1]
           todo == Rest(j)
<1>2. b0 \in Blocks /\ h[b0].ino = op.ino
  <2>1. op.todo[j] \in Piece
    BY <1>0
  <2>2. b0 \in Blocks \union {0}
    BY <2>1 DEF Piece
  <2> QED BY <1>0, <1>1, <2>2 DEF Owned, TodoOwns
<1>3. /\ op'.pc = "free" /\ op'.ino = op.ino /\ op'.call = op.call
      /\ op'.put = op.put /\ op'.mem = op.mem /\ op'.todo = todo
  <2>1. op' = [op EXCEPT !.todo = todo]
    BY <1>1
  <2> HIDE DEF todo
  <2> QED BY <1>0, <2>1 DEF OpRec
<1>4. Live' = Live
  BY <1>0, <1>3 DEF Live, Making, Linked
<1>5. \A i : Rec(i)' = Rec(i)
  BY <1>0, <1>3 DEF Rec
<1>6. /\ bbm' = bbm \ {b0}
      /\ \A c \in Blocks : c # b0 => kind'[c] = kind[c] /\ array'[c] = array[c]
  BY <1>0, <1>1, <1>2 DEF TypeInv, TypeOK, DiskTypeOK
<1>7. Written(h)'
  <2>1. ASSUME NEW b \in bbm, h[b].ino \in Live PROVE kind'[b] = kind[b]
    BY <1>0, <1>2, <1>6, <2>1
  <2> QED BY <1>0, <1>4, <1>6, <2>1, WrittenFrame DEF Pending
<1>8. Bare(h)'
  BY <1>3 DEF Bare
<1>9. ASSUME NEW b \in bbm, Under(h, b), h[b].at # b0 PROVE Under(h, b)'
  BY <1>0, <1>6, <1>9 DEF Under
<1>10. ASSUME NEW b \in bbm, b # b0, Listed(h, b) PROVE Listed(h, b)'
  <2>0. h[b].ino = op.ino /\ b \in Blocks
    BY <1>0, <1>10 DEF Listed
  <2>1. CASE \E l \in 1 .. Len(op.todo) : op.todo[l][1] = b
    <3>1. PICK l \in 1 .. Len(op.todo) : op.todo[l][1] = b
      BY <2>1
    <3>2. Len(op.todo) \in Nat /\ Len(todo) = Len(op.todo) - j
      BY <1>0 DEF Rest
    <3>3. l > j
      BY <1>0, <1>1, <1>10, <2>0, <3>1, <3>2
    <3> DEFINE x == l - j
    <3>4. x \in 1 .. Len(todo) /\ j + x = l
      BY <3>2, <3>3
    <3>5. todo[x] = op.todo[l]
      <4> HIDE DEF x
      <4> QED BY <1>0, <3>4, RestAt
    <3> QED BY <1>3, <2>0, <3>1, <3>4, <3>5 DEF Listed
  <2>2. CASE /\ Under(h, b)
             /\ \A l \in 1 .. Len(op.todo) :
                  op.todo[l][1] = h[b].at => op.todo[l][2] > 0
    <3>1. Under(h, b)'
      BY <1>1, <1>9, <2>2
    <3>2. \A m \in 1 .. Len(todo) : todo[m][1] = h[b].at => todo[m][2] > 0
      <4>1. \A m \in 1 .. Len(todo) :
              j + m \in 1 .. Len(op.todo) /\ todo[m] = op.todo[j + m]
        BY <1>0, RestAt
      <4> QED BY <2>2, <4>1
    <3> QED BY <1>3, <2>0, <3>1, <3>2 DEF Listed
  <2> QED BY <1>10, <2>1, <2>2 DEF Listed
<1>11. ASSUME NEW b \in bbm, b # b0, Held(h, b) PROVE Held(h, b)'
  <2>1. CASE InInode(h, b)
    BY <1>4, <1>5, <2>1 DEF InInode, Held
  <2>2. CASE h[b].ino \in Live /\ Under(h, b)
    <3>1. h[b].at # b0
      BY <1>0, <1>2, <2>2 DEF Under
    <3> QED BY <1>4, <1>9, <2>2, <3>1 DEF Held
  <2>3. CASE Listed(h, b)
    BY <1>10, <1>11, <2>3 DEF Held
  <2> QED BY <1>0, <1>11, <2>1, <2>2, <2>3 DEF Held, Added
<1> QED BY <1>6, <1>7, <1>8, <1>11 DEF BlocksExact

(* Once the list is empty the inode has no block left: one it still had would
   be under another, of a higher level, and that one under another. *)
LEMMA ListIsEmpty ==
    ASSUME NameInv, NEW h \in HomeMap, op.pc = "free",
           \A j \in 1 .. Len(op.todo) : op.todo[j][1] = 0,
           \A b \in bbm : Held(h, b)
    PROVE  \A b \in bbm : h[b].ino # op.ino
<1>0. op.ino \notin Live /\ bbm \subseteq Blocks /\ 0 \notin Blocks /\ NLevel <= 3
  BY FreeFacts, DiskAssumption DEF NameInv, TypeInv, TypeOK, DiskTypeOK, Blocks
<1>1. ASSUME NEW b \in bbm, h[b].ino = op.ino
      PROVE  \E c \in bbm : h[c].ino = op.ino /\ h[c].level = h[b].level + 1
  <2>1. Listed(h, b)
    BY <1>0, <1>1 DEF Held, InInode, Added
  <2>2. Under(h, b)
    BY <1>0, <2>1 DEF Listed
  <2> QED BY <1>1, <2>2 DEF Under
<1>2. ASSUME NEW b \in bbm, h[b].ino = op.ino PROVE FALSE
  <2>1. PICK c \in bbm : h[c].ino = op.ino /\ h[c].level = h[b].level + 1
    BY <1>1, <1>2
  <2>2. PICK d \in bbm : h[d].ino = op.ino /\ h[d].level = h[c].level + 1
    BY <1>1, <2>1
  <2>3. PICK e \in bbm : h[e].ino = op.ino /\ h[e].level = h[d].level + 1
    BY <1>1, <2>2
  <2>4. PICK f \in bbm : h[f].level = h[e].level + 1
    BY <1>1, <2>3
  <2>5. h[b].level \in 0 .. NLevel /\ h[f].level \in 0 .. NLevel
    BY <1>0, HomeTypes
  <2>6. PICK l \in 0 .. NLevel : l = h[b].level
    BY <2>5
  <2>7. h[c].level = l + 1
    BY <2>1, <2>6
  <2>8. h[d].level = l + 1 + 1
    BY <2>2, <2>7
  <2>9. h[e].level = l + 1 + 1 + 1
    BY <2>3, <2>8
  <2>10. l + 1 + 1 + 1 + 1 \in 0 .. NLevel
    BY <2>4, <2>5, <2>9
  <2>11. NLevel \in 1 .. 3
    BY DiskAssumption
  <2> QED BY <2>10, <2>11
<1> QED BY <1>2

LEMMA ClearInodeExact ==
    ASSUME NameInv, NEW h \in HomeMap, Owned(h),
           BlocksExact(h), Written(h), ClearInode, UNCHANGED <<kills, dropped>>
    PROVE  BlocksExact(h)' /\ Written(h)'
<1>0. /\ TypeInv /\ op \in OpRec /\ op.pc = "free" /\ bbm \subseteq Blocks
      /\ op.ino \notin Linked /\ Live = Linked
      /\ inode' = [inode EXCEPT ![op.ino] = FreshInode(@.dir)]
      /\ op' = [op EXCEPT !.pc = "ifree"]
      /\ \A j \in 1 .. Len(op.todo) : op.todo[j][1] = 0
      /\ UNCHANGED <<bbm, ibm, kind, array, entry>>
      /\ inode \in [Inodes -> InodeRec]
  BY FreeFacts DEF ClearInode, TypeInv, TypeOK, DiskTypeOK
<1>1. /\ op'.pc = "ifree" /\ op'.ino = op.ino /\ op'.call = op.call
      /\ op'.put = op.put /\ op'.mem = op.mem
  BY <1>0 DEF OpRec
<1>2. Live' = Live
  BY <1>0, <1>1 DEF Live, Making, Linked
<1>3. \A i \in Live : Rec(i)' = Rec(i)
  <2>1. \A i \in Live : inode'[i] = inode[i]
    BY <1>0, LiveInodes
  <2> QED BY <1>1, <2>1 DEF Rec
<1>4. Written(h)'
  BY <1>0, <1>2, WrittenFrame DEF Pending
<1>5. Bare(h)'
  BY <1>1 DEF Bare
<1>6. ASSUME kills = 0, ~dropped, NEW b \in bbm PROVE Held(h, b)'
  <2>1. \A c \in bbm : Held(h, c)
    BY <1>6 DEF BlocksExact
  <2>2. h[b].ino # op.ino
    BY <1>0, <2>1, ListIsEmpty
  <2>3. h[b].ino \in Live /\ (InInode(h, b) \/ Under(h, b))
    BY <1>0, <2>1, <2>2 DEF Held, InInode, Added, Listed
  <2>4. CASE InInode(h, b)
    BY <1>2, <1>3, <2>3, <2>4 DEF InInode, Held
  <2>5. CASE Under(h, b)
    BY <1>0, <1>2, <2>3, <2>5 DEF Under, Held
  <2> QED BY <2>3, <2>4, <2>5
<1> QED BY <1>0, <1>4, <1>5, <1>6 DEF BlocksExact

-----------------------------------------------------------------------------
(* The inductive invariant. *)

LeakInv ==
    NameInv /\ \E h \in HomeMap : Owned(h) /\ Exact(h) /\ Written(h)

LEMMA LeakInit == Init => LeakInv
<1> SUFFICES ASSUME Init PROVE LeakInv
  OBVIOUS
<1>0. NameInv
  BY NameInit
<1>1. PICK h : h = FirstHomes
  OBVIOUS
<1>2. h \in HomeMap /\ Owned(h)
  BY <1>1, FirstOwned
<1>3. /\ bbm = {1} /\ ibm = {Root} /\ op = Idle /\ op.pc = "idle"
      /\ op.put = 0 /\ op.call = "none" /\ Linked = {Root} /\ Live = {Root}
  <2>1. bbm = {1} /\ ibm = {Root} /\ op = Idle /\ op.pc = "idle"
        /\ op.put = 0 /\ op.call = "none"
    BY DEF Init, Idle
  <2>2. Linked = {Root}
    BY DEF Init, Linked, NoEntries
  <2> QED BY <2>1, <2>2 DEF Live, Making
<1>4. PutIsKnown /\ NewIsNew /\ InodesExact
  BY <1>3 DEF PutIsKnown, NewIsNew, InodesExact, Taken
<1>5. 1 \in Blocks /\ Root \in Inodes /\ 0 \in Slots
  BY DiskAssumption DEF Blocks, Inodes, Root, Slots
<1>6. h[1].ino = Root /\ h[1].at = 0 /\ h[1].k = 0
  <2>1. h[1] = Place(Root, 0, 0, 0)
    BY <1>1, <1>5 DEF FirstHomes
  <2> QED BY <2>1, PlaceFields
<1>7. inode[Root].ptr[0] = 1
  <2>1. inode[Root] = [FreshInode(TRUE) EXCEPT !.ptr[0] = 1, !.size = 1]
    BY <1>5 DEF Init
  <2> QED BY <1>5, <2>1 DEF FreshInode
<1>8. Held(h, 1)
  BY <1>3, <1>5, <1>6, <1>7 DEF Held, InInode, Rec, Root
<1>9. BlocksExact(h)
  BY <1>3, <1>8 DEF BlocksExact, Bare
<1>10. Written(h)
  <2>1. kind[1] = "data"
    BY <1>5 DEF Init
  <2> QED BY <1>3, <2>1 DEF Written
<1> QED BY <1>0, <1>2, <1>4, <1>9, <1>10 DEF LeakInv, Exact

LEMMA ExactStep ==
    ASSUME NameInv, NameInv', NEW h \in HomeMap, Owned(h), Exact(h), Written(h),
           [Next]_vars, NEW g, g = Homes(h)
    PROVE  Exact(g)' /\ Written(g)'
<1>0. PutIsKnown /\ NewIsNew /\ InodesExact /\ BlocksExact(h) /\ InodesExact'
  BY InodesStep DEF Exact
<1>1. ASSUME PutIsKnown' /\ NewIsNew', BlocksExact(g)' /\ Written(g)'
      PROVE  Exact(g)' /\ Written(g)'
  BY <1>0, <1>1 DEF Exact
<1>2. ASSUME PutIsKnown' /\ NewIsNew', BlocksExact(h)' /\ Written(h)',
             bbm' \subseteq bbm,
             op.pc # "iinit" \/ op'.pc \notin {"walk", "dirent"}
      PROVE  Exact(g)' /\ Written(g)'
  <2>1. g = h
    BY <1>2, HomesSame
  <2> QED BY <1>1, <1>2, <2>1
<1>3. ASSUME UNCHANGED <<diskVars, op, kills, dropped>>
      PROVE  Exact(g)' /\ Written(g)'
  <2>1. UNCHANGED <<bbm, inode, kind, array, op>>
    BY <1>3 DEF diskVars
  <2>2. PutIsKnown' /\ NewIsNew'
    BY <1>0, <2>1 DEF PutIsKnown, NewIsNew
  <2>3. op.pc # "iinit" \/ op'.pc \notin {"walk", "dirent"}
    BY <2>1
  <2> QED BY <1>0, <1>2, <1>3, <2>1, <2>2, <2>3, StillExact
<1>4. ASSUME NEW m \in Modes, Start(m) PROVE Exact(g)' /\ Written(g)'
  BY <1>3, <1>4 DEF Start
<1>5. CASE Exit
  <2>1. op' = Idle /\ bbm' = bbm /\ op.pc = "idle"
    BY <1>5 DEF Exit, Gone, diskVars
  <2> QED BY <1>0, <1>2, <1>5, <2>1, ExitExact, IdleKnown
<1>6. CASE Kill
  <2>1. op' = Idle /\ kills' = kills + 1 /\ bbm' = bbm
    BY <1>6 DEF Kill, Gone, diskVars
  <2>2. kills' # 0
    BY <2>1, CallAssumption DEF NameInv, TypeInv, TypeOK
  <2> QED BY <1>2, <2>1, <2>2, KilledExact, IdleKnown
<1>7. ASSUME NEW call \in {"create", "mkdir"}, NEW d \in Inodes, NEW n \in Names,
             op.pc = "idle", NewInode(call, d, n)
      PROVE  Exact(g)' /\ Written(g)'
  <2>1. bbm' = bbm
    BY <1>7 DEF NewInode
  <2> QED BY <1>0, <1>2, <1>7, <2>1, NewInodeKnown, NewInodeExact
<1>8. ASSUME NEW d \in Inodes, NEW n \in Names, op.pc = "idle", Remove(d, n)
      PROVE  Exact(g)' /\ Written(g)'
  <2>1. bbm' = bbm
    BY <1>8 DEF Remove
  <2> QED BY <1>0, <1>2, <1>8, <2>1, RemoveKnown, RemoveExact
<1>9. ASSUME NEW call \in {"write", "fwrite"}, NEW i \in Inodes,
             NEW k \in Fds \union {0}, NEW lb \in Nat, NEW n \in Nat,
             op.pc = "idle", BeginWrite(call, i, k, lb, n)
      PROVE  Exact(g)' /\ Written(g)'
  <2>1. bbm' = bbm /\ TypeInv
    BY <1>9 DEF BeginWrite, diskVars, NameInv
  <2> QED BY <1>0, <1>2, <1>9, <2>1, BeginWriteKnown, BeginWriteExact
<1>10. ASSUME NEW k \in Fds, NEW n \in 1 .. MaxWrite, Write(k, n)
       PROVE  Exact(g)' /\ Written(g)'
  <2>1. /\ op.pc = "idle" /\ fd[k].ino \in Inodes /\ fd[k].off \in Nat
        /\ n \in Nat /\ BeginWrite("write", fd[k].ino, k, fd[k].off, n)
    BY <1>10 DEF Write, Ready, NameInv, TypeInv, TypeOK
  <2> QED BY <1>9, <2>1
<1>11. CASE Call
  <2>1. ASSUME NEW d \in Inodes, NEW n \in Names,
               \/ Create(d, n) \/ Mkdir(d, n)
               \/ Delete(d, n) \/ Rmdir(d, n)
               \/ Open(d, n)
        PROVE  Exact(g)' /\ Written(g)'
    BY <1>3, <1>7, <1>8, <2>1 DEF Create, Mkdir, Delete, Rmdir, Open, Ready
  <2>2. ASSUME NEW k \in Fds, Close(k) PROVE Exact(g)' /\ Written(g)'
    BY <1>3, <2>2 DEF Close
  <2>3. ASSUME NEW k \in Fds, NEW n \in 1 .. MaxWrite, Read(k, n) \/ Write(k, n)
        PROVE  Exact(g)' /\ Written(g)'
    BY <1>3, <1>10, <2>3 DEF Read
  <2>4. ASSUME NEW i \in Inodes, NEW lb \in 0 .. MaxSize, NEW n \in 1 .. MaxWrite,
               FuseWrite(i, lb, n)
        PROVE  Exact(g)' /\ Written(g)'
    BY <1>9, <2>4 DEF FuseWrite, Ready
  <2> QED BY <1>11, <2>1, <2>2, <2>3, <2>4 DEF Call
<1>12. CASE Map /\ UNCHANGED <<mode, fd, kills, dropped>>
  <2>1. CASE FollowPointer
    BY <1>0, <1>2, <1>12, <2>1, FollowKnown, FollowExact DEF FollowPointer, diskVars
  <2>2. CASE AllocBlock
    <3>1. FreeIsOld
      BY DEF Owned
    <3> QED BY <1>0, <1>1, <1>12, <2>2, <3>1, AllocKnown, AllocExact
  <2>3. CASE ZeroBlock
    BY <1>0, <1>2, <1>12, <2>3, ZeroKnown, ZeroExact DEF ZeroBlock
  <2>4. CASE LinkBlock
    BY <1>0, <1>2, <1>12, <2>4, LinkKnown, LinkExact DEF LinkBlock
  <2> QED BY <1>12, <2>1, <2>2, <2>3, <2>4 DEF Map
<1>13. CASE Free /\ UNCHANGED <<mode, fd, kills, dropped>>
  <2>1. BlocksExact(h)' /\ Written(h)'
    BY <1>0, <1>13, ExpandExact, FreeBlockExact, ClearInodeExact, FreeInodeExact
       DEF Free
  <2>2. bbm' \subseteq bbm /\ op.pc \in {"free", "ifree"}
    BY <1>13 DEF Free, ExpandPointerBlock, FreeBlock, ClearInode, FreeInode, diskVars
  <2>3. PutIsKnown' /\ NewIsNew'
    BY <1>0, <1>13, FreeKnown
  <2> QED BY <1>2, <2>1, <2>2, <2>3
<1>14. CASE InitInode
  BY <1>0, <1>1, <1>14, InitInodeKnown, InitInodeExact
<1>15. CASE WriteEntry
  <2>1. op' = Idle /\ bbm' = bbm /\ op.pc = "dirent"
    BY <1>15 DEF WriteEntry
  <2> QED BY <1>0, <1>2, <1>15, <2>1, IdleKnown, WriteEntryExact
<1>16. CASE WriteData
  <2>1. bbm' = bbm /\ op.pc = "data"
    BY <1>16 DEF WriteData
  <2> QED BY <1>0, <1>2, <1>16, <2>1, WriteDataKnown, WriteDataExact
<1>17. CASE RunOut
  <2>1. bbm' = bbm /\ op.pc = "walk"
    BY <1>17 DEF RunOut, OutOfSpace, diskVars
  <2> QED BY <1>0, <1>2, <1>17, <2>1, RunOutKnown, RunOutExact
<1>18. CASE PutInode
  <2>1. bbm' = bbm /\ op.pc = "iput"
    BY <1>18 DEF PutInode
  <2> QED BY <1>0, <1>2, <1>18, <2>1, PutInodeKnown, PutInodeExact
<1>19. CASE Continue
  BY <1>12, <1>13, <1>14, <1>15, <1>16, <1>17, <1>18, <1>19 DEF Continue
<1>20. CASE UNCHANGED vars
  BY <1>3, <1>20 DEF vars
<1> QED BY <1>4, <1>5, <1>6, <1>11, <1>19, <1>20 DEF Next

LEMMA LeakStep == LeakInv /\ [Next]_vars => LeakInv'
<1> SUFFICES ASSUME LeakInv, [Next]_vars PROVE LeakInv'
  OBVIOUS
<1>1. NameInv /\ NameInv'
  BY NameStep DEF LeakInv
<1>2. PICK h \in HomeMap : Owned(h) /\ Exact(h) /\ Written(h)
  BY DEF LeakInv
<1>3. PICK g : g = Homes(h)
  OBVIOUS
<1>4. g \in HomeMap /\ Owned(g)'
  BY <1>1, <1>2, <1>3, OwnedStep
<1>5. Exact(g)' /\ Written(g)'
  BY <1>1, <1>2, <1>3, ExactStep
<1> QED BY <1>1, <1>4, <1>5 DEF LeakInv

-----------------------------------------------------------------------------
(* What the invariant says between calls. *)

LEMMA GrowHas ==
    ASSUME NEW P, NEW b, NEW level, level > 0, <<b, level>> \in P,
           NEW k \in 0 .. NPtr - 1, array[b][k] # 0
    PROVE  <<array[b][k], level - 1>> \in Grow(P)
<1> DEFINE c == array[b][k]
           p == <<b, level>>
<1>1. c \in Children(p[1])
  BY DEF Children
<1>2. p \in {q \in P : q[2] > 0}
  OBVIOUS
<1>3. <<c, p[2] - 1>> \in {<<d, p[2] - 1>> : d \in Children(p[1])}
  BY <1>1
<1>4. <<c, p[2] - 1>> \in Kids(P)
  BY <1>2, <1>3 DEF Kids
<1> QED BY <1>4 DEF Grow

(* Between calls a block is held by an inode or by a block above it. *)
LEMMA HeldBetween ==
    ASSUME NameInv, NEW h \in HomeMap, Owned(h), Exact(h),
           op.pc = "idle", kills = 0, ~dropped, NEW b \in bbm
    PROVE  /\ b \in Blocks /\ h[b].ino \in Linked /\ h[b].ino \in Inodes
           /\ h[b].level \in 0 .. NLevel
           /\ \/ <<b, h[b].level>> \in ToFree(inode[h[b].ino])
              \/ Under(h, b)
<1>1. /\ op.put = 0 /\ op.call = "none" /\ Held(h, b) /\ b \in Blocks /\ b # 0
  BY DEF Exact, PutIsKnown, NameInv, OpNames, BlocksExact, TypeInv, TypeOK,
     DiskTypeOK, Blocks
<1>2. Live = Linked
  BY <1>1, IdleLive
<1>3. h[b].ino \in Linked /\ (InInode(h, b) \/ Under(h, b))
  BY <1>1, <1>2 DEF Held, InInode, Added, Listed
<1>4. h[b].ino \in Inodes /\ h[b].level \in 0 .. NLevel
  BY <1>1, <1>2, <1>3, LiveInodes, HomeTypes
<1>5. ASSUME InInode(h, b) PROVE <<b, h[b].level>> \in ToFree(inode[h[b].ino])
  <2> PICK i : i = h[b].ino
    OBVIOUS
  <2> PICK s : s = h[b].k
    OBVIOUS
  <2>1. i \in Live /\ s \in Slots /\ inode[i].ptr[s] = b
    BY <1>1, <1>4, <1>5, RootIsInode DEF InInode, Rec
  <2>2. h[b] = Place(i, DepthOf(s), 0, s)
    BY <1>1, <2>1 DEF Owned, InodesOwn, SlotsOwn
  <2>3. h[b].level = DepthOf(s)
    BY <2>2, PlaceFields
  <2> QED BY <1>1, <2>1, <2>3 DEF ToFree
<1> QED BY <1>1, <1>3, <1>4, <1>5

LEMMA MarkedIsMapped ==
    ASSUME NameInv, NEW h \in HomeMap, Owned(h), Exact(h),
           op.pc = "idle", kills = 0, ~dropped, NEW b \in bbm
    PROVE  b \in Mapped
<1> PICK i : i = h[b].ino
  OBVIOUS
<1>0. i \in Linked /\ NLevel <= 3 /\ NLevel \in Nat
  <2>1. h[b].ino \in Linked
    BY HeldBetween
  <2> QED BY <2>1, DiskAssumption
<1> DEFINE own == {c \in bbm : h[c].ino = i}
           T0 == ToFree(inode[i])
           T1 == Grow(T0)
           T2 == Grow(T1)
           T3 == Grow(T2)
<1>1. \A c \in own :
        /\ h[c].level \in 0 .. 3
        /\ \/ <<c, h[c].level>> \in T0
           \/ Under(h, c) /\ h[c].at \in own /\ h[h[c].at].level = h[c].level + 1
  <2> SUFFICES ASSUME NEW c \in own
               PROVE  /\ h[c].level \in 0 .. 3
                      /\ \/ <<c, h[c].level>> \in T0
                         \/ /\ Under(h, c) /\ h[c].at \in own
                            /\ h[h[c].at].level = h[c].level + 1
    OBVIOUS
  <2>1. /\ h[c].ino = i /\ h[c].level \in 0 .. NLevel
        /\ <<c, h[c].level>> \in T0 \/ Under(h, c)
    BY HeldBetween
  <2> QED BY <1>0, <2>1 DEF Under
<1>2. ASSUME NEW P, NEW c \in own, Under(h, c), h[c].level \in Nat,
             <<h[c].at, h[c].level + 1>> \in P
      PROVE  <<c, h[c].level>> \in Grow(P)
  <2> PICK at : at = h[c].at
    OBVIOUS
  <2> PICK k : k = h[c].k
    OBVIOUS
  <2> PICK level \in Nat : level = h[c].level
    BY <1>2
  <2>1. k \in 0 .. NPtr - 1 /\ array[at][k] = c
    BY <1>2 DEF Under
  <2>2. c # 0 /\ level + 1 > 0 /\ (level + 1) - 1 = level /\ <<at, level + 1>> \in P
    BY <1>2 DEF NameInv, TypeInv, TypeOK, DiskTypeOK, Blocks
  <2>3. <<array[at][k], (level + 1) - 1>> \in Grow(P)
    BY <2>1, <2>2, GrowHas
  <2> QED BY <2>1, <2>2, <2>3
<1>3. T0 \subseteq T1 /\ T1 \subseteq T2 /\ T2 \subseteq T3
  BY DEF Grow
<1>4. T3 = Tree(inode[i])
  BY DEF Tree
<1>5. b \in own
  OBVIOUS
<1> HIDE DEF own, T0
<1>6. \A c \in own : h[c].level = 3 => <<c, h[c].level>> \in T0
  <2> SUFFICES ASSUME NEW c \in own, h[c].level = 3
               PROVE  <<c, h[c].level>> \in T0
    OBVIOUS
  <2>1. \A e \in own : h[e].level # 4
    <3> TAKE e \in own
    <3>1. h[e].level \in 0 .. 3
      BY <1>1
    <3> QED BY <3>1
  <2>2. \/ <<c, h[c].level>> \in T0
        \/ h[c].at \in own /\ h[h[c].at].level = h[c].level + 1
    BY <1>1
  <2> QED BY <2>1, <2>2
<1>7. \A c \in own : h[c].level = 2 => <<c, h[c].level>> \in T1
  <2> SUFFICES ASSUME NEW c \in own, h[c].level = 2
               PROVE  <<c, h[c].level>> \in T1
    OBVIOUS
  <2>1. CASE Under(h, c) /\ h[c].at \in own /\ h[h[c].at].level = h[c].level + 1
    <3>1. <<h[c].at, h[c].level + 1>> \in T0
      BY <1>6, <2>1
    <3> QED BY <1>2, <2>1, <3>1
  <2> QED BY <1>1, <1>3, <2>1
<1> HIDE DEF T1
<1>8. \A c \in own : h[c].level = 1 => <<c, h[c].level>> \in T2
  <2> SUFFICES ASSUME NEW c \in own, h[c].level = 1
               PROVE  <<c, h[c].level>> \in T2
    OBVIOUS
  <2>1. CASE Under(h, c) /\ h[c].at \in own /\ h[h[c].at].level = h[c].level + 1
    <3>1. <<h[c].at, h[c].level + 1>> \in T1
      BY <1>7, <2>1
    <3> QED BY <1>2, <2>1, <3>1
  <2> QED BY <1>1, <1>3, <2>1
<1> HIDE DEF T2
<1>9. \A c \in own : h[c].level = 0 => <<c, h[c].level>> \in T3
  <2> SUFFICES ASSUME NEW c \in own, h[c].level = 0
               PROVE  <<c, h[c].level>> \in T3
    OBVIOUS
  <2>1. CASE Under(h, c) /\ h[c].at \in own /\ h[h[c].at].level = h[c].level + 1
    <3>1. <<h[c].at, h[c].level + 1>> \in T2
      BY <1>8, <2>1
    <3> QED BY <1>2, <2>1, <3>1
  <2> QED BY <1>1, <1>3, <2>1
<1>10. <<b, h[b].level>> \in T3
  BY <1>1, <1>3, <1>5, <1>6, <1>7, <1>8, <1>9
<1>11. <<b, h[b].level>> \in Forest
  BY <1>0, <1>4, <1>10 DEF Forest
<1> QED BY <1>11 DEF Mapped

LEMMA LeakIsBlock == LeakInv => BlockInv
BY DEF LeakInv, BlockInv

LEMMA NoLeakFrom == LeakInv => NoLeak
<1> SUFFICES ASSUME LeakInv, op.pc = "idle", kills = 0, ~dropped
             PROVE  bbm = Mapped /\ ibm = Linked
  BY DEF NoLeak
<1>1. NameInv
  BY DEF LeakInv
<1>2. PICK h \in HomeMap : Owned(h) /\ Exact(h)
  BY DEF LeakInv
<1>3. Mapped \subseteq bbm /\ Linked \subseteq ibm
  BY LeakIsBlock, LinkedIsMarkedFrom DEF LinkedIsMarked
<1>4. bbm \subseteq Mapped
  BY <1>1, <1>2, MarkedIsMapped
<1>5. ibm = Linked
  <2>1. op.call = "none"
    BY <1>1 DEF NameInv, OpNames
  <2> QED BY <1>2, <2>1 DEF Exact, InodesExact, Taken
<1> QED BY <1>3, <1>4, <1>5

(* What Lookup finds has its place in the inode, and no levels below it. *)
LEMMA DownFits ==
    ASSUME NameInv, NEW h \in HomeMap, Owned(h), NEW i \in Linked,
           NEW b, NEW level \in Nat, level > 0, Fits(h, i, <<b, level>>),
           NEW k \in 0 .. NPtr - 1, array[b][k] # 0
    PROVE  Fits(h, i, <<array[b][k], level - 1>>)
<1> DEFINE P == {<<b, level>>}
<1>1. <<array[b][k], level - 1>> \in Grow(P)
  BY GrowHas
<1>2. \A x \in P : Fits(h, i, x)
  OBVIOUS
<1> QED BY <1>1, <1>2, GrowFits DEF Owned

LEMMA SeqItem ==
    ASSUME NEW S, NEW s \in Seq(S), NEW j \in 1 .. Len(s) PROVE s[j] \in S
OBVIOUS

LEMMA LookupFits ==
    ASSUME NameInv, NEW h \in HomeMap, Owned(h), NEW i \in Linked,
           NEW lb \in Nat, Lookup(inode[i], lb) # 0
    PROVE  Fits(h, i, <<Lookup(inode[i], lb), 0>>)
<1> DEFINE index == Indices(lb)
           depth == Len(index)
           Down(b, j) == IF b = 0 \/ j > Len(index) THEN b ELSE array[b][index[j]]
           b0 == inode[i].ptr[SlotOf(lb)]
           b1 == Down(b0, 1)
           b2 == Down(b1, 2)
           b3 == Down(b2, 3)
           Right(b, level) == b # 0 => Fits(h, i, <<b, level>>)
<1>1. Lookup(inode[i], lb) = b3
  <2>1. Len(<<>>) = 0
    OBVIOUS
  <2>2. CASE b0 = 0
    BY <2>2 DEF Lookup
  <2>3. CASE index = <<>>
    BY <2>1, <2>3 DEF Lookup
  <2>4. CASE b0 # 0 /\ index # <<>>
    BY <2>4 DEF Lookup
  <2> QED BY <2>2, <2>3, <2>4
<1>2. /\ index \in Seq(0 .. NPtr - 1) /\ depth \in 0 .. 3
      /\ DepthOf(SlotOf(lb)) = depth /\ SlotOf(lb) \in Slots
  <2>1. index \in Seq(0 .. NPtr - 1)
    BY IndicesType
  <2>2. LevelOf(lb) \in 0 .. NLevel /\ NLevel \in 1 .. 3
    BY LevelType, DiskAssumption
  <2>3. depth = LevelOf(lb) /\ DepthOf(SlotOf(lb)) = LevelOf(lb)
    BY IndicesLength
  <2>4. SlotOf(lb) \in Slots
    BY SlotType
  <2> HIDE DEF index
  <2>5. depth \in 0 .. 3
    BY <2>2, <2>3
  <2> QED BY <2>1, <2>3, <2>4, <2>5
<1>3. Right(b0, depth)
  <2>1. ASSUME b0 # 0 PROVE <<b0, depth>> \in ToFree(inode[i])
    BY <1>2, <2>1 DEF ToFree
  <2>2. <<b0, depth>> \in ToFree(inode[i]) => <<b0, depth>> \in Tree(inode[i])
    BY DEF Tree, Grow
  <2> HIDE DEF b0, depth
  <2> QED BY <2>1, <2>2, TreeFits
<1>4. ASSUME NEW b, NEW j \in 1 .. 3, NEW level \in 1 .. 3, j + level = depth + 1,
             Right(b, level), NEW below, below = level - 1
      PROVE  Right(Down(b, j), below)
  <2>1. CASE b = 0
    BY <2>1
  <2>2. CASE b # 0
    <3> DEFINE k == index[j]
    <3>1. j \in 1 .. Len(index)
      BY <1>2, <1>4
    <3>2. k \in 0 .. NPtr - 1
      <4> HIDE DEF index
      <4> QED BY <1>2, <3>1, SeqItem
    <3>3. Down(b, j) = array[b][k]
      BY <2>2, <3>1
    <3> HIDE DEF k, Down, depth
    <3>4. array[b][k] # 0 => Fits(h, i, <<array[b][k], level - 1>>)
      BY <1>4, <2>2, <3>2, DownFits
    <3> QED BY <1>4, <3>3, <3>4
  <2> QED BY <2>1, <2>2
<1>5. \A b : \A j \in 1 .. 3 : j > depth => Down(b, j) = b
  OBVIOUS
<1> HIDE DEF index, Down, b0, Right
<1>6. Right(b3, 0)
  <2>1. CASE depth = 0
    <3>1. b1 = b0 /\ b2 = b1 /\ b3 = b2
      BY <1>5, <2>1
    <3> QED BY <1>3, <2>1, <3>1
  <2>2. CASE depth = 1
    <3>1. b2 = b1 /\ b3 = b2
      BY <1>5, <2>2
    <3>2. Right(b1, 0)
      BY <1>3, <1>4, <2>2
    <3> QED BY <3>1, <3>2
  <2>3. CASE depth = 2
    <3>1. b3 = b2
      BY <1>5, <2>3
    <3>2. Right(b1, 1)
      BY <1>3, <1>4, <2>3
    <3>3. Right(b2, 0)
      BY <1>4, <2>3, <3>2
    <3> QED BY <3>1, <3>3
  <2>4. CASE depth = 3
    <3>1. Right(b1, 2)
      BY <1>3, <1>4, <2>4
    <3>2. Right(b2, 1)
      BY <1>4, <2>4, <3>1
    <3> QED BY <1>4, <2>4, <3>2
  <2> QED BY <1>2, <2>1, <2>2, <2>3, <2>4
<1>7. PICK b : b = Lookup(inode[i], lb)
  OBVIOUS
<1>8. Right(b, 0) /\ b # 0
  BY <1>1, <1>6, <1>7
<1> HIDE DEF index, depth, Down, b0, b1, b2, b3
<1>9. Fits(h, i, <<b, 0>>)
  BY ONLY <1>8 DEF Right
<1> QED BY ONLY <1>7, <1>9

LEMMA MappedIsWrittenFrom == LeakInv => MappedIsWritten
<1> SUFFICES ASSUME LeakInv, op.pc = "idle", kills = 0,
                    NEW i \in Linked, NEW lb \in 0 .. inode[i].size - 1,
                    Lookup(inode[i], lb) # 0
             PROVE  kind[Lookup(inode[i], lb)] = "data"
  BY DEF MappedIsWritten
<1>1. NameInv
  BY DEF LeakInv
<1>2. PICK h \in HomeMap : Owned(h) /\ Written(h)
  BY DEF LeakInv
<1>3. PICK b : b = Lookup(inode[i], lb)
  OBVIOUS
<1>4. Fits(h, i, <<b, 0>>)
  BY <1>1, <1>2, <1>3, LookupFits
<1>5. b \in Blocks /\ h[b].ino = i /\ h[b].level = 0
  BY <1>4 DEF Fits
<1>6. i \in Live /\ b \in bbm
  BY <1>2, <1>5, LinkedLive DEF Owned, OwnedIsMarked
<1>7. kind[b] = "data" \/ Pending(b)
  BY <1>2, <1>5, <1>6 DEF Written
<1> QED BY <1>3, <1>7 DEF Pending

(* Between calls the bitmaps hold exactly what paths lead to, after calls that
   failed for lack of space too: what alloc_block and alloc_inode took is in
   the tree or was given back.  Excused are a process killed inside a call and
   the FUSE write that returns without write_inode. *)
THEOREM NoLeakAlways == Spec => []NoLeak
BY LeakInit, LeakStep, NoLeakFrom, PTL DEF Spec

(* A read below the size of a file finds a hole or a block that was written
   since alloc_block took it, never what its last owner left there, as long as
   no process was killed inside a call. *)
THEOREM MappedIsWrittenAlways == Spec => []MappedIsWritten
BY LeakInit, LeakStep, MappedIsWrittenFrom, PTL DEF Spec

-----------------------------------------------------------------------------
(* The way to a logical block. *)

LEMMA IndexFacts ==
    ASSUME NEW lb \in Nat
    PROVE  /\ Indices(lb) \in Seq(0 .. NPtr - 1)
           /\ Len(Indices(lb)) \in 0 .. 3 /\ Len(Indices(lb)) \in 0 .. NLevel
           /\ \A j \in 1 .. Len(Indices(lb)) : Indices(lb)[j] \in 0 .. NPtr - 1
           /\ SlotOf(lb) \in Slots /\ DepthOf(SlotOf(lb)) = Len(Indices(lb))
<1>1. PICK index : index = Indices(lb)
  OBVIOUS
<1>2. index \in Seq(0 .. NPtr - 1)
  BY <1>1, IndicesType
<1>3. Len(index) = LevelOf(lb) /\ DepthOf(SlotOf(lb)) = LevelOf(lb)
  BY <1>1, IndicesLength
<1>4. LevelOf(lb) \in 0 .. NLevel /\ NLevel \in 1 .. 3
  BY LevelType, DiskAssumption
<1>5. \A j \in 1 .. Len(index) : index[j] \in 0 .. NPtr - 1
  BY <1>2, SeqItem
<1> QED BY <1>1, <1>2, <1>3, <1>4, <1>5, SlotType

LEMMA WayIs ==
    ASSUME NEW arr, NEW rec, NEW lb
    PROVE  /\ Way(arr, rec, lb, 0) = rec.ptr[SlotOf(lb)]
           /\ \A n \in 1 .. 3 :
                Way(arr, rec, lb, n)
                  = Hop(arr, Way(arr, rec, lb, n - 1), Indices(lb), n)
<1>1. Way(arr, rec, lb, 0) = rec.ptr[SlotOf(lb)]
  BY DEF Way
<1>2. Way(arr, rec, lb, 1) = Hop(arr, Way(arr, rec, lb, 0), Indices(lb), 1)
  BY DEF Way
<1>3. Way(arr, rec, lb, 2) = Hop(arr, Way(arr, rec, lb, 1), Indices(lb), 2)
  BY DEF Way
<1>4. Way(arr, rec, lb, 3) = Hop(arr, Way(arr, rec, lb, 2), Indices(lb), 3)
  BY DEF Way
<1>5. ASSUME NEW n \in 1 .. 3
      PROVE  Way(arr, rec, lb, n) = Hop(arr, Way(arr, rec, lb, n - 1), Indices(lb), n)
  <2>1. CASE n = 1
    BY <1>2, <2>1
  <2>2. CASE n = 2
    BY <1>3, <2>2
  <2>3. CASE n = 3
    BY <1>4, <2>3
  <2> QED BY <2>1, <2>2, <2>3
<1> QED BY <1>1, <1>5

LEMMA WayNext ==
    ASSUME NEW arr, NEW rec, NEW lb \in Nat, NEW n \in 1 .. 3
    PROVE  /\ n <= Len(Indices(lb)) /\ Way(arr, rec, lb, n - 1) # 0 =>
                Way(arr, rec, lb, n)
                  = arr[Way(arr, rec, lb, n - 1)][Indices(lb)[n]]
           /\ n > Len(Indices(lb)) \/ Way(arr, rec, lb, n - 1) = 0 =>
                Way(arr, rec, lb, n) = Way(arr, rec, lb, n - 1)
<1>1. Way(arr, rec, lb, n) = Hop(arr, Way(arr, rec, lb, n - 1), Indices(lb), n)
  BY WayIs
<1>2. PICK b : b = Way(arr, rec, lb, n - 1)
  OBVIOUS
<1>3. PICK index : index = Indices(lb)
  OBVIOUS
<1>4. Len(index) \in 0 .. 3
  BY <1>3, IndexFacts
<1>5. Way(arr, rec, lb, n) = Hop(arr, b, index, n)
  BY <1>1, <1>2, <1>3
<1>6. /\ n <= Len(index) /\ b # 0 => Hop(arr, b, index, n) = arr[b][index[n]]
      /\ n > Len(index) \/ b = 0 => Hop(arr, b, index, n) = b
  BY <1>4 DEF Hop
<1> QED BY <1>2, <1>3, <1>5, <1>6

LEMMA LookupIsWay ==
    ASSUME NEW rec, NEW lb PROVE Lookup(rec, lb) = Way(array, rec, lb, 3)
<1>1. Len(<<>>) = 0
  OBVIOUS
<1>2. CASE rec.ptr[SlotOf(lb)] = 0
  BY <1>2 DEF Lookup, Way, Hop
<1>3. CASE Indices(lb) = <<>>
  BY <1>1, <1>3 DEF Lookup, Way, Hop
<1>4. CASE rec.ptr[SlotOf(lb)] # 0 /\ Indices(lb) # <<>>
  <2> DEFINE first == rec.ptr[SlotOf(lb)]
             way1 == Hop(array, first, Indices(lb), 1)
             way2 == Hop(array, way1, Indices(lb), 2)
  <2>1. Lookup(rec, lb) = Hop(array, way2, Indices(lb), 3)
    BY <1>4 DEF Lookup, Hop
  <2>2. Way(array, rec, lb, 3) = Hop(array, way2, Indices(lb), 3)
    BY DEF Way
  <2> QED BY <2>1, <2>2
<1> QED BY <1>2, <1>3, <1>4

(* The way ends at the last index. *)
LEMMA WayEnd ==
    ASSUME NEW arr, NEW rec, NEW lb \in Nat
    PROVE  Way(arr, rec, lb, 3) = Way(arr, rec, lb, Len(Indices(lb)))
<1>1. PICK depth : depth = Len(Indices(lb)) /\ depth \in 0 .. 3
  BY IndexFacts
<1>2. 1 > depth => Way(arr, rec, lb, 1) = Way(arr, rec, lb, 0)
  BY <1>1, WayNext
<1>3. 2 > depth => Way(arr, rec, lb, 2) = Way(arr, rec, lb, 1)
  BY <1>1, WayNext
<1>4. 3 > depth => Way(arr, rec, lb, 3) = Way(arr, rec, lb, 2)
  BY <1>1, WayNext
<1>5. CASE depth = 0
  BY <1>1, <1>2, <1>3, <1>4, <1>5
<1>6. CASE depth = 1
  BY <1>1, <1>3, <1>4, <1>6
<1>7. CASE depth = 2
  BY <1>1, <1>4, <1>7
<1>8. CASE depth = 3
  BY <1>1, <1>8
<1> QED BY <1>1, <1>5, <1>6, <1>7, <1>8

(* Where the n-th block of a way belongs. *)
OwnsAt(h, i, rec, lb, n) ==
    LET b == Way(array, rec, lb, n)
        level == Len(Indices(lb)) - n
    IN  b # 0 =>
          /\ b \in Blocks /\ Cleared(b, level)
          /\ n = 0 => h[b] = Place(i, level, 0, SlotOf(lb))
          /\ n # 0 => /\ Way(array, rec, lb, n - 1) \in Blocks
                      /\ h[b] = Place(i, level, Way(array, rec, lb, n - 1),
                                      Indices(lb)[n])

LEMMA WayOwnsNext ==
    ASSUME NameInv, NEW h \in HomeMap, BlocksOwn(h), NEW i \in Live, NEW rec,
           NEW lb \in Nat, NEW n \in 1 .. 3, n <= Len(Indices(lb)),
           OwnsAt(h, i, rec, lb, n - 1)
    PROVE  OwnsAt(h, i, rec, lb, n)
<1>1. PICK p : p = Way(array, rec, lb, n - 1)
  OBVIOUS
<1>2. PICK c : c = Way(array, rec, lb, n)
  OBVIOUS
<1>3. PICK depth : depth = Len(Indices(lb)) /\ depth \in 0 .. 3
  BY IndexFacts
<1>4. PICK k : k = Indices(lb)[n] /\ k \in 0 .. NPtr - 1
  <2>1. n \in 1 .. Len(Indices(lb))
    BY <1>3
  <2>2. Indices(lb)[n] \in 0 .. NPtr - 1
    BY <2>1, IndexFacts
  <2> QED BY <2>2
<1>5. SUFFICES ASSUME c # 0 PROVE OwnsAt(h, i, rec, lb, n)
  BY <1>2 DEF OwnsAt
<1>6. p # 0 /\ c = array[p][k]
  <2>1. p = 0 => c = p
    BY <1>1, <1>2, WayNext
  <2> QED BY <1>1, <1>2, <1>4, <1>5, <2>1, WayNext
<1>7. PICK above : above = depth - (n - 1) /\ above \in Nat /\ above > 0
  BY <1>3
<1>8. p \in Blocks /\ Cleared(p, above) /\ h[p].ino = i /\ h[p].level = above
  <2>1. p \in Blocks /\ Cleared(p, above)
    BY <1>1, <1>3, <1>6, <1>7 DEF OwnsAt
  <2>2. \E at, k2 : h[p] = Place(i, above, at, k2)
    <3>1. CASE n - 1 = 0
      BY <1>1, <1>3, <1>6, <1>7, <3>1 DEF OwnsAt
    <3>2. CASE n - 1 # 0
      BY <1>1, <1>3, <1>6, <1>7, <3>2 DEF OwnsAt
    <3> QED BY <3>1, <3>2
  <2> QED BY <2>1, <2>2, PlaceFields
<1>9. kind[p] = "ptrs"
  BY <1>7, <1>8 DEF Cleared
<1>10. PICK level : level = above - 1 /\ level = depth - n
  BY <1>3, <1>7
<1>11. h[c] = Place(i, level, p, k) /\ Cleared(c, level)
  BY <1>4, <1>5, <1>6, <1>7, <1>8, <1>9, <1>10 DEF BlocksOwn
<1>12. c \in Blocks
  <2>1. array[p] \in PtrArray
    BY <1>8 DEF NameInv, TypeInv, TypeOK, DiskTypeOK
  <2> QED BY <1>4, <1>5, <1>6, <2>1 DEF PtrArray
<1>13. n # 0
  OBVIOUS
<1> QED BY <1>1, <1>2, <1>3, <1>4, <1>8, <1>10, <1>11, <1>12, <1>13 DEF OwnsAt

LEMMA SlotOwnsAt ==
    ASSUME NEW h, NEW i, NEW rec, rec.ptr \in [Slots -> Blocks \union {0}],
           NEW lb \in Nat,
           LET s == SlotOf(lb)
           IN  rec.ptr[s] # 0 =>
                 /\ h[rec.ptr[s]] = Place(i, DepthOf(s), 0, s)
                 /\ Cleared(rec.ptr[s], DepthOf(s))
    PROVE  OwnsAt(h, i, rec, lb, 0)
<1>1. PICK depth : depth = Len(Indices(lb)) /\ depth \in 0 .. 3
  BY IndexFacts
<1>2. PICK s \in Slots : s = SlotOf(lb) /\ DepthOf(s) = depth
  BY <1>1, IndexFacts
<1>3. PICK b : b = rec.ptr[s] /\ b = Way(array, rec, lb, 0)
  BY <1>2, WayIs
<1>4. b # 0 => b \in Blocks /\ h[b] = Place(i, depth, 0, s) /\ Cleared(b, depth)
  BY <1>2, <1>3
<1>5. depth - 0 = depth
  BY <1>1
<1> QED BY <1>1, <1>2, <1>3, <1>4, <1>5 DEF OwnsAt

LEMMA WayOwnsFrom ==
    ASSUME NameInv, NEW h \in HomeMap, BlocksOwn(h), NEW i \in Live,
           NEW rec, NEW lb \in Nat, OwnsAt(h, i, rec, lb, 0)
    PROVE  \A n \in 0 .. Len(Indices(lb)) : OwnsAt(h, i, rec, lb, n)
<1>1. PICK depth : depth = Len(Indices(lb)) /\ depth \in 0 .. 3
  BY IndexFacts
<1>2. OwnsAt(h, i, rec, lb, 0)
  OBVIOUS
<1>3. depth >= 1 => OwnsAt(h, i, rec, lb, 1)
  BY <1>1, <1>2, WayOwnsNext
<1>4. depth >= 2 => OwnsAt(h, i, rec, lb, 2)
  BY <1>1, <1>3, WayOwnsNext
<1>5. depth >= 3 => OwnsAt(h, i, rec, lb, 3)
  BY <1>1, <1>4, WayOwnsNext
<1>6. ASSUME NEW n \in 0 .. depth PROVE OwnsAt(h, i, rec, lb, n)
  <2>1. n = 0 \/ n = 1 \/ n = 2 \/ n = 3
    BY <1>1
  <2> QED BY <1>1, <1>2, <1>3, <1>4, <1>5, <2>1
<1> QED BY <1>1, <1>6

LEMMA WayOwns ==
    ASSUME NameInv, NEW h \in HomeMap, BlocksOwn(h), NEW i \in Live,
           NEW rec, rec.ptr \in [Slots -> Blocks \union {0}],
           SlotsOwn(h, i, rec.ptr), NEW lb \in Nat
    PROVE  \A n \in 0 .. Len(Indices(lb)) : OwnsAt(h, i, rec, lb, n)
<1>1. SlotOf(lb) \in Slots
  BY IndexFacts
<1>2. OwnsAt(h, i, rec, lb, 0)
  BY <1>1, SlotOwnsAt DEF SlotsOwn
<1> QED BY <1>2, WayOwnsFrom

-----------------------------------------------------------------------------
(* The divisions of inode_get_block take a logical block apart. *)

LEMMA Digits ==
    ASSUME NEW a \in Nat, NEW n \in Nat \ {0}
    PROVE  /\ a = n * (a \div n) + (a % n)
           /\ a % n \in 0 .. n - 1 /\ a \div n \in Nat
OBVIOUS

LEMMA QuotientIs ==
    ASSUME NEW n \in Nat \ {0}, NEW q \in Nat, NEW r \in 0 .. n - 1,
           NEW a \in Nat, a = n * q + r
    PROVE  a \div n = q /\ a % n = r
<1>1. PICK d \in Nat, m \in 0 .. n - 1 :
        d = a \div n /\ m = a % n /\ n * q + r = n * d + m
  BY Digits
<1>2. ASSUME q > d PROVE FALSE
  <2>1. PICK e \in Nat : q = d + 1 + e
    <3>1. q - d - 1 \in Nat
      BY <1>2
    <3> QED BY <3>1
  <2>2. n * q = n * d + n + n * e /\ n * e \in Nat /\ n * d \in Nat
    BY <2>1
  <2> QED BY <1>1, <2>2
<1>3. ASSUME d > q PROVE FALSE
  <2>1. PICK e \in Nat : d = q + 1 + e
    <3>1. d - q - 1 \in Nat
      BY <1>3
    <3> QED BY <3>1
  <2>2. n * d = n * q + n + n * e /\ n * e \in Nat /\ n * q \in Nat
    BY <2>1
  <2> QED BY <1>1, <2>2
<1>4. q = d
  BY <1>1, <1>2, <1>3
<1>5. n * q = n * d /\ n * q \in Nat
  BY <1>4
<1> QED BY <1>1, <1>4, <1>5

LEMMA QuotientBound ==
    ASSUME NEW n \in Nat \ {0}, NEW m \in Nat, NEW a \in Nat, a < n * m
    PROVE  a \div n \in 0 .. m - 1
<1>1. PICK d \in Nat, r \in 0 .. n - 1 : d = a \div n /\ a = n * d + r
  BY Digits
<1>2. ASSUME d >= m PROVE FALSE
  <2>1. PICK e \in Nat : d = m + e
    <3>1. d - m \in Nat
      BY <1>2
    <3> QED BY <3>1
  <2>2. n * d = n * m + n * e /\ n * e \in Nat /\ n * m \in Nat
    BY <2>1
  <2> QED BY <1>1, <2>2
<1> QED BY <1>1, <1>2

(* Dividing twice by n is dividing by its square. *)
LEMMA QuotientTwice ==
    ASSUME NEW n \in Nat \ {0}, NEW a \in Nat
    PROVE  (a \div n) \div n = a \div (n * n)
<1>1. PICK d \in Nat, r \in 0 .. n - 1 : d = a \div n /\ a = n * d + r
  BY Digits
<1>2. PICK e \in Nat, s \in 0 .. n - 1 : e = d \div n /\ d = n * e + s
  BY Digits
<1>3. PICK m : m = n * n /\ m \in Nat \ {0}
  OBVIOUS
<1>4. PICK t : t = n * s + r /\ t \in 0 .. m - 1
  <2>1. n * s \in Nat /\ n * s <= n * (n - 1)
    <3>1. PICK u \in Nat : n - 1 = s + u
      <4>1. n - 1 - s \in Nat
        BY <1>2
      <4> QED BY <4>1
    <3>2. n * (n - 1) = n * s + n * u /\ n * u \in Nat /\ n * s \in Nat
      BY <1>2, <3>1
    <3> QED BY <3>2
  <2>2. n * (n - 1) = m - n
    BY <1>3
  <2>3. n * s + r \in 0 .. m - 1
    BY <1>1, <1>3, <2>1, <2>2
  <2> QED BY <2>3
<1>5. a = m * e + t
  <2>1. n * d = n * (n * e) + n * s
    <3>1. PICK f \in Nat : f = n * e
      OBVIOUS
    <3>2. d = f + s
      BY <1>2, <3>1
    <3>3. n * d = n * f + n * s
      BY <3>2
    <3> QED BY <3>1, <3>3
  <2>2. n * (n * e) = m * e
    BY <1>3
  <2>3. n * (n * e) \in Nat /\ n * s \in Nat
    OBVIOUS
  <2> QED BY <1>1, <1>4, <2>1, <2>2, <2>3
<1>6. a \div m = e
  BY <1>3, <1>4, <1>5, QuotientIs
<1> QED BY <1>1, <1>2, <1>3, <1>6

(* An offset is what its digits say. *)
LEMMA OffsetIs ==
    ASSUME NEW n \in Nat \ {0}, NEW a \in Nat
    PROVE  /\ a < n => a = (a \div 1) % n
           /\ a < n * n => a = n * ((a \div n) % n) + ((a \div 1) % n)
           /\ a < n * n * n =>
                a = n * (n * ((a \div (n * n)) % n) + ((a \div n) % n))
                      + ((a \div 1) % n)
<1>1. \A b \in Nat : b \div 1 = b
  OBVIOUS
<1>2. ASSUME NEW b \in Nat, b < n PROVE b % n = b
  <2>1. b = n * 0 + b /\ b \in 0 .. n - 1
    BY <1>2
  <2> QED BY <2>1, QuotientIs
<1>3. PICK b : b = a \div n /\ b \in Nat /\ a = n * b + (a % n)
  BY Digits
<1>4. PICK c : c = b \div n /\ c \in Nat /\ b = n * c + (b % n)
  BY <1>3, Digits
<1>5. c = a \div (n * n)
  BY <1>3, <1>4, QuotientTwice
<1>6. a < n => a = (a \div 1) % n
  BY <1>1, <1>2
<1>7. ASSUME a < n * n PROVE a = n * ((a \div n) % n) + ((a \div 1) % n)
  <2>1. b \in 0 .. n - 1
    BY <1>3, <1>7, QuotientBound
  <2>2. b % n = b
    BY <1>2, <2>1
  <2> QED BY <1>1, <1>3, <2>2
<1>8. ASSUME a < n * n * n
      PROVE  a = n * (n * ((a \div (n * n)) % n) + ((a \div n) % n))
                   + ((a \div 1) % n)
  <2>1. b \in 0 .. n * n - 1
    <3>1. PICK m \in Nat : m = n * n
      OBVIOUS
    <3>2. n * n * n = n * m
      BY <3>1
    <3>3. a < n * m
      BY <1>8, <3>2
    <3> QED BY <1>3, <3>1, <3>3, QuotientBound
  <2>2. c \in 0 .. n - 1
    <3>1. PICK m \in Nat : m = n * n
      OBVIOUS
    <3>2. b < n * n
      BY <2>1, <3>1
    <3> QED BY <1>3, <1>4, <3>2, QuotientBound
  <2>3. c % n = c
    BY <1>2, <2>2
  <2>4. (a \div (n * n)) % n = c /\ (a \div n) % n = b % n /\ (a \div 1) % n = a % n
    BY <1>1, <1>3, <1>5, <2>3
  <2>5. a = n * (n * c + (b % n)) + (a % n)
    BY <1>3, <1>4
  <2> QED BY <2>4, <2>5
<1> QED BY <1>6, <1>7, <1>8

(* The levels of indirection follow one another without gap or overlap. *)
LEMMA LevelRange ==
    ASSUME NEW lb \in Nat, lb < Reach(NLevel)
    PROVE  /\ LevelOf(lb) = 0 => lb < NDirect
           /\ LevelOf(lb) # 0 =>
                /\ Reach(LevelOf(lb) - 1) <= lb
                /\ lb < Reach(LevelOf(lb) - 1) + Span(LevelOf(lb))
<1>1. /\ NLevel \in 1 .. 3 /\ NDirect \in Nat
      /\ Span(1) \in Nat /\ Span(2) \in Nat /\ Span(3) \in Nat
  BY DiskAssumption, SpanType
<1>2. /\ Reach(0) = NDirect /\ Reach(1) = NDirect + Span(1)
      /\ Reach(2) = NDirect + Span(1) + Span(2)
      /\ Reach(3) = NDirect + Span(1) + Span(2) + Span(3)
  BY DEF Reach
<1>3. ASSUME NEW m \in 0 .. NLevel, lb < Reach(m),
             \A level \in 0 .. m - 1 : Reach(level) <= lb
      PROVE  LevelOf(lb) = m
  <2> DEFINE passed == {level \in 0 .. NLevel - 1 : Reach(level) <= lb}
  <2>1. ASSUME NEW level \in 0 .. NLevel - 1, level >= m PROVE ~(Reach(level) <= lb)
    <3>1. Reach(level) >= Reach(m)
      BY <1>1, <1>2, <2>1
    <3> QED BY <1>3, <3>1, ReachType
  <2>2. passed = 0 .. m - 1
    <3>1. ASSUME NEW level \in passed PROVE level \in 0 .. m - 1
      BY <2>1
    <3>2. ASSUME NEW level \in 0 .. m - 1 PROVE level \in passed
      BY <1>1, <1>3
    <3> QED BY <3>1, <3>2
  <2>3. Cardinality(0 .. m - 1) = m
    BY <1>1, FS_Interval
  <2> QED BY <2>2, <2>3 DEF LevelOf
<1>4. PICK m \in 0 .. NLevel :
        lb < Reach(m) /\ \A level \in 0 .. m - 1 : Reach(level) <= lb
  <2>1. CASE lb < Reach(0)
    <3>1. 0 \in 0 .. NLevel /\ 0 .. 0 - 1 = {}
      BY <1>1
    <3> QED BY <2>1, <3>1
  <2>2. CASE Reach(0) <= lb /\ lb < Reach(1)
    <3>1. 1 \in 0 .. NLevel /\ 0 .. 1 - 1 = {0}
      BY <1>1
    <3> QED BY <2>2, <3>1
  <2>3. CASE Reach(0) <= lb /\ Reach(1) <= lb /\ lb < Reach(2)
    <3>1. NLevel # 1
      BY <2>3, ReachType
    <3>2. 2 \in 0 .. NLevel
      BY <1>1, <3>1
    <3>3. \A level \in 0 .. 2 - 1 : level = 0 \/ level = 1
      OBVIOUS
    <3> QED BY <2>3, <3>2, <3>3
  <2>4. CASE Reach(0) <= lb /\ Reach(1) <= lb /\ Reach(2) <= lb
    <3>1. NLevel # 1 /\ NLevel # 2
      BY <2>4, ReachType
    <3>2. NLevel = 3
      BY <1>1, <3>1
    <3>3. 3 \in 0 .. NLevel /\ lb < Reach(3)
      BY <3>2
    <3>4. \A level \in 0 .. 3 - 1 : level = 0 \/ level = 1 \/ level = 2
      OBVIOUS
    <3> QED BY <2>4, <3>3, <3>4
  <2>5. Reach(0) \in Nat /\ Reach(1) \in Nat /\ Reach(2) \in Nat
    BY ReachType
  <2> QED BY <2>1, <2>2, <2>3, <2>4, <2>5
<1>5. LevelOf(lb) = m
  BY <1>3, <1>4
<1>6. m = 0 => lb < NDirect
  BY <1>2, <1>4
<1>7. m # 0 => Reach(m - 1) <= lb
  <2>1. m # 0 => m - 1 \in 0 .. m - 1
    BY <1>1
  <2> QED BY <1>4, <2>1
<1>8. m # 0 => Reach(m) = Reach(m - 1) + Span(m)
  <2>1. m = 0 \/ m = 1 \/ m = 2 \/ m = 3
    BY <1>1
  <2>2. m = 1 => Reach(m) = Reach(m - 1) + Span(m)
    BY <1>2
  <2>3. m = 2 => Reach(m) = Reach(m - 1) + Span(m)
    BY <1>2
  <2>4. m = 3 => Reach(m) = Reach(m - 1) + Span(m)
    BY <1>2
  <2> QED BY <2>1, <2>2, <2>3, <2>4
<1> QED BY <1>4, <1>5, <1>6, <1>7, <1>8

LEMMA IndicesApart ==
    ASSUME NEW lb1 \in Nat, NEW lb2 \in Nat,
           lb1 < Reach(NLevel), lb2 < Reach(NLevel),
           SlotOf(lb1) = SlotOf(lb2), LevelOf(lb1) = LevelOf(lb2),
           \A j \in 1 .. LevelOf(lb1) : Indices(lb1)[j] = Indices(lb2)[j]
    PROVE  lb1 = lb2
<1>1. PICK level : level = LevelOf(lb1) /\ level \in 0 .. 3
  BY LevelType, DiskAssumption
<1>2. CASE level = 0
  BY <1>1, <1>2 DEF SlotOf
<1>3. CASE level # 0
  <2>1. PICK base \in Nat : base = Reach(level - 1)
    BY ReachType
  <2>2. PICK n \in Nat \ {0} : n = NPtr
    BY DiskAssumption
  <2>3. PICK a \in Nat : lb1 = base + a /\ a = lb1 - base /\ a < Span(level)
    <3>1. base <= lb1 /\ lb1 < base + Span(level)
      BY <1>1, <1>3, <2>1, LevelRange
    <3>2. lb1 - base \in Nat /\ Span(level) \in Nat
      BY <3>1, SpanType
    <3> QED BY <3>1, <3>2
  <2>4. PICK b \in Nat : lb2 = base + b /\ b = lb2 - base /\ b < Span(level)
    <3>1. base <= lb2 /\ lb2 < base + Span(level)
      BY <1>1, <1>3, <2>1, LevelRange
    <3>2. lb2 - base \in Nat /\ Span(level) \in Nat
      BY <3>1, SpanType
    <3> QED BY <3>1, <3>2
  <2>5. Indices(lb1) = [j \in 1 .. level |-> (a \div Span(level - j)) % n]
    BY <1>1, <2>1, <2>2, <2>3 DEF Indices
  <2>6. Indices(lb2) = [j \in 1 .. level |-> (b \div Span(level - j)) % n]
    BY <1>1, <2>1, <2>2, <2>4 DEF Indices
  <2>7. ASSUME NEW j \in 1 .. level
        PROVE  (a \div Span(level - j)) % n = (b \div Span(level - j)) % n
    BY <1>1, <2>5, <2>6
  <2>8. ASSUME NEW m \in 0 .. level - 1
        PROVE  (a \div Span(m)) % n = (b \div Span(m)) % n
    <3>1. PICK j \in 1 .. level : m = level - j
      <4>1. level - m \in 1 .. level /\ m = level - (level - m)
        BY <1>1
      <4> QED BY <4>1
    <3> QED BY <2>7, <3>1
  <2>9. Span(0) = 1 /\ Span(1) = n /\ Span(2) = n * n /\ Span(3) = n * n * n
    BY <2>2 DEF Span
  <2>10. a = b
    <3>1. (a \div 1) % n = (b \div 1) % n
      <4>1. 0 \in 0 .. level - 1
        BY <1>1, <1>3
      <4> QED BY <2>8, <2>9, <4>1
    <3>2. level >= 2 => (a \div n) % n = (b \div n) % n
      <4>1. level >= 2 => 1 \in 0 .. level - 1
        BY <1>1
      <4> QED BY <2>8, <2>9, <4>1
    <3>3. level = 3 => (a \div (n * n)) % n = (b \div (n * n)) % n
      <4>1. level = 3 => 2 \in 0 .. level - 1
        BY <1>1
      <4> QED BY <2>8, <2>9, <4>1
    <3>4. CASE level = 1
      <4>1. a < n /\ b < n
        BY <2>3, <2>4, <2>9, <3>4
      <4>2. a = (a \div 1) % n /\ b = (b \div 1) % n
        BY <4>1, OffsetIs
      <4> QED BY <3>1, <4>2
    <3>5. CASE level = 2
      <4>1. a < n * n /\ b < n * n
        BY <2>3, <2>4, <2>9, <3>5
      <4>2. /\ a = n * ((a \div n) % n) + ((a \div 1) % n)
            /\ b = n * ((b \div n) % n) + ((b \div 1) % n)
        BY <4>1, OffsetIs
      <4> QED BY <3>1, <3>2, <3>5, <4>2
    <3>6. CASE level = 3
      <4>1. a < n * n * n /\ b < n * n * n
        BY <2>3, <2>4, <2>9, <3>6
      <4>2. /\ a = n * (n * ((a \div (n * n)) % n) + ((a \div n) % n))
                     + ((a \div 1) % n)
            /\ b = n * (n * ((b \div (n * n)) % n) + ((b \div n) % n))
                     + ((b \div 1) % n)
        BY <4>1, OffsetIs
      <4> QED BY <3>1, <3>2, <3>3, <3>6, <4>2
    <3> QED BY <1>1, <1>3, <3>4, <3>5, <3>6
  <2> QED BY <2>3, <2>4, <2>10
<1> QED BY <1>1, <1>2, <1>3

(* Two ways that meet come from the same pointer. *)
LEMMA WaysMeet ==
    ASSUME NEW h, NEW i, NEW rec, NEW lb1 \in Nat, NEW lb2 \in Nat,
           NEW n1 \in 0 .. Len(Indices(lb1)), NEW n2 \in 0 .. Len(Indices(lb2)),
           OwnsAt(h, i, rec, lb1, n1), OwnsAt(h, i, rec, lb2, n2),
           Way(array, rec, lb1, n1) = Way(array, rec, lb2, n2),
           Way(array, rec, lb1, n1) # 0
    PROVE  /\ n1 = 0 <=> n2 = 0
           /\ n1 = 0 => SlotOf(lb1) = SlotOf(lb2)
           /\ n1 # 0 => /\ Way(array, rec, lb1, n1 - 1) = Way(array, rec, lb2, n2 - 1)
                        /\ Way(array, rec, lb1, n1 - 1) # 0
                        /\ Indices(lb1)[n1] = Indices(lb2)[n2]
<1>1. PICK b : b = Way(array, rec, lb1, n1) /\ b = Way(array, rec, lb2, n2)
  OBVIOUS
<1>2. 0 \notin Blocks
  BY DiskAssumption DEF Blocks
<1>3. PICK level1, level2 : level1 = Len(Indices(lb1)) - n1
                         /\ level2 = Len(Indices(lb2)) - n2
  OBVIOUS
<1>4. n1 = 0 => h[b] = Place(i, level1, 0, SlotOf(lb1))
  BY <1>1, <1>3 DEF OwnsAt
<1>5. n2 = 0 => h[b] = Place(i, level2, 0, SlotOf(lb2))
  BY <1>1, <1>3 DEF OwnsAt
<1>6. n1 # 0 => /\ Way(array, rec, lb1, n1 - 1) \in Blocks
                /\ h[b] = Place(i, level1, Way(array, rec, lb1, n1 - 1),
                                Indices(lb1)[n1])
  BY <1>1, <1>3 DEF OwnsAt
<1>7. n2 # 0 => /\ Way(array, rec, lb2, n2 - 1) \in Blocks
                /\ h[b] = Place(i, level2, Way(array, rec, lb2, n2 - 1),
                                Indices(lb2)[n2])
  BY <1>1, <1>3 DEF OwnsAt
<1> QED BY <1>2, <1>4, <1>5, <1>6, <1>7, PlaceFields

LEMMA WaysApart ==
    ASSUME NEW h, NEW i, NEW rec, NEW lb1 \in Nat, NEW lb2 \in Nat,
           lb1 < Reach(NLevel), lb2 < Reach(NLevel),
           \A n \in 0 .. Len(Indices(lb1)) : OwnsAt(h, i, rec, lb1, n),
           \A n \in 0 .. Len(Indices(lb2)) : OwnsAt(h, i, rec, lb2, n),
           Lookup(rec, lb1) = Lookup(rec, lb2), Lookup(rec, lb1) # 0
    PROVE  lb1 = lb2
<1>1. PICK d1 : d1 = Len(Indices(lb1)) /\ d1 \in 0 .. 3
  BY IndexFacts
<1>2. PICK d2 : d2 = Len(Indices(lb2)) /\ d2 \in 0 .. 3
  BY IndexFacts
<1> DEFINE Same(s) == /\ s <= d1 /\ s <= d2
                      /\ Way(array, rec, lb1, d1 - s) = Way(array, rec, lb2, d2 - s)
                      /\ Way(array, rec, lb1, d1 - s) # 0
<1>3. Same(0)
  <2>1. Lookup(rec, lb1) = Way(array, rec, lb1, d1)
    BY <1>1, WayEnd, LookupIsWay
  <2>2. Lookup(rec, lb2) = Way(array, rec, lb2, d2)
    BY <1>2, WayEnd, LookupIsWay
  <2>3. d1 - 0 = d1 /\ d2 - 0 = d2 /\ 0 <= d1 /\ 0 <= d2
    BY <1>1, <1>2
  <2>4. Way(array, rec, lb1, d1 - 0) = Way(array, rec, lb1, d1)
    BY <2>3
  <2>5. Way(array, rec, lb2, d2 - 0) = Way(array, rec, lb2, d2)
    BY <2>3
  <2> QED BY <2>1, <2>2, <2>3, <2>4, <2>5
<1>4. ASSUME NEW s \in 0 .. 3, NEW t, t = s + 1, Same(s)
      PROVE  /\ s = d1 <=> s = d2
             /\ s = d1 => SlotOf(lb1) = SlotOf(lb2)
             /\ s # d1 => /\ Same(t)
                          /\ Indices(lb1)[d1 - s] = Indices(lb2)[d2 - s]
  <2>1. PICK n1 \in 0 .. d1 : n1 = d1 - s
    BY <1>1, <1>4
  <2>2. PICK n2 \in 0 .. d2 : n2 = d2 - s
    BY <1>2, <1>4
  <2>3. OwnsAt(h, i, rec, lb1, n1) /\ OwnsAt(h, i, rec, lb2, n2)
    BY <1>1, <1>2
  <2>4. /\ Way(array, rec, lb1, n1) = Way(array, rec, lb2, n2)
        /\ Way(array, rec, lb1, n1) # 0
    BY <1>4, <2>1, <2>2
  <2>5. /\ n1 = 0 <=> n2 = 0
        /\ n1 = 0 => SlotOf(lb1) = SlotOf(lb2)
        /\ n1 # 0 => /\ Way(array, rec, lb1, n1 - 1) = Way(array, rec, lb2, n2 - 1)
                     /\ Way(array, rec, lb1, n1 - 1) # 0
                     /\ Indices(lb1)[n1] = Indices(lb2)[n2]
    BY <1>1, <1>2, <2>3, <2>4, WaysMeet
  <2>6. /\ n1 = 0 <=> s = d1
        /\ n2 = 0 <=> s = d2
        /\ d1 - t = n1 - 1 /\ d2 - t = n2 - 1
        /\ n1 # 0 => t <= d1
        /\ n2 # 0 => t <= d2
    BY <1>1, <1>2, <1>4, <2>1, <2>2
  <2> QED BY <2>1, <2>2, <2>5, <2>6
<1> HIDE DEF Same
<1>5. /\ d1 = d2 /\ SlotOf(lb1) = SlotOf(lb2)
      /\ \A s \in 0 .. d1 - 1 : Indices(lb1)[d1 - s] = Indices(lb2)[d1 - s]
  <2>1. Same(0) => /\ 0 = d1 <=> 0 = d2
                   /\ 0 = d1 => SlotOf(lb1) = SlotOf(lb2)
                   /\ 0 # d1 => /\ Same(1)
                                /\ Indices(lb1)[d1 - 0] = Indices(lb2)[d2 - 0]
    BY <1>4, 0 \in 0 .. 3, 1 = 0 + 1
  <2>2. Same(1) => /\ 1 = d1 <=> 1 = d2
                   /\ 1 = d1 => SlotOf(lb1) = SlotOf(lb2)
                   /\ 1 # d1 => /\ Same(2)
                                /\ Indices(lb1)[d1 - 1] = Indices(lb2)[d2 - 1]
    BY <1>4, 1 \in 0 .. 3, 2 = 1 + 1
  <2>3. Same(2) => /\ 2 = d1 <=> 2 = d2
                   /\ 2 = d1 => SlotOf(lb1) = SlotOf(lb2)
                   /\ 2 # d1 => /\ Same(3)
                                /\ Indices(lb1)[d1 - 2] = Indices(lb2)[d2 - 2]
    BY <1>4, 2 \in 0 .. 3, 3 = 2 + 1
  <2>4. Same(3) => /\ 3 = d1 <=> 3 = d2
                   /\ 3 = d1 => SlotOf(lb1) = SlotOf(lb2)
                   /\ 3 # d1 => /\ Same(4)
                                /\ Indices(lb1)[d1 - 3] = Indices(lb2)[d2 - 3]
    BY <1>4, 3 \in 0 .. 3, 4 = 3 + 1
  <2>5. CASE d1 = 0
    BY <1>3, <2>1, <2>5
  <2>6. CASE d1 = 1
    <3>1. Same(1) /\ Indices(lb1)[d1 - 0] = Indices(lb2)[d2 - 0]
      BY <1>3, <2>1, <2>6
    <3>2. d1 = d2 /\ SlotOf(lb1) = SlotOf(lb2)
      BY <2>2, <2>6, <3>1
    <3> QED BY <2>6, <3>1, <3>2
  <2>7. CASE d1 = 2
    <3>1. Same(1) /\ Indices(lb1)[d1 - 0] = Indices(lb2)[d2 - 0]
      BY <1>3, <2>1, <2>7
    <3>2. Same(2) /\ Indices(lb1)[d1 - 1] = Indices(lb2)[d2 - 1]
      BY <2>2, <2>7, <3>1
    <3>3. d1 = d2 /\ SlotOf(lb1) = SlotOf(lb2)
      BY <2>3, <2>7, <3>2
    <3>4. \A s \in 0 .. d1 - 1 : s = 0 \/ s = 1
      BY <2>7
    <3> QED BY <3>1, <3>2, <3>3, <3>4
  <2>8. CASE d1 = 3
    <3>1. Same(1) /\ Indices(lb1)[d1 - 0] = Indices(lb2)[d2 - 0]
      BY <1>3, <2>1, <2>8
    <3>2. Same(2) /\ Indices(lb1)[d1 - 1] = Indices(lb2)[d2 - 1]
      BY <2>2, <2>8, <3>1
    <3>3. Same(3) /\ Indices(lb1)[d1 - 2] = Indices(lb2)[d2 - 2]
      BY <2>3, <2>8, <3>2
    <3>4. d1 = d2 /\ SlotOf(lb1) = SlotOf(lb2)
      BY <2>4, <2>8, <3>3
    <3>5. \A s \in 0 .. d1 - 1 : s = 0 \/ s = 1 \/ s = 2
      BY <2>8
    <3> QED BY <3>1, <3>2, <3>3, <3>4, <3>5
  <2> QED BY <1>1, <2>5, <2>6, <2>7, <2>8
<1>6. ASSUME NEW j \in 1 .. d1 PROVE Indices(lb1)[j] = Indices(lb2)[j]
  <2>1. PICK s \in 0 .. d1 - 1 : j = d1 - s
    <3>1. d1 - j \in 0 .. d1 - 1 /\ j = d1 - (d1 - j)
      BY <1>1
    <3> QED BY <3>1
  <2> QED BY <1>5, <2>1
<1>7. d1 = LevelOf(lb1) /\ d2 = LevelOf(lb2)
  BY <1>1, <1>2, IndicesLength
<1> QED BY <1>5, <1>6, <1>7, IndicesApart

LEMMA BlocksApartFrom == BlockInv /\ InReach => BlocksApart
<1> SUFFICES ASSUME BlockInv, InReach, NEW i \in Linked,
                    NEW lb1 \in 0 .. inode[i].size - 1,
                    Lookup(inode[i], lb1) # 0, NEW j \in Linked,
                    NEW lb2 \in 0 .. inode[j].size - 1,
                    Lookup(inode[j], lb2) = Lookup(inode[i], lb1)
             PROVE  i = j /\ lb1 = lb2
  BY DEF BlocksApart
<1>1. NameInv
  BY DEF BlockInv
<1>2. PICK h \in HomeMap : Owned(h)
  BY DEF BlockInv
<1>3. i \in Inodes /\ i \in Live /\ j \in Inodes
  BY <1>1, LinkedInodes, LinkedLive DEF NameInv, TypeInv
(* One block has one home, and with it one file. *)
<1>4. i = j
  <2>1. lb1 \in Nat /\ lb2 \in Nat
    <3>1. inode[i].size \in Nat /\ inode[j].size \in Nat
      BY <1>1, <1>3 DEF NameInv, TypeInv, TypeOK, DiskTypeOK, InodeRec
    <3> QED BY <3>1
  <2>2. PICK b : b = Lookup(inode[i], lb1) /\ b = Lookup(inode[j], lb2)
    OBVIOUS
  <2>3. Fits(h, i, <<b, 0>>) /\ Fits(h, j, <<b, 0>>)
    BY <1>1, <1>2, <2>1, <2>2, LookupFits
  <2> QED BY <2>3 DEF Fits
<1>5. PICK rec \in InodeRec : rec = inode[i]
  BY <1>1, <1>3 DEF NameInv, TypeInv, TypeOK, DiskTypeOK
<1>6. rec.size \in Nat /\ rec.ptr \in [Slots -> Blocks \union {0}]
  BY DEF InodeRec
<1>7. rec.size <= Reach(NLevel) /\ Reach(NLevel) \in Nat
  BY <1>3, <1>5, ReachType DEF InReach
<1>8. /\ lb1 \in Nat /\ lb1 < Reach(NLevel)
      /\ lb2 \in Nat /\ lb2 < Reach(NLevel)
  <2>1. lb1 \in 0 .. rec.size - 1 /\ lb2 \in 0 .. rec.size - 1
    BY <1>4, <1>5
  <2> QED BY <1>6, <1>7, <2>1
<1>9. BlocksOwn(h) /\ SlotsOwn(h, i, rec.ptr)
  BY <1>2, <1>3, <1>5 DEF Owned, InodesOwn
<1>10. /\ \A n \in 0 .. Len(Indices(lb1)) : OwnsAt(h, i, rec, lb1, n)
       /\ \A n \in 0 .. Len(Indices(lb2)) : OwnsAt(h, i, rec, lb2, n)
  BY <1>1, <1>3, <1>6, <1>8, <1>9, WayOwns
<1>11. Lookup(rec, lb1) = Lookup(rec, lb2) /\ Lookup(rec, lb1) # 0
  BY <1>4, <1>5
<1> QED BY <1>3, <1>4, <1>8, <1>9, <1>10, <1>11, WaysApart

-----------------------------------------------------------------------------
(* What the steps of a call do to its locals. *)

LEMMA BeginWriteLocals ==
    ASSUME TypeInv, NEW call \in {"write", "fwrite"}, NEW i \in Inodes,
           NEW k \in Fds \union {0}, NEW lb \in Nat, NEW n \in Nat,
           BeginWrite(call, i, k, lb, n)
    PROVE  /\ op'.call = call /\ op'.put = i /\ op'.ino = i /\ op'.pc = "walk"
           /\ op'.mem = inode[i] /\ op'.lb = lb /\ op'.left = n
           /\ op'.at = 0 /\ op'.k = SlotOf(lb) /\ op'.rest = Indices(lb)
           /\ lb + n <= MaxSize /\ UNCHANGED <<diskVars, mode, fd, kills, dropped>>
<1> DEFINE start == [Idle EXCEPT !.call = call, !.ino = i, !.put = i,
                       !.mem = inode[i], !.fd = k, !.left = n]
<1>1. op' = WalkFrom(start, lb)
  BY DEF BeginWrite
<1>2. /\ start \in OpRec /\ start.put = i /\ start.ino = i
      /\ start.mem = inode[i] /\ start.call = call /\ start.left = n
  <2> DEFINE mem == inode[i]
  <2>1. mem \in InodeRec
    BY DEF TypeInv, TypeOK, DiskTypeOK
  <2>2. start = [Idle EXCEPT !.call = call, !.ino = i, !.put = i,
                       !.mem = mem, !.fd = k, !.left = n]
    OBVIOUS
  <2>3. Idle \in OpRec /\ call \in Calls
    BY IdleType DEF Calls
  <2>4. mem = inode[i]
    OBVIOUS
  <2> HIDE DEF mem, start
  <2> QED BY <2>1, <2>2, <2>3, <2>4 DEF OpRec
<1> HIDE DEF start
<1>3. /\ op'.call = call /\ op'.put = i /\ op'.ino = i /\ op'.pc = "walk"
      /\ op'.mem = inode[i] /\ op'.lb = lb /\ op'.left = n
      /\ op'.at = 0 /\ op'.k = SlotOf(lb) /\ op'.rest = Indices(lb)
  BY <1>1, <1>2, WalkFromLocals
<1> QED BY <1>3 DEF BeginWrite

LEMMA WriteDataLocals ==
    ASSUME TypeInv, WriteData
    PROVE  /\ op.pc = "data"
           /\ \/ op' = Idle /\ op.call = "fwrite" /\ op.lb + 1 <= op.mem.size
                 /\ op.left <= 1
                 /\ dropped' = (dropped \/ op.mem.ptr # inode[op.ino].ptr)
              \/ /\ op'.call = op.call /\ op'.ino = op.ino /\ op'.par = op.par
                 /\ op'.put = op.put /\ op'.mem = op.mem /\ op'.name = op.name
                 /\ op'.lb = op.lb + 1 /\ dropped' = dropped
                 /\ \/ /\ op.left > 1 /\ op'.pc = "walk"
                       /\ op'.left = op.left - 1 /\ op'.at = 0
                       /\ op'.k = SlotOf(op.lb + 1)
                       /\ op'.rest = Indices(op.lb + 1)
                    \/ /\ op.left <= 1 /\ op'.pc = "iput" /\ op'.left = 0
                       /\ op'.new = op.new
<1>0. op \in OpRec /\ op.pc = "data" /\ op.left \in Nat /\ op.lb \in Nat
  BY OpTypes DEF WriteData
<1>1. CASE op.left > 1
  <2> DEFINE start == [op EXCEPT !.left = @ - 1]
  <2>1. op' = WalkFrom(start, op.lb + 1) /\ dropped' = dropped
    BY <1>1 DEF WriteData
  <2>2. /\ start \in OpRec /\ start.call = op.call /\ start.ino = op.ino
        /\ start.par = op.par /\ start.name = op.name
        /\ start.put = op.put /\ start.mem = op.mem /\ start.left = op.left - 1
    BY <1>0, <1>1 DEF OpRec
  <2> HIDE DEF start
  <2>3. /\ op'.call = op.call /\ op'.ino = op.ino /\ op'.put = op.put
        /\ op'.par = op.par /\ op'.name = op.name
        /\ op'.mem = op.mem /\ op'.pc = "walk" /\ op'.left = op.left - 1
        /\ op'.lb = op.lb + 1 /\ op'.at = 0 /\ op'.k = SlotOf(op.lb + 1)
        /\ op'.rest = Indices(op.lb + 1)
    BY <2>1, <2>2, WalkFromLocals
  <2> QED BY <1>0, <1>1, <2>1, <2>3
<1>2. CASE ~(op.left > 1) /\ op.call = "fwrite" /\ op.lb + 1 <= op.mem.size
  <2>1. ReturnWithoutInode /\ op.left <= 1
    BY <1>0, <1>2 DEF WriteData
  <2> QED BY <1>0, <1>2, <2>1 DEF ReturnWithoutInode
<1>3. CASE ~(op.left > 1) /\ ~(op.call = "fwrite" /\ op.lb + 1 <= op.mem.size)
  <2>1. op' = [op EXCEPT !.pc = "iput", !.lb = @ + 1, !.left = 0]
        /\ dropped' = dropped /\ op.left <= 1
    BY <1>0, <1>3 DEF WriteData
  <2>2. /\ op'.call = op.call /\ op'.ino = op.ino /\ op'.put = op.put
        /\ op'.par = op.par /\ op'.mem = op.mem /\ op'.pc = "iput" /\ op'.left = 0
        /\ op'.lb = op.lb + 1 /\ op'.new = op.new /\ op'.name = op.name
    BY <1>0, <2>1 DEF OpRec
  <2> QED BY <1>0, <2>1, <2>2
<1> QED BY <1>1, <1>2, <1>3

LEMMA RunOutLocals ==
    ASSUME TypeInv, RunOut
    PROVE  /\ op.pc = "walk" /\ UNCHANGED <<diskVars, mode, fd, kills>>
           /\ \/ op' = Idle
              \/ /\ op.call = "write" /\ op'.pc = "iput"
                 /\ op'.call = op.call /\ op'.ino = op.ino /\ op'.put = op.put
                 /\ op'.mem = op.mem /\ op'.lb = op.lb /\ op'.left = op.left
                 /\ op'.par = op.par
              \/ /\ op.call \in {"create", "mkdir"} /\ op'.pc \in {"free", "ifree"}
                 /\ op'.call = op.call /\ op'.ino = op.ino /\ op'.put = op.put
                 /\ op'.mem = op.mem
<1>0. op \in OpRec /\ op.pc = "walk" /\ UNCHANGED <<diskVars, mode, fd, kills>>
  BY OpTypes DEF RunOut, OutOfSpace
<1>1. CASE op.call = "write" /\ op' = CutShort
  BY <1>0, <1>1 DEF CutShort, OpRec
<1>2. CASE op.call = "fwrite" /\ ReturnWithoutInode
  BY <1>0, <1>2 DEF ReturnWithoutInode
<1>3. CASE op.call \in {"create", "mkdir"} /\ op' = Undo
  <2> DEFINE todo == FreeList(inode[op.ino])
  <2>1. op' = [op EXCEPT !.pc = "free", !.todo = todo] \/ op' = [op EXCEPT !.pc = "ifree"]
    BY <1>3 DEF Undo
  <2> HIDE DEF todo
  <2> QED BY <1>0, <1>3, <2>1 DEF OpRec
<1> QED BY <1>1, <1>2, <1>3 DEF RunOut

LEMMA StoredIs ==
    ASSUME TypeInv
    PROVE  /\ Stored \in InodeRec
           /\ Stored.ptr = op.mem.ptr /\ Stored.dir = op.mem.dir
           /\ op.lb > op.mem.size => Stored.size = op.lb
           /\ ~(op.lb > op.mem.size) => Stored.size = op.mem.size
<1> DEFINE size == IF op.lb > op.mem.size THEN op.lb ELSE op.mem.size
           rec == Stored
<1>1. rec = [op.mem EXCEPT !.size = size] /\ op.mem \in InodeRec /\ size \in Nat
  BY OpTypes DEF Stored, InodeRec
<1>2. rec \in InodeRec /\ rec.ptr = op.mem.ptr /\ rec.dir = op.mem.dir /\ rec.size = size
  <2> HIDE DEF size, rec
  <2> QED BY <1>1 DEF InodeRec
<1> QED BY <1>2

(* The call of mkdir or create goes on with the directory that names it. *)
NamesNow ==
    /\ op'.call = op.call /\ op'.ino = op.ino /\ op'.par = op.par
    /\ op'.put = op.par /\ op'.mem = inode[op.par] /\ op'.left = 0
    /\ op'.pc \in {"walk", "dirent"}
    /\ op'.pc = "walk" =>
         /\ op'.at = 0 /\ op'.rest = <<>>
         /\ op'.lb = inode[op.par].size /\ op'.k = SlotOf(inode[op.par].size)
         /\ Indices(inode[op.par].size) = <<>> /\ inode[op.par].size < NDirect

LEMMA NamesNowIs ==
    ASSUME NameInv, op.call \in {"create", "mkdir"}, op.left = 0, op' = AddEntry(op)
    PROVE  NamesNow
<1>1. /\ TypeOK /\ op \in OpRec /\ op.par \in Inodes /\ op.name \in Names
      /\ entry[op.par][op.name] = 0
  BY DEF NameInv, OpNames, TypeInv, TypeOK, DiskTypeOK, OpShape, OpRec
<1> QED BY <1>1, AddEntryLocals DEF NamesNow

LEMMA PutInodeLocals ==
    ASSUME NameInv, PutIsKnown, NEW h \in HomeMap, Owned(h), PutInode
    PROVE  /\ op.pc = "iput" /\ op.put \in Inodes /\ op.put \in Live
           /\ inode' = [inode EXCEPT ![op.put] = Stored]
           /\ UNCHANGED <<bbm, ibm, kind, array, mode, kills, dropped>>
           /\ op.mem.size = inode[op.put].size
           /\ \/ op' = Idle
              \/ op.call = "mkdir" /\ op.put = op.ino /\ op.par # op.ino /\ NamesNow
<1>0. /\ TypeInv /\ op \in OpRec /\ op.pc = "iput" /\ op.put \in Live
  BY OpTypes DEF PutInode, NameInv, Owned, WalkOwns
<1>1. op.put \in Inodes /\ op.put # 0
  BY <1>0, LiveInodes, RootIsInode
<1>2. op.mem.size = inode[op.put].size
  BY <1>0, <1>1 DEF NameInv, OpNames
<1>3. /\ inode' = [inode EXCEPT ![op.put] = Stored]
      /\ UNCHANGED <<bbm, ibm, kind, array, mode, kills, dropped>>
  BY DEF PutInode
<1>4. CASE op.call = "mkdir" /\ op.put = op.ino
  <2>1. op' = AddEntry(op)
    BY <1>4 DEF PutInode
  <2>2. op.left = 0 /\ op.par # op.ino
    BY <1>4 DEF PutIsKnown, NameInv, OpNames, Dirs
  <2> QED BY <1>0, <1>1, <1>2, <1>3, <1>4, <2>1, <2>2, NamesNowIs
<1>5. CASE ~(op.call = "mkdir" /\ op.put = op.ino)
  BY <1>0, <1>1, <1>2, <1>3, <1>5 DEF PutInode
<1> QED BY <1>4, <1>5

LEMMA InitInodeLocals ==
    ASSUME NameInv, PutIsKnown, InitInode
    PROVE  /\ op.pc = "iinit" /\ op.call \in {"create", "mkdir"}
           /\ op.ino \in Inodes /\ op.ino \notin Linked
           /\ op.par \in Linked /\ op.par # op.ino
           /\ inode' = [inode EXCEPT ![op.ino] = FreshInode(op.call = "mkdir")]
           /\ UNCHANGED <<bbm, ibm, kind, array, entry, mode, fd, kills, dropped>>
           /\ op.call = "create" => NamesNow
           /\ op.call = "mkdir" =>
                /\ op'.call = op.call /\ op'.ino = op.ino /\ op'.put = op.ino
                /\ op'.mem = FreshInode(TRUE) /\ op'.left = 0 /\ op'.pc = "walk"
                /\ op'.at = 0 /\ op'.lb = 0 /\ op'.k = SlotOf(0)
                /\ op'.rest = Indices(0)
<1> DEFINE new == FreshInode(op.call = "mkdir")
<1>1. /\ TypeOK /\ op \in OpRec /\ op.pc = "iinit"
      /\ op.call \in {"create", "mkdir"} /\ op.left = 0
      /\ op.ino \in Inodes /\ op.ino \notin Linked
      /\ op.par \in Linked /\ op.par # op.ino
      /\ inode' = [inode EXCEPT ![op.ino] = new]
      /\ UNCHANGED <<bbm, ibm, kind, array, entry, mode, fd, kills, dropped>>
  BY DEF InitInode, NameInv, OpNames, Dirs, TypeInv, TypeOK, DiskTypeOK, OpShape,
     PutIsKnown
<1>2. CASE op.call = "create"
  <2>1. op' = AddEntry(op)
    BY <1>2 DEF InitInode
  <2> QED BY <1>1, <1>2, <2>1, NamesNowIs
<1>3. CASE op.call = "mkdir"
  <2> DEFINE start == [op EXCEPT !.put = op.ino, !.mem = new]
  <2>1. op' = WalkFrom(start, 0)
    BY <1>3 DEF InitInode
  <2>2. new \in InodeRec /\ new = FreshInode(TRUE)
    BY <1>3, FreshType
  <2>3. /\ start \in OpRec /\ start.put = op.ino /\ start.mem = new
        /\ start.call = op.call /\ start.ino = op.ino /\ start.left = 0
    <3> HIDE DEF new
    <3>1. op.ino \in Inodes \union {0} /\ start = Taking(op, op.ino, new)
      BY <1>1 DEF Taking
    <3>2. op \in OpRec /\ op.left = 0 /\ new \in InodeRec
      BY <1>1, <2>2
    <3> HIDE DEF start
    <3>3. Took(start, op, op.ino, new)
      BY ONLY <3>1, <3>2, WithInode
    <3> QED BY ONLY <3>2, <3>3 DEF Took
  <2> HIDE DEF start
  <2>4. /\ op'.call = op.call /\ op'.ino = op.ino /\ op'.put = op.ino
        /\ op'.mem = new /\ op'.left = 0 /\ op'.pc = "walk"
        /\ op'.at = 0 /\ op'.lb = 0 /\ op'.k = SlotOf(0) /\ op'.rest = Indices(0)
    BY <2>1, <2>3, WalkFromLocals
  <2> QED BY <1>1, <1>3, <2>2, <2>4
<1> QED BY <1>1, <1>2, <1>3

-----------------------------------------------------------------------------
(* Sizes stay within reach. *)

LEMMA ReachLast ==
    /\ Reach(NLevel) \in Nat /\ NDirect <= Reach(NLevel) /\ MaxSize <= Reach(NLevel)
    /\ NDirect \in Nat \ {0} /\ MaxSize \in Nat
<1>1. Span(1) \in Nat /\ Span(2) \in Nat /\ Span(3) \in Nat /\ NDirect \in Nat \ {0}
  BY SpanType, DiskAssumption
<1>2. Reach(NLevel) \in Nat
  BY ReachType
<1> QED BY <1>1, <1>2, CallAssumption DEF Reach

LEMMA ReachInit == Init => InReach
<1> SUFFICES ASSUME Init PROVE InReach
  OBVIOUS
<1>1. ASSUME NEW i \in Inodes PROVE inode[i].size <= Reach(NLevel)
  <2>1. FreshInode(FALSE).size = 0 /\ FreshInode(TRUE) \in InodeRec
    BY FreshType
  <2>2. CASE i = Root
    <3> DEFINE rec == [FreshInode(TRUE) EXCEPT !.ptr[0] = 1, !.size = 1]
    <3>1. rec.size = 1
      BY DEF FreshInode
    <3>2. inode[i] = rec
      BY <2>2, <1>1 DEF Init
    <3> HIDE DEF rec
    <3> QED BY <3>1, <3>2, ReachLast
  <2>3. CASE i # Root
    <3>1. inode[i] = FreshInode(FALSE)
      BY <1>1, <2>3 DEF Init
    <3>2. inode[i].size = 0
      BY <2>1, <3>1
    <3> QED BY <3>2, ReachLast
  <2> QED BY <2>2, <2>3
<1>2. op.pc = "idle"
  BY IdleNames DEF Init
<1> QED BY <1>1, <1>2 DEF InReach

(* Removing a name goes on with freeing the blocks of its inode. *)
LEMMA RemoveGoesOn ==
    ASSUME NEW d, NEW n, Delete(d, n) \/ Rmdir(d, n)
    PROVE  op'.pc = "free" /\ inode' = inode
<1>1. Remove(d, n)
  BY DEF Delete, Rmdir
<1> QED BY ONLY <1>1 DEF Remove, Idle

LEMMA ReachFrame ==
    ASSUME InReach, inode' = inode, op'.pc \notin {"walk", "zero", "link", "data", "iput"}
    PROVE  InReach'
BY DEF InReach

LEMMA ReachSame ==
    ASSUME InReach, inode' = inode, op'.lb = op.lb, op'.left = op.left,
           op.pc \in {"walk", "zero", "link", "data"},
           op'.pc \in {"walk", "zero", "link", "data"}
    PROVE  InReach'
BY DEF InReach

LEMMA ReachBegin ==
    ASSUME TypeInv, InReach,
           NEW call \in {"write", "fwrite"}, NEW i \in Inodes,
           NEW k \in Fds \union {0}, NEW lb \in Nat, NEW n \in 1 .. MaxWrite,
           BeginWrite(call, i, k, lb, n)
    PROVE  InReach'
<1>1. n \in Nat /\ n >= 1
  BY CallAssumption
<1>2. /\ op'.pc = "walk" /\ op'.lb = lb /\ op'.left = n
      /\ lb + n <= MaxSize /\ inode' = inode
  BY <1>1, BeginWriteLocals DEF diskVars
<1>3. lb + 1 <= Reach(NLevel) /\ lb + n <= Reach(NLevel)
  BY <1>1, <1>2, ReachLast
<1> QED BY <1>2, <1>3 DEF InReach

LEMMA ReachNames ==
    ASSUME TypeInv, \A i \in Inodes : inode'[i].size <= Reach(NLevel),
           op.par \in Inodes, NamesNow
    PROVE  InReach'
<1>1. inode[op.par].size \in Nat
  BY DEF TypeInv, TypeOK, DiskTypeOK, InodeRec
<1>2. op'.pc = "walk" =>
        /\ op'.lb + 1 <= Reach(NLevel)
        /\ op'.lb + op'.left <= Reach(NLevel)
  BY <1>1, ReachLast DEF NamesNow
<1> QED BY <1>2 DEF InReach, NamesNow

LEMMA ReachStep ==
    ASSUME LeakInv, InReach, [Next]_vars PROVE InReach'
<1>1. NameInv /\ TypeInv /\ op \in OpRec
  BY OpTypes DEF LeakInv, NameInv
<1>2. PICK h \in HomeMap : Owned(h) /\ PutIsKnown
  BY DEF LeakInv, Exact
<1>3. ASSUME UNCHANGED <<diskVars, op>> PROVE InReach'
  BY <1>3 DEF InReach, diskVars
<1>4. CASE (\E m \in Modes : Start(m)) \/ UNCHANGED vars
  BY <1>3, <1>4 DEF Start, vars
<1>5. CASE Exit \/ Kill
  <2>1. op'.pc = "idle" /\ inode' = inode
    BY <1>5, IdleNames DEF Exit, Kill, Gone, diskVars
  <2> QED BY <2>1, ReachFrame
<1>6. CASE Call
  <2>1. ASSUME NEW d \in Inodes, NEW n \in Names,
               \/ Create(d, n) \/ Mkdir(d, n)
               \/ Delete(d, n) \/ Rmdir(d, n)
        PROVE  InReach'
    <3>1. CASE Create(d, n) \/ Mkdir(d, n)
      BY <3>1, NewInodeKnown, ReachFrame DEF Create, Mkdir, NewInode
    <3>2. CASE Delete(d, n) \/ Rmdir(d, n)
      BY <3>2, RemoveGoesOn, ReachFrame
    <3> QED BY <2>1, <3>1, <3>2
  <2>2. ASSUME NEW d \in Inodes, NEW n \in Names, Open(d, n) PROVE InReach'
    BY <1>3, <2>2 DEF Open
  <2>3. ASSUME NEW k \in Fds, Close(k) PROVE InReach'
    BY <1>3, <2>3 DEF Close
  <2>4. ASSUME NEW k \in Fds, NEW n \in 1 .. MaxWrite, Read(k, n) PROVE InReach'
    BY <1>3, <2>4 DEF Read
  <2>5. ASSUME NEW k \in Fds, NEW n \in 1 .. MaxWrite, Write(k, n) PROVE InReach'
    <3>1. /\ fd[k].ino \in Inodes /\ fd[k].off \in Nat
          /\ BeginWrite("write", fd[k].ino, k, fd[k].off, n)
      BY <1>1, <2>5 DEF Write, TypeInv, TypeOK
    <3> QED BY <1>1, <3>1, ReachBegin
  <2>6. ASSUME NEW i \in Inodes, NEW lb \in 0 .. MaxSize, NEW n \in 1 .. MaxWrite,
               FuseWrite(i, lb, n)
        PROVE  InReach'
    BY <1>1, <2>6, ReachBegin DEF FuseWrite
  <2> QED BY <1>6, <2>1, <2>2, <2>3, <2>4, <2>5, <2>6 DEF Call
<1>7. CASE Map
  <2>1. CASE FollowPointer
    BY <1>1, <2>1, FollowLocals, ReachSame DEF SameLocals, diskVars
  <2>2. CASE AllocBlock
    BY <1>1, <2>2, AllocLocals, ReachSame DEF SameLocals
  <2>3. CASE ZeroBlock
    BY <1>1, <2>3, ZeroLocals, ReachSame DEF SameLocals
  <2>4. CASE LinkBlock
    BY <1>1, <2>4, LinkLocals, ReachSame DEF SameLocals
  <2> QED BY <1>7, <2>1, <2>2, <2>3, <2>4 DEF Map
<1>8. CASE Free
  <2>1. CASE ExpandPointerBlock \/ FreeBlock
    <3>1. inode' = inode /\ op'.pc = "free"
      BY <1>1, <2>1 DEF ExpandPointerBlock, FreeBlock, diskVars, OpRec
    <3> QED BY <3>1, ReachFrame
  <2>2. CASE ClearInode
    <3>1. /\ op'.pc = "ifree"
          /\ inode' = [inode EXCEPT ![op.ino] = FreshInode(@.dir)]
      BY <1>1, <2>2 DEF ClearInode, OpRec
    <3>2. ASSUME NEW i \in Inodes PROVE inode'[i].size <= Reach(NLevel)
      <4>1. inode \in [Inodes -> InodeRec]
        BY <1>1 DEF TypeInv, TypeOK, DiskTypeOK
      <4>2. CASE i = op.ino
        <5>1. inode'[i].size = 0
          BY <3>1, <4>1, <4>2, FreshType DEF FreshInode
        <5> QED BY <5>1, ReachLast
      <4>3. CASE i # op.ino
        BY <3>1, <4>1, <4>3 DEF InReach
      <4> QED BY <4>2, <4>3
    <3> QED BY <3>1, <3>2 DEF InReach
  <2>3. CASE FreeInode
    <3>1. inode' = inode /\ op'.pc = "idle"
      BY <2>3, IdleNames DEF FreeInode
    <3> QED BY <3>1, ReachFrame
  <2> QED BY <1>8, <2>1, <2>2, <2>3 DEF Free
<1>9. CASE InitInode
  <2> DEFINE new == FreshInode(op.call = "mkdir")
  <2>1. /\ op.ino \in Inodes /\ op.par \in Linked
        /\ inode' = [inode EXCEPT ![op.ino] = new]
        /\ op.call \in {"create", "mkdir"}
        /\ op.call = "create" => NamesNow
        /\ op.call = "mkdir" =>
             op'.pc = "walk" /\ op'.lb = 0 /\ op'.left = 0
    BY <1>1, <1>2, <1>9, InitInodeLocals
  <2>2. new.size = 0
    BY FreshType
  <2> HIDE DEF new
  <2>3. \A i \in Inodes : inode'[i].size <= Reach(NLevel)
    BY <1>1, <2>1, <2>2, ReachLast DEF InReach, TypeInv, TypeOK, DiskTypeOK
  <2>4. op.par \in Inodes
    BY <1>1, <2>1, LinkedInodes DEF TypeInv
  <2>5. CASE op.call = "create"
    BY <1>1, <2>1, <2>3, <2>4, <2>5, ReachNames
  <2>6. CASE op.call = "mkdir"
    BY <2>1, <2>3, <2>6, ReachLast DEF InReach
  <2> QED BY <2>1, <2>5, <2>6
<1>10. CASE WriteEntry
  <2>1. inode' = inode /\ op'.pc = "idle"
    BY <1>10, IdleNames DEF WriteEntry
  <2> QED BY <2>1, ReachFrame
<1>11. CASE WriteData
  <2>1. inode' = inode /\ op.lb \in Nat /\ op.left \in Nat
    BY <1>1, <1>11, OpTypes DEF WriteData
  <2>2. op.pc = "data"
    BY <1>11 DEF WriteData
  <2>3. op.lb + 1 <= Reach(NLevel) /\ op.lb + op.left <= Reach(NLevel)
    BY <2>2 DEF InReach
  <2>4. \/ op' = Idle
        \/ op'.pc = "walk" /\ op'.lb = op.lb + 1 /\ op'.left = op.left - 1 /\ op.left > 1
        \/ op'.pc = "iput" /\ op'.lb = op.lb + 1
    BY <1>1, <1>11, WriteDataLocals
  <2>5. CASE op' = Idle
    BY <2>1, <2>5, ReachFrame, IdleNames
  <2>6. CASE op'.pc = "walk" /\ op'.lb = op.lb + 1 /\ op'.left = op.left - 1 /\ op.left > 1
    <3>1. op'.lb + 1 <= Reach(NLevel) /\ op'.lb + op'.left <= Reach(NLevel)
      BY <2>1, <2>3, <2>6, ReachLast
    <3> QED BY <2>1, <2>6, <3>1 DEF InReach
  <2>7. CASE op'.pc = "iput" /\ op'.lb = op.lb + 1
    BY <2>1, <2>3, <2>7 DEF InReach
  <2> QED BY <2>4, <2>5, <2>6, <2>7
<1>12. CASE RunOut
  <2>1. inode' = inode /\ op.pc = "walk" /\ op.lb \in Nat
    BY <1>1, <1>12, RunOutLocals, OpTypes DEF diskVars
  <2>2. \/ op' = Idle
        \/ op'.pc = "iput" /\ op'.lb = op.lb
        \/ op'.pc \in {"free", "ifree"}
    BY <1>1, <1>12, RunOutLocals
  <2>3. op.lb <= Reach(NLevel)
    BY <2>1, ReachLast DEF InReach
  <2>4. CASE op'.pc = "iput" /\ op'.lb = op.lb
    BY <2>1, <2>3, <2>4 DEF InReach
  <2> QED BY <2>1, <2>2, <2>4, ReachFrame, IdleNames
<1>13. CASE PutInode
  <2> DEFINE rec == Stored
  <2>1. /\ op.pc = "iput" /\ op.put \in Inodes
        /\ inode' = [inode EXCEPT ![op.put] = rec]
        /\ op.mem.size = inode[op.put].size
        /\ op' = Idle \/ (op.call = "mkdir" /\ NamesNow)
    BY <1>1, <1>2, <1>13, PutInodeLocals
  <2>2. rec.size = op.lb \/ rec.size = op.mem.size
    BY <1>1, StoredIs
  <2> HIDE DEF rec
  <2>3. rec.size <= Reach(NLevel)
    BY <2>1, <2>2 DEF InReach
  <2>4. \A i \in Inodes : inode'[i].size <= Reach(NLevel)
    BY <1>1, <2>1, <2>3 DEF InReach, TypeInv, TypeOK, DiskTypeOK
  <2>5. CASE op' = Idle
    BY <2>4, <2>5, IdleNames DEF InReach
  <2>6. CASE op.call = "mkdir" /\ NamesNow
    <3>1. op.par \in Inodes
      BY <1>1, <2>6 DEF TypeInv, OpShape
    <3> QED BY <1>1, <2>4, <2>6, <3>1, ReachNames
  <2> QED BY <2>1, <2>5, <2>6
<1>14. CASE Continue
  BY <1>7, <1>8, <1>9, <1>10, <1>11, <1>12, <1>13, <1>14 DEF Continue
<1> QED BY <1>4, <1>5, <1>6, <1>14 DEF Next

LEMMA ReachAlways == LeakInv /\ InReach /\ [Next]_vars => (LeakInv /\ InReach)'
BY LeakStep, ReachStep

(* Two logical blocks, of one file or of two, never share a block.  What the
   thresholds, the divisions and the remainders of inode_get_block make of a
   block number tells it from every other of the file, at every boundary of the
   levels; and a block has its place in one file only. *)
THEOREM BlocksApartAlways == Spec => []BlocksApart
<1>1. Init => LeakInv /\ InReach
  BY LeakInit, ReachInit
<1>2. LeakInv /\ InReach => BlocksApart
  BY LeakIsBlock, BlocksApartFrom
<1> QED BY <1>1, <1>2, ReachAlways, PTL DEF Spec

-----------------------------------------------------------------------------
(* The walk keeps to its way. *)

(* A way only depends on the pointers it takes. *)
AgreeOnWay(arr, arr2, rec, lb, m) ==
    \A n \in 1 .. m :
      n <= Len(Indices(lb)) /\ Way(arr, rec, lb, n - 1) # 0 =>
        arr2[Way(arr, rec, lb, n - 1)][Indices(lb)[n]]
          = arr[Way(arr, rec, lb, n - 1)][Indices(lb)[n]]

LEMMA WayKeeps ==
    ASSUME NEW arr, NEW arr2, NEW rec, NEW rec2, NEW lb \in Nat,
           NEW m \in 0 .. 3,
           rec.ptr[SlotOf(lb)] = rec2.ptr[SlotOf(lb)],
           AgreeOnWay(arr, arr2, rec, lb, m)
    PROVE  \A n \in 0 .. m : Way(arr2, rec2, lb, n) = Way(arr, rec, lb, n)
<1>1. Way(arr2, rec2, lb, 0) = Way(arr, rec, lb, 0)
  BY WayIs
<1>2. ASSUME NEW n \in 1 .. m,
             Way(arr2, rec2, lb, n - 1) = Way(arr, rec, lb, n - 1)
      PROVE  Way(arr2, rec2, lb, n) = Way(arr, rec, lb, n)
  <2>1. PICK p : p = Way(arr, rec, lb, n - 1) /\ p = Way(arr2, rec2, lb, n - 1)
    BY <1>2
  <2>2. n \in 1 .. 3
    OBVIOUS
  <2>3. PICK depth \in Nat : depth = Len(Indices(lb))
    BY IndexFacts
  <2>4. CASE n <= depth /\ p # 0
    <3>1. arr2[p][Indices(lb)[n]] = arr[p][Indices(lb)[n]]
      BY <2>1, <2>3, <2>4 DEF AgreeOnWay
    <3>2. Way(arr, rec, lb, n) = arr[p][Indices(lb)[n]]
      BY <2>1, <2>2, <2>3, <2>4, WayNext
    <3>3. Way(arr2, rec2, lb, n) = arr2[p][Indices(lb)[n]]
      BY <2>1, <2>2, <2>3, <2>4, WayNext
    <3> QED BY <3>1, <3>2, <3>3
  <2>5. CASE n > depth \/ p = 0
    <3>1. Way(arr, rec, lb, n) = p
      BY <2>1, <2>2, <2>3, <2>5, WayNext
    <3>2. Way(arr2, rec2, lb, n) = p
      BY <2>1, <2>2, <2>3, <2>5, WayNext
    <3> QED BY <3>1, <3>2
  <2> QED BY <2>3, <2>4, <2>5
<1>3. m >= 1 => Way(arr2, rec2, lb, 1) = Way(arr, rec, lb, 1)
  <2>1. m >= 1 => 1 \in 1 .. m /\ 1 - 1 = 0
    OBVIOUS
  <2> QED BY <1>1, <1>2, <2>1
<1>4. m >= 2 => Way(arr2, rec2, lb, 2) = Way(arr, rec, lb, 2)
  <2>1. m >= 2 => 2 \in 1 .. m /\ 2 - 1 = 1
    OBVIOUS
  <2> QED BY <1>2, <1>3, <2>1
<1>5. m >= 3 => Way(arr2, rec2, lb, 3) = Way(arr, rec, lb, 3)
  <2>1. m >= 3 => 3 \in 1 .. m /\ 3 - 1 = 2
    OBVIOUS
  <2> QED BY <1>2, <1>4, <2>1
<1>6. ASSUME NEW n \in 0 .. m
      PROVE  Way(arr2, rec2, lb, n) = Way(arr, rec, lb, n)
  <2>1. n = 0 \/ n = 1 \/ n = 2 \/ n = 3
    OBVIOUS
  <2> QED BY <1>1, <1>3, <1>4, <1>5, <2>1
<1> QED BY <1>6

(* Where the walk is. *)
WalkPoints == {"walk", "zero", "link"}

LEMMA WalkAt ==
    ASSUME TypeInv, OnWay, op.pc \in WalkPoints
    PROVE  \E j \in 0 .. 3 :
             /\ j = Len(Indices(op.lb)) - Len(op.rest)
             /\ j <= Len(Indices(op.lb))
             /\ \A m \in 1 .. Len(op.rest) : op.rest[m] = Indices(op.lb)[j + m]
             /\ op.at = 0 => j = 0 /\ op.k = SlotOf(op.lb)
             /\ op.at # 0 =>
                  /\ j >= 1 /\ op.at = Way(array, op.mem, op.lb, j - 1)
                  /\ op.k = Indices(op.lb)[j]
<1>1. op.lb \in Nat /\ Len(op.rest) \in Nat
  BY OpTypes
<1>2. PICK depth : depth = Len(Indices(op.lb)) /\ depth \in 0 .. 3
  BY <1>1, IndexFacts
<1>3. PICK j : j = depth - Len(op.rest)
  OBVIOUS
<1>4. /\ j >= 0 /\ \A m \in 1 .. Len(op.rest) : op.rest[m] = Indices(op.lb)[j + m]
      /\ op.at = 0 => j = 0 /\ op.k = SlotOf(op.lb)
      /\ op.at # 0 => /\ j >= 1 /\ op.at = Way(array, op.mem, op.lb, j - 1)
                      /\ op.k = Indices(op.lb)[j]
  BY <1>2, <1>3 DEF OnWay, WalkPoints
<1>5. j \in 0 .. 3 /\ j <= depth
  <2>1. j >= 0
    BY <1>4
  <2>2. PICK rest \in Nat : rest = Len(op.rest)
    BY <1>1
  <2>3. j = depth - rest /\ rest \in Nat /\ depth \in 0 .. 3
    BY <1>2, <1>3, <2>2
  <2>4. j \in Int /\ j <= depth
    BY <2>3
  <2> QED BY <2>1, <2>3, <2>4
<1> QED BY <1>2, <1>3, <1>4, <1>5

LEMMA HereIsWay ==
    ASSUME TypeInv, OnWay, op.pc \in WalkPoints,
           NEW j \in 0 .. 3, j = Len(Indices(op.lb)) - Len(op.rest)
    PROVE  Here = Way(array, op.mem, op.lb, j)
<1>1. op.lb \in Nat
  BY OpTypes
<1>2. /\ j <= Len(Indices(op.lb))
      /\ op.at = 0 => j = 0 /\ op.k = SlotOf(op.lb)
      /\ op.at # 0 => /\ j >= 1 /\ op.at = Way(array, op.mem, op.lb, j - 1)
                      /\ op.k = Indices(op.lb)[j]
  BY WalkAt
<1>3. CASE op.at = 0
  <2>1. Here = op.mem.ptr[SlotOf(op.lb)]
    BY <1>2, <1>3 DEF Here
  <2>2. Way(array, op.mem, op.lb, 0) = op.mem.ptr[SlotOf(op.lb)]
    BY WayIs
  <2>3. j = 0
    BY <1>2, <1>3
  <2> QED BY <2>1, <2>2, <2>3
<1>4. CASE op.at # 0
  <2>1. Here = array[op.at][op.k] /\ j \in 1 .. 3
    <3>1. j >= 1
      BY <1>2, <1>4
    <3>2. Here = array[op.at][op.k]
      BY <1>4 DEF Here
    <3> QED BY <3>1, <3>2
  <2>2. PICK rec, lb, index : rec = op.mem /\ lb = op.lb /\ index = Indices(lb)
    OBVIOUS
  <2>3. lb \in Nat /\ j <= Len(Indices(lb)) /\ Way(array, rec, lb, j - 1) # 0
    BY <1>1, <1>2, <1>4, <2>2
  <2>4. Way(array, rec, lb, j) = array[Way(array, rec, lb, j - 1)][index[j]]
    BY ONLY <2>1, <2>2, <2>3, WayNext
  <2> QED BY <1>2, <1>4, <2>1, <2>2, <2>4
<1> QED BY <1>3, <1>4

(* The blocks a walk went through lie above the pointer it looks at. *)
LEMMA MemSlotsOwn ==
    ASSUME TypeInv, NEW h \in HomeMap, Owned(h), op.put \in Live,
           op.pc # "zero" \/ op.at # 0
    PROVE  SlotsOwn(h, op.put, op.mem.ptr)
<1>1. ASSUME NEW s \in Slots, op.mem.ptr[s] # 0
      PROVE  /\ h[op.mem.ptr[s]] = Place(op.put, DepthOf(s), 0, s)
             /\ Cleared(op.mem.ptr[s], DepthOf(s))
  <2>1. PICK b : b = op.mem.ptr[s]
    OBVIOUS
  <2>2. /\ h[b] = Place(op.put, DepthOf(s), 0, s)
        /\ ~(op.pc = "zero" /\ b = op.new) => Cleared(b, DepthOf(s))
    BY <1>1, <2>1 DEF Owned, MemOwns
  <2>3. op.pc = "zero" => b # op.new
    <3>1. op.pc = "zero" => h[op.new] = Place(op.put, Len(op.rest), op.at, op.k)
      BY DEF Owned, WalkOwns
    <3> QED BY <2>2, <3>1, PlaceFields
  <2> QED BY <2>1, <2>2, <2>3
<1> QED BY <1>1 DEF SlotsOwn

LEMMA WayLevels ==
    ASSUME NEW h, NEW i, NEW rec, NEW lb \in Nat,
           NEW n \in 0 .. Len(Indices(lb)), OwnsAt(h, i, rec, lb, n),
           Way(array, rec, lb, n) # 0
    PROVE  /\ Way(array, rec, lb, n) \in Blocks
           /\ h[Way(array, rec, lb, n)].ino = i
           /\ h[Way(array, rec, lb, n)].level = Len(Indices(lb)) - n
           /\ Cleared(Way(array, rec, lb, n), Len(Indices(lb)) - n)
<1>1. PICK b : b = Way(array, rec, lb, n)
  OBVIOUS
<1>2. PICK level : level = Len(Indices(lb)) - n
  OBVIOUS
<1>3. /\ b \in Blocks /\ Cleared(b, level)
      /\ n = 0 => h[b] = Place(i, level, 0, SlotOf(lb))
      /\ n # 0 => h[b] = Place(i, level, Way(array, rec, lb, n - 1), Indices(lb)[n])
  BY <1>1, <1>2 DEF OwnsAt
<1> QED BY <1>1, <1>2, <1>3, PlaceFields

(* The same at the end of a step. *)
LEMMA LookupThen ==
    ASSUME NEW lb, op'.lb = lb
    PROVE  Lookup(op.mem, op.lb)' = Way(array', op'.mem, lb, 3)
<1>1. Len(<<>>) = 0
  OBVIOUS
<1>2. CASE op'.mem.ptr[SlotOf(lb)] = 0
  BY <1>2 DEF Lookup, Way, Hop
<1>3. CASE Indices(lb) = <<>>
  BY <1>1, <1>3 DEF Lookup, Way, Hop
<1>4. CASE op'.mem.ptr[SlotOf(lb)] # 0 /\ Indices(lb) # <<>>
  <2> DEFINE first == op'.mem.ptr[SlotOf(lb)]
             way1 == Hop(array', first, Indices(lb), 1)
             way2 == Hop(array', way1, Indices(lb), 2)
  <2>1. Lookup(op.mem, op.lb)' = Hop(array', way2, Indices(lb), 3)
    BY <1>4 DEF Lookup, Hop
  <2>2. Way(array', op'.mem, lb, 3) = Hop(array', way2, Indices(lb), 3)
    BY DEF Way
  <2> QED BY <2>1, <2>2
<1> QED BY <1>2, <1>3, <1>4

(* A write to one block leaves the way above it alone. *)
LEMMA WayStill ==
    ASSUME NameInv, NEW h \in HomeMap, Owned(h), op.put \in Live,
           op.pc # "zero" \/ op.at # 0,
           NEW lb \in Nat, NEW m \in 0 .. Len(Indices(lb)),
           NEW c, \A p \in Blocks : p # c => array'[p] = array[p],
           h[c].ino = op.put => h[c].level <= Len(Indices(lb)) - m
    PROVE  \A n \in 0 .. m : Way(array', op.mem, lb, n) = Way(array, op.mem, lb, n)
<1>1. PICK depth : depth = Len(Indices(lb)) /\ depth \in 0 .. 3
  BY IndexFacts
<1>2. SlotsOwn(h, op.put, op.mem.ptr) /\ BlocksOwn(h) /\ TypeInv
  BY MemSlotsOwn DEF Owned, NameInv
<1>3. PICK rec : rec = op.mem
  OBVIOUS
<1>4. \A n \in 0 .. depth : OwnsAt(h, op.put, rec, lb, n)
  BY <1>1, <1>2, <1>3, WayOwns, OpTypes
<1>5. ASSUME NEW n \in 1 .. m, Way(array, rec, lb, n - 1) # 0
      PROVE  array'[Way(array, rec, lb, n - 1)] = array[Way(array, rec, lb, n - 1)]
  <2>1. PICK o : o = n - 1 /\ o \in 0 .. depth /\ depth - o > depth - m
    BY <1>1
  <2>2. PICK p : p = Way(array, rec, lb, o)
    OBVIOUS
  <2>3. p \in Blocks /\ h[p].ino = op.put /\ h[p].level = depth - o
    BY <1>1, <1>4, <1>5, <2>1, <2>2, WayLevels
  <2>4. p # c
    <3>1. PICK level : level = depth - o /\ level \in Int /\ ~(level <= depth - m)
      BY <1>1, <2>1
    <3> QED BY <1>1, <2>3, <3>1
  <2>5. array'[p] = array[p]
    BY <2>3, <2>4
  <2> QED BY ONLY <2>1, <2>2, <2>5
<1>6. PICK arr, arr2 : arr = array /\ arr2 = array'
  OBVIOUS
<1>7. AgreeOnWay(arr, arr2, rec, lb, m)
  BY <1>5, <1>6 DEF AgreeOnWay
<1>8. m \in 0 .. 3
  BY <1>1
<1>9. \A n \in 0 .. m : Way(arr2, rec, lb, n) = Way(arr, rec, lb, n)
  <2>1. rec.ptr[SlotOf(lb)] = rec.ptr[SlotOf(lb)]
    OBVIOUS
  <2> QED BY ONLY <1>7, <1>8, <2>1, WayKeeps, lb \in Nat, SMTT(20)
<1> QED BY <1>3, <1>6, <1>9

LEMMA FollowOnWay ==
    ASSUME TypeInv, OnWay, FollowPointer PROVE OnWay'
<1>1. /\ SameLocals /\ op'.mem = op.mem
      /\ op.pc = "walk" /\ Here # 0 /\ array' = array
      /\ op.rest = <<>> => op'.pc = "data" /\ op'.new = Here
      /\ op.rest # <<>> => /\ op'.pc = "walk" /\ op'.at = Here
                           /\ op'.k = Head(op.rest)
                           /\ op'.rest = Tail(op.rest)
  BY FollowLocals DEF diskVars
<1>2. PICK lb \in Nat : lb = op.lb
  BY OpTypes
<1>3. PICK rest \in Seq(0 .. NPtr - 1) : rest = op.rest
  BY OpTypes
<1>4. PICK depth : depth = Len(Indices(lb)) /\ depth \in 0 .. 3
  BY IndexFacts
<1>5. PICK j \in 0 .. 3 :
        /\ j = depth - Len(rest) /\ j <= depth
        /\ \A m \in 1 .. Len(rest) : rest[m] = Indices(lb)[j + m]
  BY <1>1, <1>2, <1>3, <1>4, WalkAt DEF WalkPoints
<1>6. Here = Way(array, op.mem, lb, j)
  BY <1>1, <1>2, <1>3, <1>4, <1>5, HereIsWay DEF WalkPoints
<1>7. op'.call \in {"write", "fwrite"} => op'.left > 0
  BY <1>1 DEF OnWay, SameLocals
<1>8. CASE rest = <<>>
  <2>1. j = depth
    BY <1>4, <1>5, <1>8
  <2>2. Way(array, op.mem, lb, 3) = Way(array, op.mem, lb, depth)
    BY <1>4, WayEnd
  <2>3. op'.pc = "data" /\ op'.new = Here /\ op'.lb = lb /\ op'.mem = op.mem
    BY <1>1, <1>2, <1>3, <1>8 DEF SameLocals
  <2>4. op'.new = Way(array', op'.mem, op'.lb, 3)
    BY <1>1, <1>6, <2>1, <2>2, <2>3
  <2>5. op'.new = Lookup(op.mem, op.lb)'
    BY <2>3, <2>4, LookupThen
  <2> QED BY <1>7, <2>3, <2>5 DEF OnWay
<1>9. CASE rest # <<>>
  <2>1. PICK below : below = Tail(rest)
    OBVIOUS
  <2>2. Len(below) = Len(rest) - 1 /\ Len(rest) \in 1 .. depth
        /\ Head(rest) = rest[1]
    BY <1>3, <1>4, <1>5, <1>9, <2>1
  <2>3. \A m \in 1 .. Len(below) : below[m] = rest[m + 1] /\ m + 1 \in 1 .. Len(rest)
    BY <1>3, <1>9, <2>1, <2>2
  <2>4. PICK o : o = j + 1 /\ o \in 1 .. 3 /\ o = depth - Len(below) /\ o <= depth
    <3>1. PICK n \in 1 .. depth : n = Len(rest)
      BY <2>2
    <3>2. Len(below) = n - 1 /\ j = depth - n
      BY <1>5, <2>2, <3>1
    <3> QED BY <1>4, <3>1, <3>2
  <2>5. ASSUME NEW m \in 1 .. Len(below) PROVE below[m] = Indices(lb)[o + m]
    <3>1. below[m] = rest[m + 1] /\ rest[m + 1] = Indices(lb)[j + (m + 1)]
      BY <1>5, <2>3
    <3>2. j + (m + 1) = o + m
      <4>1. m \in Nat
        BY <2>2
      <4> QED BY <2>4, <4>1
    <3> QED BY <3>1, <3>2
  <2>6. Head(rest) = Indices(lb)[o]
    <3>1. 1 \in 1 .. Len(rest)
      BY <2>2
    <3> QED BY <1>5, <2>2, <2>4, <3>1
  <2>7. /\ op'.pc = "walk" /\ op'.at = Here /\ op'.k = Head(rest)
        /\ op'.rest = below /\ op'.lb = lb /\ op'.mem = op.mem
    BY <1>1, <1>2, <1>3, <1>9, <2>1 DEF SameLocals
  <2>8. op'.at = Way(array', op'.mem, lb, o - 1) /\ op'.at # 0
    <3>1. o - 1 = j
      BY <2>4
    <3> QED BY <1>1, <1>6, <2>7, <3>1
  <2>9. /\ op'.pc = "walk" /\ op'.lb = lb /\ o = Len(Indices(lb)) - Len(op'.rest)
        /\ o >= 1 /\ o >= 0 /\ op'.k = Indices(lb)[o]
        /\ \A m \in 1 .. Len(op'.rest) : op'.rest[m] = Indices(lb)[o + m]
    BY <1>4, <2>4, <2>5, <2>6, <2>7
  <2> QED BY <1>7, <2>8, <2>9 DEF OnWay
<1> QED BY <1>3, <1>8, <1>9

(* A step that leaves the walk where it is. *)
LEMMA StillOnWay ==
    ASSUME OnWay, op.pc \in WalkPoints, op'.pc \in WalkPoints,
           op'.lb = op.lb, op'.rest = op.rest, op'.at = op.at, op'.k = op.k,
           op'.call = op.call, op'.left = op.left,
           op.at # 0 => LET j == Len(Indices(op.lb)) - Len(op.rest)
                        IN  Way(array', op'.mem, op.lb, j - 1)
                              = Way(array, op.mem, op.lb, j - 1)
    PROVE  OnWay'
BY DEF OnWay, WalkPoints

LEMMA AllocOnWay ==
    ASSUME TypeInv, OnWay, AllocBlock PROVE OnWay'
<1>1. PICK b \in Blocks \ bbm :
        /\ SameLocals /\ op.pc = "walk" /\ array' = array
        /\ op'.new = b /\ op'.at = op.at /\ op'.k = op.k
        /\ op'.rest = op.rest
        /\ op'.pc = (IF op.rest # <<>> THEN "zero"
                     ELSE IF op.at = 0 THEN "data" ELSE "link")
        /\ op.at # 0 => op'.mem.ptr = op.mem.ptr
        /\ op.at = 0 => op'.mem.ptr = [op.mem.ptr EXCEPT ![op.k] = b]
  BY AllocLocals
<1>2. CASE op'.pc \in WalkPoints
  <2>1. ASSUME op.at # 0, NEW n
        PROVE  Way(array', op'.mem, op.lb, n) = Way(array, op.mem, op.lb, n)
    BY <1>1, <2>1 DEF Way, Hop
  <2> QED BY <1>1, <1>2, <2>1, StillOnWay DEF SameLocals, WalkPoints
<1>3. CASE op'.pc \notin WalkPoints
  <2>1. op'.pc = "data" /\ op.rest = <<>> /\ op.at = 0
    BY <1>1, <1>3 DEF WalkPoints
  <2>2. PICK lb \in Nat : lb = op.lb
    BY OpTypes
  <2>3. Len(Indices(lb)) = 0 /\ op.k = SlotOf(lb)
    <3>1. PICK j \in 0 .. 3 : /\ j = Len(Indices(lb)) - Len(op.rest)
                              /\ op.at = 0 => j = 0 /\ op.k = SlotOf(lb)
      BY <1>1, <2>2, WalkAt DEF WalkPoints
    <3>2. Len(op.rest) = 0
      BY <2>1
    <3>3. Len(Indices(lb)) \in Nat
      BY IndexFacts
    <3> QED BY <2>1, <3>1, <3>2, <3>3
  <2>4. op'.mem.ptr[SlotOf(lb)] = b
    <3>1. SlotOf(lb) \in Slots /\ op.mem.ptr \in [Slots -> Blocks \union {0}]
      BY SlotType, OpTypes
    <3> QED BY <1>1, <2>1, <2>3, <3>1
  <2>5. op'.new = Way(array', op'.mem, lb, 3)
    <3>1. Way(array', op'.mem, lb, 0) = op'.mem.ptr[SlotOf(lb)]
      BY WayIs
    <3>2. Way(array', op'.mem, lb, 3) = Way(array', op'.mem, lb, 0)
      BY <2>3, WayEnd
    <3> QED BY <1>1, <2>4, <3>1, <3>2
  <2>6. op'.lb = lb /\ op'.left = op.left /\ op'.call = op.call
    BY <1>1, <2>2 DEF SameLocals
  <2>7. op'.new = Lookup(op.mem, op.lb)'
    BY <2>5, <2>6, LookupThen
  <2> QED BY <1>1, <2>1, <2>6, <2>7 DEF OnWay
<1> QED BY <1>2, <1>3

(* Clearing a pointer block, or setting a pointer in it, is below the way. *)
LEMMA WayAbove ==
    ASSUME NameInv, NEW h \in HomeMap, Owned(h), OnWay,
           op.pc \in {"zero", "link"}, op.at # 0, op'.mem = op.mem,
           NEW c, \A p \in Blocks : p # c => array'[p] = array[p],
           h[c].level <= Len(op.rest) + 1
    PROVE  LET j == Len(Indices(op.lb)) - Len(op.rest)
           IN  Way(array', op'.mem, op.lb, j - 1) = Way(array, op.mem, op.lb, j - 1)
<1>1. TypeInv /\ op.lb \in Nat /\ Len(op.rest) \in Nat /\ op.put \in Live
  BY OpTypes DEF NameInv, Owned, WalkOwns
<1>2. PICK lb \in Nat : lb = op.lb
  BY <1>1
<1>3. PICK rest \in Nat : rest = Len(op.rest)
  BY <1>1
<1>4. PICK depth : depth = Len(Indices(lb)) /\ depth \in 0 .. 3
  BY IndexFacts
<1>5. PICK j \in 0 .. 3 : j = depth - rest /\ j <= depth /\ j >= 1
  BY <1>1, <1>2, <1>3, <1>4, WalkAt DEF WalkPoints
<1>6. PICK m \in 0 .. depth : m = j - 1 /\ rest + 1 = depth - m
  BY <1>4, <1>5
<1>7. h[c].ino = op.put => h[c].level <= Len(Indices(lb)) - m
  BY <1>3, <1>4, <1>6
<1>8. m \in 0 .. Len(Indices(lb)) /\ m \in 0 .. m
  BY <1>4, <1>6
<1>9. Way(array', op.mem, lb, m) = Way(array, op.mem, lb, m)
  BY <1>1, <1>7, <1>8, WayStill
<1> QED BY <1>2, <1>3, <1>4, <1>5, <1>6, <1>9

LEMMA ZeroOnWay ==
    ASSUME NameInv, NEW h \in HomeMap, Owned(h), OnWay, ZeroBlock PROVE OnWay'
<1>1. /\ SameLocals /\ op.pc = "zero" /\ op'.mem = op.mem
      /\ op'.at = op.at /\ op'.k = op.k /\ op'.rest = op.rest
      /\ op'.pc \in WalkPoints /\ op.pc \in WalkPoints
  BY ZeroLocals DEF NameInv, WalkPoints
<1>2. TypeInv /\ op.new \in Blocks /\ h[op.new].level = Len(op.rest)
  BY <1>1, OpTypes, PlaceFields DEF NameInv, Owned, WalkOwns
<1>3. PICK c : c = op.new
  OBVIOUS
<1>4. \A p \in Blocks : p # c => array'[p] = array[p]
  BY <1>2, <1>3 DEF ZeroBlock, TypeInv, TypeOK, DiskTypeOK
<1>5. h[c].level <= Len(op.rest) + 1
  <2>1. PICK rest \in Nat : rest = Len(op.rest)
    BY <1>2, OpTypes
  <2> QED BY <1>2, <1>3, <2>1
<1>6. op.at # 0 => LET j == Len(Indices(op.lb)) - Len(op.rest)
                   IN  Way(array', op'.mem, op.lb, j - 1)
                         = Way(array, op.mem, op.lb, j - 1)
  BY <1>1, <1>4, <1>5, WayAbove
<1> QED BY <1>1, <1>6, StillOnWay DEF SameLocals

LEMMA LinkOnWay ==
    ASSUME NameInv, NEW h \in HomeMap, Owned(h), OnWay, LinkBlock PROVE OnWay'
<1>1. /\ SameLocals /\ op.pc = "link" /\ op'.mem = op.mem
      /\ op'.at = op.at /\ op'.k = op.k /\ op'.rest = op.rest
      /\ op'.pc \in WalkPoints /\ op.pc \in WalkPoints
  BY LinkLocals DEF NameInv, WalkPoints
<1>2. TypeInv /\ op.at \in Blocks /\ h[op.at].level = Len(op.rest) + 1
  BY <1>1, OpTypes DEF NameInv, Owned, WalkOwns
<1>3. PICK c : c = op.at
  OBVIOUS
<1>4. \A p \in Blocks : p # c => array'[p] = array[p]
  BY <1>2, <1>3 DEF LinkBlock, TypeInv, TypeOK, DiskTypeOK
<1>5. h[c].level <= Len(op.rest) + 1
  <2>1. PICK rest \in Nat : rest = Len(op.rest)
    BY <1>2, OpTypes
  <2> QED BY <1>2, <1>3, <2>1
<1>6. op.at # 0 => LET j == Len(Indices(op.lb)) - Len(op.rest)
                   IN  Way(array', op'.mem, op.lb, j - 1)
                         = Way(array, op.mem, op.lb, j - 1)
  BY <1>1, <1>4, <1>5, WayAbove
<1> QED BY <1>1, <1>6, StillOnWay DEF SameLocals

(* A walk starts on its way; a call that has no walk is on none. *)
LEMMA StartOnWay ==
    ASSUME TypeInv', op'.pc = "walk", op'.at = 0, op'.k = SlotOf(op'.lb),
           op'.rest = Indices(op'.lb),
           op'.call \in {"write", "fwrite"} => op'.left > 0
    PROVE  OnWay'
<1>1. op'.lb \in Nat
  BY DEF TypeInv, TypeOK, DiskTypeOK, OpRec
<1>2. PICK lb \in Nat : lb = op'.lb
  BY <1>1
<1>3. PICK index \in Seq(0 .. NPtr - 1) : index = Indices(lb)
  BY IndexFacts
<1>4. PICK depth \in Nat : depth = Len(index)
  BY <1>3
<1>5. \A m \in 1 .. depth : index[m] = index[0 + m]
  OBVIOUS
<1>6. op'.rest = index /\ Indices(op'.lb) = index
  BY <1>2, <1>3
<1>7. Len(Indices(op'.lb)) - Len(op'.rest) = 0
  BY <1>4, <1>6
<1>8. \A m \in 1 .. Len(op'.rest) : op'.rest[m] = Indices(op'.lb)[0 + m]
  BY <1>4, <1>5, <1>6
<1> QED BY <1>7, <1>8 DEF OnWay

LEMMA OffWay ==
    ASSUME op'.pc \notin {"walk", "zero", "link", "data", "iput"} PROVE OnWay'
BY DEF OnWay

LEMMA NamesOnWay == ASSUME TypeInv', NamesNow, op.call \in {"create", "mkdir"} PROVE OnWay'
<1>1. CASE op'.pc = "walk"
  BY <1>1, StartOnWay DEF NamesNow
<1>2. CASE op'.pc # "walk"
  BY <1>2, OffWay DEF NamesNow
<1> QED BY <1>1, <1>2

(* Writing the data leaves the way to it as it was. *)
LEMMA DataOnWay ==
    ASSUME NameInv, NEW h \in HomeMap, Owned(h), OnWay, WriteData
    PROVE  Way(array', op.mem, op.lb, 3) = op.new
<1>1. TypeInv /\ op.pc = "data" /\ op.new \in Blocks /\ op.put \in Live
      /\ h[op.new].level = 0 /\ op.lb \in Nat
  BY OpTypes, WriteDataLocals DEF NameInv, Owned, WalkOwns
<1>2. PICK lb \in Nat : lb = op.lb
  BY <1>1
<1>3. PICK depth : depth = Len(Indices(lb)) /\ depth \in 0 .. 3
  BY IndexFacts
<1>4. PICK c : c = op.new
  OBVIOUS
<1>5. c = Way(array, op.mem, lb, depth)
  <2>1. c = Lookup(op.mem, lb)
    BY <1>1, <1>2, <1>4 DEF OnWay
  <2> QED BY <1>3, <2>1, LookupIsWay, WayEnd
<1>6. \A p \in Blocks : p # c => array'[p] = array[p]
  BY <1>1, <1>4 DEF WriteData, TypeInv, TypeOK, DiskTypeOK
<1>7. h[c].ino = op.put => h[c].level <= Len(Indices(lb)) - depth
  BY <1>1, <1>3, <1>4
<1>8. Way(array', op.mem, lb, depth) = c
  <2>1. depth \in 0 .. Len(Indices(lb)) /\ depth \in 0 .. depth
    BY <1>3
  <2> QED BY <1>1, <1>5, <1>6, <1>7, <2>1, WayStill
<1>9. PICK arr, rec : arr = array' /\ rec = op.mem
  OBVIOUS
<1>10. Way(arr, rec, lb, 3) = Way(arr, rec, lb, depth)
  BY <1>3, WayEnd
<1> QED BY <1>2, <1>4, <1>8, <1>9, <1>10

LEMMA WriteDataOnWay ==
    ASSUME NameInv, TypeInv', NEW h \in HomeMap, Owned(h), OnWay, WriteData
    PROVE  OnWay'
<1>1. TypeInv /\ op.pc = "data" /\ op.new \in Blocks /\ op.put \in Live
      /\ h[op.new].level = 0 /\ op.lb \in Nat /\ op.left \in Nat
  BY OpTypes, WriteDataLocals DEF NameInv, Owned, WalkOwns
<1>2. CASE op' = Idle
  BY <1>2, OffWay, IdleNames
<1>3. CASE op'.pc = "walk"
  <2>1. PICK next \in Nat : next = op.lb + 1
    BY <1>1
  <2>2. /\ op'.lb = next /\ op'.at = 0 /\ op'.k = SlotOf(next)
        /\ op'.rest = Indices(next) /\ op'.left = op.left - 1 /\ op.left > 1
    BY <1>1, <1>3, <2>1, WriteDataLocals, IdleNames
  <2>3. op'.left > 0
    BY <1>1, <2>2
  <2> QED BY <1>3, <2>2, <2>3, StartOnWay
<1>4. CASE op'.pc = "iput"
  <2>1. op'.lb = op.lb + 1 /\ op'.new = op.new /\ op'.mem = op.mem
    BY <1>1, <1>4, WriteDataLocals, IdleNames
  <2>2. PICK lb \in Nat : lb = op.lb
    BY <1>1
  <2>3. op'.lb - 1 = lb /\ op'.lb > 0
    BY <2>1, <2>2
  <2>4. Way(array', op'.mem, lb, 3) = op.new
    BY <1>1, <2>1, <2>2, DataOnWay
  <2>5. op'.new = Way(array', op'.mem, op'.lb - 1, 3)
    BY <2>1, <2>3, <2>4
  <2> QED BY <1>4, <2>3, <2>5 DEF OnWay
<1> QED BY <1>2, <1>3, <1>4, WriteDataLocals DEF NameInv

LEMMA WayOfSame ==
    ASSUME NEW arr, NEW rec, NEW rec2, rec2.ptr = rec.ptr, NEW lb, NEW n
    PROVE  Way(arr, rec2, lb, n) = Way(arr, rec, lb, n)
BY DEF Way

LEMMA StoredOnWay ==
    ASSUME NEW i, NEW lb
    PROVE  Lookup(inode[i], lb)' = Way(array', inode'[i], lb, 3)
<1>1. Len(<<>>) = 0
  OBVIOUS
<1>2. CASE inode'[i].ptr[SlotOf(lb)] = 0
  BY <1>2 DEF Lookup, Way, Hop
<1>3. CASE Indices(lb) = <<>>
  BY <1>1, <1>3 DEF Lookup, Way, Hop
<1>4. CASE inode'[i].ptr[SlotOf(lb)] # 0 /\ Indices(lb) # <<>>
  <2> DEFINE first == inode'[i].ptr[SlotOf(lb)]
             way1 == Hop(array', first, Indices(lb), 1)
             way2 == Hop(array', way1, Indices(lb), 2)
  <2>1. Lookup(inode[i], lb)' = Hop(array', way2, Indices(lb), 3)
    BY <1>4 DEF Lookup, Hop
  <2>2. Way(array', inode'[i], lb, 3) = Hop(array', way2, Indices(lb), 3)
    BY DEF Way
  <2> QED BY <2>1, <2>2
<1> QED BY <1>2, <1>3, <1>4

LEMMA OnWayInit == Init => OnWay
BY IdleNames DEF Init, OnWay

LEMMA OnWayStep ==
    ASSUME LeakInv, OnWay, [Next]_vars PROVE OnWay'
<1>0. NameInv /\ TypeInv
  BY DEF LeakInv, NameInv
<1>1. NameInv /\ TypeInv /\ op \in OpRec /\ TypeInv'
  <2>1. TypeInv'
    BY ONLY <1>0, [Next]_vars, TypeStep
  <2> QED BY <1>0, <2>1, OpTypes
<1>2. PICK h \in HomeMap : Owned(h) /\ PutIsKnown
  BY DEF LeakInv, Exact
<1>3. ASSUME UNCHANGED <<array, op>> PROVE OnWay'
  <2>1. Lookup(op.mem, op.lb)' = Lookup(op.mem, op.lb)
    BY <1>3 DEF Lookup
  <2> QED BY <1>3, <2>1 DEF OnWay, Way, Hop
<1>4. CASE (\E m \in Modes : Start(m)) \/ UNCHANGED vars
  BY <1>3, <1>4 DEF Start, vars, diskVars
<1>5. CASE Exit \/ Kill
  BY <1>5, IdleNames, OffWay DEF Exit, Kill, Gone
<1>6. CASE Call
  <2>1. ASSUME NEW d \in Inodes, NEW n \in Names,
               \/ Create(d, n) \/ Mkdir(d, n)
               \/ Delete(d, n) \/ Rmdir(d, n)
        PROVE  OnWay'
    <3>1. CASE Create(d, n) \/ Mkdir(d, n)
      BY <3>1, NewInodeKnown, OffWay DEF Create, Mkdir
    <3>2. CASE Delete(d, n) \/ Rmdir(d, n)
      BY <3>2, RemoveGoesOn, OffWay
    <3> QED BY <2>1, <3>1, <3>2
  <2>2. ASSUME NEW d \in Inodes, NEW n \in Names, Open(d, n) PROVE OnWay'
    BY <1>3, <2>2 DEF Open, diskVars
  <2>3. ASSUME NEW k \in Fds, Close(k) PROVE OnWay'
    BY <1>3, <2>3 DEF Close, diskVars
  <2>4. ASSUME NEW k \in Fds, NEW n \in 1 .. MaxWrite, Read(k, n) PROVE OnWay'
    BY <1>3, <2>4 DEF Read, diskVars
  <2>5. ASSUME NEW call \in {"write", "fwrite"}, NEW i \in Inodes,
               NEW k \in Fds \union {0}, NEW lb \in Nat, NEW n \in 1 .. MaxWrite,
               BeginWrite(call, i, k, lb, n)
        PROVE  OnWay'
    <3>1. n \in Nat /\ n > 0
      BY ReachLast
    <3>2. op'.pc = "walk" /\ op'.at = 0 /\ op'.lb = lb /\ op'.k = SlotOf(lb)
          /\ op'.rest = Indices(lb) /\ op'.left = n
      BY <1>1, <2>5, <3>1, BeginWriteLocals
    <3> QED BY <1>1, <3>1, <3>2, StartOnWay
  <2>6. ASSUME NEW k \in Fds, NEW n \in 1 .. MaxWrite, Write(k, n) PROVE OnWay'
    <3>1. /\ fd[k].ino \in Inodes /\ fd[k].off \in Nat
          /\ BeginWrite("write", fd[k].ino, k, fd[k].off, n)
      BY <1>1, <2>6 DEF Write, TypeInv, TypeOK
    <3> QED BY <2>5, <3>1
  <2>7. ASSUME NEW i \in Inodes, NEW lb \in 0 .. MaxSize, NEW n \in 1 .. MaxWrite,
               FuseWrite(i, lb, n)
        PROVE  OnWay'
    <3>1. lb \in Nat /\ BeginWrite("fwrite", i, 0, lb, n)
      BY <2>7, ReachLast DEF FuseWrite
    <3> QED BY <2>5, <3>1
  <2> QED BY <1>6, <2>1, <2>2, <2>3, <2>4, <2>6, <2>7 DEF Call
<1>7. CASE Map
  <2>1. CASE FollowPointer
    BY <1>1, <2>1, FollowOnWay
  <2>2. CASE AllocBlock
    BY <1>1, <2>2, AllocOnWay
  <2>3. CASE ZeroBlock
    BY <1>1, <1>2, <2>3, ZeroOnWay
  <2>4. CASE LinkBlock
    BY <1>1, <1>2, <2>4, LinkOnWay
  <2> QED BY <1>7, <2>1, <2>2, <2>3, <2>4 DEF Map
<1>8. CASE Free
  <2>1. op'.pc \in {"free", "ifree", "idle"}
    BY <1>1, <1>8, IdleNames
    DEF Free, ExpandPointerBlock, FreeBlock, ClearInode, FreeInode, OpRec
  <2> QED BY <2>1, OffWay
<1>9. CASE InitInode
  <2>1. /\ op.call \in {"create", "mkdir"}
        /\ op.call = "create" => NamesNow
        /\ op.call = "mkdir" =>
             /\ op'.call = op.call /\ op'.pc = "walk" /\ op'.at = 0 /\ op'.lb = 0
             /\ op'.k = SlotOf(0) /\ op'.rest = Indices(0)
    BY <1>1, <1>2, <1>9, InitInodeLocals
  <2> QED BY <1>1, <2>1, NamesOnWay, StartOnWay
<1>10. CASE WriteEntry
  BY <1>10, IdleNames, OffWay DEF WriteEntry
<1>11. CASE WriteData
  BY <1>1, <1>2, <1>11, WriteDataOnWay
<1>12. CASE RunOut
  <2>1. CASE op' = Idle \/ op'.pc \in {"free", "ifree"}
    BY <2>1, IdleNames, OffWay
  <2>2. CASE op.call = "write" /\ op'.pc = "iput" /\ op'.left = op.left
    <3>1. op.left > 0 /\ op.left \in Nat
      BY <1>1, <1>12, <2>2, RunOutLocals, OpTypes DEF OnWay
    <3>2. op'.left # 0
      BY <2>2, <3>1
    <3> QED BY <2>2, <3>2 DEF OnWay
  <2> QED BY <1>1, <1>12, <2>1, <2>2, RunOutLocals
<1>13. CASE PutInode
  <2>1. op' = Idle \/ (op.call = "mkdir" /\ NamesNow)
    BY <1>1, <1>2, <1>13, PutInodeLocals
  <2> QED BY <1>1, <2>1, NamesOnWay, OffWay, IdleNames
<1> QED BY <1>4, <1>5, <1>6, <1>7, <1>8, <1>9, <1>10, <1>11, <1>12, <1>13
        DEF Next, Continue

-----------------------------------------------------------------------------
(* The interactive program leaves no holes. *)

(* What inode i leads to stays: no pointer in its pointer blocks is cleared, no
   data block of it is given up. *)
Untouched(h, i) ==
    \A p \in Blocks : h[p].ino = i =>
        /\ h[p].level > 0 => \A k \in 0 .. NPtr - 1 :
                               array[p][k] # 0 => array'[p][k] = array[p][k]
        /\ h[p].level = 0 /\ kind[p] = "data" => kind'[p] = "data"

(* A pointer that is set in one inode record is the same in another. *)
SlotKept(rec, rec2, s) == rec.ptr[s] # 0 => rec2.ptr[s] = rec.ptr[s]

LEMMA WayNotZero ==
    ASSUME NEW arr, NEW rec, NEW lb, Way(arr, rec, lb, 3) # 0, NEW n \in 0 .. 3
    PROVE  Way(arr, rec, lb, n) # 0
<1>1. ASSUME NEW m \in 1 .. 3, Way(arr, rec, lb, m) # 0
      PROVE  Way(arr, rec, lb, m - 1) # 0
  BY <1>1, WayIs DEF Hop
<1>2. Way(arr, rec, lb, 2) # 0
  <2>1. 3 \in 1 .. 3 /\ 3 - 1 = 2
    OBVIOUS
  <2> QED BY <1>1, <2>1
<1>3. Way(arr, rec, lb, 1) # 0
  <2>1. 2 \in 1 .. 3 /\ 2 - 1 = 1
    OBVIOUS
  <2> QED BY <1>1, <1>2, <2>1
<1>4. Way(arr, rec, lb, 0) # 0
  <2>1. 1 \in 1 .. 3 /\ 1 - 1 = 0
    OBVIOUS
  <2> QED BY <1>1, <1>3, <2>1
<1>5. n = 0 \/ n = 1 \/ n = 2 \/ n = 3
  OBVIOUS
<1> QED BY <1>2, <1>3, <1>4, <1>5

LEMMA WayStays ==
    ASSUME NameInv, NEW h \in HomeMap, BlocksOwn(h), NEW i \in Live,
           NEW rec, NEW rec2, Untouched(h, i), NEW lb \in Nat,
           SlotKept(rec, rec2, SlotOf(lb)),
           OwnsAt(h, i, rec, lb, 0), Way(array, rec, lb, 3) # 0
    PROVE  /\ Way(array', rec2, lb, 3) = Way(array, rec, lb, 3)
           /\ Way(array, rec, lb, 3) \in Blocks
           /\ h[Way(array, rec, lb, 3)].ino = i
           /\ h[Way(array, rec, lb, 3)].level = 0
<1>1. PICK depth : depth = Len(Indices(lb)) /\ depth \in 0 .. 3
  BY IndexFacts
<1>2. \A n \in 0 .. depth : OwnsAt(h, i, rec, lb, n)
  BY <1>1, WayOwnsFrom
<1>3. \A n \in 0 .. 3 : Way(array, rec, lb, n) # 0
  BY WayNotZero
<1>4. \A n \in 0 .. depth :
        /\ Way(array, rec, lb, n) \in Blocks
        /\ h[Way(array, rec, lb, n)].ino = i
        /\ h[Way(array, rec, lb, n)].level = depth - n
  <2>1. ASSUME NEW n \in 0 .. depth
        PROVE  /\ Way(array, rec, lb, n) \in Blocks
               /\ h[Way(array, rec, lb, n)].ino = i
               /\ h[Way(array, rec, lb, n)].level = depth - n
    <3>1. n \in 0 .. 3 /\ n \in 0 .. Len(Indices(lb))
      BY <1>1
    <3>2. OwnsAt(h, i, rec, lb, n) /\ Way(array, rec, lb, n) # 0
      BY <1>2, <1>3, <3>1
    <3> QED BY <1>1, <3>1, <3>2, WayLevels
  <2> QED BY <2>1
<1>5. rec.ptr[SlotOf(lb)] = rec2.ptr[SlotOf(lb)]
  <2>1. rec.ptr[SlotOf(lb)] # 0 /\ SlotOf(lb) \in Slots
    <3>1. 0 \in 0 .. 3
      OBVIOUS
    <3>2. Way(array, rec, lb, 0) # 0
      BY <1>3, <3>1
    <3>3. Way(array, rec, lb, 0) = rec.ptr[SlotOf(lb)]
      BY WayIs
    <3> QED BY <3>2, <3>3, SlotType
  <2> QED BY <2>1 DEF SlotKept
<1>6. PICK arr, arr2 : arr = array /\ arr2 = array'
  OBVIOUS
<1>7. AgreeOnWay(arr, arr2, rec, lb, depth)
  <2>1. ASSUME NEW n \in 1 .. depth
        PROVE  arr2[Way(arr, rec, lb, n - 1)][Indices(lb)[n]]
                 = arr[Way(arr, rec, lb, n - 1)][Indices(lb)[n]]
    <3>1. PICK o : o = n - 1 /\ o \in 0 .. depth /\ depth - o > 0
      BY <1>1
    <3>2. PICK p : p = Way(arr, rec, lb, o)
      OBVIOUS
    <3>3. p \in Blocks /\ h[p].ino = i /\ h[p].level > 0
      BY <1>4, <1>6, <3>1, <3>2
    <3>4. PICK k \in 0 .. NPtr - 1 : k = Indices(lb)[n]
      BY <1>1, IndexFacts
    <3>5. array[p][k] # 0
      <4>1. n \in 1 .. 3 /\ n \in 0 .. 3 /\ n <= Len(Indices(lb))
        BY <1>1
      <4>2. Way(arr, rec, lb, n - 1) = p /\ p # 0
        BY <1>1, <1>3, <1>6, <3>1, <3>2
      <4>3. Way(arr, rec, lb, n) = arr[p][k]
        BY <3>4, <4>1, <4>2, WayNext
      <4>4. Way(arr, rec, lb, n) # 0
        BY <1>3, <1>6, <4>1
      <4> QED BY <1>6, <4>3, <4>4
    <3>6. array'[p][k] = array[p][k]
      BY <3>3, <3>4, <3>5 DEF Untouched
    <3> QED BY <1>6, <3>1, <3>2, <3>4, <3>6
  <2> QED BY <2>1 DEF AgreeOnWay
<1>8. \A n \in 0 .. depth : Way(arr2, rec2, lb, n) = Way(arr, rec, lb, n)
  <2>1. depth \in 0 .. 3
    BY <1>1
  <2> QED BY ONLY <1>5, <1>7, <2>1, WayKeeps, lb \in Nat
<1>9. PICK b : b = Way(arr, rec, lb, depth)
  OBVIOUS
<1>10. depth \in 0 .. depth
  BY <1>1
<1>11. Way(arr, rec, lb, 3) = b /\ Way(arr2, rec2, lb, 3) = b
  BY <1>1, <1>8, <1>9, <1>10, WayEnd
<1>12. b \in Blocks /\ h[b].ino = i /\ h[b].level = 0
  <2>1. depth - depth = 0
    BY <1>1
  <2> QED BY <1>4, <1>6, <1>9, <1>10, <2>1
<1> QED BY <1>6, <1>11, <1>12

LEMMA BlockStays ==
    ASSUME NameInv, NEW h \in HomeMap, BlocksOwn(h), NEW i \in Live,
           NEW rec, NEW rec2, Untouched(h, i), NEW lb \in Nat,
           SlotKept(rec, rec2, SlotOf(lb)),
           OwnsAt(h, i, rec, lb, 0), Way(array, rec, lb, 3) # 0,
           kind[Way(array, rec, lb, 3)] = "data"
    PROVE  /\ Way(array', rec2, lb, 3) # 0
           /\ kind'[Way(array', rec2, lb, 3)] = "data"
<1>1. PICK b : b = Way(array, rec, lb, 3)
  OBVIOUS
<1>2. Way(array', rec2, lb, 3) = b /\ b \in Blocks /\ h[b].ino = i /\ h[b].level = 0
  BY <1>1, WayStays
<1>3. b # 0 /\ kind[b] = "data"
  BY <1>1
<1>4. kind'[b] = "data"
  BY <1>2, <1>3 DEF Untouched
<1> QED BY <1>2, <1>3, <1>4

LEMMA FilledKeeps ==
    ASSUME NameInv, NEW h \in HomeMap, BlocksOwn(h), NEW i \in Live,
           NEW rec, NEW rec2, Untouched(h, i),
           \A s \in Slots : SlotKept(rec, rec2, s),
           NEW n \in Nat, \A lb \in 0 .. n - 1 : OwnsAt(h, i, rec, lb, 0),
           Filled(array, kind, rec, n)
    PROVE  Filled(array', kind', rec2, n)
<1>1. ASSUME NEW lb \in 0 .. n - 1
      PROVE  /\ Way(array', rec2, lb, 3) # 0
             /\ kind'[Way(array', rec2, lb, 3)] = "data"
  <2>1. lb \in Nat /\ OwnsAt(h, i, rec, lb, 0)
    OBVIOUS
  <2>2. Way(array, rec, lb, 3) # 0 /\ kind[Way(array, rec, lb, 3)] = "data"
    BY DEF Filled
  <2>3. SlotKept(rec, rec2, SlotOf(lb))
    BY <2>1, SlotType
  <2> QED BY <2>1, <2>2, <2>3, BlockStays
<1> QED BY <1>1 DEF Filled

(* The blocks below a bound, in an inode on disk and in the local one. *)
LEMMA InodeAtOwns ==
    ASSUME NameInv, NEW h \in HomeMap, Owned(h), NEW i \in Live, NEW lb \in Nat
    PROVE  OwnsAt(h, i, inode[i], lb, 0)
<1>1. PICK rec : rec = inode[i]
  OBVIOUS
<1>2. i \in Inodes /\ inode \in [Inodes -> InodeRec]
  BY LiveInodes DEF NameInv, TypeInv, TypeOK, DiskTypeOK
<1>3. rec.ptr \in [Slots -> Blocks \union {0}]
  BY <1>1, <1>2 DEF InodeRec
<1>4. SlotsOwn(h, i, rec.ptr)
  BY <1>1 DEF Owned, InodesOwn
<1>5. SlotOf(lb) \in Slots
  BY SlotType
<1> QED BY <1>1, <1>3, <1>4, <1>5, SlotOwnsAt DEF SlotsOwn

LEMMA MemAtOwns ==
    ASSUME NameInv, NEW h \in HomeMap, Owned(h), NewIsNew, op.put \in Live,
           NEW lb \in Nat, Way(array, op.mem, lb, 3) # 0
    PROVE  OwnsAt(h, op.put, op.mem, lb, 0)
<1>1. PICK rec : rec = op.mem
  OBVIOUS
<1>2. TypeInv /\ rec.ptr \in [Slots -> Blocks \union {0}]
  BY <1>1, OpTypes DEF NameInv
<1>3. PICK s \in Slots : s = SlotOf(lb)
  BY SlotType
<1>4. PICK b : b = rec.ptr[s]
  OBVIOUS
<1>5. PICK depth : depth = Len(Indices(lb)) /\ depth \in 0 .. 3 /\ DepthOf(s) = depth
  BY <1>3, IndexFacts
<1>6. b # 0 => /\ h[b] = Place(op.put, DepthOf(s), 0, s)
               /\ ~(op.pc = "zero" /\ b = op.new) => Cleared(b, DepthOf(s))
  BY <1>1, <1>4 DEF Owned, MemOwns
<1>7. ASSUME b # 0, op.pc = "zero", b = op.new PROVE FALSE
  <2>1. /\ h[op.new] = Place(op.put, Len(op.rest), op.at, op.k)
        /\ op.rest # <<>>
    BY <1>7 DEF Owned, WalkOwns
  <2>2. depth = Len(op.rest)
    BY <1>5, <1>6, <1>7, <2>1, PlaceFields
  <2>3. depth >= 1
    BY <1>2, <1>5, <2>1, <2>2, OpTypes
  <2>4. kind[b] = "old" /\ b \in Blocks
    BY <1>2, <1>4, <1>7 DEF NewIsNew
  <2>5. array[b] = Zeros
    BY <2>4 DEF Owned, NoStrayPointers
  <2>6. Way(array, rec, lb, 0) = b
    BY <1>3, <1>4, WayIs
  <2>7. 1 \in 1 .. 3 /\ 1 - 1 = 0 /\ 1 <= Len(Indices(lb)) /\ 1 \in 0 .. 3
    BY <1>5, <2>3
  <2>8. Way(array, rec, lb, 1) = array[b][Indices(lb)[1]]
    BY <1>7, <2>6, <2>7, WayNext
  <2>9. Indices(lb)[1] \in 0 .. NPtr - 1
    <3>1. 1 \in 1 .. Len(Indices(lb))
      BY <1>5, <2>3
    <3> QED BY <3>1, IndexFacts
  <2>10. Way(array, rec, lb, 1) = 0
    BY <2>5, <2>8, <2>9 DEF Zeros
  <2> QED BY <1>1, <2>7, <2>10, WayNotZero
<1>8. b # 0 => h[b] = Place(op.put, DepthOf(s), 0, s) /\ Cleared(b, DepthOf(s))
  BY <1>6, <1>7
<1>9. OwnsAt(h, op.put, rec, lb, 0)
  BY <1>2, <1>3, <1>4, <1>8, SlotOwnsAt
<1> QED BY <1>1, <1>9

(* Where a call is while it maps and writes blocks. *)
Growing == {"walk", "zero", "link", "data", "iput"}
CliCalls == {"none", "create", "write", "delete"}

LEMMA InodeFilled ==
    ASSUME NameInv, NEW h \in HomeMap, Owned(h), HoleFree, NEW i \in Live,
           Untouched(h, i)
    PROVE  Filled(array', kind', inode[i], inode[i].size)
<1>1. BlocksOwn(h) /\ inode[i].size \in Nat
  BY LiveInodes DEF Owned, NameInv, TypeInv, TypeOK, DiskTypeOK, InodeRec
<1>2. PICK n \in Nat, rec \in {inode[i]} : n = inode[i].size
  BY <1>1
<1>3. \A lb \in 0 .. n - 1 : OwnsAt(h, i, rec, lb, 0)
  BY <1>2, InodeAtOwns
<1>4. Filled(array, kind, rec, n)
  BY <1>2 DEF HoleFree
<1>5. \A s \in Slots : SlotKept(rec, rec, s)
  BY DEF SlotKept
<1>6. Filled(array', kind', rec, n)
  BY <1>1, <1>3, <1>4, <1>5, FilledKeeps
<1> QED BY <1>2, <1>6

LEMMA MemFilledTo ==
    ASSUME NameInv, NEW h \in HomeMap, Owned(h), NewIsNew, op.pc \in Growing,
           \A i \in Live : Untouched(h, i), NEW n \in Nat,
           Filled(array, kind, op.mem, n), NEW rec2,
           \A s \in Slots : SlotKept(op.mem, rec2, s)
    PROVE  Filled(array', kind', rec2, n)
<1>1. BlocksOwn(h) /\ op.put \in Live
  BY DEF Owned, WalkOwns, Growing
<1>2. PICK i \in Live : i = op.put
  BY <1>1
<1>3. PICK rec : rec = op.mem
  OBVIOUS
<1>4. ASSUME NEW lb \in 0 .. n - 1 PROVE OwnsAt(h, i, rec, lb, 0)
  <2>1. Way(array, op.mem, lb, 3) # 0 /\ lb \in Nat
    BY DEF Filled
  <2> QED BY <1>1, <1>2, <1>3, <2>1, MemAtOwns
<1>5. Filled(array, kind, rec, n) /\ Untouched(h, i)
  BY <1>3
<1>6. \A s \in Slots : SlotKept(rec, rec2, s)
  BY <1>3
<1> QED BY <1>1, <1>4, <1>5, <1>6, FilledKeeps

LEMMA MemFilled ==
    ASSUME NameInv, NEW h \in HomeMap, Owned(h), NewIsNew, HoleFree,
           op.pc \in Growing, \A i \in Live : Untouched(h, i), NEW rec2,
           \A s \in Slots : SlotKept(op.mem, rec2, s)
    PROVE  /\ Filled(array', kind', rec2, op.mem.size)
           /\ Filled(array', kind', rec2, op.lb)
<1>1. op.mem.size \in Nat /\ op.lb \in Nat
  BY OpTypes DEF NameInv, InodeRec
<1>2. Filled(array, kind, op.mem, op.mem.size) /\ Filled(array, kind, op.mem, op.lb)
  BY DEF HoleFree, Growing
<1> QED BY <1>1, <1>2, MemFilledTo

(* No step that maps a block, or writes one, changes where a mapped block is
   found: only pointers that were 0 are set. *)
Kept(h) ==
    /\ \A i \in Live : Untouched(h, i)
    /\ \A s \in Slots : SlotKept(op.mem, op'.mem, s)

LEMMA QuietKept ==
    ASSUME NEW h, UNCHANGED <<array, kind>>, op'.mem = op.mem PROVE Kept(h)
BY DEF Kept, Untouched, SlotKept

LEMMA AllocKept ==
    ASSUME NameInv, NEW h \in HomeMap, AllocBlock PROVE Kept(h)
<1>1. PICK b \in Blocks \ bbm :
        /\ Here = 0 /\ UNCHANGED <<ibm, inode, kind, array, entry>>
        /\ op.at # 0 => op'.mem.ptr = op.mem.ptr
        /\ op.at = 0 => op'.mem.ptr = [op.mem.ptr EXCEPT ![op.k] = b]
  BY AllocLocals DEF NameInv
<1>2. \A i \in Live : Untouched(h, i)
  BY <1>1 DEF Untouched
<1>3. ASSUME NEW s \in Slots, op.mem.ptr[s] # 0
      PROVE  op'.mem.ptr[s] = op.mem.ptr[s]
  <2>1. CASE op.at = 0
    <3>1. s # op.k
      BY <1>1, <1>3, <2>1 DEF Here
    <3>2. op.mem.ptr \in [Slots -> Blocks \union {0}]
      BY OpTypes DEF NameInv
    <3> QED BY <1>1, <2>1, <3>1, <3>2
  <2>2. CASE op.at # 0
    BY <1>1, <2>2
  <2> QED BY <2>1, <2>2
<1> QED BY <1>2, <1>3 DEF Kept, SlotKept

LEMMA ZeroKept ==
    ASSUME NameInv, NEW h \in HomeMap, Owned(h), NewIsNew, ZeroBlock
    PROVE  Kept(h)
<1>1. op.pc = "zero" /\ op'.mem = op.mem
  BY ZeroLocals DEF NameInv
<1>2. PICK c \in Blocks : c = op.new
  BY <1>1, OpTypes DEF NameInv, Owned, WalkOwns
<1>3. h[c].level = Len(op.rest) /\ op.rest # <<>>
  BY <1>1, <1>2, PlaceFields DEF Owned, WalkOwns
<1>4. Len(op.rest) # 0
  BY <1>3, OpTypes DEF NameInv
<1>5. array[c] = Zeros
  BY <1>1, <1>2 DEF NewIsNew, Owned, NoStrayPointers
<1>6. \A p \in Blocks : p # c => array'[p] = array[p] /\ kind'[p] = kind[p]
  BY <1>2 DEF ZeroBlock, NameInv, TypeInv, TypeOK, DiskTypeOK
<1>7. ASSUME NEW i \in Live PROVE Untouched(h, i)
  <2>1. ASSUME NEW p \in Blocks, NEW k \in 0 .. NPtr - 1, array[p][k] # 0
        PROVE  array'[p][k] = array[p][k]
    BY <1>5, <1>6, <2>1 DEF Zeros
  <2>2. ASSUME NEW p \in Blocks, h[p].level = 0 PROVE kind'[p] = kind[p]
    BY <1>3, <1>4, <1>6, <2>2
  <2> QED BY <2>1, <2>2 DEF Untouched
<1> QED BY <1>1, <1>7 DEF Kept, SlotKept

LEMMA LinkKept ==
    ASSUME NameInv, NEW h \in HomeMap, Owned(h), NewIsNew, LinkBlock
    PROVE  Kept(h)
<1>1. op.pc = "link" /\ op'.mem = op.mem /\ kind' = kind
  BY LinkLocals DEF NameInv
<1>2. op.at \in Blocks /\ array[op.at][op.k] = 0
  BY <1>1, OpTypes DEF NameInv, NewIsNew, Owned, WalkOwns
<1>3. array \in [Blocks -> PtrArray]
  BY DEF NameInv, TypeInv, TypeOK, DiskTypeOK
<1>4. ASSUME NEW p \in Blocks, NEW k \in 0 .. NPtr - 1, array[p][k] # 0
      PROVE  array'[p][k] = array[p][k]
  <2>1. array' = [array EXCEPT ![op.at][op.k] = op.new]
    BY DEF LinkBlock
  <2>2. array[p] \in PtrArray
    BY <1>3
  <2>3. CASE p = op.at
    <3>1. k # op.k /\ array'[p] = [array[p] EXCEPT ![op.k] = op.new]
      BY <1>2, <1>3, <1>4, <2>1, <2>3
    <3> QED BY <2>2, <3>1 DEF PtrArray
  <2>4. CASE p # op.at
    BY <1>3, <2>1, <2>4
  <2> QED BY <2>3, <2>4
<1>5. \A i \in Live : Untouched(h, i)
  BY <1>1, <1>4 DEF Untouched
<1> QED BY <1>1, <1>5 DEF Kept, SlotKept

LEMMA WriteDataUntouched ==
    ASSUME NameInv, NEW h \in HomeMap, Owned(h), WriteData
    PROVE  \A i \in Live : Untouched(h, i)
<1>1. op.new \in Blocks /\ h[op.new].level = 0
  BY WriteDataLocals, OpTypes DEF NameInv, Owned, WalkOwns, Growing
<1>2. PICK c \in Blocks : c = op.new
  BY <1>1
<1>3. /\ \A p \in Blocks : p # c => array'[p] = array[p]
      /\ \A p \in Blocks : p # c => kind'[p] = kind[p]
      /\ kind'[c] = "data"
  BY <1>2 DEF WriteData, NameInv, TypeInv, TypeOK, DiskTypeOK
<1> QED BY <1>1, <1>2, <1>3 DEF Untouched

(* A step that maps a block or writes it. *)
LEMMA GrowHoles ==
    ASSUME NameInv, NEW h \in HomeMap, Owned(h), NewIsNew, HoleFree,
           op.pc \in Growing, op'.pc \in Growing, Kept(h),
           UNCHANGED <<inode, entry, mode>>, op'.call = op.call, op'.ino = op.ino,
           op'.lb = op.lb, op'.mem.size = op.mem.size
    PROVE  HoleFree'
<1>1. Live' = Live
  BY LiveStays DEF Growing
<1>2. PICK rec2 : rec2 = op'.mem
  OBVIOUS
<1>3. /\ Filled(array', kind', rec2, op.mem.size)
      /\ Filled(array', kind', rec2, op.lb)
  BY <1>2, MemFilled DEF Kept
<1>4. \A i \in Live : Filled(array', kind', inode[i], inode[i].size)
  BY InodeFilled DEF Kept
<1> QED BY <1>1, <1>2, <1>3, <1>4 DEF HoleFree

(* A step that writes no block. *)
LEMMA QuietHoles ==
    ASSUME HoleFree, UNCHANGED <<array, kind, inode>>, Live' \subseteq Live,
           mode' # "fuse", op'.call \in CliCalls, op'.pc \notin Growing
    PROVE  HoleFree'
BY DEF HoleFree, CliCalls, Growing

LEMMA FollowHoles ==
    ASSUME NameInv, NEW h \in HomeMap, Owned(h), NewIsNew, HoleFree,
           FollowPointer, mode' = mode
    PROVE  HoleFree'
<1>1. /\ SameLocals /\ op'.mem = op.mem /\ UNCHANGED diskVars
      /\ op.pc \in Growing /\ op'.pc \in Growing
  BY FollowLocals DEF NameInv, Growing
<1> QED BY <1>1, QuietKept, GrowHoles DEF SameLocals, diskVars

LEMMA AllocHoles ==
    ASSUME NameInv, NEW h \in HomeMap, Owned(h), NewIsNew, HoleFree,
           AllocBlock, mode' = mode
    PROVE  HoleFree'
<1>1. /\ SameLocals /\ op.pc = "walk"
      /\ UNCHANGED <<ibm, inode, kind, array, entry>>
      /\ op'.pc = (IF op.rest # <<>> THEN "zero"
                   ELSE IF op.at = 0 THEN "data" ELSE "link")
      /\ op'.mem.size = op.mem.size
  BY AllocLocals DEF NameInv
<1>2. op.pc \in Growing /\ op'.pc \in Growing
  BY <1>1 DEF Growing
<1> QED BY <1>1, <1>2, AllocKept, GrowHoles DEF SameLocals

LEMMA ZeroHoles ==
    ASSUME NameInv, NEW h \in HomeMap, Owned(h), NewIsNew, HoleFree,
           ZeroBlock, mode' = mode
    PROVE  HoleFree'
<1>1. /\ SameLocals /\ op'.mem = op.mem
      /\ op.pc \in Growing /\ op'.pc \in Growing
      /\ UNCHANGED <<bbm, ibm, inode, entry>>
  BY ZeroLocals DEF NameInv, Growing
<1> QED BY <1>1, ZeroKept, GrowHoles DEF SameLocals

LEMMA LinkHoles ==
    ASSUME NameInv, NEW h \in HomeMap, Owned(h), NewIsNew, HoleFree,
           LinkBlock, mode' = mode
    PROVE  HoleFree'
<1>1. /\ SameLocals /\ op'.mem = op.mem
      /\ op.pc \in Growing /\ op'.pc \in Growing
      /\ UNCHANGED <<bbm, ibm, inode, kind, entry>>
  BY LinkLocals DEF NameInv, Growing
<1> QED BY <1>1, LinkKept, GrowHoles DEF SameLocals

LEMMA WriteDataHoles ==
    ASSUME NameInv, NEW h \in HomeMap, Owned(h), NewIsNew, OnWay, HoleFree,
           WriteData
    PROVE  HoleFree'
<1>1. /\ op.pc = "data" /\ op.new \in Blocks /\ h[op.new].level = 0 /\ op.new # 0
      /\ op.lb \in Nat /\ op.pc \in Growing /\ inode' = inode /\ mode' = mode
  BY WriteDataLocals, OpTypes DEF NameInv, Owned, WalkOwns, Growing, WriteData
<1>2. PICK c \in Blocks : c = op.new
  BY <1>1
<1>3. /\ \A p \in Blocks : p # c => array'[p] = array[p]
      /\ \A p \in Blocks : p # c => kind'[p] = kind[p]
      /\ kind'[c] = "data"
  BY <1>2 DEF WriteData, NameInv, TypeInv, TypeOK, DiskTypeOK
<1>4. \A i \in Live : Untouched(h, i)
  BY WriteDataUntouched
<1>5. \A i \in Live : Filled(array', kind', inode[i], inode[i].size)
  BY <1>4, InodeFilled
<1>6. entry' = entry
  BY WriteDataEntries
<1>7. CASE op' = Idle
  <2>1. Live' \subseteq Live
    BY <1>6, <1>7, IdleNames, LiveShrinks
  <2> QED BY <1>1, <1>5, <1>7, <2>1, IdleNames DEF HoleFree
<1>8. CASE op' # Idle
  <2>1. /\ op'.call = op.call /\ op'.ino = op.ino /\ op'.mem = op.mem
        /\ op'.lb = op.lb + 1 /\ op'.pc \in {"walk", "iput"}
    BY <1>8, WriteDataLocals DEF NameInv
  <2>2. Live' = Live
    BY <1>1, <1>6, <2>1, LiveStays
  <2>3. PICK lb \in Nat, rec \in {op.mem} : lb = op.lb
    BY <1>1
  <2>4. Filled(array', kind', rec, op.mem.size) /\ Filled(array', kind', rec, lb)
    <3>1. \A s \in Slots : SlotKept(op.mem, rec, s)
      BY <2>3 DEF SlotKept
    <3> QED BY <1>1, <1>4, <2>3, <3>1, MemFilled
  <2>5. Way(array', rec, lb, 3) = c
    BY <1>2, <2>3, DataOnWay
  <2>6. Filled(array', kind', rec, lb + 1)
    <3>1. ASSUME NEW m \in 0 .. (lb + 1) - 1
          PROVE  /\ Way(array', rec, m, 3) # 0
                 /\ kind'[Way(array', rec, m, 3)] = "data"
      <4>1. CASE m = lb
        BY <1>1, <1>2, <1>3, <2>5, <4>1
      <4>2. CASE m # lb
        <5>1. m \in 0 .. lb - 1
          BY <4>2
        <5> QED BY <2>4, <5>1 DEF Filled
      <4> QED BY <4>1, <4>2
    <3> QED BY <3>1 DEF Filled
  <2> QED BY <1>1, <1>5, <2>1, <2>2, <2>3, <2>4, <2>6 DEF HoleFree
<1> QED BY <1>7, <1>8

LEMMA RunOutHoles ==
    ASSUME NameInv, HoleFree, RunOut PROVE HoleFree'
<1>1. op.pc = "walk" /\ UNCHANGED <<diskVars, mode, fd, kills>>
  BY RunOutLocals DEF NameInv
<1>2. CASE op' = Idle
  <2>1. Live' \subseteq Live
    BY <1>1, <1>2, IdleNames, LiveShrinks DEF diskVars
  <2> QED BY <1>1, <1>2, <2>1, IdleNames, QuietHoles
          DEF diskVars, CliCalls, Growing, HoleFree
<1>3. CASE op.call = "write" /\ op'.pc = "iput" /\ op'.call = op.call
           /\ op'.ino = op.ino /\ op'.mem = op.mem /\ op'.lb = op.lb
  <2>1. Live' = Live
    BY <1>1, <1>3, LiveStays DEF diskVars
  <2> QED BY <1>1, <1>3, <2>1 DEF HoleFree, diskVars
<1>4. CASE op.call \in {"create", "mkdir"} /\ op'.pc \in {"free", "ifree"}
           /\ op'.call = op.call
  <2>1. Live' \subseteq Live
    BY <1>1, <1>4, LiveShrinks DEF diskVars
  <2> QED BY <1>1, <1>4, <2>1, QuietHoles DEF diskVars, CliCalls, Growing, HoleFree
<1> QED BY <1>2, <1>3, <1>4, RunOutLocals DEF NameInv

LEMMA PutInodeHoles ==
    ASSUME NameInv, NEW h \in HomeMap, Owned(h), PutIsKnown, HoleFree, PutInode
    PROVE  HoleFree'
<1>1. /\ op.pc = "iput" /\ op.put \in Inodes /\ op.put \in Live
      /\ inode' = [inode EXCEPT ![op.put] = Stored]
      /\ UNCHANGED <<kind, array, mode>>
  BY PutInodeLocals
<1>2. op' = Idle
  BY PutInodeLocals DEF HoleFree
<1>3. Live' \subseteq Live
  <2>1. Live' = Linked'
    BY <1>2, LiveIdle
  <2>2. CASE op.put = op.par
    <3>1. op.call \in {"create", "mkdir"}
      BY <1>1, <2>2, RootIsInode DEF NameInv, OpNames, HoleFree
    <3>2. entry' = [entry EXCEPT ![op.par][op.name] = op.ino]
      BY <2>2 DEF PutInode
    <3> QED BY <1>1, <2>1, <3>1, <3>2, NamingOwns
  <2>3. CASE op.put # op.par
    <3>1. Linked' = Linked
      BY <2>3 DEF PutInode, Linked
    <3> QED BY <2>1, <3>1, LinkedLive
  <2> QED BY <2>2, <2>3
<1>4. ASSUME NEW i \in Live' PROVE Filled(array', kind', inode'[i], inode'[i].size)
  <2>1. i \in Live /\ i \in Inodes /\ inode \in [Inodes -> InodeRec]
    BY <1>3, LiveInodes DEF NameInv, TypeInv, TypeOK, DiskTypeOK
  <2>2. CASE i = op.put
    <3>1. inode'[i] = Stored
      BY <1>1, <2>1, <2>2
    <3>2. /\ Filled(array, kind, op.mem, op.mem.size)
          /\ Filled(array, kind, op.mem, op.lb)
      BY <1>1 DEF HoleFree
    <3>3. Stored.ptr = op.mem.ptr /\ Stored.size \in {op.lb, op.mem.size}
      BY StoredIs DEF NameInv
    <3>4. Filled(array, kind, Stored, op.lb) /\ Filled(array, kind, Stored, op.mem.size)
      BY <3>2, <3>3, WayOfSame DEF Filled
    <3> QED BY <1>1, <3>1, <3>3, <3>4
  <2>3. CASE i # op.put
    BY <1>1, <2>1, <2>3 DEF HoleFree
  <2> QED BY <2>2, <2>3
<1> QED BY <1>1, <1>2, <1>4, IdleNames DEF HoleFree

LEMMA InitInodeHoles ==
    ASSUME NameInv, PutIsKnown, HoleFree, InitInode PROVE HoleFree'
<1>1. /\ op.call = "create" /\ op.ino \in Inodes /\ op.par \in Linked
      /\ op.par # op.ino /\ NamesNow
      /\ inode' = [inode EXCEPT ![op.ino] = FreshInode(op.call = "mkdir")]
      /\ UNCHANGED <<kind, array, entry, mode>>
  BY InitInodeLocals DEF HoleFree
<1>2. inode'[op.ino].size = 0
  BY <1>1, FreshType DEF NameInv, TypeInv, TypeOK, DiskTypeOK
<1>3. \A i \in Inodes : i # op.ino => inode'[i] = inode[i]
  BY <1>1 DEF NameInv, TypeInv, TypeOK, DiskTypeOK
<1>4. Linked' = Linked /\ Live' \subseteq Linked \union {op.ino}
  BY <1>1 DEF Linked, Live, Making, NamesNow
<1>5. Linked \subseteq Inodes
  BY LinkedInodes DEF NameInv, TypeInv
<1>6. ASSUME NEW i \in Live' PROVE Filled(array', kind', inode'[i], inode'[i].size)
  <2>1. CASE i = op.ino
    BY <1>2, <2>1 DEF Filled
  <2>2. CASE i # op.ino
    <3>1. i \in Linked /\ i \in Live /\ inode'[i] = inode[i]
      BY <1>3, <1>4, <1>5, <2>2, LinkedLive
    <3> QED BY <1>1, <3>1 DEF HoleFree
  <2> QED BY <2>1, <2>2
<1>7. Filled(array, kind, inode[op.par], inode[op.par].size)
  BY <1>1, LinkedLive DEF HoleFree
<1> QED BY <1>1, <1>6, <1>7 DEF HoleFree, NamesNow

LEMMA FreeHoles ==
    ASSUME NameInv, NEW h \in HomeMap, Owned(h), HoleFree, Free, mode' = mode
    PROVE  HoleFree'
<1>1. op.pc \in {"free", "ifree"} /\ entry' = entry /\ op \in OpRec
  BY FreeFacts, OpTypes DEF NameInv, Free, ExpandPointerBlock, FreeBlock,
     ClearInode, FreeInode, diskVars
<1>2. op.ino \notin Live /\ Live = Linked
  BY <1>1, FreeFacts
<1>3. op'.pc \notin Growing /\ op'.call \in CliCalls
  BY <1>1, IdleNames DEF Free, ExpandPointerBlock, FreeBlock, ClearInode,
     FreeInode, Growing, CliCalls, HoleFree, OpRec
<1>4. Live' \subseteq Live
  <2>1. op'.pc \in {"free", "ifree", "idle"}
    BY <1>1, IdleNames
    DEF Free, ExpandPointerBlock, FreeBlock, ClearInode, FreeInode, OpRec
  <2>2. Making' = {}
    <3>1. CASE op' = Idle
      BY <3>1, IdleNames DEF Making
    <3>2. CASE op' # Idle
      BY <1>1, <2>1, <3>2
      DEF Free, ExpandPointerBlock, FreeBlock, ClearInode, FreeInode, Making, OpRec
    <3> QED BY <3>1, <3>2
  <2> QED BY <1>1, <2>2 DEF Live, Linked
<1>5. CASE ExpandPointerBlock \/ FreeInode
  <2>1. UNCHANGED <<array, kind, inode>>
    BY <1>5 DEF ExpandPointerBlock, FreeInode, diskVars
  <2> QED BY <1>3, <1>4, <2>1, QuietHoles DEF HoleFree
<1>6. CASE ClearInode
  <2>1. UNCHANGED <<array, kind>>
    BY <1>6 DEF ClearInode
  <2>2. \A i \in Live : inode'[i] = inode[i]
    BY <1>2, <1>6, LiveInodes DEF ClearInode, NameInv, TypeInv, TypeOK, DiskTypeOK
  <2> QED BY <1>3, <1>4, <2>1, <2>2 DEF HoleFree, CliCalls, Growing
<1>7. CASE FreeBlock
  <2>1. PICK j \in 1 .. Len(op.todo) :
          /\ op.todo[j][1] # 0
          /\ kind' = [kind EXCEPT ![op.todo[j][1]] = "old"]
          /\ array' = [array EXCEPT ![op.todo[j][1]] = Zeros]
          /\ inode' = inode /\ op.pc = "free"
    BY <1>7 DEF FreeBlock, FirstOf
  <2>2. PICK b : b = op.todo[j][1]
    OBVIOUS
  <2>3. h[b].ino = op.ino
    BY <2>1, <2>2 DEF Owned, TodoOwns
  <2>4. \A p \in Blocks : p # b => array'[p] = array[p] /\ kind'[p] = kind[p]
    BY <2>1, <2>2 DEF NameInv, TypeInv, TypeOK, DiskTypeOK
  <2>5. \A i \in Live : Untouched(h, i)
    BY <1>2, <2>3, <2>4 DEF Untouched
  <2>6. \A i \in Live : Filled(array', kind', inode[i], inode[i].size)
    BY <2>5, InodeFilled
  <2> QED BY <1>3, <1>4, <2>1, <2>6 DEF HoleFree, CliCalls, Growing
<1> QED BY <1>5, <1>6, <1>7 DEF Free

LEMMA HoleInit == Init => HoleFree
<1> SUFFICES ASSUME Init PROVE HoleFree
  OBVIOUS
<1>1. op = Idle /\ mode = "none" /\ op.pc = "idle" /\ op.call = "none"
  BY IdleNames DEF Init
<1>2. Live = {Root}
  <2>1. TypeOK
    BY TypeInit DEF TypeInv
  <2>2. \A d \in Inodes, n \in Names : entry[d][n] = 0
    BY DEF Init, NoEntries
  <2>3. Linked = {Root}
    BY <2>1, <2>2, LinkedIs
  <2> QED BY <1>1, <2>3 DEF Live, Making
<1>3. PICK rec \in InodeRec : rec = inode[Root]
  BY TypeInit, RootIsInode DEF TypeInv, TypeOK, DiskTypeOK
<1>4. rec.ptr[0] = 1 /\ rec.size = 1 /\ kind[1] = "data"
  <2>1. FreshInode(TRUE) \in InodeRec /\ 0 \in Slots /\ 1 \in Blocks
    <3>1. /\ NDirect \in Nat \ {0} /\ NLevel \in 1 .. 3
          /\ NumBlocks \in Nat \ {0}
      BY DiskAssumption
    <3>2. 0 \in Slots /\ 1 \in Blocks
      BY <3>1 DEF Slots, Blocks
    <3> QED BY <3>2, FreshType
  <2>2. rec = [FreshInode(TRUE) EXCEPT !.ptr[0] = 1, !.size = 1]
    BY <1>3, RootIsInode DEF Init
  <2>3. kind[1] = "data"
    BY <2>1 DEF Init
  <2> QED BY <2>1, <2>2, <2>3 DEF InodeRec
<1>5. Filled(array, kind, rec, 1)
  <2>1. ASSUME NEW lb \in 0 .. 1 - 1 PROVE Way(array, rec, lb, 3) = 1
    <3>1. lb = 0 /\ lb \in Nat /\ lb < NDirect
      BY DiskAssumption
    <3>2. Indices(lb) = <<>> /\ SlotOf(lb) = 0
      <4>1. Indices(lb) = <<>>
        BY <3>1, DirectHasNoIndices
      <4>2. LevelOf(lb) = 0
        BY <3>1, <4>1, IndicesLength
      <4> QED BY <3>1, <4>1, <4>2 DEF SlotOf
    <3>3. Len(Indices(lb)) = 0
      BY <3>2
    <3>4. Way(array, rec, lb, 3) = rec.ptr[0]
      BY <3>1, <3>2, <3>3, WayEnd, WayIs
    <3> QED BY <1>4, <3>4
  <2> QED BY <1>4, <2>1 DEF Filled
<1>6. \A i \in Live : Filled(array, kind, inode[i], inode[i].size)
  BY <1>2, <1>3, <1>4, <1>5
<1> QED BY <1>1, <1>6 DEF HoleFree

LEMMA BeginWriteHoles ==
    ASSUME NameInv, HoleFree, mode # "fuse", op.pc = "idle",
           NEW k \in Fds, NEW n \in 1 .. MaxWrite, Write(k, n)
    PROVE  HoleFree'
<1>1. TypeInv /\ n \in Nat
  BY ReachLast DEF NameInv
<1>2. /\ fd[k].ino \in Linked /\ fd[k].ino \in Inodes /\ fd[k].off \in Nat
      /\ fd[k].off <= inode[fd[k].ino].size
      /\ BeginWrite("write", fd[k].ino, k, fd[k].off, n)
  BY <1>1 DEF Write, NameInv, FdNames, TypeInv, TypeOK
<1>3. PICK i \in Linked, lb \in Nat :
        /\ i = fd[k].ino /\ lb = fd[k].off /\ i \in Inodes
        /\ lb <= inode[i].size /\ BeginWrite("write", i, k, lb, n)
  BY <1>2
<1>4. /\ op'.call = "write" /\ op'.pc = "walk" /\ op'.mem = inode[i] /\ op'.lb = lb
      /\ UNCHANGED <<diskVars, mode>>
  BY <1>1, <1>3, BeginWriteLocals
<1>5. Live' \subseteq Live
  BY <1>4, LiveShrinks DEF diskVars
<1>6. PICK size \in Nat : size = inode[i].size
  BY <1>1, <1>3 DEF TypeInv, TypeOK, DiskTypeOK, InodeRec
<1>7. Filled(array, kind, inode[i], size)
  BY <1>6, LinkedLive DEF HoleFree
<1>8. Filled(array, kind, inode[i], lb)
  <2>1. 0 .. lb - 1 \subseteq 0 .. size - 1
    BY <1>3, <1>6
  <2> QED BY <1>7, <2>1 DEF Filled
<1> QED BY <1>4, <1>5, <1>6, <1>7, <1>8 DEF HoleFree, diskVars

LEMMA HoleStep ==
    ASSUME Modes \subseteq {"cli"}, LeakInv, OnWay, HoleFree, [Next]_vars
    PROVE  HoleFree'
<1>1. NameInv /\ TypeInv /\ op \in OpRec
  BY OpTypes DEF LeakInv, NameInv
<1>2. PICK h \in HomeMap : Owned(h) /\ PutIsKnown /\ NewIsNew
  BY DEF LeakInv, Exact
<1>3. ASSUME UNCHANGED <<diskVars, op>>, mode' # "fuse" PROVE HoleFree'
  BY <1>3 DEF HoleFree, diskVars, Live, Linked, Making
<1>4. ASSUME UNCHANGED <<diskVars, mode>>, op'.pc \notin Growing,
             op'.call \in CliCalls,
             op'.pc \in {"iinit", "free", "ifree"} \/ op'.call \notin {"create", "mkdir"}
      PROVE  HoleFree'
  <2>1. Live' \subseteq Live
    BY <1>4, LiveShrinks DEF diskVars
  <2> QED BY <1>4, <2>1, QuietHoles DEF diskVars, HoleFree
<1>5. CASE (\E m \in Modes : Start(m)) \/ UNCHANGED vars
  BY <1>3, <1>5 DEF Start, vars, HoleFree
<1>6. CASE Exit \/ Kill
  <2>1. op' = Idle /\ mode' = "none" /\ UNCHANGED diskVars
    BY <1>6 DEF Exit, Kill, Gone
  <2>2. Live' \subseteq Live
    BY <2>1, IdleNames, LiveShrinks DEF diskVars
  <2> QED BY <2>1, <2>2, IdleNames, QuietHoles DEF diskVars, CliCalls, Growing
<1>7. CASE Call
  <2>1. ASSUME NEW d \in Inodes, NEW n \in Names, Create(d, n)
        PROVE  HoleFree'
    <3>1. op'.pc = "iinit" /\ op'.call = "create"
          /\ UNCHANGED <<inode, kind, array, entry, mode>>
      BY <2>1 DEF Create, NewInode, Idle
    <3>2. Live' \subseteq Live
      BY <3>1, LiveShrinks
    <3> QED BY <3>1, <3>2, QuietHoles DEF HoleFree, CliCalls, Growing
  <2>2. ASSUME NEW d \in Inodes, NEW n \in Names, Delete(d, n)
        PROVE  HoleFree'
    <3>1. op'.pc = "free" /\ op'.call = "delete"
          /\ UNCHANGED <<inode, kind, array, mode>>
      BY <2>2 DEF Delete, Remove, Idle
    <3>2. Linked' \subseteq Linked
      <4>1. entry[d][n] # 0 /\ entry' = [entry EXCEPT ![d][n] = 0]
        BY <2>2 DEF Delete, Remove
      <4>2. TypeInv'
        BY <1>1, TypeStep
      <4> QED BY <1>1, <4>1, <4>2, LinkedAfterRemove
    <3>3. Live' \subseteq Live
      BY <3>1, <3>2 DEF Live, Making
    <3> QED BY <3>1, <3>3, QuietHoles DEF HoleFree, CliCalls, Growing
  <2>3. ASSUME NEW d \in Inodes, NEW n \in Names, Open(d, n) PROVE HoleFree'
    BY <1>3, <2>3 DEF Open, HoleFree
  <2>4. ASSUME NEW k \in Fds, Close(k) PROVE HoleFree'
    BY <1>3, <2>4 DEF Close, HoleFree
  <2>5. ASSUME NEW k \in Fds, NEW n \in 1 .. MaxWrite, Read(k, n) PROVE HoleFree'
    BY <1>3, <2>5 DEF Read, HoleFree
  <2>6. ASSUME NEW k \in Fds, NEW n \in 1 .. MaxWrite, Write(k, n) PROVE HoleFree'
    BY <1>1, <2>6, BeginWriteHoles DEF HoleFree, Write, Ready
  <2>7. ASSUME NEW d \in Inodes, NEW n \in Names PROVE ~Mkdir(d, n) /\ ~Rmdir(d, n)
    BY DEF Mkdir, Rmdir, Ready, HoleFree
  <2>8. ASSUME NEW i, NEW lb, NEW n PROVE ~FuseWrite(i, lb, n)
    BY DEF FuseWrite, Ready, HoleFree
  <2> QED BY <1>7, <2>1, <2>2, <2>3, <2>4, <2>5, <2>6, <2>7, <2>8 DEF Call
<1>8. CASE (Map \/ Free) /\ mode' = mode
  <2>1. CASE Map
    BY <1>1, <1>2, <1>8, <2>1, FollowHoles, AllocHoles, ZeroHoles, LinkHoles DEF Map
  <2>2. CASE Free
    BY <1>1, <1>2, <1>8, <2>2, FreeHoles
  <2> QED BY <1>8, <2>1, <2>2
<1>9. CASE InitInode
  BY <1>1, <1>2, <1>9, InitInodeHoles
<1>10. CASE WriteEntry
  <2>1. /\ op' = Idle /\ UNCHANGED <<inode, kind, array, mode>> /\ op.pc = "dirent"
        /\ entry' = [entry EXCEPT ![op.par][op.name] = op.ino]
    BY <1>10 DEF WriteEntry
  <2>2. op.call \in {"create", "mkdir"}
    BY <1>1, <2>1 DEF NameInv, OpNames, HoleFree
  <2>3. Live' \subseteq Live
    BY <1>1, <2>1, <2>2, NamingOwns, LiveIdle
  <2> QED BY <2>1, <2>3, IdleNames, QuietHoles DEF HoleFree, CliCalls, Growing
<1>11. CASE WriteData
  BY <1>1, <1>2, <1>11, WriteDataHoles
<1>12. CASE RunOut
  BY <1>1, <1>12, RunOutHoles
<1>13. CASE PutInode
  BY <1>1, <1>2, <1>13, PutInodeHoles
<1> QED BY <1>5, <1>6, <1>7, <1>8, <1>9, <1>10, <1>11, <1>12, <1>13
        DEF Next, Continue

LEMMA NoHolesFrom == ASSUME HoleFree PROVE NoHoles
<1>1. ASSUME NEW i \in Linked, NEW lb \in 0 .. inode[i].size - 1
      PROVE  LET b == Lookup(inode[i], lb) IN b # 0 /\ kind[b] = "data"
  <2>1. Filled(array, kind, inode[i], inode[i].size)
    BY LinkedLive DEF HoleFree
  <2>2. Lookup(inode[i], lb) = Way(array, inode[i], lb, 3)
    BY LookupIsWay
  <2> QED BY <2>1, <2>2 DEF Filled
<1> QED BY <1>1 DEF NoHoles

(* When only the interactive program uses the image, every block below the size
   of a file is there and was written, also after a process died inside a write:
   the size and the pointers of the inode reach the disk after what they lead
   to (file.c:185-260, inode.c:38-69).  FUSE writes beyond the end do leave
   holes (fuse.c:109-125), so they are left out by the assumption. *)
THEOREM NoHolesAlways ==
    ASSUME Modes \subseteq {"cli"} PROVE Spec => []NoHoles
<1>1. Init => LeakInv /\ OnWay /\ HoleFree
  BY LeakInit, OnWayInit, HoleInit
<1>2. LeakInv /\ OnWay /\ HoleFree /\ [Next]_vars
        => (LeakInv /\ OnWay /\ HoleFree)'
  BY LeakStep, OnWayStep, HoleStep
<1>3. LeakInv /\ OnWay /\ HoleFree => NoHoles
  BY NoHolesFrom
<1> QED BY <1>1, <1>2, <1>3, PTL DEF Spec

-----------------------------------------------------------------------------
(* What a write has mapped stays mapped. *)

LEMMA MemLater ==
    ASSUME NEW lb PROVE Lookup(op.mem, lb)' = Way(array', op'.mem, lb, 3)
<1>1. Len(<<>>) = 0
  OBVIOUS
<1>2. CASE op'.mem.ptr[SlotOf(lb)] = 0
  BY <1>2 DEF Lookup, Way, Hop
<1>3. CASE Indices(lb) = <<>>
  BY <1>1, <1>3 DEF Lookup, Way, Hop
<1>4. CASE op'.mem.ptr[SlotOf(lb)] # 0 /\ Indices(lb) # <<>>
  <2> DEFINE first == op'.mem.ptr[SlotOf(lb)]
             way1 == Hop(array', first, Indices(lb), 1)
             way2 == Hop(array', way1, Indices(lb), 2)
  <2>1. Lookup(op.mem, lb)' = Hop(array', way2, Indices(lb), 3)
    BY <1>4 DEF Lookup, Hop
  <2>2. Way(array', op'.mem, lb, 3) = Hop(array', way2, Indices(lb), 3)
    BY DEF Way
  <2> QED BY <2>1, <2>2
<1> QED BY <1>2, <1>3, <1>4

LEMMA MappedStays ==
    ASSUME NameInv, NEW h \in HomeMap, Owned(h), NewIsNew, op.put \in Live,
           \A i \in Live : Untouched(h, i), NEW lb \in Nat, NEW rec2,
           SlotKept(op.mem, rec2, SlotOf(lb)),
           NEW b, b # 0, Way(array, op.mem, lb, 3) = b
    PROVE  Way(array', rec2, lb, 3) = b
<1>1. PICK rec : rec = op.mem
  OBVIOUS
<1>2. PICK i \in Live : i = op.put
  OBVIOUS
<1>3. OwnsAt(h, i, rec, lb, 0)
  BY <1>1, <1>2, MemAtOwns
<1>4. BlocksOwn(h) /\ Untouched(h, i)
  BY DEF Owned
<1>5. SlotKept(rec, rec2, SlotOf(lb)) /\ Way(array, rec, lb, 3) = b
  BY <1>1
<1>6. Way(array', rec2, lb, 3) = Way(array, rec, lb, 3)
  BY <1>3, <1>4, <1>5, WayStays
<1> QED BY <1>5, <1>6

(* The steps inside a write. *)
LEMMA MapKept ==
    ASSUME NameInv, NEW h \in HomeMap, Owned(h), NewIsNew, Map
    PROVE  Kept(h)
<1>1. CASE FollowPointer
  BY <1>1, FollowLocals, QuietKept DEF NameInv, diskVars
<1>2. CASE AllocBlock
  BY <1>2, AllocKept
<1>3. CASE ZeroBlock
  BY <1>3, ZeroKept
<1>4. CASE LinkBlock
  BY <1>4, LinkKept
<1> QED BY <1>1, <1>2, <1>3, <1>4 DEF Map

(* What runs while a write is in progress. *)
LEMMA WriteSteps ==
    ASSUME NameInv, [Next]_vars, op.call \in {"write", "fwrite"}, mode' # "none"
    PROVE  UNCHANGED <<array, kind, op>> \/ Map \/ WriteData \/ RunOut \/ PutInode
<1>1. op.pc \in {"walk", "zero", "link", "data", "iput"}
  BY DEF NameInv, OpNames
<1>2. ~Exit /\ ~Kill /\ ~Call
  BY <1>1 DEF Exit, Kill, Gone, Call, Create, Mkdir, Delete, Rmdir, Open, Close,
              Read, Write, FuseWrite, Ready
<1>3. ~Free /\ ~InitInode /\ ~WriteEntry
  BY <1>1 DEF Free, ExpandPointerBlock, FreeBlock, ClearInode, FreeInode,
              InitInode, WriteEntry
<1> QED BY <1>2, <1>3 DEF Next, Continue, Start, vars, diskVars

LEMMA WriteLandsStep ==
    ASSUME LeakInv, OnWay, [Next]_vars, op.call \in {"write", "fwrite"},
           mode' # "none", NEW i, i = op.ino, NEW lb \in 0 .. MaxSize - 1,
           NEW b, b = Lookup(op.mem, lb)
    PROVE  /\ op.pc = "data" /\ op.lb = lb => op.new = b
           /\ b # 0 =>
                IF op'.pc # "idle" THEN Lookup(op.mem, lb)' = b
                ELSE \/ Lookup(inode[i], lb)' = b
                     \/ /\ op.pc # "iput"
                        /\ op.mem.ptr[SlotOf(lb)] # inode[i].ptr[SlotOf(lb)]
<1>1. NameInv /\ TypeInv
  BY DEF LeakInv, NameInv
<1>2. PICK h \in HomeMap : Owned(h) /\ PutIsKnown /\ NewIsNew
  BY DEF LeakInv, Exact
<1>3. op.pc = "data" /\ op.lb = lb => op.new = b
  BY DEF OnWay
<1>4. lb \in Nat /\ Way(array, op.mem, lb, 3) = b
  <2>1. lb \in Nat
    BY ReachLast
  <2> QED BY <2>1, LookupIsWay
<1>5. op.put = i /\ op.put \in Live /\ i \in Inodes
  BY <1>1, <1>2, LinkedInodes, LinkedLive DEF NameInv, OpNames, TypeInv
<1>6. PICK s \in Slots : s = SlotOf(lb)
  BY <1>4, SlotType
<1>7. ASSUME \A j \in Live : Untouched(h, j), NEW rec2,
             op.mem.ptr[s] # 0 => rec2.ptr[s] = op.mem.ptr[s], b # 0
      PROVE  Way(array', rec2, lb, 3) = b
  <2>1. SlotKept(op.mem, rec2, SlotOf(lb))
    BY <1>6, <1>7 DEF SlotKept
  <2> QED BY <1>1, <1>2, <1>4, <1>5, <1>7, <2>1, MappedStays
(* The call goes on: the local inode still leads there. *)
<1>8. ASSUME \A j \in Live : Untouched(h, j),
             op.mem.ptr[s] # 0 => op'.mem.ptr[s] = op.mem.ptr[s], b # 0
      PROVE  Lookup(op.mem, lb)' = b
  <2>1. PICK rec2 : rec2 = op'.mem
    OBVIOUS
  <2>2. Way(array', rec2, lb, 3) = b
    BY <1>7, <1>8, <2>1
  <2> QED BY <2>1, <2>2, MemLater
(* The call returns: the inode on disk does. *)
<1>9. ASSUME \A j \in Live : Untouched(h, j),
             op.mem.ptr[s] # 0 => inode'[i].ptr[s] = op.mem.ptr[s], b # 0
      PROVE  Lookup(inode[i], lb)' = b
  <2>1. PICK rec2 : rec2 = inode'[i]
    OBVIOUS
  <2>2. Way(array', rec2, lb, 3) = b
    BY <1>7, <1>9, <2>1
  <2> QED BY <2>1, <2>2, StoredOnWay
<1>10. ASSUME b # 0
       PROVE  IF op'.pc # "idle" THEN Lookup(op.mem, lb)' = b
              ELSE \/ Lookup(inode[i], lb)' = b
                   \/ /\ op.pc # "iput"
                      /\ op.mem.ptr[SlotOf(lb)] # inode[i].ptr[SlotOf(lb)]
  <2>1. op.pc \in {"walk", "zero", "link", "data", "iput"}
    BY <1>1 DEF NameInv, OpNames
  <2>2. CASE UNCHANGED <<array, kind, op>>
    <3>1. Kept(h)
      BY <2>2, QuietKept
    <3>2. op'.pc # "idle"
      BY <2>1, <2>2
    <3> QED BY <1>8, <1>10, <3>1, <3>2 DEF Kept, SlotKept
  <2>3. CASE Map
    <3>1. Kept(h)
      BY <1>1, <1>2, <2>3, MapKept
    <3>2. op'.pc # "idle"
      BY <1>1, <2>3, FollowLocals, AllocLocals, ZeroLocals, LinkLocals DEF Map
    <3> QED BY <1>8, <1>10, <3>1, <3>2 DEF Kept, SlotKept
  <2>4. CASE WriteData
    <3>1. \A j \in Live : Untouched(h, j)
      BY <1>1, <1>2, <2>4, WriteDataUntouched
    <3>2. op.pc = "data" /\ inode' = inode
      BY <2>4 DEF WriteData
    <3>3. CASE op' = Idle
      BY <1>6, <1>9, <1>10, <3>1, <3>2, <3>3, IdleNames
    <3>4. CASE op'.pc \in {"walk", "iput"} /\ op'.mem = op.mem
      BY <1>8, <1>10, <3>1, <3>4
    <3> QED BY <1>1, <2>4, <3>3, <3>4, WriteDataLocals
  <2>5. CASE RunOut
    <3>1. op.pc = "walk" /\ UNCHANGED diskVars
      BY <1>1, <2>5, RunOutLocals
    <3>2. \A j \in Live : Untouched(h, j)
      BY <3>1 DEF Untouched, diskVars
    <3>3. CASE op' = Idle
      BY <1>6, <1>9, <1>10, <3>1, <3>2, <3>3, IdleNames DEF diskVars
    <3>4. CASE op'.pc = "iput" /\ op'.mem = op.mem
      BY <1>8, <1>10, <3>2, <3>4
    <3> QED BY <1>1, <2>5, <3>3, <3>4, RunOutLocals
  <2>6. CASE PutInode
    <3>1. op.pc = "iput" /\ array' = array /\ kind' = kind
          /\ inode'[i].ptr = op.mem.ptr
      BY <1>1, <1>2, <1>5, <2>6, PutInodeKnown DEF PutInode
    <3>2. \A j \in Live : Untouched(h, j)
      BY <3>1 DEF Untouched
    <3>3. op' = Idle
      BY <2>6 DEF PutInode
    <3> QED BY <1>9, <1>10, <3>1, <3>2, <3>3, IdleNames
  <2> QED BY <1>1, <2>2, <2>3, <2>4, <2>5, <2>6, WriteSteps
<1> QED BY <1>3, <1>10

(* Every block of every write, cut short or not, is what a later read finds,
   and so is every block the file had before: only a kill, or a FUSE write that
   returns without write_inode and so drops the pointer in front of a block,
   keeps a block from the reader (inode.c:90-388, file.c:185-230, 393-456). *)
THEOREM WriteLandsAlways == Spec => WriteLands
<1>1. Init => LeakInv /\ OnWay
  BY LeakInit, OnWayInit
<1>2. LeakInv /\ OnWay /\ [Next]_vars => (LeakInv /\ OnWay)'
  BY LeakStep, OnWayStep
<1>3. LeakInv /\ OnWay /\ [Next]_vars => [mode' # "none" => KeepsMapping]_vars
  <2> SUFFICES ASSUME LeakInv, OnWay, [Next]_vars, mode' # "none",
                      op.call \in {"write", "fwrite"},
                      NEW i \in {op.ino}, NEW lb \in 0 .. MaxSize - 1,
                      NEW b, b = Lookup(op.mem, lb)
               PROVE  /\ op.pc = "data" /\ op.lb = lb => op.new = b
                      /\ b # 0 =>
                           IF op'.pc # "idle" THEN Lookup(op.mem, lb)' = b
                           ELSE \/ Lookup(inode[i], lb)' = b
                                \/ /\ op.pc # "iput"
                                   /\ op.mem.ptr[SlotOf(lb)]
                                        # inode[i].ptr[SlotOf(lb)]
    BY DEF KeepsMapping
  <2> QED BY WriteLandsStep
<1> QED BY <1>1, <1>2, <1>3, PTL DEF Spec, WriteLands

=============================================================================
