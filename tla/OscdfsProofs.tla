---------------------------- MODULE OscdfsProofs ----------------------------
(***************************************************************************)
(* What holds of Oscdfs for every size of the disk, of its inodes and of   *)
(* its calls.                                                              *)
(***************************************************************************)
EXTENDS Oscdfs, FiniteSetTheorems, TLAPS

-----------------------------------------------------------------------------
(* Where a logical block is looked for. *)

LEMMA SpanType == ASSUME NEW level PROVE Span(level) \in Nat \ {0}
<1>1. NPtr \in Nat \ {0}
  BY DiskAssumption
<1>2. NPtr * NPtr \in Nat \ {0}
  BY <1>1
<1>3. NPtr * NPtr * NPtr \in Nat \ {0}
  BY <1>1, <1>2
<1> QED BY <1>1, <1>2, <1>3 DEF Span

LEMMA ReachType == ASSUME NEW level PROVE Reach(level) \in Nat
BY DiskAssumption, SpanType DEF Reach

LEMMA LevelType == ASSUME NEW lb PROVE LevelOf(lb) \in 0 .. NLevel
<1> DEFINE passed == {level \in 0 .. NLevel - 1 : Reach(level) <= lb}
<1>1. NLevel \in Nat \ {0}
  BY DiskAssumption
<1>2. /\ IsFiniteSet(0 .. NLevel - 1)
      /\ Cardinality(0 .. NLevel - 1) = NLevel
  BY <1>1, FS_Interval
<1>3. /\ IsFiniteSet(passed)
      /\ Cardinality(passed) <= NLevel
  BY <1>2, FS_Subset
<1>4. Cardinality(passed) \in Nat
  BY <1>3, FS_CardinalityType
<1> QED BY <1>1, <1>3, <1>4 DEF LevelOf

LEMMA SlotType == ASSUME NEW lb \in Nat PROVE SlotOf(lb) \in Slots
<1>1. CASE LevelOf(lb) = 0
  <2> DEFINE passed == {level \in 0 .. NLevel - 1 : Reach(level) <= lb}
  <2>1. IsFiniteSet(0 .. NLevel - 1)
    BY DiskAssumption, FS_Interval
  <2>2. IsFiniteSet(passed)
    BY <2>1, FS_Subset
  <2>3. passed = {}
    BY <1>1, <2>2, FS_EmptySet DEF LevelOf
  <2>4. 0 \notin passed
    BY <2>3
  <2>5. ~(NDirect <= lb)
    BY <2>4, DiskAssumption DEF Reach
  <2> QED BY <1>1, <2>5, DiskAssumption DEF SlotOf, Slots
<1>2. CASE LevelOf(lb) # 0
  BY <1>2, LevelType, DiskAssumption DEF SlotOf, Slots
<1> QED BY <1>1, <1>2

LEMMA IndicesType ==
    ASSUME NEW lb \in Nat PROVE Indices(lb) \in Seq(0 .. NPtr - 1)
<1> DEFINE level == LevelOf(lb)
           offset == lb - Reach(level - 1)
           index(j) == (offset \div Span(level - j)) % NPtr
<1>1. level \in Nat /\ offset \in Int
  BY LevelType, ReachType, DiskAssumption
<1>2. \A j : index(j) \in 0 .. NPtr - 1
  <2> TAKE j
  <2> DEFINE s == Span(level - j)
  <2>1. s \in Nat \ {0}
    BY SpanType
  <2> HIDE DEF s, offset
  <2>2. offset \div s \in Int
    BY <1>1, <2>1
  <2>3. (offset \div s) % NPtr \in 0 .. NPtr - 1
    BY <2>2, DiskAssumption
  <2> QED BY <2>3 DEF s
<1>3. Indices(lb) = [j \in 1 .. level |-> index(j)]
  BY DEF Indices
<1> HIDE DEF level, index
<1> QED BY <1>1, <1>2, <1>3

-----------------------------------------------------------------------------
(* The call in progress. *)

(* What the steps of a call rely on: the pointer a walk looks at exists, and
   create and mkdir know both inodes they work on. *)
OpShape(o) ==
    /\ o.pc \in {"walk", "zero", "link"} =>
         o.k \in (IF o.at = 0 THEN Slots ELSE 0 .. NPtr - 1)
    /\ o.call \in {"create", "mkdir"} => o.ino \in Inodes /\ o.par \in Inodes
    /\ o.pc = "iinit" => o.call \in {"create", "mkdir"}

LEMMA HeadTailType ==
    ASSUME NEW S, NEW s \in Seq(S), s # <<>>
    PROVE  Head(s) \in S /\ Tail(s) \in Seq(S)
OBVIOUS

LEMMA SlotsAreNat == Slots \subseteq Nat
BY DiskAssumption DEF Slots

LEMMA FreshType ==
    ASSUME NEW isDir \in BOOLEAN
    PROVE  /\ FreshInode(isDir) \in InodeRec
           /\ FreshInode(isDir).dir = isDir
           /\ FreshInode(isDir).size = 0
BY DEF FreshInode, InodeRec

LEMMA IdleType == Idle \in OpRec /\ OpShape(Idle)
<1> DEFINE name == CHOOSE n \in Names : TRUE
           fresh == FreshInode(FALSE)
<1>1. name \in Names
  BY DiskAssumption
<1>2. fresh \in InodeRec
  BY FreshType
<1>3. <<>> \in Seq(0 .. NPtr - 1)
  BY DiskAssumption
<1>4. <<>> \in Seq(Piece)
  OBVIOUS
<1>5. Idle = [call |-> "none", pc |-> "idle", ino |-> 0, par |-> 0,
              name |-> name, fd |-> 0, put |-> 0, mem |-> fresh,
              lb |-> 0, left |-> 0, at |-> 0, k |-> 0, rest |-> <<>>,
              new |-> 0, todo |-> <<>>]
  BY DEF Idle
<1> HIDE DEF name, fresh
<1> QED BY <1>1, <1>2, <1>3, <1>4, <1>5 DEF OpRec, OpShape, Calls, Points

LEMMA WalkFromType ==
    ASSUME NEW o \in OpRec, NEW lb \in Nat,
           o.call \in {"create", "mkdir"} =>
             o.ino \in Inodes /\ o.par \in Inodes
    PROVE  /\ WalkFrom(o, lb) \in OpRec
           /\ OpShape(WalkFrom(o, lb))
<1> DEFINE slot == SlotOf(lb)
           index == Indices(lb)
<1>1. slot \in Slots /\ slot \in Nat
  BY SlotType, SlotsAreNat
<1>2. index \in Seq(0 .. NPtr - 1)
  BY IndicesType
<1>3. WalkFrom(o, lb) = [o EXCEPT !.pc = "walk", !.lb = lb, !.at = 0,
                           !.new = 0, !.k = slot, !.rest = index]
  BY DEF WalkFrom
<1> HIDE DEF slot, index
<1> DEFINE first == [o EXCEPT !.pc = "walk", !.lb = lb, !.at = 0, !.new = 0]
<1>4. first \in OpRec /\ first.pc = "walk" /\ first.at = 0
      /\ first.call = o.call /\ first.ino = o.ino /\ first.par = o.par
  BY DEF OpRec, Points
<1>5. WalkFrom(o, lb) = [first EXCEPT !.k = slot, !.rest = index]
  BY <1>3
<1> HIDE DEF first
<1>6. WalkFrom(o, lb) \in OpRec
  BY <1>1, <1>2, <1>4, <1>5 DEF OpRec
<1>7. OpShape(WalkFrom(o, lb))
  BY <1>1, <1>4, <1>5 DEF OpRec, OpShape
<1> QED BY <1>6, <1>7

LEMMA FreeListType ==
    ASSUME NEW rec \in InodeRec
    PROVE  FreeList(rec) \in Seq(Piece)
<1> DEFINE piece(j) == <<rec.ptr[j - 1], DepthOf(j - 1)>>
           length == NDirect + NLevel
<1>1. length \in Nat
  BY DiskAssumption
<1>2. ASSUME NEW j \in 1 .. length PROVE piece(j) \in Piece
  <2>1. j - 1 \in Slots
    BY <1>1, DiskAssumption DEF Slots
  <2>2. DepthOf(j - 1) \in 0 .. NLevel
    BY <2>1, DiskAssumption DEF Slots, DepthOf
  <2>3. rec.ptr[j - 1] \in Blocks \union {0}
    BY <2>1 DEF InodeRec
  <2> QED BY <2>2, <2>3 DEF Piece
<1>3. FreeList(rec) = [j \in 1 .. length |-> piece(j)]
  BY DEF FreeList
<1> HIDE DEF piece, length
<1> QED BY <1>1, <1>2, <1>3

LEMMA RestType ==
    ASSUME op.todo \in Seq(Piece), NEW j \in 1 .. Len(op.todo)
    PROVE  Rest(j) \in Seq(Piece)
BY DEF Rest

LEMMA ExpandedType ==
    ASSUME op.todo \in Seq(Piece), NEW j \in 1 .. Len(op.todo),
           array \in [Blocks -> PtrArray],
           op.todo[j][1] # 0, op.todo[j][2] > 0
    PROVE  Expanded(j) \in Seq(Piece)
<1> DEFINE b == op.todo[j][1]
           depth == op.todo[j][2]
           piece(k) == <<array[b][k - 1], depth - 1>>
           below == [k \in 1 .. NPtr |-> piece(k)]
<1>1. op.todo[j] \in Piece
  OBVIOUS
<1>2. b \in Blocks /\ depth \in 1 .. NLevel
  BY <1>1, DiskAssumption DEF Piece
<1>3. ASSUME NEW k \in 1 .. NPtr PROVE piece(k) \in Piece
  <2>1. k - 1 \in 0 .. NPtr - 1
    BY DiskAssumption
  <2>2. array[b][k - 1] \in Blocks \union {0}
    BY <1>2, <2>1 DEF PtrArray
  <2>3. depth - 1 \in 0 .. NLevel
    BY <1>2, DiskAssumption
  <2> HIDE DEF b, depth
  <2> QED BY <2>2, <2>3 DEF Piece
<1>4. <<b, 0>> \in Piece
  BY <1>2, DiskAssumption DEF Piece
<1>5. Expanded(j) = below \o <<<<b, 0>>>> \o Rest(j)
  BY DEF Expanded
<1> HIDE DEF b, piece
<1>6. below \in Seq(Piece)
  BY <1>3, DiskAssumption
<1> HIDE DEF below
<1>7. <<<<b, 0>>>> \in Seq(Piece)
  BY <1>4
<1>8. Rest(j) \in Seq(Piece)
  BY RestType
<1> QED BY <1>5, <1>6, <1>7, <1>8

LEMMA AddEntryType ==
    ASSUME TypeOK, NEW o \in OpRec, o.ino \in Inodes, o.par \in Inodes,
           o.call \in {"create", "mkdir"}
    PROVE  AddEntry(o) \in OpRec /\ OpShape(AddEntry(o))
<1> DEFINE parent == [o EXCEPT !.put = o.par, !.mem = inode[o.par]]
<1>1. inode[o.par] \in InodeRec /\ inode[o.par].size \in Nat
  BY DEF TypeOK, DiskTypeOK, InodeRec
<1>2. /\ parent \in OpRec /\ parent.mem.size \in Nat
      /\ parent.call \in {"create", "mkdir"}
      /\ parent.ino \in Inodes /\ parent.par \in Inodes
  BY <1>1 DEF OpRec
<1>3. [parent EXCEPT !.pc = "dirent"] \in OpRec
      /\ OpShape([parent EXCEPT !.pc = "dirent"])
  <2> HIDE DEF parent
  <2>1. "dirent" \in Points
    BY DEF Points
  <2>2. [parent EXCEPT !.pc = "dirent"] \in OpRec
    BY <1>2, <2>1 DEF OpRec
  <2> QED BY <1>2, <2>2 DEF OpRec, OpShape
<1>4. /\ WalkFrom(parent, parent.mem.size) \in OpRec
      /\ OpShape(WalkFrom(parent, parent.mem.size))
  <2> HIDE DEF parent
  <2> QED BY <1>2, WalkFromType
<1> QED BY <1>3, <1>4 DEF AddEntry

-----------------------------------------------------------------------------
(* Type correctness. *)

TypeInv == TypeOK /\ OpShape(op)

LEMMA TypeInit == Init => TypeInv
<1> SUFFICES ASSUME Init PROVE TypeInv
  OBVIOUS
<1>1. /\ 1 \in Blocks /\ Root \in Inodes /\ 0 \in Slots
  BY DiskAssumption DEF Blocks, Inodes, Root, Slots
<1>2. inode \in [Inodes -> InodeRec]
  <2>1. FreshInode(FALSE) \in InodeRec /\ FreshInode(TRUE) \in InodeRec
    BY FreshType
  <2>2. [FreshInode(TRUE) EXCEPT !.ptr[0] = 1, !.size = 1] \in InodeRec
    BY <1>1, <2>1 DEF InodeRec
  <2> QED BY <2>1, <2>2 DEF Init
<1>3. Zeros \in PtrArray
  BY DEF Zeros, PtrArray
<1>4. DiskTypeOK
  BY <1>1, <1>2, <1>3, IdleType DEF Init, DiskTypeOK, NoEntries
<1>5. fd \in [Fds -> [ino : Inodes \union {0}, off : Nat]]
  BY DEF Init, NoFile
<1>6. kills \in 0 .. MaxKills /\ dropped \in BOOLEAN
      /\ mode \in Modes \union {"none"}
  <2>1. kills = 0 /\ dropped = FALSE /\ mode = "none"
    BY DEF Init
  <2>2. kills \in 0 .. MaxKills
    BY <2>1, CallAssumption
  <2> QED BY <2>1, <2>2
<1>7. OpShape(op)
  BY IdleType DEF Init
<1> QED BY <1>4, <1>5, <1>6, <1>7 DEF TypeInv, TypeOK

LEMMA MapType ==
    ASSUME TypeInv, Map, UNCHANGED <<mode, fd, kills, dropped>>
    PROVE  TypeInv'
<1> USE DEF TypeInv, TypeOK
<1>0. /\ op \in OpRec /\ OpShape(op) /\ op.call \in Calls
      /\ op.mem \in InodeRec
      /\ op.mem.ptr \in [Slots -> Blocks \union {0}]
  BY DEF DiskTypeOK, OpRec, InodeRec
<1>1. CASE FollowPointer
  <2>1. Here \in Blocks
    <3>1. op.pc = "walk" /\ Here # 0
      BY <1>1 DEF FollowPointer
    <3>2. CASE op.at = 0
      <4>1. op.k \in Slots
        BY <1>0, <3>1, <3>2 DEF OpShape
      <4> QED BY <1>0, <3>1, <3>2, <4>1 DEF Here
    <3>3. CASE op.at # 0
      <4>1. op.at \in Blocks /\ op.k \in 0 .. NPtr - 1
        BY <1>0, <3>1, <3>3 DEF OpShape, OpRec
      <4>2. array[op.at] \in PtrArray
        BY <4>1 DEF DiskTypeOK
      <4> QED BY <3>1, <3>3, <4>1, <4>2 DEF Here, PtrArray
    <3> QED BY <3>2, <3>3
  <2>2. op' \in OpRec /\ OpShape(op')
    <3>1. CASE op.rest = <<>>
      <4>1. op' = [op EXCEPT !.pc = "data", !.new = Here]
        BY <1>1, <3>1 DEF FollowPointer
      <4> HIDE DEF Here
      <4> QED BY <1>0, <2>1, <4>1 DEF OpRec, OpShape, Points
    <3>2. CASE op.rest # <<>>
      <4>1. op' = [op EXCEPT !.at = Here, !.k = Head(op.rest),
                             !.rest = Tail(op.rest)]
        BY <1>1, <3>2 DEF FollowPointer
      <4>2. /\ Head(op.rest) \in 0 .. NPtr - 1
            /\ Tail(op.rest) \in Seq(0 .. NPtr - 1)
        <5> DEFINE r == op.rest
        <5>1. r \in Seq(0 .. NPtr - 1) /\ r # <<>>
          BY <1>0, <3>2 DEF OpRec
        <5>0. NPtr \in Nat
          BY DiskAssumption
        <5> HIDE DEF r
        <5>2. Head(r) \in 0 .. NPtr - 1 /\ Tail(r) \in Seq(0 .. NPtr - 1)
          BY <5>0, <5>1, HeadTailType
        <5> QED BY <5>2 DEF r
      <4>3. 0 .. NPtr - 1 \subseteq Nat
        BY DiskAssumption
      <4>4. Here # 0
        BY <1>1 DEF FollowPointer
      <4> DEFINE k == Head(op.rest)
                 rest == Tail(op.rest)
      <4>5. k \in 0 .. NPtr - 1 /\ k \in Nat /\ rest \in Seq(0 .. NPtr - 1)
        BY <4>2, <4>3
      <4>6. op' = [op EXCEPT !.at = Here, !.k = k, !.rest = rest]
        BY <4>1
      <4> HIDE DEF k, rest
      <4> QED BY <1>0, <2>1, <4>4, <4>5, <4>6 DEF OpRec, OpShape
    <3> QED BY <3>1, <3>2
  <2> QED BY <1>1, <2>2 DEF FollowPointer, diskVars, DiskTypeOK
<1>2. CASE AllocBlock
  <2> PICK b \in Blocks \ bbm :
        /\ bbm' = Marked(b)
        /\ op' = [op EXCEPT
             !.new = b,
             !.mem.ptr = IF op.at = 0 THEN [@ EXCEPT ![op.k] = b] ELSE @,
             !.pc = IF op.rest # <<>> THEN "zero"
                    ELSE IF op.at = 0 THEN "data" ELSE "link"]
    BY <1>2 DEF AllocBlock
  <2> DEFINE ptr == IF op.at = 0 THEN [op.mem.ptr EXCEPT ![op.k] = b]
                    ELSE op.mem.ptr
             mem == [op.mem EXCEPT !.ptr = ptr]
             next == IF op.rest # <<>> THEN "zero"
                     ELSE IF op.at = 0 THEN "data" ELSE "link"
  <2>1. ptr \in [Slots -> Blocks \union {0}]
    BY <1>0
  <2>2. mem \in InodeRec
    <3> HIDE DEF ptr
    <3> QED BY <1>0, <2>1 DEF InodeRec
  <2>3. op' = [op EXCEPT !.new = b, !.mem = mem, !.pc = next]
    BY <1>0 DEF OpRec
  <2>4. next \in {"zero", "data", "link"}
    OBVIOUS
  <2>5. op.pc = "walk"
    BY <1>2 DEF AllocBlock
  <2> HIDE DEF mem, next
  <2>6. op' \in OpRec
    BY <1>0, <2>2, <2>3, <2>4 DEF OpRec, Points
  <2>7. OpShape(op')
    BY <1>0, <2>3, <2>4, <2>5 DEF OpRec, OpShape
  <2> QED BY <1>2, <2>6, <2>7 DEF AllocBlock, Marked, DiskTypeOK
<1>3. CASE ZeroBlock
  <2>1. op' \in OpRec /\ OpShape(op')
    <3> DEFINE next == IF op.at = 0 THEN "walk" ELSE "link"
    <3>1. op' = [op EXCEPT !.pc = next] /\ op.pc = "zero"
      BY <1>3 DEF ZeroBlock
    <3>2. next \in {"walk", "link"}
      OBVIOUS
    <3> HIDE DEF next
    <3> QED BY <1>0, <3>1, <3>2 DEF OpRec, OpShape, Points
  <2>2. Zeros \in PtrArray
    BY DEF Zeros, PtrArray
  <2> QED BY <1>3, <2>1, <2>2 DEF ZeroBlock, DiskTypeOK
<1>4. CASE LinkBlock
  <2>1. op' \in OpRec /\ OpShape(op')
    BY <1>0, <1>4 DEF LinkBlock, OpRec, OpShape, Points
  <2>2. array' \in [Blocks -> PtrArray]
    <3>1. op.new \in Blocks \union {0}
      BY <1>0 DEF OpRec
    <3> QED BY <1>4, <3>1 DEF LinkBlock, DiskTypeOK, PtrArray
  <2> QED BY <1>4, <2>1, <2>2 DEF LinkBlock, DiskTypeOK
<1> QED BY <1>1, <1>2, <1>3, <1>4 DEF Map

LEMMA FreeType ==
    ASSUME TypeInv, Free, UNCHANGED <<mode, fd, kills, dropped>>
    PROVE  TypeInv'
<1> USE DEF TypeInv, TypeOK
<1>0. /\ op \in OpRec /\ OpShape(op)
      /\ op.todo \in Seq(Piece)
  BY DEF DiskTypeOK, OpRec
<1>1. CASE ExpandPointerBlock
  <2> PICK j \in 1 .. Len(op.todo) :
        /\ FirstOf(j)
        /\ op.todo[j][2] > 0
        /\ op' = [op EXCEPT !.todo = Expanded(j)]
    BY <1>1 DEF ExpandPointerBlock
  <2> DEFINE todo == Expanded(j)
  <2>4. todo \in Seq(Piece)
    BY <1>0, ExpandedType DEF FirstOf, DiskTypeOK
  <2>5. op' = [op EXCEPT !.todo = todo]
    OBVIOUS
  <2>6. op.pc = "free"
    BY <1>1 DEF ExpandPointerBlock
  <2> HIDE DEF todo
  <2>7. op' \in OpRec /\ OpShape(op')
    BY <1>0, <2>4, <2>5, <2>6 DEF OpRec, OpShape
  <2> QED BY <1>1, <2>7 DEF ExpandPointerBlock, diskVars, DiskTypeOK
<1>2. CASE FreeBlock
  <2> PICK j \in 1 .. Len(op.todo) :
        /\ bbm' = bbm \ {op.todo[j][1]}
        /\ kind' = [kind EXCEPT ![op.todo[j][1]] = "old"]
        /\ array' = [array EXCEPT ![op.todo[j][1]] = Zeros]
        /\ op' = [op EXCEPT !.todo = Rest(j)]
    BY <1>2 DEF FreeBlock
  <2> DEFINE todo == Rest(j)
  <2>1. todo \in Seq(Piece)
    BY <1>0, RestType
  <2>2. op' = [op EXCEPT !.todo = todo]
    OBVIOUS
  <2>3. op.pc = "free"
    BY <1>2 DEF FreeBlock
  <2> HIDE DEF todo
  <2>4. op' \in OpRec /\ OpShape(op')
    BY <1>0, <2>1, <2>2, <2>3 DEF OpRec, OpShape
  <2>5. Zeros \in PtrArray
    BY DEF Zeros, PtrArray
  <2> QED BY <1>2, <2>4, <2>5 DEF FreeBlock, DiskTypeOK
<1>3. CASE ClearInode
  <2>1. op' \in OpRec /\ OpShape(op')
    BY <1>0, <1>3 DEF ClearInode, OpRec, OpShape, Points
  <2>2. inode' \in [Inodes -> InodeRec]
    <3>1. \A i \in Inodes : FreshInode(inode[i].dir) \in InodeRec
      <4>1. \A i \in Inodes : inode[i].dir \in BOOLEAN
        BY DEF DiskTypeOK, InodeRec
      <4> QED BY <4>1, FreshType
    <3>2. inode' = [inode EXCEPT ![op.ino] = FreshInode(inode[op.ino].dir)]
      BY <1>3 DEF ClearInode, DiskTypeOK
    <3> QED BY <3>1, <3>2 DEF DiskTypeOK
  <2> QED BY <1>3, <2>1, <2>2 DEF ClearInode, DiskTypeOK
<1>4. CASE FreeInode
  BY <1>4, IdleType DEF FreeInode, DiskTypeOK
<1> QED BY <1>1, <1>2, <1>3, <1>4 DEF Free

LEMMA NewInodeType ==
    ASSUME TypeInv, NEW call \in {"create", "mkdir"},
           NEW d \in Inodes, NEW n \in Names, NewInode(call, d, n)
    PROVE  TypeInv'
<1> USE DEF TypeInv, TypeOK
<1> PICK i \in Inodes :
      /\ ibm' = ibm \union {i}
      /\ op' = [Idle EXCEPT !.call = call, !.pc = "iinit",
                            !.ino = i, !.par = d, !.name = n]
  BY DEF NewInode
<1>1. op' \in OpRec /\ OpShape(op')
  BY IdleType DEF OpRec, OpShape, Points, Calls
<1> QED BY <1>1 DEF NewInode, DiskTypeOK

LEMMA RemoveType ==
    ASSUME TypeInv, NEW d \in Inodes, NEW n \in Names, Remove(d, n)
    PROVE  TypeInv'
<1> USE DEF TypeInv, TypeOK
<1> DEFINE i == entry[d][n]
           todo == FreeList(inode[i])
<1>1. i \in Inodes
  BY DEF Remove, DiskTypeOK
<1>2. todo \in Seq(Piece)
  BY <1>1, FreeListType DEF DiskTypeOK
<1>3. op' = [Idle EXCEPT !.call = "delete", !.pc = "free", !.ino = i,
                         !.todo = todo]
  BY DEF Remove
<1>4. op' \in OpRec /\ OpShape(op')
  <2> DEFINE base == [Idle EXCEPT !.call = "delete", !.pc = "free"]
  <2>1. base \in OpRec /\ base.call = "delete" /\ base.pc = "free"
    BY IdleType DEF OpRec, Points, Calls
  <2>2. op' = [base EXCEPT !.ino = i, !.todo = todo]
    BY <1>3
  <2> HIDE DEF base, i, todo
  <2>3. op' \in OpRec
    BY <1>1, <1>2, <2>1, <2>2 DEF OpRec
  <2>4. OpShape(op')
    BY <2>1, <2>2 DEF OpRec, OpShape
  <2> QED BY <2>3, <2>4
<1> QED BY <1>4 DEF Remove, DiskTypeOK

LEMMA BeginWriteType ==
    ASSUME TypeInv, NEW call \in {"write", "fwrite"}, NEW i \in Inodes,
           NEW k \in Fds \union {0}, NEW lb \in Nat, NEW n \in Nat,
           BeginWrite(call, i, k, lb, n)
    PROVE  TypeInv'
<1> USE DEF TypeInv, TypeOK
<1> DEFINE mem == inode[i]
           start == [Idle EXCEPT !.call = call, !.ino = i, !.put = i,
                       !.mem = mem, !.fd = k, !.left = n]
<1>1. mem \in InodeRec
  BY DEF DiskTypeOK
<1>2. op' = WalkFrom(start, lb)
  BY DEF BeginWrite
<1>3. start \in OpRec /\ start.call \notin {"create", "mkdir"}
  <2> HIDE DEF mem
  <2> QED BY <1>1, IdleType DEF OpRec, Calls
<1>4. op' \in OpRec /\ OpShape(op')
  <2> HIDE DEF start
  <2> QED BY <1>2, <1>3, WalkFromType
<1> QED BY <1>4 DEF BeginWrite, diskVars, DiskTypeOK

LEMMA CallType == ASSUME TypeInv, Call PROVE TypeInv'
<1> USE DEF TypeInv, TypeOK
<1>1. ASSUME NEW d \in Inodes, NEW n \in Names,
             Create(d, n) \/ Mkdir(d, n) \/ Delete(d, n) \/ Rmdir(d, n)
      PROVE  TypeInv'
  BY <1>1, NewInodeType, RemoveType DEF Create, Mkdir, Delete, Rmdir
<1>2. ASSUME NEW d \in Inodes, NEW n \in Names, Open(d, n)
      PROVE  TypeInv'
  BY <1>2 DEF Open, diskVars, DiskTypeOK
<1>3. ASSUME NEW k \in Fds, Close(k)
      PROVE  TypeInv'
  BY <1>3 DEF Close, NoFile, diskVars, DiskTypeOK
<1>4. ASSUME NEW k \in Fds, NEW n \in 1 .. MaxWrite, Read(k, n)
      PROVE  TypeInv'
  BY <1>4 DEF Read, diskVars, DiskTypeOK
<1>5. ASSUME NEW k \in Fds, NEW n \in 1 .. MaxWrite, Write(k, n)
      PROVE  TypeInv'
  <2>1. fd[k].ino \in Inodes /\ fd[k].off \in Nat /\ n \in Nat
    BY <1>5, CallAssumption DEF Write
  <2> QED BY <1>5, <2>1, BeginWriteType DEF Write
<1>6. ASSUME NEW i \in Inodes, NEW lb \in 0 .. MaxSize,
             NEW n \in 1 .. MaxWrite, FuseWrite(i, lb, n)
      PROVE  TypeInv'
  <2>1. lb \in Nat /\ n \in Nat
    BY CallAssumption
  <2> QED BY <1>6, <2>1, BeginWriteType DEF FuseWrite
<1> QED BY <1>1, <1>2, <1>3, <1>4, <1>5, <1>6 DEF Call

LEMMA InitInodeType == ASSUME TypeInv, InitInode PROVE TypeInv'
<1> USE DEF TypeInv, TypeOK
<1> DEFINE new == FreshInode(op.call = "mkdir")
           start == [op EXCEPT !.put = op.ino, !.mem = new]
<1>1. /\ op \in OpRec /\ op.call \in {"create", "mkdir"}
      /\ op.ino \in Inodes /\ op.par \in Inodes
  BY DEF InitInode, OpShape, DiskTypeOK
<1>2. new \in InodeRec
  BY FreshType
<1>3. /\ start \in OpRec /\ start.call = op.call
      /\ start.ino = op.ino /\ start.par = op.par
  <2> HIDE DEF new
  <2> QED BY <1>1, <1>2 DEF OpRec
<1>4. WalkFrom(start, 0) \in OpRec /\ OpShape(WalkFrom(start, 0))
  <2> HIDE DEF start
  <2> QED BY <1>1, <1>3, WalkFromType
<1>5. AddEntry(op) \in OpRec /\ OpShape(AddEntry(op))
  BY <1>1, AddEntryType
<1>6. op' \in OpRec /\ OpShape(op')
  BY <1>4, <1>5 DEF InitInode
<1>7. inode' \in [Inodes -> InodeRec]
  <2> HIDE DEF new
  <2>1. inode' = [inode EXCEPT ![op.ino] = new]
    BY DEF InitInode, new
  <2> QED BY <1>2, <2>1 DEF DiskTypeOK
<1> QED BY <1>6, <1>7 DEF InitInode, DiskTypeOK

LEMMA WriteEntryType == ASSUME TypeInv, WriteEntry PROVE TypeInv'
<1> USE DEF TypeInv, TypeOK
<1>1. op.ino \in Inodes \union {0}
  BY DEF DiskTypeOK, OpRec
<1> QED BY <1>1, IdleType DEF WriteEntry, DiskTypeOK

LEMMA WriteDataType == ASSUME TypeInv, WriteData PROVE TypeInv'
<1> USE DEF TypeInv, TypeOK
<1>0. /\ op \in OpRec /\ OpShape(op) /\ op.pc = "data"
      /\ op.lb \in Nat /\ op.left \in Nat
  BY DEF DiskTypeOK, OpRec, WriteData
<1>1. op' \in OpRec /\ OpShape(op') /\ dropped' \in BOOLEAN
  <2>1. CASE op.left > 1
    <3> DEFINE rest == [op EXCEPT !.left = @ - 1]
               next == op.lb + 1
    <3>1. op' = WalkFrom(rest, next) /\ dropped' = dropped
      BY <2>1 DEF WriteData
    <3>2. /\ rest \in OpRec /\ rest.call = op.call
          /\ rest.ino = op.ino /\ rest.par = op.par
      <4>1. op.left - 1 \in Nat
        BY <1>0, <2>1
      <4> QED BY <1>0, <4>1 DEF OpRec
    <3>3. next \in Nat
      BY <1>0
    <3> HIDE DEF rest, next
    <3> QED BY <1>0, <3>1, <3>2, <3>3, WalkFromType DEF OpShape
  <2>2. CASE ~(op.left > 1) /\ op.call = "fwrite" /\ op.lb + 1 <= op.mem.size
    BY <2>2, IdleType DEF WriteData, ReturnWithoutInode
  <2>3. CASE ~(op.left > 1)
               /\ ~(op.call = "fwrite" /\ op.lb + 1 <= op.mem.size)
    <3>1. op' = [op EXCEPT !.pc = "iput", !.lb = @ + 1, !.left = 0]
          /\ dropped' = dropped
      BY <2>3 DEF WriteData
    <3>2. op' \in OpRec /\ OpShape(op')
      <4> DEFINE next == op.lb + 1
      <4>1. next \in Nat
        BY <1>0
      <4>2. op' = [op EXCEPT !.pc = "iput", !.lb = next, !.left = 0]
        BY <1>0, <3>1 DEF OpRec
      <4> HIDE DEF next, TypeInv, TypeOK
      <4>3. op' \in OpRec
        BY <1>0, <4>1, <4>2 DEF OpRec, Points
      <4>4. OpShape(op')
        BY <1>0, <4>2 DEF OpRec, OpShape
      <4> QED BY <4>3, <4>4
    <3>3. dropped' \in BOOLEAN
      <4>1. dropped \in BOOLEAN
        OBVIOUS
      <4> HIDE DEF TypeInv, TypeOK
      <4> QED BY <3>1, <4>1, Zenon
    <3> QED BY <3>2, <3>3
  <2> QED BY <2>1, <2>2, <2>3
<1>2. entry' \in [Inodes -> [Names -> Inodes \union {0}]]
  BY DEF WriteData, NoEntries, DiskTypeOK
<1>3. Zeros \in PtrArray
  BY DEF Zeros, PtrArray
<1>4. kind' \in [Blocks -> {"old", "data", "ptrs"}]
      /\ array' \in [Blocks -> PtrArray]
  BY <1>3 DEF WriteData, DiskTypeOK
<1> QED BY <1>1, <1>2, <1>4 DEF WriteData, DiskTypeOK

LEMMA RunOutType == ASSUME TypeInv, RunOut PROVE TypeInv'
<1> USE DEF TypeInv, TypeOK
<1>0. op \in OpRec /\ OpShape(op)
  BY DEF DiskTypeOK
<1>1. op' \in OpRec /\ OpShape(op') /\ dropped' \in BOOLEAN
  <2>1. CASE op.call = "write" /\ op' = CutShort /\ UNCHANGED dropped
    BY <1>0, <2>1 DEF CutShort, OpRec, OpShape, Points
  <2>2. CASE ReturnWithoutInode
    BY <2>2, IdleType DEF ReturnWithoutInode
  <2>3. CASE op.call \in {"create", "mkdir"} /\ op' = Undo /\ UNCHANGED dropped
    <3> DEFINE todo == FreeList(inode[op.ino])
    <3>1. todo \in Seq(Piece)
      BY <1>0, <2>3, FreeListType DEF OpShape, DiskTypeOK
    <3>2. \/ op' = [op EXCEPT !.pc = "free", !.todo = todo]
          \/ op' = [op EXCEPT !.pc = "ifree"]
      BY <2>3 DEF Undo
    <3> HIDE DEF todo
    <3> QED BY <1>0, <2>3, <3>1, <3>2 DEF OpRec, OpShape, Points
  <2> QED BY <2>1, <2>2, <2>3 DEF RunOut
<1> QED BY <1>1 DEF RunOut, diskVars, DiskTypeOK

LEMMA PutInodeType == ASSUME TypeInv, PutInode PROVE TypeInv'
<1> USE DEF TypeInv, TypeOK
<1>0. /\ op \in OpRec /\ OpShape(op) /\ op.pc = "iput"
      /\ op.mem \in InodeRec /\ op.lb \in Nat
      /\ op.ino \in Inodes \union {0}
  BY DEF DiskTypeOK, OpRec, PutInode
<1>1. Stored \in InodeRec
  BY <1>0 DEF Stored, InodeRec
<1>2. op' \in OpRec /\ OpShape(op')
  BY <1>0, AddEntryType, IdleType DEF PutInode, OpShape
<1>3. inode' \in [Inodes -> InodeRec]
  <2> HIDE DEF Stored
  <2> QED BY <1>1 DEF PutInode, DiskTypeOK
<1>4. fd' \in [Fds -> [ino : Inodes \union {0}, off : Nat]]
  BY <1>0 DEF PutInode
<1>5. entry' \in [Inodes -> [Names -> Inodes \union {0}]]
  BY <1>0 DEF PutInode, DiskTypeOK
<1> QED BY <1>2, <1>3, <1>4, <1>5 DEF PutInode, DiskTypeOK

LEMMA TypeStep == TypeInv /\ [Next]_vars => TypeInv'
<1> SUFFICES ASSUME TypeInv, [Next]_vars PROVE TypeInv'
  OBVIOUS
<1>1. ASSUME NEW m \in Modes, Start(m) PROVE TypeInv'
  BY <1>1 DEF Start, diskVars, TypeInv, TypeOK, DiskTypeOK
<1>2. ASSUME Gone, kills' \in 0 .. MaxKills PROVE TypeInv'
  BY <1>2, IdleType DEF Gone, NoFile, diskVars, TypeInv, TypeOK, DiskTypeOK
<1>3. CASE Exit
  BY <1>2, <1>3 DEF Exit, TypeInv, TypeOK
<1>4. CASE Kill
  <2>1. kills' \in 0 .. MaxKills
    BY <1>4, CallAssumption DEF Kill, TypeInv, TypeOK
  <2> QED BY <1>2, <1>4, <2>1 DEF Kill
<1>5. CASE Call
  BY <1>5, CallType
<1>6. CASE Continue
  BY <1>6, MapType, FreeType, InitInodeType, WriteEntryType, WriteDataType,
     RunOutType, PutInodeType DEF Continue
<1>7. CASE UNCHANGED vars
  BY <1>7 DEF vars, diskVars, TypeInv, TypeOK, DiskTypeOK
<1> QED BY <1>1, <1>3, <1>4, <1>5, <1>6, <1>7 DEF Next

(* The disk and the locals of the call in progress keep their types: in
   particular a walk never leaves the pointers of an inode or of a block. *)
THEOREM TypeCorrect == Spec => []TypeOK
<1>1. TypeInv => TypeOK
  BY DEF TypeInv
<1> QED BY <1>1, TypeInit, TypeStep, PTL DEF Spec

-----------------------------------------------------------------------------
(* Names and open files.  Besides what EntriesFormTree and OpenFilesLive say,
   the argument needs that a linked inode is marked used, so alloc_inode hands
   out an inode no entry names, and that a call only ever works on an unlinked
   inode (create, mkdir, delete, rmdir) or on a linked file (write). *)

DiskNames ==
    /\ Root \in ibm
    /\ inode[Root].dir
    /\ \A d \in Inodes, n \in Names : entry[d][n] # 0 =>
         entry[d][n] \in ibm /\ entry[d][n] # Root /\ d \in Dirs
    /\ \A d, e \in Inodes, n, m \in Names :
         entry[d][n] = entry[e][m] /\ entry[d][n] # 0 => d = e /\ n = m

FdNames == \A k \in Fds : fd[k].ino # 0 =>
    fd[k].ino \in Linked \ Dirs /\ fd[k].off <= inode[fd[k].ino].size

OpNames(o) ==
    /\ o.call = "none" <=> o.pc = "idle"
    /\ o.call = "delete" =>
         o.pc \in {"free", "ifree"} /\ o.ino \notin Linked /\ o.put = 0
    /\ o.call \in {"create", "mkdir"} =>
         /\ o.ino \in ibm /\ o.ino \notin Linked /\ o.par \in Dirs
         /\ entry[o.par][o.name] = 0
    /\ o.call \in {"write", "fwrite"} =>
         /\ o.pc \in {"walk", "zero", "link", "data", "iput"}
         /\ o.par = 0 /\ o.put = o.ino /\ o.ino \in Linked \ Dirs
    /\ o.call = "write" => o.fd \in Fds /\ fd[o.fd].ino = o.ino
    /\ o.put # 0 /\ o.pc # "ifree" =>
         o.mem.dir = inode[o.put].dir /\ o.mem.size = inode[o.put].size

NameInv == TypeInv /\ DiskNames /\ FdNames /\ OpNames(op)

(* Two states of a call about the same inodes. *)
SameCall(o, p) ==
    /\ o.call = p.call /\ o.ino = p.ino /\ o.par = p.par /\ o.name = p.name
    /\ o.put = p.put /\ o.fd = p.fd
    /\ o.mem.dir = p.mem.dir /\ o.mem.size = p.mem.size

LEMMA LinkedIs ==
    ASSUME TypeOK
    PROVE  \A x : x \in Linked <=>
             \/ x = Root
             \/ x # 0 /\ \E d \in Inodes, n \in Names : entry[d][n] = x
BY DEF Linked, TypeOK, DiskTypeOK

LEMMA RootIsInode == Root \in Inodes /\ 0 \notin Inodes
BY DiskAssumption DEF Root, Inodes

LEMMA LinkedInodes == ASSUME TypeOK PROVE Linked \subseteq Inodes
BY RootIsInode DEF Linked, TypeOK, DiskTypeOK

LEMMA LinkedIsMarkedInode ==
    ASSUME NameInv PROVE Linked \subseteq ibm
BY LinkedIs DEF NameInv, TypeInv, DiskNames

LEMMA IdleNames ==
    /\ Idle.call = "none" /\ Idle.pc = "idle" /\ Idle.put = 0
    /\ Idle.ino = 0 /\ Idle.par = 0
BY DEF Idle

LEMMA WalkFromSame ==
    ASSUME NEW o \in OpRec, NEW lb
    PROVE  SameCall(WalkFrom(o, lb), o) /\ WalkFrom(o, lb).pc = "walk"
<1> DEFINE slot == SlotOf(lb)
           index == Indices(lb)
<1>1. WalkFrom(o, lb) = [o EXCEPT !.pc = "walk", !.lb = lb, !.at = 0,
                           !.new = 0, !.k = slot, !.rest = index]
  BY DEF WalkFrom
<1> HIDE DEF slot, index
<1> QED BY <1>1 DEF SameCall, OpRec

LEMMA AddEntrySame ==
    ASSUME TypeOK, NEW o \in OpRec, o.par \in Inodes
    PROVE  /\ AddEntry(o).call = o.call /\ AddEntry(o).ino = o.ino
           /\ AddEntry(o).par = o.par /\ AddEntry(o).name = o.name
           /\ AddEntry(o).put = o.par /\ AddEntry(o).fd = o.fd
           /\ AddEntry(o).mem.dir = inode[o.par].dir
           /\ AddEntry(o).mem.size = inode[o.par].size
           /\ AddEntry(o).pc \in {"walk", "dirent"}
<1> DEFINE mem == inode[o.par]
           parent == [o EXCEPT !.put = o.par, !.mem = mem]
<1>1. mem \in InodeRec
  BY DEF TypeOK, DiskTypeOK
<1>2. /\ parent \in OpRec /\ parent.mem = mem
      /\ parent.call = o.call /\ parent.ino = o.ino /\ parent.par = o.par
      /\ parent.name = o.name /\ parent.put = o.par /\ parent.fd = o.fd
  <2> HIDE DEF mem
  <2> QED BY <1>1 DEF OpRec
<1>3. AddEntry(o) = [parent EXCEPT !.pc = "dirent"]
      \/ AddEntry(o) = WalkFrom(parent, parent.mem.size)
  BY DEF AddEntry
<1>4. SameCall(AddEntry(o), parent) /\ AddEntry(o).pc \in {"walk", "dirent"}
  <2> HIDE DEF parent
  <2>1. CASE AddEntry(o) = [parent EXCEPT !.pc = "dirent"]
    BY <1>2, <2>1 DEF SameCall, OpRec
  <2>2. CASE AddEntry(o) = WalkFrom(parent, parent.mem.size)
    BY <1>2, <2>2, WalkFromSame
  <2> QED BY <1>3, <2>1, <2>2
<1> HIDE DEF parent
<1> QED BY <1>2, <1>4 DEF SameCall

LEMMA NameInit == Init => NameInv
<1> SUFFICES ASSUME Init PROVE NameInv
  OBVIOUS
<1>1. TypeInv
  BY TypeInit
<1>2. \A d \in Inodes, n \in Names : entry[d][n] = 0
  BY DEF Init, NoEntries
<1>3. inode[Root].dir
  <2>1. 0 \in Slots
    BY DiskAssumption DEF Slots
  <2>2. inode[Root] = [FreshInode(TRUE) EXCEPT !.ptr[0] = 1, !.size = 1]
    BY RootIsInode DEF Init
  <2> QED BY <2>2, FreshType DEF FreshInode
<1>4. DiskNames
  BY <1>2, <1>3, DiskAssumption DEF Init, DiskNames
<1>5. FdNames
  BY DEF Init, FdNames, NoFile
<1>6. OpNames(op)
  BY IdleNames DEF Init, OpNames
<1> QED BY <1>1, <1>4, <1>5, <1>6 DEF NameInv

(* While entries stay and linked inodes stay directories or files, the same
   paths lead to the same inodes. *)
LEMMA LinksFrame ==
    ASSUME TypeOK, TypeOK', entry' = entry,
           \A i \in Linked : inode'[i].dir = inode[i].dir
    PROVE  Linked' = Linked /\ Dirs' = Dirs
<1>1. Linked' = Linked
  BY DEF Linked
<1> QED BY <1>1 DEF Dirs

LEMMA DiskFrame ==
    ASSUME NameInv, TypeInv', entry' = entry,
           Linked \cap ibm \subseteq ibm',
           \A i \in Linked : inode'[i].dir = inode[i].dir
    PROVE  DiskNames'
<1>1. Linked' = Linked /\ Dirs' = Dirs
  BY LinksFrame DEF NameInv, TypeInv
<1>2. Linked \subseteq ibm' /\ Root \in Linked
  BY LinkedIsMarkedInode DEF Linked
<1>3. \A d \in Inodes, n \in Names :
        entry[d][n] # 0 => entry[d][n] \in Linked
  BY DEF Linked
<1> QED BY <1>1, <1>2, <1>3 DEF DiskNames, NameInv

LEMMA FdFrame ==
    ASSUME NameInv, TypeInv', entry' = entry, fd' = fd,
           \A i \in Linked : /\ inode'[i].dir = inode[i].dir
                             /\ inode'[i].size >= inode[i].size
    PROVE  FdNames'
<1>1. Linked' = Linked /\ Dirs' = Dirs
  BY LinksFrame DEF NameInv, TypeInv
<1> SUFFICES ASSUME NEW k \in Fds, fd[k].ino # 0
             PROVE  /\ fd[k].ino \in Linked \ Dirs
                    /\ fd[k].off <= inode'[fd[k].ino].size
  BY <1>1 DEF FdNames
<1> DEFINE i == fd[k].ino
<1>2. i \in Linked \ Dirs /\ fd[k].off <= inode[i].size
  BY DEF NameInv, FdNames
<1>3. /\ fd[k].off \in Nat /\ i \in Inodes
      /\ inode[i].size \in Nat /\ inode'[i].size \in Nat
  BY DEF NameInv, TypeInv, TypeOK, DiskTypeOK, InodeRec
<1> QED BY <1>2, <1>3

(* A step inside a call that leaves names, open files and inodes alone. *)
LEMMA OpFrame ==
    ASSUME NameInv, TypeInv', entry' = entry, fd' = fd, inode' = inode,
           ibm' = ibm, SameCall(op', op), op.pc # "ifree",
           \/ op.call \in {"create", "mkdir"} /\ op'.pc # "idle"
           \/ op.call \in {"write", "fwrite"}
                /\ op'.pc \in {"walk", "zero", "link", "data", "iput"}
           \/ op.call = "delete" /\ op'.pc \in {"free", "ifree"}
    PROVE  NameInv'
<1>1. Linked' = Linked /\ Dirs' = Dirs
  BY DEF Linked, Dirs
<1>2. DiskNames'
  BY <1>1 DEF NameInv, DiskNames
<1>3. FdNames'
  BY <1>1 DEF NameInv, FdNames
<1>4. OpNames(op)'
  BY <1>1 DEF NameInv, OpNames, SameCall
<1> QED BY <1>2, <1>3, <1>4 DEF NameInv

(* A call returns without touching names, open files or linked inodes. *)
LEMMA ReturnFrame ==
    ASSUME NameInv, TypeInv', entry' = entry, fd' = fd, op' = Idle,
           Linked \cap ibm \subseteq ibm',
           \A i \in Linked : inode'[i] = inode[i]
    PROVE  NameInv'
<1>1. \A i \in Linked : inode'[i].dir = inode[i].dir
                        /\ inode'[i].size >= inode[i].size
  <2>1. \A i \in Linked : i \in Inodes
    BY RootIsInode, LinkedIs DEF NameInv, TypeInv, TypeOK, DiskTypeOK
  <2>2. \A i \in Linked : inode[i].size \in Nat
    BY <2>1 DEF NameInv, TypeInv, TypeOK, DiskTypeOK, InodeRec
  <2> QED BY <2>2
<1>2. DiskNames' /\ FdNames'
  BY <1>1, DiskFrame, FdFrame
<1>3. OpNames(op)'
  BY IdleNames DEF OpNames
<1> QED BY <1>2, <1>3 DEF NameInv

LEMMA MapNames ==
    ASSUME NameInv, TypeInv', Map, UNCHANGED <<mode, fd, kills, dropped>>
    PROVE  NameInv'
<1>0. op \in OpRec /\ op.mem \in InodeRec
  BY DEF NameInv, TypeInv, TypeOK, DiskTypeOK, OpRec
<1>1. op.pc \in {"walk", "zero", "link"}
  BY DEF Map, FollowPointer, AllocBlock, ZeroBlock, LinkBlock
<1>2. op.call \in {"create", "mkdir", "write", "fwrite"}
  BY <1>0, <1>1 DEF NameInv, OpNames, OpRec, Calls
<1>3. /\ entry' = entry /\ inode' = inode /\ ibm' = ibm
  BY DEF Map, FollowPointer, AllocBlock, ZeroBlock, LinkBlock, diskVars
<1>4. /\ SameCall(op', op)
      /\ op'.pc \in {"walk", "zero", "link", "data"}
  <2>1. CASE FollowPointer
    <3> DEFINE found == Here
               k == Head(op.rest)
               rest == Tail(op.rest)
    <3>1. \/ op' = [op EXCEPT !.pc = "data", !.new = found]
          \/ op' = [op EXCEPT !.at = found, !.k = k, !.rest = rest]
      BY <2>1 DEF FollowPointer
    <3> HIDE DEF found, k, rest
    <3> QED BY <1>0, <1>1, <3>1 DEF SameCall, OpRec
  <2>2. CASE AllocBlock
    <3> PICK b \in Blocks \ bbm :
          op' = [op EXCEPT
             !.new = b,
             !.mem.ptr = IF op.at = 0 THEN [@ EXCEPT ![op.k] = b] ELSE @,
             !.pc = IF op.rest # <<>> THEN "zero"
                    ELSE IF op.at = 0 THEN "data" ELSE "link"]
      BY <2>2 DEF AllocBlock
    <3> DEFINE ptr == IF op.at = 0 THEN [op.mem.ptr EXCEPT ![op.k] = b]
                      ELSE op.mem.ptr
               mem == [op.mem EXCEPT !.ptr = ptr]
               next == IF op.rest # <<>> THEN "zero"
                       ELSE IF op.at = 0 THEN "data" ELSE "link"
    <3>1. op' = [op EXCEPT !.new = b, !.mem = mem, !.pc = next]
      BY <1>0 DEF OpRec
    <3>2. next \in {"zero", "data", "link"}
      OBVIOUS
    <3>3. mem.dir = op.mem.dir /\ mem.size = op.mem.size
      <4> HIDE DEF ptr
      <4> QED BY <1>0 DEF InodeRec
    <3> HIDE DEF mem, next
    <3> QED BY <1>0, <3>1, <3>2, <3>3 DEF SameCall, OpRec
  <2>3. CASE ZeroBlock
    <3> DEFINE next == IF op.at = 0 THEN "walk" ELSE "link"
    <3>1. op' = [op EXCEPT !.pc = next]
      BY <2>3 DEF ZeroBlock
    <3>2. next \in {"walk", "link"}
      OBVIOUS
    <3> HIDE DEF next
    <3> QED BY <1>0, <3>1, <3>2 DEF SameCall, OpRec
  <2>4. CASE LinkBlock
    BY <1>0, <2>4 DEF LinkBlock, SameCall, OpRec
  <2> QED BY <2>1, <2>2, <2>3, <2>4 DEF Map
<1> QED BY <1>1, <1>2, <1>3, <1>4, OpFrame

LEMMA FreeNames ==
    ASSUME NameInv, TypeInv', Free, UNCHANGED <<mode, fd, kills, dropped>>
    PROVE  NameInv'
<1>0. op \in OpRec /\ op.pc \in {"free", "ifree"}
  BY DEF NameInv, TypeInv, TypeOK, DiskTypeOK,
         Free, ExpandPointerBlock, FreeBlock, ClearInode, FreeInode
<1>1. /\ op.call \in {"create", "mkdir", "delete"}
      /\ op.ino \notin Linked
  BY <1>0 DEF NameInv, OpNames, OpRec, Calls
<1>2. ASSUME op.pc = "free", entry' = entry, inode' = inode, ibm' = ibm,
             NEW todo, op' = [op EXCEPT !.todo = todo]
      PROVE  NameInv'
  <2>1. SameCall(op', op) /\ op'.pc = "free"
    BY <1>0, <1>2 DEF SameCall, OpRec
  <2> QED BY <1>1, <1>2, <2>1, OpFrame
<1>3. CASE ExpandPointerBlock
  <2> PICK j \in 1 .. Len(op.todo) : op' = [op EXCEPT !.todo = Expanded(j)]
    BY <1>3 DEF ExpandPointerBlock
  <2> DEFINE todo == Expanded(j)
  <2>1. op' = [op EXCEPT !.todo = todo]
    OBVIOUS
  <2> HIDE DEF todo
  <2> QED BY <1>2, <1>3, <2>1 DEF ExpandPointerBlock, diskVars
<1>4. CASE FreeBlock
  <2> PICK j \in 1 .. Len(op.todo) : op' = [op EXCEPT !.todo = Rest(j)]
    BY <1>4 DEF FreeBlock
  <2> DEFINE todo == Rest(j)
  <2>1. op' = [op EXCEPT !.todo = todo]
    OBVIOUS
  <2> HIDE DEF todo
  <2> QED BY <1>2, <1>4, <2>1 DEF FreeBlock
<1>5. CASE ClearInode
  <2>1. op' = [op EXCEPT !.pc = "ifree"]
    BY <1>5 DEF ClearInode
  <2>2. SameCall(op', op) /\ op'.pc = "ifree"
    BY <1>0, <2>1 DEF SameCall, OpRec
  <2>3. \A i \in Linked : inode'[i] = inode[i]
    <3>1. \A i \in Linked : i \in Inodes /\ i # op.ino
      BY <1>1, RootIsInode, LinkedIs DEF NameInv, TypeInv, TypeOK, DiskTypeOK
    <3> QED BY <1>5, <3>1 DEF ClearInode, NameInv, TypeInv, TypeOK, DiskTypeOK
  <2>4. entry' = entry /\ fd' = fd /\ ibm' = ibm
    BY <1>5 DEF ClearInode
  <2>5. \A i \in Linked : inode'[i].dir = inode[i].dir
                          /\ inode'[i].size >= inode[i].size
    <3>1. \A i \in Linked : i \in Inodes
      BY RootIsInode, LinkedIs DEF NameInv, TypeInv, TypeOK, DiskTypeOK
    <3>2. \A i \in Linked : inode[i].size \in Nat
      BY <3>1 DEF NameInv, TypeInv, TypeOK, DiskTypeOK, InodeRec
    <3> QED BY <2>3, <3>2
  <2>6. DiskNames' /\ FdNames'
    BY <2>4, <2>5, DiskFrame, FdFrame
  <2>7. Linked' = Linked /\ Dirs' = Dirs
    BY <2>4, <2>5, LinksFrame DEF NameInv, TypeInv
  <2>8. OpNames(op)'
    BY <1>0, <1>1, <2>2, <2>4, <2>7 DEF NameInv, OpNames, SameCall
  <2> QED BY <2>6, <2>8 DEF NameInv
<1>6. CASE FreeInode
  BY <1>1, <1>6, ReturnFrame DEF FreeInode
<1> QED BY <1>3, <1>4, <1>5, <1>6 DEF Free

LEMMA NewInodeNames ==
    ASSUME NameInv, TypeInv', op.pc = "idle", NEW call \in {"create", "mkdir"},
           NEW d \in Inodes, NEW n \in Names, NewInode(call, d, n)
    PROVE  NameInv'
<1> PICK i \in Inodes :
      /\ Lowest(i, Inodes \ ibm)
      /\ ibm' = ibm \union {i}
      /\ op' = [Idle EXCEPT !.call = call, !.pc = "iinit",
                            !.ino = i, !.par = d, !.name = n]
  BY DEF NewInode
<1>1. i \notin Linked
  BY LinkedIsMarkedInode DEF Lowest
<1>2. entry' = entry /\ fd' = fd /\ inode' = inode /\ ibm \subseteq ibm'
  BY DEF NewInode
<1>3. Linked' = Linked /\ Dirs' = Dirs
  BY <1>2 DEF Linked, Dirs
<1>4. DiskNames' /\ FdNames'
  BY <1>2, <1>3 DEF NameInv, DiskNames, FdNames
<1>5. /\ op'.call = call /\ op'.pc = "iinit" /\ op'.ino = i /\ op'.par = d
      /\ op'.name = n /\ op'.put = 0
  BY IdleType, IdleNames DEF OpRec
<1>6. OpNames(op)'
  BY <1>1, <1>2, <1>3, <1>5 DEF OpNames, NewInode
<1> QED BY <1>4, <1>6 DEF NameInv

LEMMA RemoveNames ==
    ASSUME NameInv, TypeInv', op.pc = "idle",
           NEW d \in Inodes, NEW n \in Names, Remove(d, n),
           \/ /\ ~inode[entry[d][n]].dir
              /\ \A k \in Fds : fd[k].ino # entry[d][n]
           \/ /\ inode[entry[d][n]].dir
              /\ entry[entry[d][n]] = NoEntries
    PROVE  NameInv'
<1> DEFINE i == entry[d][n]
<1>0. /\ entry \in [Inodes -> [Names -> Inodes \union {0}]]
      /\ entry' = [entry EXCEPT ![d][n] = 0]
      /\ inode' = inode /\ ibm' = ibm /\ fd' = fd
      /\ i # 0 /\ i \in Inodes
  BY DEF Remove, NameInv, TypeInv, TypeOK, DiskTypeOK
<1>1. \A e \in Inodes, m \in Names :
        entry'[e][m] = IF e = d /\ m = n THEN 0 ELSE entry[e][m]
  BY <1>0
<1>2. \A e \in Inodes, m \in Names :
        entry[e][m] = i => e = d /\ m = n
  BY <1>0 DEF NameInv, DiskNames
<1>3. i # Root
  BY <1>0 DEF NameInv, DiskNames
<1>4. \A x : x \in Linked' <=> x \in Linked /\ x # i
  <2>1. \A x : x \in Linked' <=>
             \/ x = Root
             \/ x # 0 /\ \E e \in Inodes, m \in Names : entry'[e][m] = x
    BY <1>0, <1>1 DEF Linked
  <2> QED BY <1>0, <1>1, <1>2, <1>3, <2>1, LinkedIs DEF NameInv, TypeInv
<1>5. \A x : x \in Dirs' <=> x \in Dirs /\ x # i
  BY <1>0, <1>4 DEF Dirs
<1>6. \A m \in Names : entry[i][m] = 0
  BY <1>0 DEF NameInv, DiskNames, Dirs, NoEntries
<1>7. DiskNames'
  BY <1>0, <1>1, <1>5, <1>6 DEF NameInv, DiskNames
<1>8. FdNames'
  <2> SUFFICES ASSUME NEW k \in Fds, fd[k].ino # 0
               PROVE  /\ fd[k].ino \in Linked' \ Dirs'
                      /\ fd[k].off <= inode[fd[k].ino].size
    BY <1>0 DEF FdNames
  <2>1. /\ fd[k].ino \in Linked \ Dirs
        /\ fd[k].off <= inode[fd[k].ino].size
    BY DEF NameInv, FdNames
  <2>2. fd[k].ino # i
    BY <2>1 DEF Dirs
  <2> QED BY <1>4, <1>5, <2>1, <2>2
<1>9. /\ op'.call = "delete" /\ op'.pc = "free"
      /\ op'.ino = i /\ op'.put = 0
  <2> DEFINE todo == FreeList(inode[i])
  <2>1. op' = [Idle EXCEPT !.call = "delete", !.pc = "free", !.ino = i,
                           !.todo = todo]
    BY DEF Remove
  <2> HIDE DEF todo, i
  <2> QED BY <2>1, IdleType, IdleNames DEF OpRec
<1>10. OpNames(op)'
  BY <1>4, <1>9 DEF OpNames
<1> QED BY <1>7, <1>8, <1>10 DEF NameInv

LEMMA BeginWriteNames ==
    ASSUME NameInv, TypeInv', op.pc = "idle", NEW call \in {"write", "fwrite"},
           NEW i \in Linked \ Dirs, NEW k, NEW lb \in Nat, NEW n \in Nat,
           call = "write" => k \in Fds /\ fd[k].ino = i, k \in Fds \union {0},
           BeginWrite(call, i, k, lb, n)
    PROVE  NameInv'
<1> DEFINE mem == inode[i]
           start == [Idle EXCEPT !.call = call, !.ino = i, !.put = i,
                       !.mem = mem, !.fd = k, !.left = n]
<1>0. i \in Inodes /\ mem \in InodeRec
  <2>1. i \in Inodes
    BY LinkedInodes DEF NameInv, TypeInv
  <2> QED BY <2>1 DEF NameInv, TypeInv, TypeOK, DiskTypeOK
<1>1. entry' = entry /\ fd' = fd /\ inode' = inode /\ ibm' = ibm
  BY DEF BeginWrite, diskVars
<1>2. op' = WalkFrom(start, lb)
  BY DEF BeginWrite
<1>3. /\ start \in OpRec /\ start.call = call /\ start.ino = i
      /\ start.put = i /\ start.mem = mem /\ start.fd = k /\ start.par = 0
  <2> HIDE DEF mem
  <2> QED BY <1>0, IdleType, IdleNames DEF OpRec, Calls
<1>4. SameCall(op', start) /\ op'.pc = "walk"
  <2> HIDE DEF start
  <2> QED BY <1>2, <1>3, WalkFromSame
<1>5. Linked' = Linked /\ Dirs' = Dirs
  BY <1>1 DEF Linked, Dirs
<1>6. DiskNames' /\ FdNames'
  BY <1>1, <1>5 DEF NameInv, DiskNames, FdNames
<1>7. OpNames(op)'
  <2> HIDE DEF start, mem
  <2>1. /\ op'.call = call /\ op'.ino = i /\ op'.put = i /\ op'.par = 0
        /\ op'.fd = k /\ op'.mem.dir = mem.dir /\ op'.mem.size = mem.size
    BY <1>3, <1>4 DEF SameCall
  <2> QED BY <1>1, <1>4, <1>5, <2>1 DEF OpNames, mem
<1> QED BY <1>6, <1>7 DEF NameInv

LEMMA InitInodeNames ==
    ASSUME NameInv, TypeInv', InitInode PROVE NameInv'
<1> DEFINE new == FreshInode(op.call = "mkdir")
           start == [op EXCEPT !.put = op.ino, !.mem = new]
<1>0. /\ op \in OpRec /\ op.pc = "iinit"
      /\ op.call \in {"create", "mkdir"}
      /\ op.ino \in Inodes /\ op.par \in Inodes
      /\ op.ino \notin Linked /\ op.par \in Dirs
      /\ op.ino \in ibm /\ entry[op.par][op.name] = 0
  BY DEF InitInode, NameInv, OpNames, TypeInv, TypeOK, DiskTypeOK, OpShape
<1>1. /\ entry' = entry /\ fd' = fd /\ ibm' = ibm
      /\ inode' = [inode EXCEPT ![op.ino] = new]
  BY DEF InitInode
<1>2. new \in InodeRec
  BY FreshType
<1>3. /\ inode \in [Inodes -> InodeRec] /\ inode'[op.ino] = new
      /\ \A i \in Linked : inode'[i] = inode[i]
  <2>1. inode \in [Inodes -> InodeRec]
    BY DEF NameInv, TypeInv, TypeOK, DiskTypeOK
  <2> HIDE DEF new
  <2> QED BY <1>0, <1>1, <2>1, LinkedInodes DEF NameInv, TypeInv
<1>4. \A i \in Linked : inode'[i].dir = inode[i].dir
                        /\ inode'[i].size >= inode[i].size
  BY <1>3, LinkedInodes DEF NameInv, TypeInv, InodeRec
<1>5. DiskNames' /\ FdNames'
  BY <1>1, <1>4, DiskFrame, FdFrame
<1>6. Linked' = Linked /\ Dirs' = Dirs
  BY <1>1, <1>4, LinksFrame DEF NameInv, TypeInv
<1>7. CASE op.call = "create"
  <2>1. op' = AddEntry(op)
    BY <1>7 DEF InitInode
  <2>2. /\ op'.call = "create" /\ op'.ino = op.ino /\ op'.par = op.par
        /\ op'.name = op.name /\ op'.put = op.par
        /\ op'.mem.dir = inode[op.par].dir
        /\ op'.mem.size = inode[op.par].size
        /\ op'.pc \in {"walk", "dirent"}
    BY <1>0, <1>7, <2>1, AddEntrySame DEF NameInv, TypeInv
  <2>3. inode'[op.par] = inode[op.par]
    BY <1>0, <1>3 DEF Dirs
  <2>4. OpNames(op)'
    BY <1>0, <1>1, <1>6, <2>2, <2>3 DEF OpNames
  <2> QED BY <1>5, <2>4 DEF NameInv
<1>8. CASE op.call = "mkdir"
  <2>1. op' = WalkFrom(start, 0)
    BY <1>8 DEF InitInode
  <2>2. /\ start \in OpRec /\ start.call = "mkdir" /\ start.ino = op.ino
        /\ start.par = op.par /\ start.name = op.name
        /\ start.put = op.ino /\ start.mem = new
    <3>1. op \in OpRec /\ op.ino \in Inodes /\ op.call = "mkdir"
      BY <1>0, <1>8
    <3>2. start = [op EXCEPT !.put = op.ino, !.mem = new]
      OBVIOUS
    <3> HIDE DEF new, start
    <3>3. start \in OpRec
      BY <1>2, <3>1, <3>2 DEF OpRec
    <3>4. start.call = "mkdir" /\ start.ino = op.ino
      BY <3>1, <3>2 DEF OpRec
    <3>5. start.par = op.par /\ start.name = op.name
      BY <3>1, <3>2 DEF OpRec
    <3>6. start.put = op.ino /\ start.mem = new
      BY <3>1, <3>2 DEF OpRec
    <3> QED BY <3>3, <3>4, <3>5, <3>6
  <2>3. SameCall(op', start) /\ op'.pc = "walk"
    <3> HIDE DEF start
    <3> QED BY <2>1, <2>2, WalkFromSame
  <2> HIDE DEF start, new
  <2>4. /\ op'.call = "mkdir" /\ op'.ino = op.ino /\ op'.par = op.par
        /\ op'.name = op.name /\ op'.put = op.ino
        /\ op'.mem.dir = inode'[op.ino].dir
        /\ op'.mem.size = inode'[op.ino].size
    BY <1>3, <2>2, <2>3 DEF SameCall
  <2>5. OpNames(op)'
    BY <1>0, <1>1, <1>6, <2>3, <2>4 DEF OpNames
  <2> QED BY <1>5, <2>5 DEF NameInv
<1> QED BY <1>0, <1>7, <1>8

(* A new name for the inode the call made. *)
LEMMA LinkNames ==
    ASSUME NameInv, TypeInv', op.call \in {"create", "mkdir"},
           entry' = [entry EXCEPT ![op.par][op.name] = op.ino],
           fd' = fd, ibm' = ibm,
           \A i \in Inodes : /\ inode'[i].dir = inode[i].dir
                             /\ inode'[i].size >= inode[i].size
    PROVE  DiskNames' /\ FdNames'
<1> DEFINE i == op.ino
           d == op.par
           n == op.name
<1>0. /\ i \in Inodes /\ d \in Inodes /\ n \in Names /\ d \in Dirs
      /\ i \notin Linked /\ i \in ibm /\ entry[d][n] = 0
      /\ i # Root /\ i # 0
  BY RootIsInode DEF NameInv, OpNames, TypeInv, TypeOK, DiskTypeOK, OpShape,
     OpRec, Linked
<1>1. entry \in [Inodes -> [Names -> Inodes \union {0}]]
  BY DEF NameInv, TypeInv, TypeOK, DiskTypeOK
<1>2. \A e \in Inodes, m \in Names :
        entry'[e][m] = IF e = d /\ m = n THEN i ELSE entry[e][m]
  BY <1>0, <1>1
<1>3. \A x : x \in Linked' <=> x \in Linked \/ x = i
  <2>1. \A x : x \in Linked' <=>
             \/ x = Root
             \/ x # 0 /\ \E e \in Inodes, m \in Names : entry'[e][m] = x
    BY DEF Linked, TypeInv, TypeOK, DiskTypeOK
  <2> QED BY <1>0, <1>2, <2>1, LinkedIs DEF NameInv, TypeInv
<1>4. \A e \in Dirs : e \in Dirs'
  BY <1>3, LinkedInodes DEF Dirs, NameInv, TypeInv
<1>5. \A e \in Inodes, m \in Names : entry[e][m] # i
  BY <1>0 DEF Linked
<1>6. DiskNames'
  BY <1>0, <1>2, <1>4, <1>5, RootIsInode DEF NameInv, DiskNames
<1>7. FdNames'
  <2> SUFFICES ASSUME NEW k \in Fds, fd[k].ino # 0
               PROVE  /\ fd[k].ino \in Linked' \ Dirs'
                      /\ fd[k].off <= inode'[fd[k].ino].size
    BY DEF FdNames
  <2> DEFINE f == fd[k].ino
  <2>1. f \in Linked \ Dirs /\ fd[k].off <= inode[f].size
    BY DEF NameInv, FdNames
  <2>2. f \in Inodes
    BY <2>1, LinkedInodes DEF NameInv, TypeInv
  <2>3. /\ fd[k].off \in Nat
        /\ inode[f].size \in Nat /\ inode'[f].size \in Nat
    BY <2>2 DEF NameInv, TypeInv, TypeOK, DiskTypeOK, InodeRec
  <2>4. fd[k].off <= inode'[f].size
    BY <2>1, <2>2, <2>3
  <2>5. f \in Linked' \ Dirs'
    BY <1>3, <2>1, <2>2 DEF Dirs
  <2> QED BY <2>4, <2>5
<1> QED BY <1>6, <1>7

LEMMA WriteEntryNames ==
    ASSUME NameInv, TypeInv', WriteEntry PROVE NameInv'
<1>1. op.call \in {"create", "mkdir"}
  BY DEF WriteEntry, NameInv, TypeInv, TypeOK, DiskTypeOK, OpRec, OpNames,
     Calls
<1>2. DiskNames' /\ FdNames'
  <2>1. \A i \in Inodes : inode[i].size \in Nat
    BY DEF NameInv, TypeInv, TypeOK, DiskTypeOK, InodeRec
  <2>2. inode' = inode /\ fd' = fd /\ ibm' = ibm
        /\ entry' = [entry EXCEPT ![op.par][op.name] = op.ino]
    BY DEF WriteEntry
  <2> QED BY <1>1, <2>1, <2>2, LinkNames
<1>3. OpNames(op)'
  BY IdleNames DEF WriteEntry, OpNames
<1> QED BY <1>2, <1>3 DEF NameInv

(* The directory whose first block is written has no entry to lose. *)
LEMMA WriteDataEntries ==
    ASSUME NameInv, WriteData PROVE entry' = entry
<1>1. CASE op.call = "mkdir" /\ op.put = op.ino
  <2>1. op.ino \notin Linked /\ op.ino \in Inodes
    BY <1>1 DEF NameInv, OpNames, TypeInv, OpShape
  <2>2. \A n \in Names : entry[op.ino][n] = 0
    BY <2>1 DEF NameInv, DiskNames, Dirs
  <2>3. entry[op.ino] = NoEntries
    BY <2>1, <2>2 DEF NoEntries, NameInv, TypeInv, TypeOK, DiskTypeOK
  <2>4. entry' = [entry EXCEPT ![op.ino] = NoEntries]
    BY <1>1 DEF WriteData
  <2> QED BY <2>1, <2>3, <2>4 DEF NameInv, TypeInv, TypeOK, DiskTypeOK
<1>2. CASE ~(op.call = "mkdir" /\ op.put = op.ino)
  BY <1>2 DEF WriteData
<1> QED BY <1>1, <1>2

LEMMA WriteDataNames ==
    ASSUME NameInv, TypeInv', WriteData PROVE NameInv'
<1>0. /\ op \in OpRec /\ op.pc = "data" /\ op.left \in Nat
      /\ op.call \in {"create", "mkdir", "write", "fwrite"}
  BY DEF WriteData, NameInv, TypeInv, TypeOK, DiskTypeOK, OpRec, OpNames,
     Calls
<1>1. entry' = entry
  BY WriteDataEntries
<1>2. fd' = fd /\ inode' = inode /\ ibm' = ibm
  BY DEF WriteData
<1>3. CASE op.left > 1
  <2> DEFINE left == op.left - 1
             rest == [op EXCEPT !.left = left]
             next == op.lb + 1
  <2>1. op' = WalkFrom(rest, next)
    BY <1>0, <1>3 DEF WriteData, OpRec
  <2>2. rest \in OpRec /\ SameCall(rest, op)
    <3>1. left \in Nat
      BY <1>0, <1>3
    <3> HIDE DEF left
    <3> QED BY <1>0, <3>1 DEF OpRec, SameCall
  <2>3. SameCall(op', rest) /\ op'.pc = "walk"
    <3> HIDE DEF rest, next
    <3> QED BY <2>1, <2>2, WalkFromSame
  <2> HIDE DEF rest
  <2>4. SameCall(op', op)
    BY <2>2, <2>3 DEF SameCall
  <2> QED BY <1>0, <1>1, <1>2, <2>3, <2>4, OpFrame
<1>4. CASE op' = Idle
  BY <1>1, <1>2, <1>4, ReturnFrame
<1>5. CASE op' = [op EXCEPT !.pc = "iput", !.lb = @ + 1, !.left = 0]
  <2> DEFINE next == op.lb + 1
  <2>1. op' = [op EXCEPT !.pc = "iput", !.lb = next, !.left = 0]
    BY <1>0, <1>5 DEF OpRec
  <2> HIDE DEF next
  <2>2. SameCall(op', op) /\ op'.pc = "iput"
    BY <1>0, <2>1 DEF SameCall, OpRec
  <2> QED BY <1>0, <1>1, <1>2, <2>2, OpFrame
<1> QED BY <1>3, <1>4, <1>5 DEF WriteData, ReturnWithoutInode

LEMMA RunOutNames ==
    ASSUME NameInv, TypeInv', RunOut PROVE NameInv'
<1>0. op \in OpRec /\ op.pc = "walk"
  BY DEF RunOut, OutOfSpace, NameInv, TypeInv, TypeOK, DiskTypeOK
<1>1. entry' = entry /\ fd' = fd /\ inode' = inode /\ ibm' = ibm
  BY DEF RunOut, diskVars
<1>2. CASE op.call = "write" /\ op' = CutShort
  <2>1. SameCall(op', op) /\ op'.pc = "iput"
    BY <1>0, <1>2 DEF CutShort, SameCall, OpRec
  <2> QED BY <1>0, <1>1, <1>2, <2>1, OpFrame
<1>3. CASE op' = Idle
  BY <1>1, <1>3, ReturnFrame
<1>4. CASE op.call \in {"create", "mkdir"} /\ op' = Undo
  <2> DEFINE todo == FreeList(inode[op.ino])
  <2>1. \/ op' = [op EXCEPT !.pc = "free", !.todo = todo]
        \/ op' = [op EXCEPT !.pc = "ifree"]
    BY <1>4 DEF Undo
  <2> HIDE DEF todo
  <2>2. SameCall(op', op) /\ op'.pc \in {"free", "ifree"}
    BY <1>0, <2>1 DEF SameCall, OpRec
  <2> QED BY <1>0, <1>1, <1>4, <2>2, OpFrame
<1> QED BY <1>2, <1>3, <1>4 DEF RunOut, ReturnWithoutInode

LEMMA PutInodeNames ==
    ASSUME NameInv, TypeInv', PutInode PROVE NameInv'
<1>0. /\ op \in OpRec /\ op.pc = "iput" /\ op.mem \in InodeRec
      /\ op.lb \in Nat /\ op.put \in Inodes \union {0}
      /\ op.call \in {"create", "mkdir", "write", "fwrite"}
  BY DEF PutInode, NameInv, TypeInv, TypeOK, DiskTypeOK, OpRec, OpNames,
     Calls
<1> DEFINE rec == Stored
<1>1. /\ rec \in InodeRec /\ rec.dir = op.mem.dir
      /\ rec.size >= op.mem.size /\ rec.size >= op.lb
  <2> DEFINE size == IF op.lb > op.mem.size THEN op.lb ELSE op.mem.size
  <2>1. rec = [op.mem EXCEPT !.size = size]
    BY <1>0 DEF Stored, InodeRec
  <2>2. op.mem.size \in Nat
    BY <1>0 DEF InodeRec
  <2>3. size \in Nat /\ size >= op.mem.size /\ size >= op.lb
    BY <1>0, <2>2
  <2> HIDE DEF rec, size
  <2> QED BY <1>0, <2>1, <2>3 DEF InodeRec
<1>2. /\ inode' = [inode EXCEPT ![op.put] = rec] /\ ibm' = ibm
      /\ inode \in [Inodes -> InodeRec]
  BY DEF PutInode, NameInv, TypeInv, TypeOK, DiskTypeOK
<1> HIDE DEF rec
<1>3. \A i \in Inodes : /\ inode'[i].dir = inode[i].dir
                        /\ inode'[i].size >= inode[i].size
  <2> TAKE i \in Inodes
  <2>1. inode[i].size \in Nat
    BY <1>2 DEF InodeRec
  <2>2. CASE i = op.put
    <3>1. i # 0
      BY RootIsInode
    <3>2. op.mem.dir = inode[i].dir /\ op.mem.size = inode[i].size
      BY <1>0, <2>2, <3>1 DEF NameInv, OpNames
    <3> QED BY <1>1, <1>2, <2>2, <3>2
  <2>3. CASE i # op.put
    BY <1>2, <2>1, <2>3
  <2> QED BY <2>2, <2>3
<1>4. \A i \in Linked : /\ inode'[i].dir = inode[i].dir
                        /\ inode'[i].size >= inode[i].size
  BY <1>3, LinkedInodes DEF NameInv, TypeInv
<1>5. CASE op.call \in {"write", "fwrite"}
  <2>1. /\ op.put = op.ino /\ op.ino \in Linked \ Dirs /\ op.put # op.par
        /\ op.ino \in Inodes
        /\ op.call = "write" => op.fd \in Fds /\ fd[op.fd].ino = op.ino
    BY <1>5, RootIsInode, LinkedInodes DEF NameInv, OpNames, TypeInv
  <2>2. entry' = entry /\ op' = Idle
    BY <1>5, <2>1 DEF PutInode
  <2>3. Linked' = Linked /\ Dirs' = Dirs
    BY <1>4, <2>2, LinksFrame DEF NameInv, TypeInv
  <2>4. DiskNames'
    BY <1>2, <1>4, <2>2, DiskFrame
  <2>5. FdNames'
    <3> SUFFICES ASSUME NEW k \in Fds, fd'[k].ino # 0
                 PROVE  /\ fd'[k].ino \in Linked \ Dirs
                        /\ fd'[k].off <= inode'[fd'[k].ino].size
      BY <2>3 DEF FdNames
    <3>1. fd \in [Fds -> [ino : Inodes \union {0}, off : Nat]]
      BY DEF NameInv, TypeInv, TypeOK
    <3>2. CASE fd'[k] = fd[k]
      <4> DEFINE i == fd[k].ino
      <4>1. i \in Linked \ Dirs /\ fd[k].off <= inode[i].size
        BY <3>2 DEF NameInv, FdNames
      <4>2. i \in Inodes /\ fd[k].off \in Nat
        BY <3>1, <4>1, LinkedInodes DEF NameInv, TypeInv
      <4>3. inode[i].size \in Nat /\ inode'[i].size \in Nat
        BY <4>2 DEF NameInv, TypeInv, TypeOK, DiskTypeOK, InodeRec
      <4>4. fd[k].off <= inode'[i].size
        BY <1>3, <4>1, <4>2, <4>3
      <4> QED BY <3>2, <4>1, <4>4
    <3>3. CASE fd'[k] # fd[k]
      <4>1. op.call = "write" /\ k = op.fd
        BY <3>1, <3>3 DEF PutInode
      <4>2. fd'[k] = [fd[k] EXCEPT !.off = op.lb]
        BY <2>1, <3>1, <4>1 DEF PutInode
      <4>3. fd'[k].ino = op.ino /\ fd'[k].off = op.lb
        BY <2>1, <3>1, <4>1, <4>2
      <4>4. inode'[op.ino] = rec
        BY <1>2, <2>1
      <4> QED BY <1>0, <1>1, <2>1, <4>3, <4>4
    <3> QED BY <3>2, <3>3
  <2>6. OpNames(op)'
    BY <2>2, IdleNames DEF OpNames
  <2> QED BY <2>4, <2>5, <2>6 DEF NameInv
<1>6. CASE op.call \in {"create", "mkdir"}
  <2>0. fd' = fd
    BY <1>6 DEF PutInode
  <2>1. /\ op.ino \notin Linked /\ op.ino \in Inodes /\ op.ino \in ibm
        /\ op.par \in Dirs /\ op.par \in Inodes
        /\ entry[op.par][op.name] = 0
    BY <1>6 DEF NameInv, OpNames, TypeInv, OpShape
  <2>2. CASE op.put = op.par
    <3>1. entry' = [entry EXCEPT ![op.par][op.name] = op.ino] /\ op' = Idle
      BY <2>1, <2>2 DEF PutInode, Dirs
    <3>2. DiskNames' /\ FdNames'
      BY <1>2, <1>3, <1>6, <2>0, <3>1, LinkNames
    <3>3. OpNames(op)'
      BY <3>1, IdleNames DEF OpNames
    <3> QED BY <3>2, <3>3 DEF NameInv
  <2>3. CASE op.put # op.par
    <3>1. entry' = entry
      BY <2>3 DEF PutInode
    <3>2. DiskNames' /\ FdNames'
      BY <1>2, <1>4, <2>0, <3>1, DiskFrame, FdFrame
    <3>3. Linked' = Linked /\ Dirs' = Dirs
      BY <1>4, <3>1, LinksFrame DEF NameInv, TypeInv
    <3>4. CASE op' = Idle
      BY <3>2, <3>4, IdleNames DEF NameInv, OpNames
    <3>5. CASE op.call = "mkdir" /\ op' = AddEntry(op)
      <4>1. /\ op'.call = "mkdir" /\ op'.ino = op.ino /\ op'.par = op.par
            /\ op'.name = op.name /\ op'.put = op.par
            /\ op'.mem.dir = inode[op.par].dir
            /\ op'.mem.size = inode[op.par].size
            /\ op'.pc \in {"walk", "dirent"}
        BY <1>0, <2>1, <3>5, AddEntrySame DEF NameInv, TypeInv
      <4>2. inode'[op.par] = inode[op.par]
        BY <1>2, <2>1, <2>3
      <4>3. OpNames(op)'
        BY <1>2, <2>1, <3>1, <3>3, <4>1, <4>2 DEF OpNames
      <4> QED BY <3>2, <4>3 DEF NameInv
    <3> QED BY <3>4, <3>5 DEF PutInode
  <2> QED BY <2>2, <2>3
<1> QED BY <1>0, <1>5, <1>6

LEMMA CallNames ==
    ASSUME NameInv, TypeInv', Call PROVE NameInv'
<1>0. \A n \in 1 .. MaxWrite : n \in Nat
  BY CallAssumption
<1>1. ASSUME NEW d \in Inodes, NEW n \in Names, Create(d, n) \/ Mkdir(d, n)
      PROVE  NameInv'
  BY <1>1, NewInodeNames DEF Create, Mkdir, Ready
<1>2. ASSUME NEW d \in Inodes, NEW n \in Names, Delete(d, n) \/ Rmdir(d, n)
      PROVE  NameInv'
  BY <1>2, RemoveNames DEF Delete, Rmdir, Ready
<1>3. ASSUME NEW d \in Inodes, NEW n \in Names, Open(d, n)
      PROVE  NameInv'
  <2> PICK k \in Fds :
        fd' = [fd EXCEPT ![k] = [ino |-> entry[d][n], off |-> 0]]
    BY <1>3 DEF Open
  <2> DEFINE i == entry[d][n]
  <2>1. /\ i \in Linked \ Dirs /\ i \in Inodes
        /\ fd \in [Fds -> [ino : Inodes \union {0}, off : Nat]]
    BY <1>3 DEF Open, Linked, Dirs, NameInv, TypeInv, TypeOK, DiskTypeOK
  <2>2. inode[i].size \in Nat
    BY <2>1 DEF NameInv, TypeInv, TypeOK, DiskTypeOK, InodeRec
  <2>3. /\ entry' = entry /\ inode' = inode /\ ibm' = ibm /\ op' = op
        /\ Linked' = Linked /\ Dirs' = Dirs
    BY <1>3 DEF Open, diskVars, Linked, Dirs
  <2>4. FdNames'
    <3> HIDE DEF i
    <3>1. fd' = [fd EXCEPT ![k] = [ino |-> i, off |-> 0]]
      BY DEF i
    <3> QED BY <2>1, <2>2, <2>3, <3>1 DEF FdNames, NameInv
  <2>5. OpNames(op)'
    BY <1>3, <2>3 DEF Open, Ready, NameInv, OpNames
  <2> QED BY <2>3, <2>4, <2>5 DEF NameInv, DiskNames
<1>4. ASSUME NEW k \in Fds, Close(k)
      PROVE  NameInv'
  <2>1. /\ entry' = entry /\ inode' = inode /\ ibm' = ibm /\ op' = op
        /\ Linked' = Linked /\ Dirs' = Dirs /\ op.pc = "idle"
    BY <1>4 DEF Close, diskVars, Linked, Dirs, Ready
  <2>2. FdNames'
    BY <1>4, <2>1 DEF Close, NoFile, FdNames, NameInv, TypeInv, TypeOK
  <2>3. OpNames(op)'
    BY <2>1 DEF NameInv, OpNames
  <2> QED BY <2>1, <2>2, <2>3 DEF NameInv, DiskNames
<1>5. ASSUME NEW k \in Fds, NEW n \in 1 .. MaxWrite, Read(k, n)
      PROVE  NameInv'
  <2>1. /\ entry' = entry /\ inode' = inode /\ ibm' = ibm /\ op' = op
        /\ Linked' = Linked /\ Dirs' = Dirs /\ op.pc = "idle"
    BY <1>5 DEF Read, diskVars, Linked, Dirs, Ready
  <2>2. FdNames'
    BY <1>5, <2>1 DEF Read, FdNames, NameInv, TypeInv, TypeOK
  <2>3. OpNames(op)'
    BY <2>1 DEF NameInv, OpNames
  <2> QED BY <2>1, <2>2, <2>3 DEF NameInv, DiskNames
<1>6. ASSUME NEW k \in Fds, NEW n \in 1 .. MaxWrite, Write(k, n)
      PROVE  NameInv'
  <2>1. fd[k].ino \in Linked \ Dirs
    BY <1>6 DEF Write, NameInv, FdNames
  <2>2. fd[k].off \in Nat
    BY DEF NameInv, TypeInv, TypeOK
  <2>3. op.pc = "idle" /\ BeginWrite("write", fd[k].ino, k, fd[k].off, n)
    BY <1>6 DEF Write, Ready
  <2> QED BY <1>0, <2>1, <2>2, <2>3, BeginWriteNames
<1>7. ASSUME NEW i \in Inodes, NEW lb \in 0 .. MaxSize,
             NEW n \in 1 .. MaxWrite, FuseWrite(i, lb, n)
      PROVE  NameInv'
  <2>1. lb \in Nat
    BY CallAssumption
  <2> QED BY <1>0, <1>7, <2>1, BeginWriteNames DEF FuseWrite, Ready
<1> QED BY <1>1, <1>2, <1>3, <1>4, <1>5, <1>6, <1>7 DEF Call

LEMMA NameStep == NameInv /\ [Next]_vars => NameInv'
<1> SUFFICES ASSUME NameInv, [Next]_vars PROVE NameInv'
  OBVIOUS
<1>0. TypeInv'
  BY TypeStep DEF NameInv
<1>1. ASSUME NEW m \in Modes, Start(m) PROVE NameInv'
  <2>1. /\ entry' = entry /\ inode' = inode /\ ibm' = ibm /\ op' = op
        /\ fd' = fd /\ Linked' = Linked /\ Dirs' = Dirs
    BY <1>1 DEF Start, diskVars, Linked, Dirs
  <2> QED BY <1>0, <2>1 DEF NameInv, DiskNames, FdNames, OpNames
<1>2. CASE Gone
  <2>1. /\ entry' = entry /\ inode' = inode /\ ibm' = ibm /\ op' = Idle
        /\ Linked' = Linked /\ Dirs' = Dirs
    BY <1>2 DEF Gone, diskVars, Linked, Dirs
  <2>2. FdNames'
    BY <1>2 DEF Gone, NoFile, FdNames
  <2>3. OpNames(op)'
    BY <2>1, IdleNames DEF OpNames
  <2> QED BY <1>0, <2>1, <2>2, <2>3 DEF NameInv, DiskNames
<1>3. CASE Call
  BY <1>0, <1>3, CallNames
<1>4. CASE Continue
  BY <1>0, <1>4, MapNames, FreeNames, InitInodeNames, WriteEntryNames,
     WriteDataNames, RunOutNames, PutInodeNames DEF Continue
<1>5. CASE UNCHANGED vars
  <2>1. /\ entry' = entry /\ inode' = inode /\ ibm' = ibm /\ op' = op
        /\ fd' = fd /\ Linked' = Linked /\ Dirs' = Dirs
    BY <1>5 DEF vars, diskVars, Linked, Dirs
  <2> QED BY <1>0, <2>1 DEF NameInv, DiskNames, FdNames, OpNames
<1> QED BY <1>1, <1>2, <1>3, <1>4, <1>5 DEF Next, Exit, Kill

(* What naming and unnaming an inode do to the set of linked inodes. *)
LEMMA LinkedAfterNaming ==
    ASSUME NameInv, TypeInv', op.call \in {"create", "mkdir"},
           entry' = [entry EXCEPT ![op.par][op.name] = op.ino]
    PROVE  Linked' = Linked \union {op.ino}
<1> DEFINE i == op.ino
           d == op.par
           n == op.name
<1>0. /\ i \in Inodes /\ d \in Inodes /\ n \in Names
      /\ entry[d][n] = 0 /\ i # 0
      /\ entry \in [Inodes -> [Names -> Inodes \union {0}]]
  BY RootIsInode DEF NameInv, OpNames, TypeInv, TypeOK, DiskTypeOK, OpShape, OpRec
<1>1. \A e \in Inodes, m \in Names :
        entry'[e][m] = IF e = d /\ m = n THEN i ELSE entry[e][m]
  BY <1>0
<1>2. \A x : x \in Linked' <=> x \in Linked \/ x = i
  <2>1. \A x : x \in Linked' <=>
             \/ x = Root
             \/ x # 0 /\ \E e \in Inodes, m \in Names : entry'[e][m] = x
    BY DEF Linked, TypeInv, TypeOK, DiskTypeOK
  <2> QED BY <1>0, <1>1, <2>1, LinkedIs DEF NameInv, TypeInv
<1> QED BY <1>2

LEMMA LinkedAfterRemove ==
    ASSUME NameInv, TypeInv', NEW d \in Inodes, NEW n \in Names,
           entry[d][n] # 0, entry' = [entry EXCEPT ![d][n] = 0]
    PROVE  Linked' = Linked \ {entry[d][n]} /\ entry[d][n] \in Linked
<1> DEFINE i == entry[d][n]
<1>0. entry \in [Inodes -> [Names -> Inodes \union {0}]]
  BY DEF NameInv, TypeInv, TypeOK, DiskTypeOK
<1>1. \A e \in Inodes, m \in Names :
        entry'[e][m] = IF e = d /\ m = n THEN 0 ELSE entry[e][m]
  BY <1>0
<1>2. \A e \in Inodes, m \in Names : entry[e][m] = i => e = d /\ m = n
  BY DEF NameInv, DiskNames
<1>3. i # Root /\ i \in Linked
  BY DEF NameInv, DiskNames, Linked
<1>4. \A x : x \in Linked' <=> x \in Linked /\ x # i
  <2>1. \A x : x \in Linked' <=>
             \/ x = Root
             \/ x # 0 /\ \E e \in Inodes, m \in Names : entry'[e][m] = x
    BY DEF Linked, TypeInv, TypeOK, DiskTypeOK
  <2> QED BY <1>1, <1>2, <1>3, <2>1, LinkedIs DEF NameInv, TypeInv
<1> QED BY <1>3, <1>4

(* Every set of linked inodes is entered from outside it. *)
Rooted ==
    \A S \in SUBSET (Linked \ {Root}) : S # {} =>
      \E d \in Inodes \ S, n \in Names : entry[d][n] \in S

LEMMA RootedInit == Init => Rooted
<1> SUFFICES ASSUME Init PROVE Linked = {Root}
  BY DEF Rooted
<1> QED BY DEF Init, Linked, NoEntries

LEMMA RootedNaming ==
    ASSUME NameInv, TypeInv', Rooted, op.call \in {"create", "mkdir"},
           entry' = [entry EXCEPT ![op.par][op.name] = op.ino]
    PROVE  Rooted'
<1>1. Linked' = Linked \union {op.ino}
  BY LinkedAfterNaming
<1>2. PICK i, d, n : i = op.ino /\ d = op.par /\ n = op.name
  OBVIOUS
<1>3. /\ i \in Inodes /\ i \notin Linked /\ d \in Inodes /\ n \in Names
      /\ d \in Linked /\ entry[d][n] = 0
      /\ entry \in [Inodes -> [Names -> Inodes \union {0}]]
  BY <1>2, RootIsInode, LinkedIsMarkedInode
  DEF NameInv, OpNames, TypeInv, TypeOK, DiskTypeOK, OpShape, OpRec, Dirs
<1>4. \A e \in Inodes, m \in Names :
        entry'[e][m] = IF e = d /\ m = n THEN i ELSE entry[e][m]
  BY <1>2, <1>3
<1>5. ASSUME NEW S \in SUBSET (Linked' \ {Root}), S # {}
      PROVE  \E e \in Inodes \ S, m \in Names : entry'[e][m] \in S
  <2>1. CASE S \subseteq {i}
    <3>1. d \notin S /\ i \in S
      BY <1>3, <1>5, <2>1
    <3> QED BY <1>3, <1>4, <3>1
  <2>2. CASE ~(S \subseteq {i})
    <3>1. S \ {i} \in SUBSET (Linked \ {Root}) /\ S \ {i} # {}
      BY <1>1, <1>2, <2>2
    <3>2. PICK e \in Inodes \ (S \ {i}), m \in Names : entry[e][m] \in S \ {i}
      BY <3>1 DEF Rooted
    <3>3. entry[e][m] # 0
      BY <3>1, <3>2, RootIsInode, LinkedInodes DEF NameInv, TypeInv
    <3>4. e \in Linked
      BY <3>2, <3>3 DEF NameInv, DiskNames, Dirs
    <3>5. e \notin S /\ ~(e = d /\ m = n)
      BY <1>3, <3>2, <3>3, <3>4
    <3> QED BY <1>4, <3>2, <3>5
  <2> QED BY <2>1, <2>2
<1> QED BY <1>5 DEF Rooted

LEMMA RootedRemove ==
    ASSUME NameInv, TypeInv', Rooted, NEW d \in Inodes, NEW n \in Names,
           entry[d][n] # 0, entry' = [entry EXCEPT ![d][n] = 0]
    PROVE  Rooted'
<1>1. Linked' = Linked \ {entry[d][n]}
  BY LinkedAfterRemove
<1>2. entry \in [Inodes -> [Names -> Inodes \union {0}]]
  BY DEF NameInv, TypeInv, TypeOK, DiskTypeOK
<1>3. ASSUME NEW S \in SUBSET (Linked' \ {Root}), S # {}
      PROVE  \E e \in Inodes \ S, m \in Names : entry'[e][m] \in S
  <2>1. S \in SUBSET (Linked \ {Root}) /\ entry[d][n] \notin S
    BY <1>1
  <2>2. PICK e \in Inodes \ S, m \in Names : entry[e][m] \in S
    BY <1>3, <2>1 DEF Rooted
  <2>3. ~(e = d /\ m = n)
    BY <2>1, <2>2
  <2>4. entry'[e][m] = entry[e][m]
    BY <1>2, <2>3
  <2> QED BY <2>2, <2>4
<1> QED BY <1>3 DEF Rooted

LEMMA RootedFrame == ASSUME Rooted, entry' = entry PROVE Rooted'
<1>1. Linked' = Linked
  BY DEF Linked
<1>2. ASSUME NEW S \in SUBSET (Linked' \ {Root}), S # {}
      PROVE  \E d \in Inodes \ S, n \in Names : entry'[d][n] \in S
  BY <1>1, <1>2 DEF Rooted
<1> QED BY <1>2 DEF Rooted

LEMMA RootedStep ==
    ASSUME NameInv, Rooted, [Next]_vars PROVE Rooted'
<1>0. TypeInv'
  BY TypeStep DEF NameInv
<1>1. CASE UNCHANGED vars \/ (\E m \in Modes : Start(m)) \/ Exit \/ Kill
  BY <1>1, RootedFrame DEF vars, diskVars, Start, Exit, Kill, Gone
<1>2. CASE Call
  <2>1. ASSUME NEW d \in Inodes, NEW n \in Names, Delete(d, n) \/ Rmdir(d, n)
        PROVE  Rooted'
    <3>1. entry[d][n] # 0 /\ entry' = [entry EXCEPT ![d][n] = 0]
      BY <2>1 DEF Delete, Rmdir, Remove
    <3> QED BY <1>0, <3>1, RootedRemove
  <2>2. ASSUME NEW d \in Inodes, NEW n \in Names,
               Create(d, n) \/ Mkdir(d, n) \/ Open(d, n)
        PROVE  Rooted'
    BY <2>2, RootedFrame DEF Create, Mkdir, NewInode, Open, diskVars
  <2>3. ASSUME NEW k \in Fds, Close(k) PROVE Rooted'
    BY <2>3, RootedFrame DEF Close, diskVars
  <2>4. ASSUME NEW k \in Fds, NEW n \in 1 .. MaxWrite, Read(k, n) \/ Write(k, n)
        PROVE  Rooted'
    BY <2>4, RootedFrame DEF Read, Write, BeginWrite, diskVars
  <2>5. ASSUME NEW i \in Inodes, NEW lb \in 0 .. MaxSize,
               NEW n \in 1 .. MaxWrite, FuseWrite(i, lb, n)
        PROVE  Rooted'
    BY <2>5, RootedFrame DEF FuseWrite, BeginWrite, diskVars
  <2> QED BY <1>2, <2>1, <2>2, <2>3, <2>4, <2>5 DEF Call
<1>3. CASE Map \/ Free \/ InitInode \/ RunOut
  BY <1>3, RootedFrame
  DEF Map, FollowPointer, AllocBlock, ZeroBlock, LinkBlock, Free,
      ExpandPointerBlock, FreeBlock, ClearInode, FreeInode, InitInode, RunOut,
      diskVars
<1>4. CASE WriteData
  BY <1>4, WriteDataEntries, RootedFrame
<1>5. CASE WriteEntry \/ PutInode
  <2>1. \/ entry' = entry
        \/ /\ op.call \in {"create", "mkdir"}
           /\ entry' = [entry EXCEPT ![op.par][op.name] = op.ino]
    <3>1. CASE WriteEntry
      BY <3>1 DEF WriteEntry, NameInv, TypeInv, TypeOK, DiskTypeOK, OpRec, OpNames,
         Calls
    <3>2. CASE PutInode
      <4>1. op.call \in {"create", "mkdir", "write", "fwrite"}
        BY <3>2 DEF PutInode, NameInv, TypeInv, TypeOK, DiskTypeOK, OpRec, OpNames,
           Calls
      <4>2. op.call \in {"write", "fwrite"} => op.put # op.par
        BY RootIsInode, LinkedInodes DEF NameInv, OpNames, TypeInv
      <4> QED BY <3>2, <4>1, <4>2 DEF PutInode
    <3> QED BY <1>5, <3>1, <3>2
  <2> QED BY <1>0, <2>1, RootedNaming, RootedFrame
<1> QED BY <1>1, <1>2, <1>3, <1>4, <1>5 DEF Next, Continue

(* At every step, and after a crash at any step, directory entries form a
   tree: no entry of create, mkdir, delete or rmdir is ever left pointing at
   an inode that is free, or at one that has another name, and no set of
   directories is cut off from the root. *)
THEOREM EntriesFormTreeAlways == Spec => []EntriesFormTree
<1>1. NameInv /\ Rooted => EntriesFormTree
  <2> SUFFICES ASSUME NameInv, Rooted PROVE EntriesFormTree
    OBVIOUS
  <2>1. \A d \in Inodes, n \in Names : entry[d][n] # 0 => d \in Dirs
    BY DEF NameInv, DiskNames
  <2>2. \A l, m \in Inodes \X Names :
          entry[l[1]][l[2]] = entry[m[1]][m[2]] /\ l # m
            => entry[l[1]][l[2]] = 0
    BY DEF NameInv, DiskNames
  <2>3. Root \notin {entry[d][n] : d \in Inodes, n \in Names}
    BY RootIsInode DEF NameInv, DiskNames
  <2> QED BY <2>1, <2>2, <2>3 DEF EntriesFormTree, Rooted
<1>2. Init => NameInv /\ Rooted
  BY NameInit, RootedInit
<1>3. NameInv /\ Rooted /\ [Next]_vars => (NameInv /\ Rooted)'
  BY NameStep, RootedStep
<1> QED BY <1>1, <1>2, <1>3, PTL DEF Spec

(* delete refuses a file that is open, so the inode behind an open file stays
   the same linked file, and its offset never passes the end of it. *)
THEOREM OpenFilesLiveAlways == Spec => []OpenFilesLive
<1>1. NameInv => OpenFilesLive
  BY DEF NameInv, FdNames, OpenFilesLive
<1> QED BY <1>1, NameInit, NameStep, PTL DEF Spec

=============================================================================
