-------------------------- MODULE OscdfsBlockProofs --------------------------
(***************************************************************************)
(* No block has two owners, nothing in use is free, and no pointer leads   *)
(* into an uncleared block: the properties of Oscdfs about blocks, proved  *)
(* for every size of the disk from the owner map of OscdfsOwners.          *)
(***************************************************************************)
EXTENDS OscdfsOwners, OscdfsProofs

(* The inductive invariant: some owner map fits. *)
BlockInv == NameInv /\ \E h \in HomeMap : Owned(h)

-----------------------------------------------------------------------------
(* Slots, levels and indices. *)

LEMMA IndicesLength ==
    ASSUME NEW lb \in Nat
    PROVE  /\ Len(Indices(lb)) = LevelOf(lb)
           /\ DepthOf(SlotOf(lb)) = LevelOf(lb)
<1>0. LevelOf(lb) \in 0 .. NLevel /\ NLevel \in Nat /\ NDirect \in Nat
  BY LevelType, DiskAssumption
<1>1. Len(Indices(lb)) = LevelOf(lb)
  <2> DEFINE level == LevelOf(lb)
             index(j) == ((lb - Reach(level - 1)) \div Span(level - j)) % NPtr
  <2>1. Indices(lb) = [j \in 1 .. level |-> index(j)]
    BY DEF Indices
  <2>2. level \in Nat
    BY <1>0
  <2>3. Indices(lb) \in Seq(0 .. NPtr - 1)
    BY IndicesType
  <2> HIDE DEF level, index
  <2>4. DOMAIN Indices(lb) = 1 .. level
    BY <2>1
  <2> QED BY <2>2, <2>3, <2>4 DEF level
<1>2. CASE LevelOf(lb) = 0
  <2>1. SlotOf(lb) = lb /\ SlotOf(lb) \in Slots
    BY <1>2, SlotType DEF SlotOf
  <2>2. lb < NDirect
    <3> DEFINE passed == {level \in 0 .. NLevel - 1 : Reach(level) <= lb}
    <3>1. IsFiniteSet(0 .. NLevel - 1)
      BY <1>0, FS_Interval
    <3>4. IsFiniteSet(passed)
      BY <3>1, FS_Subset
    <3>2. 0 \notin passed
      BY <1>2, <3>4, FS_EmptySet DEF LevelOf
    <3>3. ~(Reach(0) <= lb)
      BY <3>2, DiskAssumption
    <3> QED BY <1>0, <3>3 DEF Reach
  <2> QED BY <1>0, <1>1, <1>2, <2>1, <2>2 DEF DepthOf
<1>3. CASE LevelOf(lb) # 0
  BY <1>0, <1>1, <1>3 DEF DepthOf, SlotOf
<1> QED BY <1>1, <1>2, <1>3

LEMMA DepthType == ASSUME NEW s \in Slots PROVE DepthOf(s) \in 0 .. NLevel
BY DiskAssumption DEF Slots, DepthOf

LEMMA PlaceFields ==
    ASSUME NEW i, NEW level, NEW at, NEW k
    PROVE  /\ Place(i, level, at, k).ino = i
           /\ Place(i, level, at, k).level = level
           /\ Place(i, level, at, k).at = at
           /\ Place(i, level, at, k).k = k
BY DEF Place

LEMMA HomeTypes ==
    ASSUME NEW h \in HomeMap, NEW b \in Blocks
    PROVE  /\ h[b] \in Places
           /\ h[b].ino \in Inodes \union {0} /\ h[b].level \in 0 .. NLevel
           /\ h[b].at \in Blocks \union {0} /\ h[b].k \in Nat
BY DEF HomeMap, Places

LEMMA LinkedLive == Linked \subseteq Live
BY DEF Live

LEMMA LiveInodes == ASSUME NameInv PROVE Live \subseteq Inodes
<1>1. op.call \in {"create", "mkdir"} => op.ino \in Inodes
  BY DEF NameInv, TypeInv, OpShape
<1> QED BY <1>1, LinkedInodes DEF NameInv, TypeInv, Live, Making

-----------------------------------------------------------------------------
(* What the owner map says of the tree below an inode. *)

(* A piece of the tree below inode i is a block that has its place there. *)
Fits(h, i, x) ==
    /\ x = <<x[1], x[2]>> /\ x[1] \in Blocks /\ x[2] \in 0 .. NLevel
    /\ h[x[1]].ino = i /\ h[x[1]].level = x[2]
    /\ Cleared(x[1], x[2])

LEMMA GrowFits ==
    ASSUME NameInv, NEW h \in HomeMap, BlocksOwn(h), NEW i \in Linked,
           NEW P, \A x \in P : Fits(h, i, x)
    PROVE  \A x \in Grow(P) : Fits(h, i, x)
<1> SUFFICES ASSUME NEW x \in Kids(P) PROVE Fits(h, i, x)
  BY DEF Grow
<1> PICK p \in P : p[2] > 0 /\ x \in {<<c, p[2] - 1>> : c \in Children(p[1])}
  BY DEF Kids
<1> PICK c \in Children(p[1]) : x = <<c, p[2] - 1>>
  OBVIOUS
<1> PICK k \in 0 .. NPtr - 1 : c = array[p[1]][k] /\ c # 0
  BY DEF Children
<1>1. Fits(h, i, p)
  OBVIOUS
<1>2. p[1] \in Blocks /\ p[2] \in 1 .. NLevel /\ kind[p[1]] = "ptrs"
  BY <1>1, DiskAssumption DEF Fits, Cleared
<1>3. c \in Blocks
  <2>1. array[p[1]] \in PtrArray
    BY <1>2 DEF NameInv, TypeInv, TypeOK, DiskTypeOK
  <2> QED BY <2>1 DEF PtrArray
<1>4. i \in Live
  BY LinkedLive
<1>5. h[c] = Place(i, p[2] - 1, p[1], k) /\ Cleared(c, p[2] - 1)
  BY <1>1, <1>2, <1>4 DEF BlocksOwn, Fits
<1> DEFINE level == p[2] - 1
<1>6. level \in 0 .. NLevel /\ x = <<c, level>>
  BY <1>2, DiskAssumption
<1> HIDE DEF level
<1>7. h[c].ino = i /\ h[c].level = level /\ Cleared(c, level)
  BY <1>5, PlaceFields DEF level
<1> QED BY <1>3, <1>6, <1>7 DEF Fits

LEMMA TreeFits ==
    ASSUME NameInv, NEW h \in HomeMap, Owned(h), NEW i \in Linked
    PROVE  \A x \in Tree(inode[i]) : Fits(h, i, x)
<1>1. ASSUME NEW x \in ToFree(inode[i]) PROVE Fits(h, i, x)
  <2> PICK s \in Slots : inode[i].ptr[s] # 0 /\ x = <<inode[i].ptr[s], DepthOf(s)>>
    BY DEF ToFree
  <2> DEFINE b == inode[i].ptr[s]
             level == DepthOf(s)
  <2>1. i \in Inodes /\ i \in Live
    BY LinkedInodes, LinkedLive DEF NameInv, TypeInv
  <2>2. b \in Blocks
    BY <2>1 DEF NameInv, TypeInv, TypeOK, DiskTypeOK, InodeRec
  <2>3. h[b] = Place(i, level, 0, s) /\ Cleared(b, level)
    BY <2>1 DEF Owned, InodesOwn, SlotsOwn
  <2>4. level \in 0 .. NLevel /\ x = <<b, level>>
    BY DepthType
  <2> HIDE DEF b, level
  <2> QED BY <2>2, <2>3, <2>4, PlaceFields DEF Fits
<1>2. BlocksOwn(h)
  BY DEF Owned
<1> QED BY <1>1, <1>2, GrowFits DEF Tree

LEMMA ForestFits ==
    ASSUME NameInv, NEW h \in HomeMap, Owned(h), NEW x \in Forest
    PROVE  \E i \in Linked : Fits(h, i, x)
BY TreeFits DEF Forest

LEMMA LinkedIsMarkedFrom == BlockInv => LinkedIsMarked
<1> SUFFICES ASSUME NameInv, NEW h \in HomeMap, Owned(h)
             PROVE  LinkedIsMarked
  BY DEF BlockInv
<1>1. ASSUME NEW x \in Forest PROVE x[1] \in bbm
  <2> PICK i \in Linked : Fits(h, i, x)
    BY ForestFits
  <2> QED BY LinkedLive DEF Fits, Owned, OwnedIsMarked
<1> QED BY <1>1, LinkedIsMarkedInode DEF LinkedIsMarked, Mapped

LEMMA PointersInitialisedFrom == BlockInv => PointersInitialised
<1> SUFFICES ASSUME NameInv, NEW h \in HomeMap, Owned(h)
             PROVE  PointersInitialised
  BY DEF BlockInv
<1>1. ASSUME NEW x \in Forest, x[2] > 0 PROVE kind[x[1]] = "ptrs"
  BY <1>1, ForestFits DEF Fits, Cleared
<1>2. ASSUME NEW x \in ToFree(op.mem), x[2] > 0, op.pc # "zero"
      PROVE  kind[x[1]] = "ptrs"
  <2> PICK s \in Slots : op.mem.ptr[s] # 0 /\ x = <<op.mem.ptr[s], DepthOf(s)>>
    BY DEF ToFree
  <2> QED BY <1>2 DEF Owned, MemOwns, Cleared
<1> QED BY <1>1, <1>2 DEF PointersInitialised

(* Where the only pointer to a block can be. *)
Spot(place) ==
    IF place.at = 0 THEN <<"inode", <<place.ino, place.k>>>>
    ELSE <<"block", <<place.at, place.k>>>>

LEMMA NoSharedBlockFrom == BlockInv => NoSharedBlock
<1> SUFFICES ASSUME NameInv, NEW h \in HomeMap, Owned(h), NEW b \in Blocks
             PROVE  Cardinality(PointersTo(b)) <= 1
  BY DEF BlockInv, NoSharedBlock
<1>0. b # 0 /\ 0 \notin Blocks
  BY DEF Blocks
<1>1. ASSUME NEW l \in Linked \X Slots, inode[l[1]].ptr[l[2]] = b
      PROVE  <<"inode", l>> = Spot(h[b])
  <2>1. l = <<l[1], l[2]>> /\ l[1] \in Live /\ l[2] \in Slots
    BY LinkedLive
  <2>2. h[b] = Place(l[1], DepthOf(l[2]), 0, l[2])
    BY <1>0, <1>1, <2>1 DEF Owned, InodesOwn, SlotsOwn
  <2> QED BY <2>1, <2>2, PlaceFields DEF Spot
<1>2. ASSUME NEW l \in PointerBlocks \X (0 .. NPtr - 1), array[l[1]][l[2]] = b
      PROVE  <<"block", l>> = Spot(h[b])
  <2>1. l = <<l[1], l[2]>> /\ l[2] \in 0 .. NPtr - 1
    OBVIOUS
  <2> PICK x \in Forest : x[2] > 0 /\ l[1] = x[1]
    BY DEF PointerBlocks
  <2> PICK i \in Linked : Fits(h, i, x)
    BY ForestFits
  <2>2. /\ l[1] \in Blocks /\ h[l[1]].ino \in Live /\ h[l[1]].level > 0
        /\ kind[l[1]] = "ptrs"
    BY LinkedLive DEF Fits, Cleared
  <2>3. h[b] = Place(h[l[1]].ino, h[l[1]].level - 1, l[1], l[2])
    BY <1>0, <1>2, <2>1, <2>2 DEF Owned, BlocksOwn
  <2>4. l[1] # 0
    BY <1>0, <2>2
  <2> QED BY <2>1, <2>3, <2>4, PlaceFields DEF Spot
<1>3. PointersTo(b) \subseteq {Spot(h[b])}
  BY <1>1, <1>2 DEF PointersTo
<1>4. IsFiniteSet({Spot(h[b])}) /\ Cardinality({Spot(h[b])}) = 1
  BY FS_Singleton
<1> HIDE DEF Spot
<1>5. Cardinality(PointersTo(b)) <= Cardinality({Spot(h[b])})
  BY <1>3, <1>4, FS_Subset
<1> QED BY <1>4, <1>5

-----------------------------------------------------------------------------
(* What a step leaves alone. *)

LEMMA HomesSame ==
    ASSUME NEW h \in HomeMap, bbm' \subseteq bbm,
           op.pc # "iinit" \/ op'.pc \notin {"walk", "dirent"}
    PROVE  Homes(h) = h
<1>1. \A b \in Blocks : Homes(h)[b] = h[b]
  BY DEF Homes
<1> QED BY <1>1 DEF Homes, HomeMap

(* A step that writes no block. *)
LEMMA OwnFrame ==
    ASSUME NameInv, NEW h \in HomeMap, Owned(h),
           inode' = inode, array' = array, kind' = kind, bbm' = bbm,
           Live' \subseteq Live, Doomed' \subseteq Live \union Doomed
    PROVE  /\ InodesOwn(h)' /\ BlocksOwn(h)' /\ OwnedIsMarked(h)'
           /\ FreeIsOld' /\ NoStrayPointers'
<1>1. InodesOwn(h)'
  BY DEF Owned, InodesOwn, SlotsOwn, Cleared
<1>2. BlocksOwn(h)'
  BY DEF Owned, BlocksOwn, Cleared
<1>3. OwnedIsMarked(h)' /\ FreeIsOld' /\ NoStrayPointers'
  BY DEF Owned, OwnedIsMarked, FreeIsOld, NoStrayPointers
<1> QED BY <1>1, <1>2, <1>3

LEMMA MemFrame ==
    ASSUME NEW h \in HomeMap, Owned(h), kind' = kind, Live' \subseteq Live,
           op'.put = op.put, op'.mem.ptr = op.mem.ptr, op.pc # "zero",
           op.put \in Live => op.put \in Live' \/ op'.pc = "ifree",
           op.pc = "ifree" => op'.pc = "ifree"
    PROVE  MemOwns(h)'
BY DEF Owned, MemOwns, Cleared

LEMMA NoMemOwns ==
    ASSUME NEW h \in HomeMap, \A s \in Slots : op'.mem.ptr[s] = 0
    PROVE  MemOwns(h)'
BY DEF MemOwns

(* The mem of a call is a copy of an inode, or becomes one. *)
LEMMA SlotsOwnMem ==
    ASSUME NEW h \in HomeMap, SlotsOwn(h, op.put, op.mem.ptr)', op'.put \in Live'
    PROVE  MemOwns(h)'
BY DEF MemOwns, SlotsOwn

LEMMA IdleOwns ==
    ASSUME NameInv', NEW h \in HomeMap, op' = Idle
    PROVE  /\ MemOwns(h)' /\ WalkOwns(h)' /\ TodoOwns(h)'
           /\ Making' = {} /\ Doomed' = {}
<1>1. /\ op'.pc = "idle" /\ op'.call = "none" /\ op'.put = 0
      /\ \A s \in Slots : op'.mem.ptr[s] = 0
  BY DEF Idle, FreshInode
<1>2. WalkOwns(h)' /\ TodoOwns(h)' /\ Making' = {} /\ Doomed' = {}
  BY <1>1 DEF WalkOwns, TodoOwns, Making, Doomed
<1> QED BY <1>1, <1>2, NoMemOwns

(* A walk about to start at the inode in mem. *)
LEMMA WalkFromOwns ==
    ASSUME NEW h \in HomeMap, NEW o \in OpRec, NEW lb \in Nat,
           op' = WalkFrom(o, lb), o.put \in Live',
           \A s \in Slots : o.mem.ptr[s] # 0 =>
             /\ h[o.mem.ptr[s]] = Place(o.put, DepthOf(s), 0, s)
             /\ DepthOf(s) > 0 => kind'[o.mem.ptr[s]] = "ptrs"
    PROVE  /\ MemOwns(h)' /\ WalkOwns(h)' /\ TodoOwns(h)' /\ Doomed' = {}
<1> DEFINE slot == SlotOf(lb)
           index == Indices(lb)
<1>1. op' = [o EXCEPT !.pc = "walk", !.lb = lb, !.at = 0, !.new = 0,
                      !.k = slot, !.rest = index]
  BY DEF WalkFrom
<1>2. DepthOf(slot) = Len(index)
  BY IndicesLength
<1> HIDE DEF slot, index
<1>3. /\ op'.pc = "walk" /\ op'.at = 0 /\ op'.k = slot /\ op'.rest = index
      /\ op'.put = o.put /\ op'.mem = o.mem
  BY <1>1 DEF OpRec
<1>4. SlotsOwn(h, op.put, op.mem.ptr)'
  BY <1>3 DEF SlotsOwn, Cleared
<1>5. MemOwns(h)'
  BY <1>3, <1>4, SlotsOwnMem
<1>6. WalkOwns(h)' /\ TodoOwns(h)' /\ Doomed' = {}
  BY <1>2, <1>3 DEF WalkOwns, TodoOwns, Doomed
<1> QED BY <1>5, <1>6

LEMMA LiveShrinks ==
    ASSUME entry' = entry,
           \/ op'.pc \in {"iinit", "free", "ifree"}
           \/ op'.call \notin {"create", "mkdir"}
           \/ /\ op'.call = op.call /\ op'.ino = op.ino
              /\ op.pc \notin {"iinit", "free", "ifree"}
    PROVE  Live' \subseteq Live
BY DEF Live, Making, Linked

LEMMA LiveStays ==
    ASSUME entry' = entry, op'.call = op.call, op'.ino = op.ino,
           op.pc \notin {"iinit", "free", "ifree"},
           op'.pc \notin {"iinit", "free", "ifree"}
    PROVE  Live' = Live
BY DEF Live, Making, Linked

-----------------------------------------------------------------------------
(* Steps that only begin or end a call. *)

(* Nothing but the locals of the call changes, and those are gone. *)
LEMMA ReturnOwns ==
    ASSUME NameInv, NameInv', NEW h \in HomeMap, Owned(h),
           UNCHANGED <<bbm, inode, kind, array>>, op' = Idle,
           Linked' \subseteq Live
    PROVE  Owned(h)'
<1>1. /\ MemOwns(h)' /\ WalkOwns(h)' /\ TodoOwns(h)'
      /\ Making' = {} /\ Doomed' = {}
  BY IdleOwns
<1>2. Live' \subseteq Live
  BY <1>1 DEF Live
<1> QED BY <1>1, <1>2, OwnFrame DEF Owned

LEMMA StillOwns ==
    ASSUME NameInv, NEW h \in HomeMap, Owned(h), UNCHANGED <<diskVars, op>>
    PROVE  Owned(h)'
<1>1. /\ bbm' = bbm /\ inode' = inode /\ kind' = kind /\ array' = array
      /\ entry' = entry /\ op' = op
  BY DEF diskVars
<1>2. Live' = Live /\ Doomed' = Doomed
  BY <1>1 DEF Live, Making, Doomed, Linked
<1>3. MemOwns(h)' /\ WalkOwns(h)' /\ TodoOwns(h)'
  BY <1>1, <1>2 DEF Owned, MemOwns, WalkOwns, TodoOwns, Cleared
<1> QED BY <1>1, <1>2, <1>3, OwnFrame DEF Owned

LEMMA NewInodeOwns ==
    ASSUME NameInv, NameInv', NEW h \in HomeMap, Owned(h), op.pc = "idle",
           NEW call \in {"create", "mkdir"}, NEW d, NEW n \in Names,
           NewInode(call, d, n)
    PROVE  Owned(h)'
<1> PICK i \in Inodes :
      op' = [Idle EXCEPT !.call = call, !.pc = "iinit",
                         !.ino = i, !.par = d, !.name = n]
  BY DEF NewInode
<1>1. op'.pc = "iinit" /\ op'.put = 0 /\ op'.mem = FreshInode(FALSE)
  BY DEF Idle
<1>2. MemOwns(h)'
  BY <1>1, NoMemOwns DEF FreshInode
<1>3. Live' \subseteq Live /\ Doomed' = {}
  BY <1>1, LiveShrinks DEF NewInode, Doomed
<1>4. WalkOwns(h)' /\ TodoOwns(h)'
  BY <1>1 DEF WalkOwns, TodoOwns
<1>5. UNCHANGED <<inode, array, kind, bbm>>
  BY DEF NewInode
<1> QED BY <1>2, <1>3, <1>4, <1>5, OwnFrame DEF Owned

(* The pieces inode_free_blocks begins with. *)
LEMMA FreeListItem ==
    ASSUME NEW rec \in InodeRec, NEW j \in 1 .. Len(FreeList(rec))
    PROVE  \E s \in Slots : FreeList(rec)[j] = <<rec.ptr[s], DepthOf(s)>>
<1>1. NDirect + NLevel \in Nat
  BY DiskAssumption
<1>2. FreeList(rec) \in Seq(Piece) /\ DOMAIN FreeList(rec) = 1 .. NDirect + NLevel
  BY FreeListType DEF FreeList
<1>3. j \in 1 .. NDirect + NLevel
  BY <1>1, <1>2
<1>4. j - 1 \in Slots
  BY <1>3, DiskAssumption DEF Slots
<1>5. FreeList(rec)[j] = <<rec.ptr[j - 1], DepthOf(j - 1)>>
  BY <1>3 DEF FreeList
<1> QED BY <1>4, <1>5

LEMMA FreeOwns ==
    ASSUME NEW h \in HomeMap, inode \in [Inodes -> InodeRec],
           NEW i \in Inodes, SlotsOwn(h, i, inode[i].ptr),
           op'.pc = "free", op'.ino = i, op'.todo = FreeList(inode[i])
    PROVE  WalkOwns(h)' /\ TodoOwns(h)' /\ Doomed' = {i}
<1> DEFINE rec == inode[i]
           todo == FreeList(rec)
<1>0. \A j \in 1 .. Len(todo) : todo[j][1] # 0 =>
        h[todo[j][1]].ino = i /\ h[todo[j][1]].level = todo[j][2]
  <2>1. rec \in InodeRec /\ SlotsOwn(h, i, rec.ptr)
    OBVIOUS
  <2> SUFFICES ASSUME NEW j \in 1 .. Len(todo), todo[j][1] # 0
               PROVE  h[todo[j][1]].ino = i /\ h[todo[j][1]].level = todo[j][2]
    OBVIOUS
  <2>2. j \in 1 .. Len(FreeList(rec)) /\ FreeList(rec)[j][1] # 0
    OBVIOUS
  <2> HIDE DEF rec, todo
  <2>3. PICK s \in Slots : FreeList(rec)[j] = <<rec.ptr[s], DepthOf(s)>>
    BY <2>1, <2>2, FreeListItem
  <2>4. h[rec.ptr[s]] = Place(i, DepthOf(s), 0, s)
    BY <2>1, <2>2, <2>3 DEF SlotsOwn
  <2> QED BY <2>3, <2>4, PlaceFields DEF todo
<1>1. TodoOwns(h)'
  <2>1. op'.todo = todo
    OBVIOUS
  <2> HIDE DEF todo
  <2> QED BY <1>0, <2>1 DEF TodoOwns
<1>2. WalkOwns(h)' /\ Doomed' = {i}
  BY DEF WalkOwns, Doomed
<1> QED BY <1>1, <1>2

LEMMA RemoveOwns ==
    ASSUME NameInv, NameInv', NEW h \in HomeMap, Owned(h), op.pc = "idle",
           NEW d \in Inodes, NEW n \in Names, Remove(d, n)
    PROVE  Owned(h)'
<1> DEFINE i == entry[d][n]
           todo == FreeList(inode[i])
<1>0. /\ entry \in [Inodes -> [Names -> Inodes \union {0}]]
      /\ inode \in [Inodes -> InodeRec]
  BY DEF NameInv, TypeInv, TypeOK, DiskTypeOK
<1>1. /\ i \in Linked /\ i \in Inodes /\ i \in Live
      /\ entry' = [entry EXCEPT ![d][n] = 0]
  BY <1>0 DEF Remove, Linked, Live
<1>2. op' = [Idle EXCEPT !.call = "delete", !.pc = "free", !.ino = i,
                         !.todo = todo]
  BY DEF Remove
<1>3. SlotsOwn(h, i, inode[i].ptr)
  BY <1>1 DEF Owned, InodesOwn
<1>4. /\ op'.call = "delete" /\ op'.pc = "free" /\ op'.ino = i
      /\ op'.todo = todo /\ op'.mem = FreshInode(FALSE)
  <2> HIDE DEF i, todo
  <2> QED BY <1>2 DEF Idle
<1>5. MemOwns(h)'
  BY <1>4, NoMemOwns DEF FreshInode
<1>6. WalkOwns(h)' /\ TodoOwns(h)' /\ Doomed' = {i}
  BY <1>0, <1>1, <1>3, <1>4, FreeOwns
<1>7. Live' \subseteq Live
  <2>1. \A e \in Inodes, m \in Names : entry'[e][m] = entry[e][m] \/ entry'[e][m] = 0
    BY <1>0, <1>1
  <2>2. Linked' \subseteq Linked
    BY <2>1 DEF Linked
  <2>3. Making' = {}
    BY <1>4 DEF Making
  <2> QED BY <2>2, <2>3 DEF Live
<1>8. UNCHANGED <<inode, array, kind, bbm>>
  BY DEF Remove
<1> HIDE DEF i
<1>9. /\ InodesOwn(h)' /\ BlocksOwn(h)' /\ OwnedIsMarked(h)'
      /\ FreeIsOld' /\ NoStrayPointers'
  BY <1>1, <1>6, <1>7, <1>8, OwnFrame
<1> QED BY <1>5, <1>6, <1>9 DEF Owned

(* A call takes an inode into memory: what the record of the call is then. *)
Taking(o, i, mem) == [o EXCEPT !.put = i, !.mem = mem]
Took(p, o, i, mem) ==
    /\ p \in OpRec /\ p.put = i /\ p.mem = mem
    /\ p.call = o.call /\ p.ino = o.ino /\ p.par = o.par
    /\ p.name = o.name /\ p.left = o.left

LEMMA WithInode ==
    ASSUME NEW o \in OpRec, NEW i \in Inodes \union {0}, NEW mem \in InodeRec
    PROVE  Took(Taking(o, i, mem), o, i, mem)
<1>1. Taking(o, i, mem) \in OpRec
  BY DEF OpRec, Taking
<1>2. Taking(o, i, mem).put = i /\ Taking(o, i, mem).mem = mem
  BY DEF OpRec, Taking
<1>3. /\ Taking(o, i, mem).call = o.call /\ Taking(o, i, mem).ino = o.ino
      /\ Taking(o, i, mem).par = o.par
  BY DEF OpRec, Taking
<1>4. Taking(o, i, mem).name = o.name /\ Taking(o, i, mem).left = o.left
  BY DEF OpRec, Taking
<1> QED BY <1>1, <1>2, <1>3, <1>4 DEF Took

(* A call begins to write: what the record of the call is then. *)
Writing(o, call, i, mem, k, n) ==
    [o EXCEPT !.call = call, !.ino = i, !.put = i, !.mem = mem, !.fd = k,
              !.left = n]

LEMMA WithWrite ==
    ASSUME NEW o \in OpRec, NEW call \in Calls, NEW i \in Inodes \union {0},
           NEW mem \in InodeRec, NEW k \in Fds \union {0}, NEW n \in Nat
    PROVE  /\ Writing(o, call, i, mem, k, n) \in OpRec
           /\ Writing(o, call, i, mem, k, n).put = i
           /\ Writing(o, call, i, mem, k, n).mem = mem
           /\ Writing(o, call, i, mem, k, n).call = call
<1>1. Writing(o, call, i, mem, k, n) \in OpRec
  BY DEF OpRec, Writing
<1>2. /\ Writing(o, call, i, mem, k, n).put = i
      /\ Writing(o, call, i, mem, k, n).mem = mem
  BY DEF OpRec, Writing
<1>3. Writing(o, call, i, mem, k, n).call = call
  BY DEF OpRec, Writing
<1> QED BY <1>1, <1>2, <1>3

LEMMA BeginWriteOwns ==
    ASSUME NameInv, NameInv', NEW h \in HomeMap, Owned(h), op.pc = "idle",
           NEW call \in {"write", "fwrite"},
           NEW i \in Linked, NEW k \in Fds \union {0},
           NEW lb \in Nat, NEW n \in Nat, BeginWrite(call, i, k, lb, n)
    PROVE  Owned(h)'
<1> DEFINE mem == inode[i]
           start == [Idle EXCEPT !.call = call, !.ino = i, !.put = i,
                       !.mem = mem, !.fd = k, !.left = n]
<1>0. i \in Inodes /\ mem \in InodeRec
  <2>1. i \in Inodes
    BY LinkedInodes DEF NameInv, TypeInv
  <2> QED BY <2>1 DEF NameInv, TypeInv, TypeOK, DiskTypeOK
<1>1. /\ entry' = entry /\ inode' = inode /\ array' = array /\ kind' = kind
      /\ bbm' = bbm
  BY DEF BeginWrite, diskVars
<1>2. op' = WalkFrom(start, lb)
  BY DEF BeginWrite
<1>3. /\ start \in OpRec /\ start.call = call /\ start.put = i
      /\ start.mem = mem
  <2> HIDE DEF mem
  <2>1. call \in Calls /\ Idle \in OpRec /\ i \in Inodes \union {0}
    BY <1>0, IdleType DEF Calls
  <2>2. start = Writing(Idle, call, i, mem, k, n)
    BY DEF Writing
  <2> HIDE DEF start
  <2> QED BY <1>0, <2>1, <2>2, WithWrite
<1>4. op'.call = call
  <2> HIDE DEF start
  <2> QED BY <1>2, <1>3, WalkFromSame DEF SameCall
<1>5. Live' = Linked /\ Live' \subseteq Live
  BY <1>1, <1>4 DEF Live, Making, Linked
<1>6. \A s \in Slots : mem.ptr[s] # 0 =>
        /\ h[mem.ptr[s]] = Place(i, DepthOf(s), 0, s)
        /\ DepthOf(s) > 0 => kind'[mem.ptr[s]] = "ptrs"
  BY <1>1 DEF Owned, InodesOwn, SlotsOwn, Cleared, Live
<1>8. i \in Live'
  BY <1>5
<1> HIDE DEF start, mem
<1>7. MemOwns(h)' /\ WalkOwns(h)' /\ TodoOwns(h)' /\ Doomed' = {}
  BY <1>2, <1>3, <1>6, <1>8, WalkFromOwns
<1> QED BY <1>1, <1>5, <1>7, OwnFrame DEF Owned

-----------------------------------------------------------------------------
(* The walk of inode_get_block. *)

(* The locals a walk does not change. *)
SameLocals ==
    /\ op'.call = op.call /\ op'.ino = op.ino /\ op'.par = op.par
    /\ op'.name = op.name /\ op'.put = op.put /\ op'.left = op.left
    /\ op'.lb = op.lb /\ op'.todo = op.todo /\ op'.fd = op.fd

LEMMA OpTypes ==
    ASSUME TypeInv
    PROVE  /\ op \in OpRec /\ OpShape(op)
           /\ op.mem \in InodeRec /\ op.mem.ptr \in [Slots -> Blocks \union {0}]
           /\ op.at \in Blocks \union {0} /\ op.new \in Blocks \union {0}
           /\ op.rest \in Seq(0 .. NPtr - 1) /\ op.k \in Nat
           /\ op.put \in Inodes \union {0} /\ op.lb \in Nat /\ op.left \in Nat
BY DEF TypeInv, TypeOK, DiskTypeOK, OpRec, InodeRec

LEMMA FollowLocals ==
    ASSUME TypeInv, FollowPointer
    PROVE  /\ SameLocals /\ op'.mem = op.mem
           /\ op.pc = "walk" /\ Here # 0 /\ UNCHANGED diskVars
           /\ op.rest = <<>> => op'.pc = "data" /\ op'.new = Here
           /\ op.rest # <<>> => /\ op'.pc = "walk" /\ op'.at = Here
                                /\ op'.k = Head(op.rest)
                                /\ op'.rest = Tail(op.rest)
<1> DEFINE found == Here
           k == Head(op.rest)
           rest == Tail(op.rest)
<1>1. op \in OpRec
  BY OpTypes
<1>2. CASE op.rest = <<>>
  <2>1. op' = [op EXCEPT !.pc = "data", !.new = found]
    BY <1>2 DEF FollowPointer
  <2> HIDE DEF found
  <2>2. SameLocals /\ op'.mem = op.mem /\ op'.pc = "data" /\ op'.new = found
    BY <1>1, <2>1 DEF OpRec, SameLocals
  <2> QED BY <1>2, <2>2 DEF FollowPointer, found
<1>3. CASE op.rest # <<>>
  <2>1. op' = [op EXCEPT !.at = found, !.k = k, !.rest = rest]
    BY <1>3 DEF FollowPointer
  <2>2. op.pc = "walk"
    BY DEF FollowPointer
  <2> HIDE DEF found, k, rest
  <2>3. /\ SameLocals /\ op'.mem = op.mem /\ op'.pc = "walk" /\ op'.at = found
        /\ op'.k = k /\ op'.rest = rest
    BY <1>1, <2>1, <2>2 DEF OpRec, SameLocals
  <2> QED BY <1>3, <2>3 DEF FollowPointer, found, k, rest
<1> QED BY <1>2, <1>3

LEMMA AllocLocals ==
    ASSUME TypeInv, AllocBlock
    PROVE  \E b \in Blocks \ bbm :
             /\ SameLocals /\ op.pc = "walk" /\ Here = 0
             /\ bbm' = bbm \union {b}
             /\ UNCHANGED <<ibm, inode, kind, array, entry>>
             /\ op'.new = b /\ op'.at = op.at /\ op'.k = op.k
             /\ op'.rest = op.rest
             /\ op'.pc = IF op.rest # <<>> THEN "zero"
                         ELSE IF op.at = 0 THEN "data" ELSE "link"
             /\ op'.mem.dir = op.mem.dir /\ op'.mem.size = op.mem.size
             /\ op.at # 0 => op'.mem.ptr = op.mem.ptr
             /\ op.at = 0 => op'.mem.ptr = [op.mem.ptr EXCEPT ![op.k] = b]
<1> PICK b \in Blocks \ bbm :
      /\ bbm' = Marked(b)
      /\ op' = [op EXCEPT
             !.new = b,
             !.mem.ptr = IF op.at = 0 THEN [@ EXCEPT ![op.k] = b] ELSE @,
             !.pc = IF op.rest # <<>> THEN "zero"
                    ELSE IF op.at = 0 THEN "data" ELSE "link"]
  BY DEF AllocBlock
<1> DEFINE ptr == IF op.at = 0 THEN [op.mem.ptr EXCEPT ![op.k] = b]
                  ELSE op.mem.ptr
           mem == [op.mem EXCEPT !.ptr = ptr]
           next == IF op.rest # <<>> THEN "zero"
                   ELSE IF op.at = 0 THEN "data" ELSE "link"
<1>1. op \in OpRec /\ op.mem \in InodeRec
  BY OpTypes
<1>2. op' = [op EXCEPT !.new = b, !.mem = mem, !.pc = next]
  BY <1>1 DEF OpRec
<1>3. mem.ptr = ptr /\ mem.dir = op.mem.dir /\ mem.size = op.mem.size
  <2> HIDE DEF ptr
  <2> QED BY <1>1 DEF InodeRec
<1>4. /\ SameLocals /\ op'.new = b /\ op'.at = op.at /\ op'.k = op.k
      /\ op'.rest = op.rest /\ op'.pc = next /\ op'.mem = mem
  <2> HIDE DEF mem, next
  <2> QED BY <1>1, <1>2 DEF OpRec, SameLocals
<1>5. /\ op.pc = "walk" /\ Here = 0 /\ bbm' = bbm \union {b}
      /\ UNCHANGED <<ibm, inode, kind, array, entry>>
  BY DEF AllocBlock, Marked
<1> HIDE DEF mem
<1> QED BY <1>3, <1>4, <1>5

LEMMA ZeroLocals ==
    ASSUME TypeInv, ZeroBlock
    PROVE  /\ SameLocals /\ op.pc = "zero" /\ op'.mem = op.mem
           /\ op'.at = op.at /\ op'.k = op.k /\ op'.rest = op.rest
           /\ op'.new = op.new
           /\ op'.pc = IF op.at = 0 THEN "walk" ELSE "link"
           /\ UNCHANGED <<bbm, ibm, inode, entry>>
<1> DEFINE next == IF op.at = 0 THEN "walk" ELSE "link"
<1>1. op \in OpRec
  BY OpTypes
<1>2. op' = [op EXCEPT !.pc = next]
  BY DEF ZeroBlock
<1>3. /\ SameLocals /\ op'.mem = op.mem /\ op'.at = op.at /\ op'.k = op.k
      /\ op'.rest = op.rest /\ op'.new = op.new /\ op'.pc = next
  <2> HIDE DEF next
  <2> QED BY <1>1, <1>2 DEF OpRec, SameLocals
<1> QED BY <1>3 DEF ZeroBlock

LEMMA LinkLocals ==
    ASSUME TypeInv, LinkBlock
    PROVE  /\ SameLocals /\ op.pc = "link" /\ op'.mem = op.mem
           /\ op'.at = op.at /\ op'.k = op.k /\ op'.rest = op.rest
           /\ op'.new = op.new /\ op'.pc = "walk"
           /\ UNCHANGED <<bbm, ibm, inode, kind, entry>>
<1>1. op \in OpRec
  BY OpTypes
<1> QED BY <1>1 DEF LinkBlock, OpRec, SameLocals

(* What the pointer looked at leads to. *)
LEMMA HereOwns ==
    ASSUME TypeInv, NEW h \in HomeMap, Owned(h), op.pc = "walk", Here # 0
    PROVE  /\ h[Here] = Place(op.put, Len(op.rest), op.at, op.k)
           /\ Cleared(Here, Len(op.rest))
<1>0. /\ op.put \in Live /\ Len(op.rest) \in Nat
      /\ op.at # 0 => /\ op.at \in Blocks /\ op.k \in 0 .. NPtr - 1
                      /\ h[op.at].ino = op.put
                      /\ h[op.at].level = Len(op.rest) + 1
                      /\ kind[op.at] = "ptrs"
      /\ op.at = 0 => op.k \in Slots /\ DepthOf(op.k) = Len(op.rest)
  <2>1. op.at # 0 => op.at \in Blocks
    BY OpTypes
  <2>2. op.k \in (IF op.at = 0 THEN Slots ELSE 0 .. NPtr - 1)
    BY OpTypes DEF OpShape
  <2>3. Len(op.rest) \in Nat
    BY OpTypes
  <2>4. /\ op.put \in Live
        /\ op.at = 0 => DepthOf(op.k) = Len(op.rest)
        /\ op.at # 0 => /\ h[op.at].ino = op.put
                        /\ h[op.at].level = Len(op.rest) + 1
                        /\ kind[op.at] = "ptrs"
    BY DEF Owned, WalkOwns
  <2> QED BY <2>1, <2>2, <2>3, <2>4
<1>1. CASE op.at = 0
  <2>1. Here = op.mem.ptr[op.k]
    BY <1>1 DEF Here
  <2> QED BY <1>0, <1>1, <2>1 DEF Owned, MemOwns
<1>2. CASE op.at # 0
  <2>1. Here = array[op.at][op.k]
    BY <1>2 DEF Here
  <2>2. h[op.at].ino \in Live /\ h[op.at].level > 0
    BY <1>0, <1>2
  <2>3. /\ h[Here] = Place(op.put, h[op.at].level - 1, op.at, op.k)
        /\ Cleared(Here, h[op.at].level - 1)
    BY <1>0, <1>2, <2>1, <2>2 DEF Owned, BlocksOwn
  <2>4. h[op.at].level - 1 = Len(op.rest)
    BY <1>0, <1>2
  <2> QED BY <2>3, <2>4
<1> QED BY <1>1, <1>2

LEMMA FollowOwns ==
    ASSUME NameInv, NEW h \in HomeMap, Owned(h), FollowPointer
    PROVE  Owned(h)'
<1>0. TypeInv
  BY DEF NameInv
<1>1. /\ SameLocals /\ op'.mem = op.mem
      /\ op.pc = "walk" /\ Here # 0 /\ UNCHANGED diskVars
      /\ op'.pc \in {"walk", "data"}
  BY <1>0, FollowLocals
<1>2. bbm' = bbm /\ inode' = inode /\ kind' = kind /\ array' = array
      /\ entry' = entry
  BY <1>1 DEF diskVars
<1>3. Live' = Live /\ Doomed' = {} /\ op.put \in Live
  BY <1>1, <1>2, LiveStays DEF SameLocals, Doomed, Owned, WalkOwns
<1>4. MemOwns(h)'
  BY <1>1, <1>2, <1>3, MemFrame DEF SameLocals
<1>5. /\ h[Here] = Place(op.put, Len(op.rest), op.at, op.k)
      /\ Cleared(Here, Len(op.rest))
  BY <1>0, <1>1, HereOwns
<1>6. h[Here].ino = op.put /\ h[Here].level = Len(op.rest)
  BY <1>5, PlaceFields
<1>7. WalkOwns(h)'
  <2>1. CASE op.rest = <<>>
    <3>1. op'.pc = "data" /\ op'.new = Here /\ op'.put = op.put
      BY <1>0, <1>1, <2>1, FollowLocals DEF SameLocals
    <3> QED BY <1>1, <1>3, <1>6, <2>1, <3>1 DEF WalkOwns
  <2>2. CASE op.rest # <<>>
    <3>1. /\ op'.pc = "walk" /\ op'.at = Here /\ op'.put = op.put
          /\ op'.rest = Tail(op.rest)
      BY <1>0, <1>1, <2>2, FollowLocals DEF SameLocals
    <3>2. Len(op'.rest) + 1 = Len(op.rest) /\ Len(op.rest) > 0
      BY <1>0, <2>2, <3>1, OpTypes
    <3>3. kind'[Here] = "ptrs"
      BY <1>2, <1>5, <3>2 DEF Cleared
    <3> QED BY <1>1, <1>3, <1>6, <3>1, <3>2, <3>3 DEF WalkOwns
  <2> QED BY <2>1, <2>2
<1>8. TodoOwns(h)'
  BY <1>1 DEF TodoOwns
<1> QED BY <1>2, <1>3, <1>4, <1>7, <1>8, OwnFrame DEF Owned

LEMMA ZeroOwns ==
    ASSUME NameInv, NEW h \in HomeMap, Owned(h), ZeroBlock
    PROVE  Owned(h)'
<1>0. TypeInv
  BY DEF NameInv
<1>1. /\ SameLocals /\ op.pc = "zero" /\ op'.mem = op.mem
      /\ op'.at = op.at /\ op'.k = op.k /\ op'.rest = op.rest
      /\ op'.new = op.new
      /\ op'.pc = IF op.at = 0 THEN "walk" ELSE "link"
      /\ UNCHANGED <<bbm, ibm, inode, entry>>
  BY <1>0, ZeroLocals
<1> DEFINE b == op.new
<1>2. /\ b # 0 /\ b \in Blocks
      /\ kind' = [kind EXCEPT ![b] = "ptrs"] /\ array' = [array EXCEPT ![b] = Zeros]
      /\ array \in [Blocks -> PtrArray] /\ DOMAIN kind = Blocks
      /\ h[b] = Place(op.put, Len(op.rest), op.at, op.k) /\ op.put \in Live
  BY <1>0, <1>1, OpTypes
     DEF ZeroBlock, Owned, WalkOwns, TypeInv, TypeOK, DiskTypeOK
<1>3. Live' = Live /\ Doomed' = {} /\ Doomed = {}
  BY <1>1, LiveStays DEF SameLocals, Doomed
<1>4. /\ \A c : kind[c] = "ptrs" /\ c \in Blocks => kind'[c] = "ptrs"
      /\ \A c \in Blocks : c # b => kind'[c] = kind[c] /\ array'[c] = array[c]
      /\ kind'[b] = "ptrs" /\ array'[b] = Zeros
  BY <1>2
<1>5. \A c : kind[c] = "ptrs" => kind'[c] = "ptrs"
  BY <1>2
<1>6. InodesOwn(h)'
  BY <1>1, <1>3, <1>5 DEF Owned, InodesOwn, SlotsOwn, Cleared
<1>7. MemOwns(h)'
  <2>1. op'.put = op.put /\ op.put \in Live'
    BY <1>1, <1>2, <1>3 DEF SameLocals
  <2>2. ASSUME NEW s \in Slots, op.mem.ptr[s] # 0
        PROVE  /\ h[op.mem.ptr[s]] = Place(op.put, DepthOf(s), 0, s)
               /\ DepthOf(s) > 0 => kind'[op.mem.ptr[s]] = "ptrs"
    <3>1. h[op.mem.ptr[s]] = Place(op.put, DepthOf(s), 0, s)
      BY <1>2, <2>2 DEF Owned, MemOwns
    <3>2. CASE op.mem.ptr[s] = b
      BY <1>4, <3>1, <3>2
    <3>3. CASE op.mem.ptr[s] # b
      BY <1>5, <2>2, <3>1, <3>3 DEF Owned, MemOwns, Cleared
    <3> QED BY <3>2, <3>3, <3>1
  <2> QED BY <1>1, <2>1, <2>2 DEF MemOwns, Cleared
<1>8. BlocksOwn(h)'
  <2> SUFFICES ASSUME NEW p \in Blocks, NEW k \in 0 .. NPtr - 1,
                      h[p].ino \in Live, h[p].level > 0, kind'[p] = "ptrs",
                      array'[p][k] # 0
               PROVE  /\ h[array'[p][k]] = Place(h[p].ino, h[p].level - 1, p, k)
                      /\ h[p].level - 1 > 0 => kind'[array'[p][k]] = "ptrs"
    BY <1>3 DEF BlocksOwn, Cleared
  <2>1. p # b
    <3>1. Zeros[k] = 0
      BY DEF Zeros
    <3> QED BY <1>4, <3>1
  <2>2. kind[p] = "ptrs" /\ array'[p] = array[p] /\ array[p][k] # 0
    BY <1>4, <2>1
  <2>3. /\ h[array[p][k]] = Place(h[p].ino, h[p].level - 1, p, k)
        /\ h[p].level - 1 > 0 => kind[array[p][k]] = "ptrs"
    BY <2>2 DEF Owned, BlocksOwn, Cleared
  <2> QED BY <1>5, <2>2, <2>3
<1>9. WalkOwns(h)'
  <2>1. Cleared(op.new, Len(op.rest))'
    BY <1>1, <1>4 DEF Cleared
  <2>2. op.at # 0 => kind'[op.at] = "ptrs"
    BY <1>1, <1>5 DEF Owned, WalkOwns
  <2> QED BY <1>1, <1>3, <2>1, <2>2 DEF Owned, WalkOwns, SameLocals, Cleared
<1>10. OwnedIsMarked(h)' /\ NoStrayPointers'
  BY <1>1, <1>3, <1>4 DEF Owned, OwnedIsMarked, NoStrayPointers
<1>11. FreeIsOld'
  <2>1. b \in bbm
    BY <1>2, PlaceFields DEF Owned, OwnedIsMarked
  <2> QED BY <1>1, <1>4, <2>1 DEF Owned, FreeIsOld
<1>12. TodoOwns(h)'
  BY <1>1 DEF TodoOwns
<1> QED BY <1>6, <1>7, <1>8, <1>9, <1>10, <1>11, <1>12 DEF Owned

LEMMA LinkOwns ==
    ASSUME NameInv, NEW h \in HomeMap, Owned(h), LinkBlock
    PROVE  Owned(h)'
<1>0. TypeInv
  BY DEF NameInv
<1>1. /\ SameLocals /\ op.pc = "link" /\ op'.mem = op.mem
      /\ op'.at = op.at /\ op'.k = op.k /\ op'.rest = op.rest
      /\ op'.new = op.new /\ op'.pc = "walk"
      /\ UNCHANGED <<bbm, ibm, inode, kind, entry>>
  BY <1>0, LinkLocals
<1>2. /\ op.at # 0 /\ op.at \in Blocks /\ op.k \in 0 .. NPtr - 1
      /\ array \in [Blocks -> PtrArray]
      /\ h[op.new] = Place(op.put, Len(op.rest), op.at, op.k)
      /\ Cleared(op.new, Len(op.rest))
      /\ h[op.at].ino = op.put /\ h[op.at].level = Len(op.rest) + 1
      /\ kind[op.at] = "ptrs" /\ op.put \in Live /\ Len(op.rest) \in Nat
  BY <1>0, <1>1, OpTypes
     DEF OpShape, Owned, WalkOwns, TypeInv, TypeOK, DiskTypeOK
<1>3. Live' = Live /\ Doomed' = {} /\ Doomed = {}
  BY <1>1, LiveStays DEF SameLocals, Doomed
<1>4. \A p \in Blocks, k \in 0 .. NPtr - 1 :
        array'[p][k] = IF p = op.at /\ k = op.k THEN op.new ELSE array[p][k]
  BY <1>2 DEF LinkBlock, PtrArray
<1>5. InodesOwn(h)' /\ OwnedIsMarked(h)' /\ FreeIsOld'
  BY <1>1, <1>3 DEF Owned, InodesOwn, SlotsOwn, Cleared, OwnedIsMarked, FreeIsOld
<1>6. MemOwns(h)'
  BY <1>1, <1>2, <1>3, MemFrame DEF SameLocals
<1>7. BlocksOwn(h)'
  <2> SUFFICES ASSUME NEW p \in Blocks, NEW k \in 0 .. NPtr - 1,
                      h[p].ino \in Live, h[p].level > 0, kind[p] = "ptrs",
                      array'[p][k] # 0
               PROVE  /\ h[array'[p][k]] = Place(h[p].ino, h[p].level - 1, p, k)
                      /\ Cleared(array'[p][k], h[p].level - 1)
    BY <1>1, <1>3 DEF BlocksOwn, Cleared
  <2>1. CASE p = op.at /\ k = op.k
    <3>1. array'[p][k] = op.new /\ h[p].level - 1 = Len(op.rest)
      BY <1>2, <1>4, <2>1
    <3> QED BY <1>2, <2>1, <3>1
  <2>2. CASE ~(p = op.at /\ k = op.k)
    BY <1>4, <2>2 DEF Owned, BlocksOwn
  <2> QED BY <2>1, <2>2
<1>8. WalkOwns(h)'
  BY <1>1, <1>3 DEF Owned, WalkOwns, SameLocals
<1>9. NoStrayPointers'
  BY <1>1, <1>2 DEF LinkBlock, Owned, NoStrayPointers
<1>10. TodoOwns(h)'
  BY <1>1 DEF TodoOwns
<1> QED BY <1>5, <1>6, <1>7, <1>8, <1>9, <1>10 DEF Owned

LEMMA PointerTypes ==
    ASSUME TypeInv
    PROVE  /\ \A i \in Inodes, s \in Slots : inode[i].ptr[s] \in Blocks \union {0}
           /\ \A s \in Slots : op.mem.ptr[s] \in Blocks \union {0}
           /\ \A p \in Blocks, k \in 0 .. NPtr - 1 : array[p][k] \in Blocks \union {0}
<1>1. \A i \in Inodes : inode[i].ptr \in [Slots -> Blocks \union {0}]
  BY DEF TypeInv, TypeOK, DiskTypeOK, InodeRec
<1>2. \A p \in Blocks : array[p] \in [0 .. NPtr - 1 -> Blocks \union {0}]
  BY DEF TypeInv, TypeOK, DiskTypeOK, PtrArray
<1> QED BY <1>1, <1>2, OpTypes

(* A block is allocated for the place the walk looks at: no pointer led to it
   before, so its place can be chosen anew. *)
LEMMA AllocOwns ==
    ASSUME NameInv, NEW h \in HomeMap, Owned(h), AllocBlock,
           NEW g, g = Homes(h)
    PROVE  g \in HomeMap /\ Owned(g)'
<1>0. TypeInv
  BY DEF NameInv
<1> PICK b \in Blocks \ bbm :
      /\ SameLocals /\ op.pc = "walk" /\ Here = 0
      /\ bbm' = bbm \union {b}
      /\ UNCHANGED <<ibm, inode, kind, array, entry>>
      /\ op'.new = b /\ op'.at = op.at /\ op'.k = op.k
      /\ op'.rest = op.rest
      /\ op'.pc = IF op.rest # <<>> THEN "zero"
                  ELSE IF op.at = 0 THEN "data" ELSE "link"
      /\ op.at # 0 => op'.mem.ptr = op.mem.ptr
      /\ op.at = 0 => op'.mem.ptr = [op.mem.ptr EXCEPT ![op.k] = b]
  BY <1>0, AllocLocals
<1> DEFINE place == Place(op.put, Len(op.rest), op.at, op.k)
<1>1. op'.pc \in {"zero", "data", "link"} /\ b # 0 /\ 0 \notin Blocks
  BY DEF Blocks
<1>2. /\ op.put \in Live /\ op.put \in Inodes
      /\ op.rest \in Seq(0 .. NPtr - 1) /\ Len(op.rest) \in Nat
      /\ op.at \in Blocks \union {0} /\ op.k \in Nat
      /\ op.at = 0 => op.k \in Slots /\ DepthOf(op.k) = Len(op.rest)
      /\ op.at # 0 => /\ h[op.at].ino = op.put
                      /\ h[op.at].level = Len(op.rest) + 1
                      /\ kind[op.at] = "ptrs"
  <2>1. /\ op.put \in Live
        /\ op.at = 0 => DepthOf(op.k) = Len(op.rest)
        /\ op.at # 0 => /\ h[op.at].ino = op.put
                        /\ h[op.at].level = Len(op.rest) + 1
                        /\ kind[op.at] = "ptrs"
    BY DEF Owned, WalkOwns
  <2>2. op.at = 0 => op.k \in Slots
    BY <1>0, OpTypes DEF OpShape
  <2>3. /\ op.rest \in Seq(0 .. NPtr - 1) /\ Len(op.rest) \in Nat
        /\ op.at \in Blocks \union {0} /\ op.k \in Nat
    BY <1>0, OpTypes
  <2> QED BY <2>1, <2>2, <2>3, LiveInodes
<1>3. place \in Places
  <2>1. Len(op.rest) \in 0 .. NLevel
    <3>1. CASE op.at = 0
      BY <1>2, <3>1, DepthType
    <3>2. CASE op.at # 0
      BY <1>2, <3>2, HomeTypes, DiskAssumption
    <3> QED BY <3>1, <3>2
  <2> QED BY <1>2, <2>1 DEF Places, Place
<1>4. /\ g \in HomeMap /\ g[b] = place
      /\ \A c \in Blocks : c # b => g[c] = h[c]
  <2>1. \A c \in bbm' \ bbm : c = b
    OBVIOUS
  <2>2. b \in bbm' \ bbm
    OBVIOUS
  <2> HIDE DEF place
  <2>3. g = [c \in Blocks |-> IF c = b THEN place ELSE h[c]]
    BY <2>1, <2>2 DEF Homes, place
  <2> QED BY <1>3, <2>3, HomeTypes DEF HomeMap
<1>5. place.ino = op.put /\ place.level = Len(op.rest)
  BY PlaceFields
<1>6. h[b].ino \notin Live /\ kind[b] = "old"
  BY DEF Owned, OwnedIsMarked, FreeIsOld
<1>7. Live' = Live /\ Doomed' = {} /\ Doomed = {}
  BY <1>1, LiveStays DEF SameLocals, Doomed
<1> HIDE DEF place
<1>8. \A c \in Blocks : h[c].ino \in Live => c # b /\ g[c] = h[c]
  BY <1>4, <1>6
<1>9. InodesOwn(g)'
  <2> SUFFICES ASSUME NEW i \in Live, NEW s \in Slots, inode[i].ptr[s] # 0
               PROVE  /\ g[inode[i].ptr[s]] = Place(i, DepthOf(s), 0, s)
                      /\ Cleared(inode[i].ptr[s], DepthOf(s))
    BY <1>7 DEF InodesOwn, SlotsOwn, Cleared
  <2>1. inode[i].ptr[s] \in Blocks
    BY <1>0, PointerTypes, LiveInodes
  <2>2. /\ h[inode[i].ptr[s]] = Place(i, DepthOf(s), 0, s)
        /\ Cleared(inode[i].ptr[s], DepthOf(s))
    BY DEF Owned, InodesOwn, SlotsOwn
  <2> QED BY <1>8, <2>1, <2>2, PlaceFields
<1>10. MemOwns(g)'
  <2>0. op'.put = op.put /\ op.put \in Live'
    BY <1>2, <1>7 DEF SameLocals
  <2>1. ASSUME NEW s \in Slots, op'.mem.ptr[s] # 0, op'.mem.ptr[s] = op.mem.ptr[s]
        PROVE  /\ g[op'.mem.ptr[s]] = Place(op.put, DepthOf(s), 0, s)
               /\ Cleared(op.mem.ptr[s], DepthOf(s))
    <3>1. op.mem.ptr[s] \in Blocks
      BY <1>0, <2>1, PointerTypes
    <3>2. /\ h[op.mem.ptr[s]] = Place(op.put, DepthOf(s), 0, s)
          /\ Cleared(op.mem.ptr[s], DepthOf(s))
      BY <1>2, <2>1 DEF Owned, MemOwns
    <3> QED BY <1>2, <1>8, <2>1, <3>1, <3>2, PlaceFields
  <2>2. ASSUME NEW s \in Slots, op'.mem.ptr[s] # op.mem.ptr[s]
        PROVE  op.at = 0 /\ s = op.k /\ op'.mem.ptr[s] = b
    BY <1>0, <2>2, OpTypes
  <2>3. ASSUME NEW s \in Slots, op'.mem.ptr[s] # op.mem.ptr[s]
        PROVE  /\ g[op'.mem.ptr[s]] = Place(op.put, DepthOf(s), 0, s)
               /\ op'.pc = "zero" \/ DepthOf(s) = 0
    <3>1. op.at = 0 /\ s = op.k /\ op'.mem.ptr[s] = b /\ DepthOf(s) = Len(op.rest)
      BY <1>2, <2>2, <2>3
    <3>2. g[b] = Place(op.put, DepthOf(s), 0, s)
      BY <1>4, <3>1 DEF place
    <3>3. op.rest = <<>> => Len(op.rest) = 0
      OBVIOUS
    <3> QED BY <3>1, <3>2, <3>3
  <2>4. ASSUME NEW s \in Slots, op'.mem.ptr[s] # 0
        PROVE  g[op'.mem.ptr[s]] = Place(op.put, DepthOf(s), 0, s)
    BY <2>1, <2>3, <2>4
  <2>5. ASSUME NEW s \in Slots, op'.mem.ptr[s] # 0,
               ~(op'.pc = "zero" /\ op'.mem.ptr[s] = op'.new)
        PROVE  DepthOf(s) > 0 => kind[op'.mem.ptr[s]] = "ptrs"
    BY <2>1, <2>2, <2>3, <2>5 DEF Cleared
  <2> QED BY <2>0, <2>4, <2>5 DEF MemOwns, Cleared
<1>11. BlocksOwn(g)'
  <2> SUFFICES ASSUME NEW p \in Blocks, NEW k \in 0 .. NPtr - 1,
                      g[p].ino \in Live, g[p].level > 0, kind[p] = "ptrs",
                      array[p][k] # 0
               PROVE  /\ g[array[p][k]] = Place(g[p].ino, g[p].level - 1, p, k)
                      /\ Cleared(array[p][k], g[p].level - 1)
    BY <1>7 DEF BlocksOwn, Cleared
  <2>1. p # b /\ g[p] = h[p]
    BY <1>4, <1>6
  <2>2. /\ h[array[p][k]] = Place(h[p].ino, h[p].level - 1, p, k)
        /\ Cleared(array[p][k], h[p].level - 1)
    BY <2>1 DEF Owned, BlocksOwn
  <2>3. array[p][k] \in Blocks
    BY <1>0, PointerTypes
  <2> QED BY <1>8, <2>1, <2>2, <2>3, PlaceFields
<1>12. OwnedIsMarked(g)'
  BY <1>4, <1>7 DEF Owned, OwnedIsMarked
<1>13. WalkOwns(g)'
  <2>1. op'.put = op.put /\ op'.put \in Live'
    BY <1>2, <1>7 DEF SameLocals
  <2>2. op.at # 0 => op.at \in Blocks /\ g[op.at] = h[op.at]
    BY <1>2, <1>8
  <2>3. op.rest = <<>> => Len(op.rest) = 0
    OBVIOUS
  <2>4. /\ op'.pc = "zero" => op.rest # <<>>
        /\ op'.pc = "link" => op.at # 0 /\ op.rest = <<>>
        /\ op'.pc = "data" => op.rest = <<>>
    OBVIOUS
  <2>5. Cleared(b, 0)'
    BY DEF Cleared
  <2> QED BY <1>1, <1>2, <1>4, <1>5, <2>1, <2>2, <2>3, <2>4, <2>5
          DEF WalkOwns, place, Cleared
<1>14. TodoOwns(g)' /\ FreeIsOld' /\ NoStrayPointers'
  BY <1>1 DEF TodoOwns, Owned, FreeIsOld, NoStrayPointers
<1> QED BY <1>4, <1>9, <1>10, <1>11, <1>12, <1>13, <1>14 DEF Owned

-----------------------------------------------------------------------------
(* The data block, and the end of a write. *)

(* A step that keeps the pointer blocks live inodes own. *)
LEMMA PtrsFrame ==
    ASSUME NameInv, NEW h \in HomeMap, Owned(h), inode' = inode,
           Live' \subseteq Live, Doomed' \subseteq Doomed,
           \A c \in Blocks : h[c].ino \in Live /\ h[c].level > 0 /\ kind[c] = "ptrs"
             => kind'[c] = "ptrs",
           \A c \in Blocks : h[c].level > 0 /\ kind'[c] = "ptrs"
             => kind[c] = "ptrs" /\ array'[c] = array[c]
    PROVE  /\ InodesOwn(h)' /\ BlocksOwn(h)'
           /\ \A i \in Live' : SlotsOwn(h, i, inode[i].ptr)'
<1>0. TypeInv
  BY DEF NameInv
<1>1. ASSUME NEW i \in Live', NEW s \in Slots, inode[i].ptr[s] # 0
      PROVE  /\ h[inode[i].ptr[s]] = Place(i, DepthOf(s), 0, s)
             /\ DepthOf(s) > 0 => kind'[inode[i].ptr[s]] = "ptrs"
  <2> DEFINE b == inode[i].ptr[s]
  <2>1. b \in Blocks
    BY <1>0, <1>1, PointerTypes, LiveInodes
  <2>2. h[b] = Place(i, DepthOf(s), 0, s) /\ Cleared(b, DepthOf(s))
    BY <1>1 DEF Owned, InodesOwn, SlotsOwn
  <2>3. h[b].ino \in Live /\ h[b].level = DepthOf(s)
    BY <2>2, PlaceFields
  <2> HIDE DEF b
  <2>4. DepthOf(s) > 0 => kind'[b] = "ptrs"
    BY <2>1, <2>2, <2>3 DEF Cleared
  <2> QED BY <2>2, <2>4 DEF b
<1>2. \A i \in Live' : SlotsOwn(h, i, inode[i].ptr)'
  BY <1>1 DEF SlotsOwn, Cleared
<1>3. InodesOwn(h)'
  BY <1>1 DEF InodesOwn, SlotsOwn, Cleared
<1>4. BlocksOwn(h)'
  <2> SUFFICES ASSUME NEW p \in Blocks, NEW k \in 0 .. NPtr - 1,
                      h[p].ino \in Live' \union Doomed', h[p].level > 0,
                      kind'[p] = "ptrs", array'[p][k] # 0
               PROVE  /\ h[array'[p][k]] = Place(h[p].ino, h[p].level - 1, p, k)
                      /\ h[p].ino \in Live' /\ h[p].level - 1 > 0
                           => kind'[array'[p][k]] = "ptrs"
    BY DEF BlocksOwn, Cleared
  <2> DEFINE c == array[p][k]
             level == h[p].level - 1
  <2>1. kind[p] = "ptrs" /\ array'[p][k] = c /\ c # 0 /\ c \in Blocks
    BY <1>0, PointerTypes
  <2>2. /\ h[c] = Place(h[p].ino, level, p, k)
        /\ h[p].ino \in Live => Cleared(c, level)
    BY <2>1 DEF Owned, BlocksOwn
  <2>3. h[c].ino = h[p].ino /\ h[c].level = level
    BY <2>2, PlaceFields
  <2> HIDE DEF c, level
  <2>4. h[p].ino \in Live' /\ level > 0 => kind'[c] = "ptrs"
    BY <2>1, <2>2, <2>3 DEF Cleared
  <2> QED BY <2>1, <2>2, <2>4 DEF level
<1> QED BY <1>2, <1>3, <1>4

LEMMA WriteDataOwns ==
    ASSUME NameInv, NameInv', NEW h \in HomeMap, Owned(h), WriteData
    PROVE  Owned(h)'
<1>0. TypeInv /\ op \in OpRec
  BY OpTypes DEF NameInv
<1> DEFINE b == op.new
<1>1. /\ op.pc = "data" /\ b # 0 /\ b \in Blocks
      /\ op.put \in Live /\ h[b].ino = op.put /\ h[b].level = 0
      /\ kind' = [kind EXCEPT ![b] = "data"]
      /\ array' = [array EXCEPT ![b] = Zeros]
      /\ array \in [Blocks -> PtrArray]
      /\ kind \in [Blocks -> {"old", "data", "ptrs"}]
      /\ bbm' = bbm /\ inode' = inode
  BY <1>0, OpTypes DEF WriteData, Owned, WalkOwns, TypeInv, TypeOK, DiskTypeOK
<1>2. entry' = entry
  BY WriteDataEntries
<1>3. /\ \A c \in Blocks : c # b => kind'[c] = kind[c] /\ array'[c] = array[c]
      /\ kind'[b] = "data" /\ array'[b] = Zeros
  BY <1>1
<1> HIDE DEF b
<1>4. ASSUME Live' \subseteq Live, Doomed' = {}
      PROVE  /\ InodesOwn(h)' /\ BlocksOwn(h)' /\ OwnedIsMarked(h)'
             /\ FreeIsOld' /\ NoStrayPointers'
  <2>1. InodesOwn(h)' /\ BlocksOwn(h)'
    BY <1>1, <1>3, <1>4, PtrsFrame
  <2>2. b \in bbm
    BY <1>1 DEF Owned, OwnedIsMarked
  <2>3. OwnedIsMarked(h)' /\ NoStrayPointers' /\ FreeIsOld'
    BY <1>1, <1>3, <1>4, <2>2
       DEF Owned, OwnedIsMarked, FreeIsOld, NoStrayPointers
  <2> QED BY <2>1, <2>3
<1>5. \A s \in Slots : op.mem.ptr[s] # 0 =>
        /\ h[op.mem.ptr[s]] = Place(op.put, DepthOf(s), 0, s)
        /\ DepthOf(s) > 0 => kind'[op.mem.ptr[s]] = "ptrs"
  <2> SUFFICES ASSUME NEW s \in Slots, op.mem.ptr[s] # 0
               PROVE  /\ h[op.mem.ptr[s]] = Place(op.put, DepthOf(s), 0, s)
                      /\ DepthOf(s) > 0 => kind'[op.mem.ptr[s]] = "ptrs"
    OBVIOUS
  <2>1. op.mem.ptr[s] \in Blocks
    BY <1>0, PointerTypes
  <2>2. /\ h[op.mem.ptr[s]] = Place(op.put, DepthOf(s), 0, s)
        /\ Cleared(op.mem.ptr[s], DepthOf(s))
    BY <1>1 DEF Owned, MemOwns
  <2>3. h[op.mem.ptr[s]].level = DepthOf(s)
    BY <2>2, PlaceFields
  <2> QED BY <1>1, <1>3, <2>1, <2>2, <2>3 DEF Cleared
<1>6. CASE op.left > 1
  <2> DEFINE left == op.left - 1
             rest == [op EXCEPT !.left = left]
             next == op.lb + 1
  <2>1. op' = WalkFrom(rest, next)
    BY <1>0, <1>6 DEF WriteData, OpRec
  <2>2. /\ rest \in OpRec /\ rest.put = op.put /\ rest.mem = op.mem
        /\ rest.call = op.call /\ rest.ino = op.ino
    <3>1. left \in Nat
      BY <1>0, <1>6, OpTypes
    <3> HIDE DEF left
    <3> QED BY <1>0, <3>1 DEF OpRec
  <2>3. next \in Nat
    BY <1>0, OpTypes
  <2> HIDE DEF rest, next
  <2>4. op'.call = op.call /\ op'.ino = op.ino /\ op'.pc = "walk"
    BY <2>1, <2>2, WalkFromSame DEF SameCall
  <2>5. Live' = Live
    BY <1>1, <1>2, <2>4, LiveStays
  <2>6. MemOwns(h)' /\ WalkOwns(h)' /\ TodoOwns(h)' /\ Doomed' = {}
    BY <1>1, <1>5, <2>1, <2>2, <2>3, <2>5, WalkFromOwns
  <2> QED BY <1>4, <2>5, <2>6 DEF Owned
<1>7. CASE op' = Idle
  <2>1. /\ MemOwns(h)' /\ WalkOwns(h)' /\ TodoOwns(h)'
        /\ Making' = {} /\ Doomed' = {}
    BY <1>7, IdleOwns
  <2>2. Live' \subseteq Live
    BY <1>2, <2>1 DEF Live, Linked
  <2> QED BY <1>4, <2>1, <2>2 DEF Owned
<1>8. CASE op' = [op EXCEPT !.pc = "iput", !.lb = @ + 1, !.left = 0]
  <2> DEFINE next == op.lb + 1
  <2>1. op' = [op EXCEPT !.pc = "iput", !.lb = next, !.left = 0]
    BY <1>0, <1>8 DEF OpRec
  <2> HIDE DEF next
  <2>2. /\ op'.call = op.call /\ op'.ino = op.ino /\ op'.pc = "iput"
        /\ op'.put = op.put /\ op'.mem = op.mem
    BY <1>0, <2>1 DEF OpRec
  <2>3. Live' = Live /\ Doomed' = {}
    BY <1>1, <1>2, <2>2, LiveStays DEF Doomed
  <2>4. MemOwns(h)'
    BY <1>1, <1>5, <2>2, <2>3 DEF MemOwns, Cleared
  <2>5. WalkOwns(h)' /\ TodoOwns(h)'
    BY <1>1, <2>2, <2>3 DEF WalkOwns, TodoOwns
  <2> QED BY <1>4, <2>3, <2>4, <2>5 DEF Owned
<1> QED BY <1>6, <1>7, <1>8 DEF WriteData, ReturnWithoutInode

LEMMA RunOutOwns ==
    ASSUME NameInv, NameInv', NEW h \in HomeMap, Owned(h), RunOut
    PROVE  Owned(h)'
<1>0. TypeInv /\ op \in OpRec
  BY OpTypes DEF NameInv
<1>1. /\ op.pc = "walk" /\ op.put \in Live
      /\ bbm' = bbm /\ inode' = inode /\ kind' = kind /\ array' = array
      /\ entry' = entry
  BY DEF RunOut, OutOfSpace, diskVars, Owned, WalkOwns
<1>2. CASE op.call = "write" /\ op' = CutShort
  <2>1. /\ op'.pc = "iput" /\ op'.put = op.put /\ op'.mem = op.mem
        /\ op'.call = op.call /\ op'.ino = op.ino
    BY <1>0, <1>2 DEF CutShort, OpRec
  <2>2. Live' = Live /\ Doomed' = {}
    BY <1>1, <2>1, LiveStays DEF Doomed
  <2>3. MemOwns(h)'
    BY <1>1, <2>1, <2>2, MemFrame
  <2>4. WalkOwns(h)' /\ TodoOwns(h)'
    BY <1>1, <2>1, <2>2 DEF WalkOwns, TodoOwns
  <2> QED BY <1>1, <2>2, <2>3, <2>4, OwnFrame DEF Owned
<1>3. CASE op' = Idle
  <2>1. Linked' \subseteq Live
    BY <1>1 DEF Linked, Live
  <2> QED BY <1>1, <1>3, <2>1, ReturnOwns
<1>4. CASE op.call \in {"create", "mkdir"} /\ op' = Undo
  <2>0. /\ op.ino \in Inodes /\ op.ino \in Live /\ op.par \in Linked
        /\ inode \in [Inodes -> InodeRec]
    BY <1>0, <1>1, <1>4
       DEF NameInv, OpNames, Dirs, TypeInv, OpShape, TypeOK, DiskTypeOK, Live,
           Making
  <2> DEFINE todo == FreeList(inode[op.ino])
  <2>1. CASE /\ op.put = op.par
             /\ op' = [op EXCEPT !.pc = "free", !.todo = todo]
    <3>1. /\ op'.pc = "free" /\ op'.ino = op.ino /\ op'.todo = todo
          /\ op'.put = op.put /\ op'.mem = op.mem
      <4> HIDE DEF todo
      <4> QED BY <1>0, <2>1 DEF OpRec
    <3>2. SlotsOwn(h, op.ino, inode[op.ino].ptr)
      BY <2>0 DEF Owned, InodesOwn
    <3>3. WalkOwns(h)' /\ TodoOwns(h)' /\ Doomed' = {op.ino}
      BY <2>0, <3>1, <3>2, FreeOwns
    <3>4. Live' \subseteq Live /\ op.put \in Live'
      BY <1>1, <2>0, <2>1, <3>1, LiveShrinks DEF Live, Linked
    <3>5. MemOwns(h)'
      BY <1>1, <3>1, <3>4, MemFrame
    <3> QED BY <1>1, <2>0, <3>3, <3>4, <3>5, OwnFrame DEF Owned
  <2>2. CASE op' = [op EXCEPT !.pc = "ifree"]
    <3>1. op'.pc = "ifree" /\ op'.put = op.put /\ op'.mem = op.mem
      BY <1>0, <2>2 DEF OpRec
    <3>2. Live' \subseteq Live /\ Doomed' = {}
      BY <1>1, <3>1, LiveShrinks DEF Doomed
    <3>3. MemOwns(h)'
      BY <1>1, <3>1, <3>2, MemFrame
    <3>4. WalkOwns(h)' /\ TodoOwns(h)'
      BY <3>1 DEF WalkOwns, TodoOwns
    <3> QED BY <1>1, <3>2, <3>3, <3>4, OwnFrame DEF Owned
  <2> QED BY <1>4, <2>1, <2>2 DEF Undo
<1> QED BY <1>2, <1>3, <1>4 DEF RunOut, ReturnWithoutInode

-----------------------------------------------------------------------------
(* Inodes and names. *)

LEMMA NamingOwns ==
    ASSUME NameInv, op.call \in {"create", "mkdir"},
           op.pc \notin {"iinit", "free", "ifree"},
           entry' = [entry EXCEPT ![op.par][op.name] = op.ino]
    PROVE  Linked' \subseteq Live
<1>1. /\ entry \in [Inodes -> [Names -> Inodes \union {0}]]
      /\ op.par \in Inodes /\ op.name \in Names
  BY DEF NameInv, TypeInv, TypeOK, DiskTypeOK, OpShape, OpRec
<1>2. \A e \in Inodes, m \in Names :
        entry'[e][m] = entry[e][m] \/ entry'[e][m] = op.ino
  BY <1>1
<1> QED BY <1>2 DEF Linked, Live, Making

LEMMA WriteEntryOwns ==
    ASSUME NameInv, NameInv', NEW h \in HomeMap, Owned(h), WriteEntry
    PROVE  Owned(h)'
<1>1. op.call \in {"create", "mkdir"}
  BY DEF WriteEntry, NameInv, TypeInv, TypeOK, DiskTypeOK, OpRec, OpNames,
     Calls
<1>2. Linked' \subseteq Live
  BY <1>1, NamingOwns DEF WriteEntry
<1> QED BY <1>2, ReturnOwns DEF WriteEntry

(* AddEntry begins with a copy of the directory. *)
LEMMA AddEntryOwns ==
    ASSUME NameInv, NEW h \in HomeMap, NEW o \in OpRec, o.par \in Inodes,
           op' = AddEntry(o), o.par \in Live',
           \A s \in Slots : inode[o.par].ptr[s] # 0 =>
             /\ h[inode[o.par].ptr[s]] = Place(o.par, DepthOf(s), 0, s)
             /\ DepthOf(s) > 0 => kind'[inode[o.par].ptr[s]] = "ptrs"
    PROVE  MemOwns(h)' /\ WalkOwns(h)' /\ TodoOwns(h)' /\ Doomed' = {}
<1> DEFINE mem == inode[o.par]
           parent == [o EXCEPT !.put = o.par, !.mem = mem]
<1>1. mem \in InodeRec /\ mem.size \in Nat
  BY DEF NameInv, TypeInv, TypeOK, DiskTypeOK, InodeRec
<1>2. \A s \in Slots : mem.ptr[s] # 0 =>
             /\ h[mem.ptr[s]] = Place(o.par, DepthOf(s), 0, s)
             /\ DepthOf(s) > 0 => kind'[mem.ptr[s]] = "ptrs"
  OBVIOUS
<1> HIDE DEF mem
<1>3. /\ parent \in OpRec /\ parent.mem = mem /\ parent.put = o.par
  BY <1>1 DEF OpRec
<1>4. op' = [parent EXCEPT !.pc = "dirent"]
      \/ op' = WalkFrom(parent, parent.mem.size)
  BY DEF AddEntry, mem
<1> HIDE DEF parent
<1>5. CASE op' = [parent EXCEPT !.pc = "dirent"]
  <2>1. op'.pc = "dirent" /\ op'.put = o.par /\ op'.mem = mem
    BY <1>3, <1>5 DEF OpRec
  <2>2. MemOwns(h)'
    BY <1>2, <2>1 DEF MemOwns, Cleared
  <2> QED BY <2>1, <2>2 DEF WalkOwns, TodoOwns, Doomed
<1>6. CASE op' = WalkFrom(parent, parent.mem.size)
  <2> DEFINE lb == parent.mem.size
  <2>1. lb \in Nat /\ op' = WalkFrom(parent, lb)
    BY <1>1, <1>3, <1>6
  <2> HIDE DEF lb
  <2> QED BY <1>2, <1>3, <2>1, WalkFromOwns
<1> QED BY <1>4, <1>5, <1>6

(* What an inode made anew owned before is nobody's. *)
LEMMA InitInodeOwns ==
    ASSUME NameInv, NameInv', NEW h \in HomeMap, Owned(h), InitInode,
           NEW g, g = Homes(h)
    PROVE  g \in HomeMap /\ Owned(g)'
<1> DEFINE new == FreshInode(op.call = "mkdir")
           i == op.ino
<1>0. /\ TypeInv /\ op \in OpRec /\ op.pc = "iinit"
      /\ op.call \in {"create", "mkdir"}
      /\ i \in Inodes /\ i # 0 /\ i \notin Linked
      /\ op.par \in Inodes /\ op.par \in Linked
      /\ inode \in [Inodes -> InodeRec]
  BY RootIsInode DEF InitInode, NameInv, OpNames, Dirs, TypeInv, TypeOK, DiskTypeOK,
     OpShape
<1>1. /\ entry' = entry /\ bbm' = bbm /\ kind' = kind /\ array' = array
      /\ inode' = [inode EXCEPT ![i] = new]
  BY DEF InitInode
<1>2. new \in InodeRec /\ \A s \in Slots : new.ptr[s] = 0
  <2>1. new \in InodeRec
    BY FreshType
  <2> QED BY <2>1 DEF FreshInode
<1>3. inode'[i] = new /\ \A j \in Inodes : j # i => inode'[j] = inode[j]
  <2> HIDE DEF new, i
  <2> QED BY <1>0, <1>1
<1>4. Live = Linked /\ Live' \subseteq Linked \union {i} /\ op.par \in Live'
  <2>1. op'.call \in {"create", "mkdir"} => op'.ino = i
    <3>1. CASE op' = AddEntry(op)
      BY <1>0, <3>1, AddEntrySame DEF TypeInv
    <3>2. CASE op' = WalkFrom([op EXCEPT !.put = op.ino, !.mem = new], 0)
      <4> DEFINE start == [op EXCEPT !.put = i, !.mem = new]
      <4>1. op' = WalkFrom(start, 0)
        BY <3>2
      <4>2. start \in OpRec /\ start.ino = i
        <5>1. start = [op EXCEPT !.put = i, !.mem = new]
          OBVIOUS
        <5>2. op \in OpRec /\ i \in Inodes /\ op.ino = i /\ new \in InodeRec
          BY <1>0, <1>2
        <5> HIDE DEF start, new, i
        <5>3. start \in OpRec
          BY <5>1, <5>2 DEF OpRec
        <5> QED BY <5>1, <5>2, <5>3 DEF OpRec
      <4> HIDE DEF start
      <4> QED BY <4>1, <4>2, WalkFromSame DEF SameCall
    <3> QED BY <3>1, <3>2 DEF InitInode
  <2> QED BY <1>0, <1>1, <2>1 DEF Live, Making, Linked
<1>5. op'.pc \in {"walk", "dirent"}
  <2>1. CASE op' = AddEntry(op)
    BY <1>0, <2>1, AddEntrySame DEF TypeInv
  <2>2. CASE op' = WalkFrom([op EXCEPT !.put = op.ino, !.mem = new], 0)
    <3> DEFINE start == [op EXCEPT !.put = op.ino, !.mem = new]
    <3>1. start \in OpRec
      <4> HIDE DEF new
      <4> QED BY <1>0, <1>2 DEF OpRec
    <3>2. op' = WalkFrom(start, 0)
      BY <2>2
    <3> HIDE DEF start
    <3> QED BY <3>1, <3>2, WalkFromSame
  <2> QED BY <2>1, <2>2 DEF InitInode
<1>6. /\ g \in HomeMap
      /\ \A b \in Blocks : g[b] = IF h[b].ino = i THEN Nowhere ELSE h[b]
  <2>1. g = [b \in Blocks |-> IF h[b].ino = i THEN Nowhere ELSE h[b]]
    BY <1>0, <1>1, <1>5 DEF Homes
  <2>2. Nowhere \in Places
    BY DiskAssumption DEF Nowhere, Place, Places
  <2> QED BY <2>1, <2>2, HomeTypes DEF HomeMap
<1> HIDE DEF new, i
<1>7. Nowhere.ino = 0 /\ 0 \notin Live'
  <2>1. Nowhere.ino = 0
    BY DEF Nowhere, Place
  <2>2. Linked \subseteq Inodes
    BY <1>0, LinkedInodes DEF TypeInv
  <2> QED BY <1>0, <1>4, <2>1, <2>2, RootIsInode
<1>8. \A b \in Blocks : h[b].ino \in Linked => g[b] = h[b]
  BY <1>0, <1>6
<1>9. \A b \in Blocks : g[b].ino \in Live' => g[b] = h[b] /\ h[b].ino \in Linked
  BY <1>4, <1>6, <1>7
<1>10. ASSUME NEW j \in Linked, NEW s \in Slots, inode[j].ptr[s] # 0
       PROVE  /\ g[inode[j].ptr[s]] = Place(j, DepthOf(s), 0, s)
              /\ Cleared(inode[j].ptr[s], DepthOf(s))
  <2>1. inode[j].ptr[s] \in Blocks
    BY <1>0, <1>10, PointerTypes, LinkedInodes DEF TypeInv
  <2>2. /\ h[inode[j].ptr[s]] = Place(j, DepthOf(s), 0, s)
        /\ Cleared(inode[j].ptr[s], DepthOf(s))
    BY <1>4, <1>10 DEF Owned, InodesOwn, SlotsOwn
  <2> QED BY <1>8, <2>1, <2>2, PlaceFields
<1>11. InodesOwn(g)'
  <2> SUFFICES ASSUME NEW j \in Live', NEW s \in Slots, inode'[j].ptr[s] # 0
               PROVE  /\ g[inode'[j].ptr[s]] = Place(j, DepthOf(s), 0, s)
                      /\ DepthOf(s) > 0 => kind'[inode'[j].ptr[s]] = "ptrs"
    BY DEF InodesOwn, SlotsOwn, Cleared
  <2>1. j # i
    BY <1>2, <1>3
  <2>2. j \in Linked /\ j \in Inodes
    BY <1>0, <1>4, <2>1, LinkedInodes DEF TypeInv
  <2> QED BY <1>1, <1>3, <1>10, <2>1, <2>2 DEF Cleared
<1>12. Doomed = {}
  BY <1>0 DEF Doomed
<1>13. ASSUME Doomed' = {} PROVE BlocksOwn(g)'
  <2> SUFFICES ASSUME NEW p \in Blocks, NEW k \in 0 .. NPtr - 1,
                      g[p].ino \in Live', g[p].level > 0, kind[p] = "ptrs",
                      array[p][k] # 0
               PROVE  /\ g[array[p][k]] = Place(g[p].ino, g[p].level - 1, p, k)
                      /\ Cleared(array[p][k], g[p].level - 1)
    BY <1>1, <1>13 DEF BlocksOwn, Cleared
  <2>1. g[p] = h[p] /\ h[p].ino \in Linked /\ h[p].ino \in Live
    BY <1>4, <1>9
  <2>2. /\ h[array[p][k]] = Place(h[p].ino, h[p].level - 1, p, k)
        /\ Cleared(array[p][k], h[p].level - 1)
    BY <2>1 DEF Owned, BlocksOwn
  <2>3. array[p][k] \in Blocks
    BY <1>0, PointerTypes
  <2> QED BY <1>8, <2>1, <2>2, <2>3, PlaceFields
<1>14. OwnedIsMarked(g)' /\ FreeIsOld' /\ NoStrayPointers'
  BY <1>1, <1>4, <1>9 DEF Owned, OwnedIsMarked, FreeIsOld, NoStrayPointers
<1>15. MemOwns(g)' /\ WalkOwns(g)' /\ TodoOwns(g)' /\ Doomed' = {}
  <2>1. CASE op.call = "create"
    <3>1. op' = AddEntry(op)
      BY <2>1 DEF InitInode
    <3>2. \A s \in Slots : inode[op.par].ptr[s] # 0 =>
             /\ g[inode[op.par].ptr[s]] = Place(op.par, DepthOf(s), 0, s)
             /\ DepthOf(s) > 0 => kind'[inode[op.par].ptr[s]] = "ptrs"
      BY <1>0, <1>1, <1>10 DEF Cleared
    <3> QED BY <1>0, <1>4, <1>6, <3>1, <3>2, AddEntryOwns
  <2>2. CASE op.call = "mkdir"
    <3> DEFINE start == [op EXCEPT !.put = i, !.mem = new]
    <3>1. op' = WalkFrom(start, 0)
      BY <2>2 DEF InitInode, i, new
    <3>2. /\ start \in OpRec /\ start.put = i /\ start.mem = new
          /\ start.call = op.call /\ start.ino = op.ino
      BY <1>0, <1>2 DEF OpRec
    <3> HIDE DEF start
    <3>3. op'.pc = "walk" /\ op'.call = op.call /\ op'.ino = op.ino
      BY <3>1, <3>2, WalkFromSame DEF SameCall
    <3>4. i \in Live'
      BY <2>2, <3>3 DEF Live, Making, i
    <3> QED BY <1>2, <1>6, <3>1, <3>2, <3>4, WalkFromOwns
  <2> QED BY <1>0, <2>1, <2>2
<1> QED BY <1>6, <1>11, <1>13, <1>14, <1>15 DEF Owned

LEMMA PutInodeOwns ==
    ASSUME NameInv, NameInv', NEW h \in HomeMap, Owned(h), PutInode
    PROVE  Owned(h)'
<1>0. /\ TypeInv /\ op \in OpRec /\ op.pc = "iput" /\ op.mem \in InodeRec
      /\ op.put \in Live /\ op.put \in Inodes
      /\ inode \in [Inodes -> InodeRec]
      /\ op.call \in {"create", "mkdir", "write", "fwrite"}
  <2>1. op.pc = "iput" /\ op.put \in Live
    BY DEF PutInode, Owned, WalkOwns
  <2>2. op.put \in Inodes
    BY <2>1, LiveInodes
  <2> QED BY <2>1, <2>2, OpTypes
          DEF NameInv, OpNames, TypeInv, TypeOK, DiskTypeOK, OpRec, Calls
<1> DEFINE rec == Stored
<1>1. rec \in InodeRec /\ rec.ptr = op.mem.ptr
  <2> DEFINE size == IF op.lb > op.mem.size THEN op.lb ELSE op.mem.size
  <2>1. rec = [op.mem EXCEPT !.size = size]
    BY <1>0 DEF Stored, InodeRec
  <2>2. size \in Nat
    BY <1>0, OpTypes DEF InodeRec
  <2> HIDE DEF rec, size
  <2> QED BY <1>0, <2>1, <2>2 DEF InodeRec
<1>2. /\ inode' = [inode EXCEPT ![op.put] = rec]
      /\ bbm' = bbm /\ kind' = kind /\ array' = array
  BY DEF PutInode
<1> HIDE DEF rec
<1>3. /\ inode'[op.put].ptr = op.mem.ptr
      /\ \A j \in Inodes : j # op.put => inode'[j] = inode[j]
  BY <1>0, <1>1, <1>2
<1>4. Linked' \subseteq Live
  <2>1. CASE op.put = op.par
    <3>1. op.call \in {"create", "mkdir"}
      BY <1>0, <2>1, RootIsInode DEF NameInv, OpNames
    <3> QED BY <1>0, <2>1, <3>1, NamingOwns DEF PutInode
  <2>2. CASE op.put # op.par
    BY <2>2 DEF PutInode, Linked, Live
  <2> QED BY <2>1, <2>2
<1>5. \A j \in Live, s \in Slots : inode'[j].ptr[s] # 0 =>
        /\ h[inode'[j].ptr[s]] = Place(j, DepthOf(s), 0, s)
        /\ Cleared(inode'[j].ptr[s], DepthOf(s))
  <2> SUFFICES ASSUME NEW j \in Live, NEW s \in Slots, inode'[j].ptr[s] # 0
               PROVE  /\ h[inode'[j].ptr[s]] = Place(j, DepthOf(s), 0, s)
                      /\ Cleared(inode'[j].ptr[s], DepthOf(s))
    OBVIOUS
  <2>1. CASE j = op.put
    BY <1>0, <1>3, <2>1 DEF Owned, MemOwns
  <2>2. CASE j # op.put
    <3>1. inode'[j] = inode[j]
      BY <1>3, <2>2, LiveInodes
    <3> QED BY <3>1 DEF Owned, InodesOwn, SlotsOwn
  <2> QED BY <2>1, <2>2
<1>6. ASSUME Live' \subseteq Live, Doomed' = {}
      PROVE  /\ InodesOwn(h)' /\ BlocksOwn(h)' /\ OwnedIsMarked(h)'
             /\ FreeIsOld' /\ NoStrayPointers'
  <2>1. InodesOwn(h)'
    BY <1>2, <1>5, <1>6 DEF InodesOwn, SlotsOwn, Cleared
  <2>2. BlocksOwn(h)'
    BY <1>2, <1>6 DEF Owned, BlocksOwn, Cleared
  <2>3. OwnedIsMarked(h)' /\ FreeIsOld' /\ NoStrayPointers'
    BY <1>2, <1>6 DEF Owned, OwnedIsMarked, FreeIsOld, NoStrayPointers
  <2> QED BY <2>1, <2>2, <2>3
<1>7. CASE op' = Idle
  <2>1. /\ MemOwns(h)' /\ WalkOwns(h)' /\ TodoOwns(h)'
        /\ Making' = {} /\ Doomed' = {}
    BY <1>7, IdleOwns
  <2>2. Live' \subseteq Live
    BY <1>4, <2>1 DEF Live
  <2> QED BY <1>6, <2>1, <2>2 DEF Owned
<1>8. CASE op.call = "mkdir" /\ op.put = op.ino /\ op' = AddEntry(op)
  <2>1. op.par \in Linked /\ op.par \in Inodes /\ op.put # op.par
    <3>1. op.par \in Linked /\ op.ino \notin Linked
      BY <1>0, <1>8 DEF NameInv, OpNames, Dirs
    <3>2. Linked \subseteq Inodes
      BY <1>0, LinkedInodes DEF TypeInv
    <3> QED BY <1>8, <3>1, <3>2
  <2>2. op'.call = op.call /\ op'.ino = op.ino /\ op'.pc \in {"walk", "dirent"}
    BY <1>0, <1>8, <2>1, AddEntrySame DEF TypeInv
  <2>3. entry' = entry
    BY <2>1 DEF PutInode
  <2>4. Live' = Live /\ op.par \in Live'
    BY <1>0, <2>1, <2>2, <2>3, LiveStays, LinkedLive
  <2>5. \A s \in Slots : inode[op.par].ptr[s] # 0 =>
             /\ h[inode[op.par].ptr[s]] = Place(op.par, DepthOf(s), 0, s)
             /\ DepthOf(s) > 0 => kind'[inode[op.par].ptr[s]] = "ptrs"
    BY <1>2, <2>4 DEF Owned, InodesOwn, SlotsOwn, Cleared
  <2>6. MemOwns(h)' /\ WalkOwns(h)' /\ TodoOwns(h)' /\ Doomed' = {}
    BY <1>0, <1>8, <2>1, <2>4, <2>5, AddEntryOwns
  <2> QED BY <1>6, <2>4, <2>6 DEF Owned
<1> QED BY <1>7, <1>8 DEF PutInode

-----------------------------------------------------------------------------
(* inode_free_blocks and free_inode. *)

LEMMA FreeFacts ==
    ASSUME NameInv, op.pc \in {"free", "ifree"}
    PROVE  /\ TypeInv /\ op \in OpRec
           /\ op.call \in {"create", "mkdir", "delete"}
           /\ op.ino \notin Linked /\ Live = Linked /\ op.todo \in Seq(Piece)
BY OpTypes DEF NameInv, OpNames, OpRec, Calls, Live, Making

(* One step through the list, whatever is left of it. *)
LEMMA TodoFrame ==
    ASSUME NameInv, NEW h \in HomeMap, Owned(h), op.pc = "free",
           entry' = entry, NEW todo, op' = [op EXCEPT !.todo = todo],
           \A j \in 1 .. Len(todo) : todo[j][1] # 0 =>
             /\ h[todo[j][1]].ino = op.ino
             /\ todo[j][2] > 0 => h[todo[j][1]].level = todo[j][2]
    PROVE  /\ Live' = Live /\ Doomed' = Doomed /\ Doomed = {op.ino}
           /\ WalkOwns(h)' /\ TodoOwns(h)'
           /\ op'.pc = "free" /\ op'.put = op.put /\ op'.mem = op.mem
<1>1. /\ op'.pc = "free" /\ op'.ino = op.ino /\ op'.todo = todo
      /\ op'.put = op.put /\ op'.mem = op.mem
  BY FreeFacts DEF OpRec
<1>2. Live' = Live /\ Doomed' = Doomed /\ Doomed = {op.ino}
  BY <1>1, FreeFacts DEF Live, Making, Linked, Doomed
<1>3. WalkOwns(h)' /\ TodoOwns(h)'
  BY <1>1 DEF WalkOwns, TodoOwns
<1> QED BY <1>1, <1>2, <1>3

LEMMA RestAt ==
    ASSUME op.todo \in Seq(Piece), NEW j \in 1 .. Len(op.todo),
           NEW m \in 1 .. Len(Rest(j))
    PROVE  j + m \in 1 .. Len(op.todo) /\ Rest(j)[m] = op.todo[j + m]
<1> DEFINE todo == op.todo
<1>1. todo \in Seq(Piece) /\ Rest(j) = SubSeq(todo, j + 1, Len(todo))
  BY DEF Rest
<1> HIDE DEF todo
<1>2. Len(todo) \in Nat /\ j \in 1 .. Len(todo)
  BY <1>1 DEF todo
<1>3. Len(Rest(j)) = Len(todo) - j
  BY <1>1, <1>2
<1>4. m \in 1 .. Len(todo) - j
  BY <1>3
<1>5. Rest(j)[m] = todo[j + m]
  BY <1>1, <1>2, <1>4
<1> QED BY <1>2, <1>4, <1>5 DEF todo

LEMMA ConcatLength ==
    ASSUME NEW S, NEW s \in Seq(S), NEW t \in Seq(S)
    PROVE  Len(s \o t) = Len(s) + Len(t)
OBVIOUS

LEMMA ConcatBehind ==
    ASSUME NEW S, NEW s \in Seq(S), NEW t \in Seq(S),
           NEW x \in 1 .. Len(t), NEW y, y = Len(s) + x
    PROVE  (s \o t)[y] = t[x]
OBVIOUS

(* Expanded(j) is the children, the block itself, and the rest. *)
LEMMA ExpandedShape ==
    ASSUME op.todo \in Seq(Piece), NEW j \in 1 .. Len(op.todo)
    PROVE  /\ Rest(j) \in Seq(Piece)
           /\ Len(Expanded(j)) = NPtr + 1 + Len(Rest(j))
           /\ \A k \in 1 .. NPtr : Expanded(j)[k]
                = <<array[op.todo[j][1]][k - 1], op.todo[j][2] - 1>>
           /\ Expanded(j)[NPtr + 1] = <<op.todo[j][1], 0>>
           /\ \A x \in 1 .. Len(Rest(j)) :
                Expanded(j)[NPtr + 1 + x] = Rest(j)[x]
<1> DEFINE b == op.todo[j][1]
           level == op.todo[j][2] - 1
           piece(k) == <<array[b][k - 1], level>>
           below == [k \in 1 .. NPtr |-> piece(k)]
           rest == Rest(j)
<1>0. NPtr \in Nat
  BY DiskAssumption
<1>1. Expanded(j) = below \o <<<<b, 0>>>> \o rest
  BY DEF Expanded
<1>2. \A k \in 1 .. NPtr : piece(k) = <<array[b][k - 1], level>>
  OBVIOUS
<1>3. rest \in Seq(Piece)
  BY RestType
<1> HIDE DEF piece, b, level
<1>4. /\ below \in Seq({piece(k) : k \in 1 .. NPtr}) /\ Len(below) = NPtr
      /\ \A k \in 1 .. NPtr : below[k] = piece(k)
  BY <1>0
<1> HIDE DEF below, rest
<1> DEFINE P == {piece(k) : k \in 1 .. NPtr} \union {<<b, 0>>} \union Piece
           front == below \o <<<<b, 0>>>>
<1>5. /\ below \in Seq(P) /\ <<<<b, 0>>>> \in Seq(P) /\ rest \in Seq(P)
  BY <1>3, <1>4
<1>6. front \in Seq(P) /\ Len(front) = NPtr + 1
  BY <1>4, <1>5
<1>7. \A k \in 1 .. NPtr : front[k] = piece(k)
  BY <1>0, <1>4, <1>5
<1>8. front[NPtr + 1] = <<b, 0>>
  BY <1>0, <1>4, <1>5
<1>9. Expanded(j) = front \o rest
  BY <1>1
<1> HIDE DEF front, P
<1>10. /\ Len(Expanded(j)) = NPtr + 1 + Len(rest)
       /\ \A x \in 1 .. NPtr + 1 : Expanded(j)[x] = front[x]
       /\ \A x \in 1 .. Len(rest) : Expanded(j)[NPtr + 1 + x] = rest[x]
  <2>1. Len(front) = NPtr + 1 /\ Len(rest) \in Nat
    BY <1>5, <1>6
  <2>2. Len(Expanded(j)) = NPtr + 1 + Len(rest)
    <3>1. Len(front \o rest) = Len(front) + Len(rest)
      BY ONLY <1>5, <1>6, ConcatLength
    <3> QED BY <1>9, <2>1, <3>1
  <2>3. ASSUME NEW x \in 1 .. NPtr + 1 PROVE Expanded(j)[x] = front[x]
    <3>1. x \in 1 .. Len(front) + Len(rest) /\ x <= Len(front)
      BY <1>0, <2>1
    <3> QED BY ONLY <1>5, <1>6, <1>9, <3>1
  <2>4. ASSUME NEW x \in 1 .. Len(rest)
        PROVE  Expanded(j)[NPtr + 1 + x] = rest[x]
    <3>1. PICK y : y = NPtr + 1 + x
      OBVIOUS
    <3>2. y = Len(front) + x
      BY <2>1, <3>1
    <3>3. (front \o rest)[y] = rest[x]
      BY ONLY <1>5, <1>6, <3>2, x \in 1 .. Len(rest), ConcatBehind
    <3>4. Expanded(j)[y] = rest[x]
      BY ONLY <1>9, <3>3
    <3> QED BY ONLY <3>1, <3>4
  <2> QED BY <2>2, <2>3, <2>4
<1>11. \A k \in 1 .. NPtr : Expanded(j)[k] = <<array[b][k - 1], level>>
  BY <1>0, <1>2, <1>7, <1>10
<1>12. Expanded(j)[NPtr + 1] = <<b, 0>>
  BY <1>0, <1>8, <1>10
<1>13. \A k \in 1 .. NPtr : Expanded(j)[k]
         = <<array[op.todo[j][1]][k - 1], op.todo[j][2] - 1>>
  BY ONLY <1>11 DEF b, level
<1>14. Expanded(j)[NPtr + 1] = <<op.todo[j][1], 0>>
  BY ONLY <1>12 DEF b
<1>15. /\ Rest(j) \in Seq(Piece)
       /\ Len(Expanded(j)) = NPtr + 1 + Len(Rest(j))
       /\ \A x \in 1 .. Len(Rest(j)) :
            Expanded(j)[NPtr + 1 + x] = Rest(j)[x]
  BY ONLY <1>3, <1>10 DEF rest
<1> QED BY ONLY <1>13, <1>14, <1>15

(* What Expanded(j) holds: the children, the block itself, and the rest. *)
LEMMA ExpandedAt ==
    ASSUME op.todo \in Seq(Piece), NEW j \in 1 .. Len(op.todo),
           array \in [Blocks -> PtrArray],
           op.todo[j][1] # 0, op.todo[j][2] > 0,
           NEW m \in 1 .. Len(Expanded(j))
    PROVE  \/ \E k \in 0 .. NPtr - 1 :
                Expanded(j)[m] = <<array[op.todo[j][1]][k], op.todo[j][2] - 1>>
           \/ Expanded(j)[m] = <<op.todo[j][1], 0>>
           \/ \E l \in 1 .. Len(op.todo) : l > j /\ Expanded(j)[m] = op.todo[l]
<1> DEFINE b == op.todo[j][1]
           level == op.todo[j][2] - 1
           rest == Rest(j)
<1>0. NPtr \in Nat
  BY DiskAssumption
<1>1. /\ rest \in Seq(Piece) /\ Len(Expanded(j)) = NPtr + 1 + Len(rest)
      /\ \A k \in 1 .. NPtr : Expanded(j)[k] = <<array[b][k - 1], level>>
      /\ Expanded(j)[NPtr + 1] = <<b, 0>>
      /\ \A x \in 1 .. Len(rest) : Expanded(j)[NPtr + 1 + x] = rest[x]
  BY ExpandedShape
<1> HIDE DEF b, level, rest
<1>2. CASE m \in 1 .. NPtr
  <2>1. Expanded(j)[m] = <<array[b][m - 1], level>>
    BY <1>1, <1>2
  <2>2. m - 1 \in 0 .. NPtr - 1
    BY <1>0, <1>2
  <2> QED BY <2>1, <2>2 DEF b, level
<1>3. CASE m = NPtr + 1
  BY <1>1, <1>3 DEF b
<1>4. CASE m > NPtr + 1
  <2> DEFINE x == m - (NPtr + 1)
  <2>1. x \in 1 .. Len(rest) /\ m = NPtr + 1 + x
    BY <1>0, <1>1, <1>4
  <2>2. Expanded(j)[m] = rest[x]
    BY <1>1, <2>1
  <2> HIDE DEF x
  <2>3. j + x \in 1 .. Len(op.todo) /\ rest[x] = op.todo[j + x]
    BY <2>1, RestAt DEF rest
  <2> QED BY <2>1, <2>2, <2>3
<1> QED BY <1>0, <1>1, <1>2, <1>3, <1>4

LEMMA ExpandOwns ==
    ASSUME NameInv, NEW h \in HomeMap, Owned(h), ExpandPointerBlock
    PROVE  Owned(h)'
<1>0. /\ TypeInv /\ op \in OpRec /\ op.pc = "free" /\ UNCHANGED diskVars
      /\ op.todo \in Seq(Piece) /\ op.call \in {"create", "mkdir", "delete"}
      /\ array \in [Blocks -> PtrArray] /\ Doomed = {op.ino}
  BY FreeFacts DEF ExpandPointerBlock, TypeInv, TypeOK, DiskTypeOK, Doomed
<1>1. PICK j \in 1 .. Len(op.todo) :
        /\ op.todo[j][1] # 0 /\ op.todo[j][2] > 0
        /\ op' = [op EXCEPT !.todo = Expanded(j)]
  BY DEF ExpandPointerBlock, FirstOf
<1> DEFINE b == op.todo[j][1]
           level == op.todo[j][2]
<1>2. /\ b \in Blocks /\ level \in 1 .. NLevel
      /\ h[b].ino = op.ino /\ h[b].level = level
  <2>1. op.todo[j] \in Piece
    BY <1>0
  <2>2. b \in Blocks \union {0} /\ level \in 0 .. NLevel
    BY <2>1 DEF Piece
  <2>3. h[b].ino = op.ino /\ h[b].level = level
    BY <1>0, <1>1 DEF Owned, TodoOwns
  <2>4. b # 0 /\ level > 0
    BY <1>1
  <2>5. level \in 1 .. NLevel
    <3>1. NLevel \in Nat
      BY DiskAssumption
    <3> QED BY <2>2, <2>4, <3>1
  <2> QED BY <2>2, <2>3, <2>4, <2>5
<1>3. ASSUME NEW k \in 0 .. NPtr - 1, array[b][k] # 0
      PROVE  /\ h[array[b][k]].ino = op.ino
             /\ level - 1 > 0 => h[array[b][k]].level = level - 1
  <2>1. CASE kind[b] = "ptrs"
    <3>1. h[array[b][k]] = Place(h[b].ino, h[b].level - 1, b, k)
      BY <1>0, <1>2, <1>3, <2>1 DEF Owned, BlocksOwn
    <3> QED BY <1>2, <3>1, PlaceFields
  <2>2. CASE kind[b] # "ptrs"
    <3>1. array[b] = Zeros
      BY <1>2, <2>2 DEF Owned, NoStrayPointers
    <3> QED BY <1>3, <3>1 DEF Zeros
  <2> QED BY <2>1, <2>2
<1>4. ASSUME NEW m \in 1 .. Len(Expanded(j)), Expanded(j)[m][1] # 0
      PROVE  /\ h[Expanded(j)[m][1]].ino = op.ino
             /\ Expanded(j)[m][2] > 0
                  => h[Expanded(j)[m][1]].level = Expanded(j)[m][2]
  <2>1. \/ \E k \in 0 .. NPtr - 1 : Expanded(j)[m] = <<array[b][k], level - 1>>
        \/ Expanded(j)[m] = <<b, 0>>
        \/ \E l \in 1 .. Len(op.todo) : l > j /\ Expanded(j)[m] = op.todo[l]
    BY <1>0, <1>1, ExpandedAt
  <2> DEFINE e == Expanded(j)[m]
  <2> HIDE DEF e, b, level
  <2>2. CASE \E k \in 0 .. NPtr - 1 : e = <<array[b][k], level - 1>>
    <3>1. PICK k \in 0 .. NPtr - 1 : e = <<array[b][k], level - 1>>
      BY <2>2
    <3>2. e[1] = array[b][k] /\ e[2] = level - 1
      BY <3>1
    <3> QED BY <1>3, <1>4, <3>2 DEF e
  <2>3. CASE e = <<b, 0>>
    <3>1. e[1] = b /\ e[2] = 0
      BY <2>3
    <3> QED BY <1>2, <3>1 DEF e
  <2>4. CASE \E l \in 1 .. Len(op.todo) : l > j /\ e = op.todo[l]
    <3>1. PICK l \in 1 .. Len(op.todo) : e = op.todo[l]
      BY <2>4
    <3> QED BY <1>0, <1>4, <3>1 DEF Owned, TodoOwns, e
  <2> QED BY <2>1, <2>2, <2>3, <2>4 DEF e
<1> DEFINE todo == Expanded(j)
<1>5. /\ op' = [op EXCEPT !.todo = todo] /\ entry' = entry
      /\ \A m \in 1 .. Len(todo) : todo[m][1] # 0 =>
           /\ h[todo[m][1]].ino = op.ino
           /\ todo[m][2] > 0 => h[todo[m][1]].level = todo[m][2]
  BY <1>0, <1>1, <1>4 DEF diskVars
<1> HIDE DEF todo, b, level
<1>6. /\ Live' = Live /\ Doomed' = Doomed
      /\ WalkOwns(h)' /\ TodoOwns(h)'
      /\ op'.pc = "free" /\ op'.put = op.put /\ op'.mem = op.mem
  BY <1>0, <1>5, TodoFrame
<1>7. MemOwns(h)'
  BY <1>0, <1>6, MemFrame DEF diskVars
<1> QED BY <1>0, <1>6, <1>7, OwnFrame DEF Owned, diskVars

LEMMA FreeBlockOwns ==
    ASSUME NameInv, NEW h \in HomeMap, Owned(h), FreeBlock
    PROVE  Owned(h)'
<1>0. /\ TypeInv /\ op \in OpRec /\ op.pc = "free"
      /\ op.todo \in Seq(Piece) /\ op.ino \notin Linked /\ Live = Linked
      /\ inode' = inode /\ entry' = entry
  BY FreeFacts DEF FreeBlock
<1>1. PICK j \in 1 .. Len(op.todo) :
        /\ op.todo[j][1] # 0
        /\ bbm' = bbm \ {op.todo[j][1]}
        /\ kind' = [kind EXCEPT ![op.todo[j][1]] = "old"]
        /\ array' = [array EXCEPT ![op.todo[j][1]] = Zeros]
        /\ op' = [op EXCEPT !.todo = Rest(j)]
  BY DEF FreeBlock, FirstOf
<1> DEFINE b == op.todo[j][1]
<1>2. b \in Blocks /\ h[b].ino = op.ino /\ h[b].ino \notin Live
  <2>1. op.todo[j] \in Piece
    BY <1>0
  <2>2. b \in Blocks \union {0}
    BY <2>1 DEF Piece
  <2> QED BY <1>0, <1>1, <2>2 DEF Owned, TodoOwns
<1> DEFINE todo == Rest(j)
<1>3. \A m \in 1 .. Len(todo) : todo[m][1] # 0 =>
        /\ h[todo[m][1]].ino = op.ino
        /\ todo[m][2] > 0 => h[todo[m][1]].level = todo[m][2]
  <2> SUFFICES ASSUME NEW m \in 1 .. Len(todo), todo[m][1] # 0
               PROVE  /\ h[todo[m][1]].ino = op.ino
                      /\ todo[m][2] > 0 => h[todo[m][1]].level = todo[m][2]
    OBVIOUS
  <2>1. j + m \in 1 .. Len(op.todo) /\ todo[m] = op.todo[j + m]
    BY <1>0, RestAt
  <2> QED BY <1>0, <2>1 DEF Owned, TodoOwns
<1>4. op' = [op EXCEPT !.todo = todo]
  BY <1>1
<1> HIDE DEF todo, b
<1>5. /\ Live' = Live /\ Doomed' = Doomed
      /\ WalkOwns(h)' /\ TodoOwns(h)'
      /\ op'.pc = "free" /\ op'.put = op.put /\ op'.mem = op.mem
  BY <1>0, <1>3, <1>4, TodoFrame
<1>6. /\ bbm' = bbm \ {b}
      /\ \A c \in Blocks : kind'[c] = IF c = b THEN "old" ELSE kind[c]
      /\ \A c \in Blocks : array'[c] = IF c = b THEN Zeros ELSE array[c]
  BY <1>0, <1>1, <1>2 DEF TypeInv, TypeOK, DiskTypeOK, b
<1>7. InodesOwn(h)' /\ BlocksOwn(h)'
  BY <1>0, <1>2, <1>5, <1>6, PtrsFrame
<1>8. MemOwns(h)'
  <2>1. ASSUME NEW s \in Slots, op.mem.ptr[s] # 0
        PROVE  /\ op.put \in Live
               /\ h[op.mem.ptr[s]] = Place(op.put, DepthOf(s), 0, s)
               /\ DepthOf(s) > 0 => kind'[op.mem.ptr[s]] = "ptrs"
    <3>1. /\ op.put \in Live
          /\ h[op.mem.ptr[s]] = Place(op.put, DepthOf(s), 0, s)
          /\ Cleared(op.mem.ptr[s], DepthOf(s))
      BY <1>0, <2>1 DEF Owned, MemOwns
    <3>2. op.mem.ptr[s] \in Blocks /\ op.mem.ptr[s] # b
      BY <1>0, <1>2, <2>1, <3>1, PointerTypes, PlaceFields
    <3> QED BY <1>6, <3>1, <3>2 DEF Cleared
  <2> QED BY <1>5, <2>1 DEF MemOwns, Cleared
<1>9. OwnedIsMarked(h)' /\ FreeIsOld' /\ NoStrayPointers'
  <2>1. OwnedIsMarked(h)'
    BY <1>2, <1>5, <1>6 DEF Owned, OwnedIsMarked
  <2>2. FreeIsOld'
    BY <1>6 DEF Owned, FreeIsOld
  <2>3. NoStrayPointers'
    BY <1>6 DEF Owned, NoStrayPointers
  <2> QED BY <2>1, <2>2, <2>3
<1> QED BY <1>5, <1>7, <1>8, <1>9 DEF Owned

LEMMA ClearInodeOwns ==
    ASSUME NameInv, NEW h \in HomeMap, Owned(h), ClearInode
    PROVE  Owned(h)'
<1>0. /\ TypeInv /\ op \in OpRec /\ op.pc = "free"
      /\ op.ino \notin Linked /\ Live = Linked
      /\ inode' = [inode EXCEPT ![op.ino] = FreshInode(@.dir)]
      /\ op' = [op EXCEPT !.pc = "ifree"]
      /\ UNCHANGED <<bbm, ibm, kind, array, entry>>
      /\ inode \in [Inodes -> InodeRec]
  BY FreeFacts DEF ClearInode, TypeInv, TypeOK, DiskTypeOK
<1>1. /\ op'.pc = "ifree" /\ op'.ino = op.ino /\ op'.call = op.call
      /\ op'.put = op.put /\ op'.mem = op.mem
  BY <1>0 DEF OpRec
<1>2. Live' = Linked /\ Doomed' = {}
  BY <1>0, <1>1 DEF Live, Making, Doomed, Linked
<1>3. \A i \in Linked : inode'[i] = inode[i]
  <2>1. Linked \subseteq Inodes
    BY <1>0, LinkedInodes DEF TypeInv
  <2> QED BY <1>0, <2>1
<1>4. InodesOwn(h)'
  BY <1>0, <1>2, <1>3 DEF Owned, InodesOwn, SlotsOwn, Cleared
<1>5. BlocksOwn(h)'
  BY <1>0, <1>2 DEF Owned, BlocksOwn, Cleared
<1>6. OwnedIsMarked(h)' /\ FreeIsOld' /\ NoStrayPointers'
  BY <1>0, <1>2 DEF Owned, OwnedIsMarked, FreeIsOld, NoStrayPointers
<1>7. MemOwns(h)'
  BY <1>0, <1>1, <1>2, MemFrame
<1>8. WalkOwns(h)' /\ TodoOwns(h)'
  BY <1>1 DEF WalkOwns, TodoOwns
<1> QED BY <1>4, <1>5, <1>6, <1>7, <1>8 DEF Owned

LEMMA FreeInodeOwns ==
    ASSUME NameInv, NameInv', NEW h \in HomeMap, Owned(h), FreeInode
    PROVE  Owned(h)'
<1>1. op' = Idle /\ UNCHANGED <<bbm, inode, kind, array, entry>>
  BY DEF FreeInode
<1>2. Linked' \subseteq Live
  BY <1>1 DEF Linked, Live
<1> QED BY <1>1, <1>2, ReturnOwns

-----------------------------------------------------------------------------
(* What mkfs leaves is owned: the root directory has block 1. *)
LEMMA FirstOwned == Init => FirstHomes \in HomeMap /\ Owned(FirstHomes)
<1> SUFFICES ASSUME Init PROVE FirstHomes \in HomeMap /\ Owned(FirstHomes)
  OBVIOUS
<1> DEFINE h == FirstHomes
<1>1. /\ bbm = {1} /\ op = Idle /\ op.pc = "idle" /\ op.put = 0
      /\ op.mem = FreshInode(FALSE)
      /\ Linked = {Root} /\ Live = {Root} /\ Doomed = {}
  <2>1. bbm = {1} /\ op = Idle /\ op.pc = "idle" /\ op.put = 0
        /\ op.mem = FreshInode(FALSE)
    BY DEF Init, Idle
  <2>2. Linked = {Root}
    BY DEF Init, Linked, NoEntries
  <2>3. op.call = "none"
    BY <2>1 DEF Idle
  <2> QED BY <2>1, <2>2, <2>3 DEF Live, Making, Doomed
<1>2. 1 \in Blocks /\ Root \in Inodes /\ 0 \in Slots /\ NLevel \in Nat
  BY DiskAssumption DEF Blocks, Inodes, Root, Slots
<1>3. h[1] = Place(Root, 0, 0, 0) /\ \A b \in Blocks : b # 1 => h[b] = Nowhere
  BY <1>2 DEF FirstHomes
<1>4. h \in HomeMap
  <2>1. Place(Root, 0, 0, 0) \in Places /\ Nowhere \in Places
    BY <1>2 DEF Place, Places, Nowhere
  <2> QED BY <2>1 DEF FirstHomes, HomeMap
<1>5. \A s \in Slots : inode[Root].ptr[s] = IF s = 0 THEN 1 ELSE 0
  <2>1. inode[Root] = [FreshInode(TRUE) EXCEPT !.ptr[0] = 1, !.size = 1]
    BY <1>2 DEF Init
  <2> QED BY <1>2, <2>1 DEF FreshInode
<1>6. \A b \in Blocks : kind[b] # "ptrs" /\ array[b] = Zeros
                        /\ (b # 1 => kind[b] = "old")
  BY DEF Init
<1>7. DepthOf(0) = 0
  BY DiskAssumption DEF DepthOf
<1> HIDE DEF h
<1>8. InodesOwn(h)
  BY <1>1, <1>3, <1>5, <1>7 DEF InodesOwn, SlotsOwn, Cleared
<1>9. MemOwns(h)
  BY <1>1 DEF MemOwns, FreshInode
<1>10. BlocksOwn(h)
  BY <1>6 DEF BlocksOwn
<1>11. OwnedIsMarked(h)
  <2>1. \A b \in Blocks : b # 1 => h[b].ino = 0
    BY <1>3, PlaceFields DEF Nowhere
  <2> QED BY <1>1, <2>1 DEF OwnedIsMarked, Root
<1>12. WalkOwns(h) /\ TodoOwns(h)
  BY <1>1 DEF WalkOwns, TodoOwns
<1>13. FreeIsOld /\ NoStrayPointers
  BY <1>1, <1>6 DEF FreeIsOld, NoStrayPointers
<1>14. Owned(h)
  BY <1>8, <1>9, <1>10, <1>11, <1>12, <1>13 DEF Owned
<1> QED BY <1>4, <1>14 DEF h

LEMMA BlockInit == Init => BlockInv
BY NameInit, FirstOwned DEF BlockInv

(* Every step keeps a map of owners, changed the way Homes says. *)
LEMMA OwnedStep ==
    ASSUME NameInv, NameInv', NEW h \in HomeMap, Owned(h), [Next]_vars,
           NEW g, g = Homes(h)
    PROVE  g \in HomeMap /\ Owned(g)'
<1>1. ASSUME Owned(h)', bbm' \subseteq bbm,
             op.pc # "iinit" \/ op'.pc \notin {"walk", "dirent"}
      PROVE  g \in HomeMap /\ Owned(g)'
  <2>1. g = h
    BY <1>1, HomesSame
  <2> QED BY <1>1, <2>1
<1>2. ASSUME NEW m \in Modes, Start(m) PROVE g \in HomeMap /\ Owned(g)'
  BY <1>1, <1>2, StillOwns DEF Start, diskVars, NameInv, OpNames
<1>3. ASSUME Gone PROVE g \in HomeMap /\ Owned(g)'
  <2>1. op' = Idle /\ UNCHANGED <<bbm, inode, kind, array, entry>>
    BY <1>3 DEF Gone, diskVars
  <2>2. Linked' \subseteq Live
    BY <2>1 DEF Linked, Live
  <2>3. Owned(h)' /\ op'.pc = "idle"
    BY <2>1, <2>2, ReturnOwns DEF Idle
  <2> QED BY <1>1, <2>1, <2>3
<1>4. ASSUME NEW d \in Inodes, NEW n \in Names,
             Create(d, n) \/ Mkdir(d, n)
      PROVE  g \in HomeMap /\ Owned(g)'
  <2>1. op.pc = "idle" /\ bbm' = bbm
    BY <1>4 DEF Create, Mkdir, Ready, NewInode
  <2>2. Owned(h)'
    BY <1>4, <2>1, NewInodeOwns DEF Create, Mkdir
  <2> QED BY <1>1, <2>1, <2>2
<1>5. ASSUME NEW d \in Inodes, NEW n \in Names,
             Delete(d, n) \/ Rmdir(d, n)
      PROVE  g \in HomeMap /\ Owned(g)'
  <2>1. op.pc = "idle" /\ bbm' = bbm /\ Remove(d, n)
    BY <1>5 DEF Delete, Rmdir, Ready, Remove
  <2>2. Owned(h)'
    BY <2>1, RemoveOwns
  <2> QED BY <1>1, <2>1, <2>2
<1>6. ASSUME NEW d \in Inodes, NEW n \in Names, Open(d, n)
      PROVE  g \in HomeMap /\ Owned(g)'
  BY <1>1, <1>6, StillOwns DEF Open, Ready, diskVars
<1>7. ASSUME NEW k \in Fds, Close(k) PROVE g \in HomeMap /\ Owned(g)'
  BY <1>1, <1>7, StillOwns DEF Close, Ready, diskVars
<1>8. ASSUME NEW k \in Fds, NEW n \in 1 .. MaxWrite, Read(k, n)
      PROVE  g \in HomeMap /\ Owned(g)'
  BY <1>1, <1>8, StillOwns DEF Read, Ready, diskVars
<1>9. ASSUME NEW k \in Fds, NEW n \in 1 .. MaxWrite, Write(k, n)
      PROVE  g \in HomeMap /\ Owned(g)'
  <2>1. /\ op.pc = "idle" /\ bbm' = bbm
        /\ BeginWrite("write", fd[k].ino, k, fd[k].off, n)
    BY <1>9 DEF Write, Ready, BeginWrite, diskVars
  <2>2. fd[k].ino \in Linked /\ fd[k].off \in Nat /\ n \in Nat
    BY <1>9 DEF Write, NameInv, FdNames, TypeInv, TypeOK
  <2>3. Owned(h)'
    BY <2>1, <2>2, BeginWriteOwns
  <2> QED BY <1>1, <2>1, <2>3
<1>10. ASSUME NEW i \in Inodes, NEW lb \in 0 .. MaxSize, NEW n \in 1 .. MaxWrite,
              FuseWrite(i, lb, n)
       PROVE  g \in HomeMap /\ Owned(g)'
  <2>1. /\ op.pc = "idle" /\ bbm' = bbm /\ i \in Linked
        /\ BeginWrite("fwrite", i, 0, lb, n)
    BY <1>10 DEF FuseWrite, Ready, BeginWrite, diskVars
  <2>2. lb \in Nat /\ n \in Nat
    OBVIOUS
  <2>3. Owned(h)'
    BY <2>1, <2>2, BeginWriteOwns
  <2> QED BY <1>1, <2>1, <2>3
<1>11. ASSUME FollowPointer PROVE g \in HomeMap /\ Owned(g)'
  BY <1>1, <1>11, FollowOwns DEF FollowPointer, diskVars
<1>12. ASSUME AllocBlock PROVE g \in HomeMap /\ Owned(g)'
  BY <1>12, AllocOwns
<1>13. ASSUME ZeroBlock PROVE g \in HomeMap /\ Owned(g)'
  BY <1>1, <1>13, ZeroOwns DEF ZeroBlock
<1>14. ASSUME LinkBlock PROVE g \in HomeMap /\ Owned(g)'
  BY <1>1, <1>14, LinkOwns DEF LinkBlock
<1>15. ASSUME ExpandPointerBlock PROVE g \in HomeMap /\ Owned(g)'
  BY <1>1, <1>15, ExpandOwns DEF ExpandPointerBlock, diskVars
<1>16. ASSUME FreeBlock PROVE g \in HomeMap /\ Owned(g)'
  <2>1. op.pc = "free" /\ bbm' \subseteq bbm
    BY <1>16 DEF FreeBlock
  <2> QED BY <1>1, <1>16, <2>1, FreeBlockOwns
<1>17. ASSUME ClearInode PROVE g \in HomeMap /\ Owned(g)'
  BY <1>1, <1>17, ClearInodeOwns DEF ClearInode
<1>18. ASSUME FreeInode PROVE g \in HomeMap /\ Owned(g)'
  BY <1>1, <1>18, FreeInodeOwns DEF FreeInode
<1>19. ASSUME InitInode PROVE g \in HomeMap /\ Owned(g)'
  BY <1>19, InitInodeOwns
<1>20. ASSUME WriteEntry PROVE g \in HomeMap /\ Owned(g)'
  BY <1>1, <1>20, WriteEntryOwns DEF WriteEntry
<1>21. ASSUME WriteData PROVE g \in HomeMap /\ Owned(g)'
  BY <1>1, <1>21, WriteDataOwns DEF WriteData
<1>22. ASSUME RunOut PROVE g \in HomeMap /\ Owned(g)'
  <2>1. op.pc = "walk" /\ bbm' = bbm
    BY <1>22 DEF RunOut, OutOfSpace, diskVars
  <2> QED BY <1>1, <1>22, <2>1, RunOutOwns
<1>23. ASSUME PutInode PROVE g \in HomeMap /\ Owned(g)'
  BY <1>1, <1>23, PutInodeOwns DEF PutInode
<1>24. ASSUME UNCHANGED vars PROVE g \in HomeMap /\ Owned(g)'
  <2>1. UNCHANGED <<diskVars, op>> /\ bbm' = bbm /\ op'.pc = op.pc
    BY <1>24 DEF vars, diskVars
  <2>2. Owned(h)'
    BY <2>1, StillOwns
  <2>3. op.pc # "iinit" \/ op'.pc \notin {"walk", "dirent"}
    BY <2>1
  <2> QED BY <1>1, <2>1, <2>2, <2>3
<1>25. CASE Continue
  <2>1. CASE Map
    BY <1>11, <1>12, <1>13, <1>14, <2>1 DEF Map
  <2>2. CASE Free
    BY <1>15, <1>16, <1>17, <1>18, <2>2 DEF Free
  <2> QED BY <1>19, <1>20, <1>21, <1>22, <1>23, <1>25, <2>1, <2>2 DEF Continue
<1>26. CASE Call
  BY <1>4, <1>5, <1>6, <1>7, <1>8, <1>9, <1>10, <1>26 DEF Call
<1>27. CASE Exit \/ Kill
  BY <1>3, <1>27 DEF Exit, Kill
<1> QED BY <1>2, <1>24, <1>25, <1>26, <1>27 DEF Next

LEMMA BlockStep == BlockInv /\ [Next]_vars => BlockInv'
<1> SUFFICES ASSUME BlockInv, [Next]_vars PROVE BlockInv'
  OBVIOUS
<1>1. NameInv /\ NameInv'
  BY NameStep DEF BlockInv
<1>2. PICK h \in HomeMap : Owned(h)
  BY DEF BlockInv
<1>3. PICK g : g = Homes(h)
  OBVIOUS
<1>4. g \in HomeMap /\ Owned(g)'
  BY <1>1, <1>2, <1>3, OwnedStep
<1> QED BY <1>1, <1>4 DEF BlockInv

(* The bitmaps: every block and inode a path leads to is marked used, at every
   step of every call and after a crash, so that alloc_block and alloc_inode
   never hand out what is in use. *)
THEOREM LinkedIsMarkedAlways == Spec => []LinkedIsMarked
BY BlockInit, BlockStep, LinkedIsMarkedFrom, PTL DEF Spec

(* A block is found through one pointer at most, at every step and after any
   crash: inode_free_blocks leaves no pointer behind to a block it gives back,
   and inode_get_block puts every new block in one place. *)
THEOREM NoSharedBlockAlways == Spec => []NoSharedBlock
BY BlockInit, BlockStep, NoSharedBlockFrom, PTL DEF Spec

(* No pointer is read from a block that inode_get_block has not cleared or
   filled since it was allocated. *)
THEOREM PointersInitialisedAlways == Spec => []PointersInitialised
BY BlockInit, BlockStep, PointersInitialisedFrom, PTL DEF Spec

=============================================================================
