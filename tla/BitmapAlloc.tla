---------------------------- MODULE BitmapAlloc ----------------------------
(***************************************************************************)
(* One free-space bitmap of oscdfs and the two counters that mirror it.    *)
(*                                                                         *)
(* oscdfs keeps two bitmaps (data blocks, inodes).  alloc_block and        *)
(* alloc_inode are the same program over different fields, and so are      *)
(* free_block and free_inode: rewrite the bitmap block, then the           *)
(* superblock (super_update_counts), then the group descriptor             *)
(* (group_desc_update_counts).  These are three separate block writes with *)
(* nothing that undoes the earlier ones, so the process may die, or a      *)
(* write may fail, with only a prefix of them on disk.                     *)
(*                                                                         *)
(* A unit is a block number or an inode number.  The model is instantiated *)
(* with InitCount = NumUnits - |Reserved| for blocks (super.c:28) and with *)
(* InitCount = NumUnits for inodes (super.c:29).                           *)
(*                                                                         *)
(* An operator right before another and named for an error (FitsAlways     *)
(* before Fits) is the same code with that error in it.  No specification  *)
(* uses it: it is there to check that the properties notice the error.     *)
(***************************************************************************)
EXTENDS Integers, FiniteSets

CONSTANTS
    NumUnits,   \* OSCDFS_TOTAL_BLOCKS or OSCDFS_TOTAL_INODES
    Reserved,   \* units whose bit is set when the disk is made
    InitCount,  \* the free count mkfs stores in both counters
    MaxFaults   \* bound: crashes and failed writes in one behaviour

Units == 0 .. NumUnits - 1

ASSUME ConstantsAssumption ==
    /\ NumUnits \in Nat
    /\ Reserved \subseteq Units
    /\ InitCount \in NumUnits - Cardinality(Reserved) .. NumUnits
    /\ MaxFaults \in Nat

VARIABLES
    used,    \* the bitmap block: the units whose bit is set
    sbFree,  \* free_blocks (free_inodes) of the superblock
    gdFree,  \* free_blocks_count (free_inodes_count) of the group descriptor
    pc,      \* which write of which call comes next
    unit,    \* the unit that call is about
    held,    \* units a caller was given and has not given back
    lost,    \* units whose bit was set for a caller that never got them
    faults   \* crashes and failed writes so far

vars == <<used, sbFree, gdFree, pc, unit, held, lost, faults>>

Stages == {"idle", "alloc_super", "alloc_group", "free_super", "free_group"}

TypeOK ==
    /\ used \in SUBSET Units
    /\ sbFree \in 0 .. NumUnits
    /\ gdFree \in 0 .. NumUnits
    /\ pc \in Stages
    /\ unit \in Int
    /\ held \in SUBSET Units
    /\ lost \in SUBSET Units
    /\ faults \in 0 .. MaxFaults

Init ==
    /\ used = Reserved
    /\ sbFree = InitCount
    /\ gdFree = InitCount
    /\ pc = "idle"
    /\ unit = 0
    /\ held = {}
    /\ lost = {}
    /\ faults = 0

-----------------------------------------------------------------------------
(* The bit scan of alloc_block: the lowest unit whose bit is clear. *)
LowestFree(u) ==
    /\ u \in Units \ used
    /\ \A v \in Units \ used : u <= v

(* alloc_block up to its first write: the bit is set on disk.  With no clear
   bit the call returns -1 and writes nothing. *)
AllocBit ==
    /\ pc = "idle"
    /\ \E u \in Units :
        /\ LowestFree(u)
        /\ used' = used \union {u}
        /\ unit' = u
    /\ pc' = "alloc_super"
    /\ UNCHANGED <<sbFree, gdFree, held, lost, faults>>

(* free_block up to its first write.  Callers free what they hold; the check
   that the bit is set stays as the code has it. *)
FreeBitNotCleared(u) ==
    /\ pc = "idle"
    /\ u \in held
    /\ u \in used
    /\ held' = held \ {u}
    /\ unit' = u
    /\ pc' = "free_super"
    /\ UNCHANGED <<used, sbFree, gdFree, lost, faults>>
FreeBit(u) ==
    /\ pc = "idle"
    /\ u \in held
    /\ u \in used
    /\ used' = used \ {u}
    /\ held' = held \ {u}
    /\ unit' = u
    /\ pc' = "free_super"
    /\ UNCHANGED <<sbFree, gdFree, lost, faults>>

(* The range check both count updates make before they store a new value. *)
FitsAlways(n) == TRUE
FitsButZero(n) == n \in 1 .. NumUnits
Fits(n) == n \in 0 .. NumUnits

DeltaOfFreeOnly == IF pc \in {"alloc_super", "alloc_group"} THEN 0 ELSE 1
DeltaGroupUp == IF pc = "alloc_super" THEN -1 ELSE 1
Delta == IF pc \in {"alloc_super", "alloc_group"} THEN -1 ELSE 1

(* The call returns -1: the writes already made stay.  A caller of alloc gets
   no unit although its bit is set. *)
GiveUp ==
    /\ pc' = "idle"
    /\ lost' = IF Delta = -1 THEN lost \union {unit} ELSE lost
    /\ UNCHANGED <<used, sbFree, gdFree, unit, held>>

SuperUpdate ==
    /\ pc \in {"alloc_super", "free_super"}
    /\ Fits(sbFree + Delta)
    /\ sbFree' = sbFree + Delta
    /\ pc' = IF pc = "alloc_super" THEN "alloc_group" ELSE "free_group"
    /\ UNCHANGED <<used, gdFree, unit, held, lost, faults>>

GroupUpdate ==
    /\ pc \in {"alloc_group", "free_group"}
    /\ Fits(gdFree + Delta)
    /\ gdFree' = gdFree + Delta
    /\ pc' = "idle"
    /\ held' = IF pc = "alloc_group" THEN held \union {unit} ELSE held
    /\ UNCHANGED <<used, sbFree, unit, lost, faults>>

(* A count update refuses to leave its range and the call fails half done. *)
SuperRefuses ==
    /\ pc \in {"alloc_super", "free_super"}
    /\ ~Fits(sbFree + Delta)
    /\ GiveUp
    /\ UNCHANGED faults

GroupRefuses ==
    /\ pc \in {"alloc_group", "free_group"}
    /\ ~Fits(gdFree + Delta)
    /\ GiveUp
    /\ UNCHANGED faults

(* The process is killed between two writes, or the next write_block fails:
   on disk the two are the same. *)
Fault ==
    /\ pc # "idle"
    /\ faults < MaxFaults
    /\ faults' = faults + 1
    /\ GiveUp

Next ==
    \/ AllocBit
    \/ \E u \in Units : FreeBit(u)
    \/ SuperUpdate
    \/ GroupUpdate
    \/ SuperRefuses
    \/ GroupRefuses
    \/ Fault

Spec == Init /\ [][Next]_vars

-----------------------------------------------------------------------------
RealFree == NumUnits - Cardinality(used)
Bias == InitCount - (NumUnits - Cardinality(Reserved))

(* The unit an alloc call in progress has marked and not yet returned. *)
InFlight == IF pc \in {"alloc_super", "alloc_group"} THEN {unit} ELSE {}

(* Every set bit has exactly one reason: reserved at mkfs, held by one
   caller, on its way to a caller, or lost.  So alloc never hands out a unit
   somebody holds, and no bit leaks outside "lost". *)
Accounted ==
    /\ used = Reserved \union held \union lost \union InFlight
    /\ Reserved \intersect (held \union lost \union InFlight) = {}
    /\ held \intersect (lost \union InFlight) = {}
    /\ lost \intersect InFlight = {}

(* Without a fault both counters track the bitmap exactly between calls, up
   to the bias mkfs gave them: the three writes of one call agree. *)
CountsFollowBitmap ==
    faults = 0 /\ pc = "idle" =>
        /\ sbFree = RealFree + Bias
        /\ gdFree = RealFree + Bias

(* A crash or failed write costs at most one unit, now or later: the
   half-done free that leaves a counter too low makes at most one later
   alloc fail with its bit set (super.c:96, super.c:167). *)
LossBounded == Cardinality(lost) <= faults

(* free_block never runs into the upper range check of a counter, whatever
   faults came before, so giving a unit back never stops half way by itself. *)
FreeNeverRefused ==
    /\ pc = "free_super" => Fits(sbFree + 1)
    /\ pc = "free_group" => Fits(gdFree + 1)

(* The two copies of the count never drift apart by more than the number of
   faults (plus the one write an unfinished call still owes). *)
CopiesClose ==
    LET owed == IF pc \in {"alloc_group", "free_group"} THEN 1 ELSE 0
    IN  /\ sbFree - gdFree <= faults + owed
        /\ gdFree - sbFree <= faults + owed

(* oscdfs.h documents free_inodes_count as the number of free inodes of the
   group: with no fault and no call in progress it equals the clear bits. *)
CountIsNumberOfClearBits ==
    faults = 0 /\ pc = "idle" => gdFree = RealFree

=============================================================================
