------------------------- MODULE BitmapAllocProofs -------------------------
(***************************************************************************)
(* Proofs about BitmapAlloc, for every bitmap size, reserved set, initial  *)
(* count and number of faults that ConstantsAssumption allows.             *)
(***************************************************************************)
EXTENDS BitmapAlloc, FiniteSetTheorems, TLAPS

(* What each counter will be when the call in progress has finished. *)
SbGoal == IF pc = "alloc_super" THEN sbFree - 1
          ELSE IF pc = "free_super" THEN sbFree + 1 ELSE sbFree
GdGoal == IF pc \in {"alloc_super", "alloc_group"} THEN gdFree - 1
          ELSE IF pc \in {"free_super", "free_group"} THEN gdFree + 1
          ELSE gdFree

(* How far that is from the bitmap. *)
SbDrift == SbGoal - RealFree
GdDrift == GdGoal - RealFree

(* The strengthening: a fault can lower a drift by one or lose one unit, an
   upward drift is always paid for by a lost unit, and the two copies part by
   one per fault. *)
DriftInv ==
    LET L == Cardinality(lost)
    IN  /\ L <= faults
        /\ L - SbDrift <= faults
        /\ L - GdDrift <= faults
        /\ SbDrift <= Bias + L
        /\ GdDrift <= Bias + L
        /\ SbDrift - GdDrift <= faults
        /\ GdDrift - SbDrift <= faults
        /\ faults = 0 => SbDrift = Bias /\ GdDrift = Bias

UnitInv == pc # "idle" => unit \in Units

IInv == TypeOK /\ UnitInv /\ Accounted /\ DriftInv

-----------------------------------------------------------------------------
(* Every set of units is finite and has a cardinality. *)
LEMMA UnitsFinite ==
    /\ IsFiniteSet(Units)
    /\ \A S \in SUBSET Units : IsFiniteSet(S) /\ Cardinality(S) \in Nat
<1>1. IsFiniteSet(Units)
  BY FS_Interval, ConstantsAssumption DEF Units
<1>2. ASSUME NEW S \in SUBSET Units
      PROVE  IsFiniteSet(S) /\ Cardinality(S) \in Nat
  <2>1. IsFiniteSet(S)
    BY <1>1, FS_Subset
  <2>2. QED
    BY <2>1, FS_CardinalityType
<1>3. QED
  BY <1>1, <1>2

(* A set of units has at most NumUnits members. *)
LEMMA AtMostNumUnits ==
    \A S \in SUBSET Units : Cardinality(S) <= NumUnits
<1>1. Cardinality(Units) = NumUnits
  BY FS_Interval, ConstantsAssumption DEF Units
<1>2. QED
  BY <1>1, UnitsFinite, FS_Subset, ConstantsAssumption

(* The initial counts are at least the number of clear bits. *)
LEMMA BiasFact ==
    /\ Cardinality(Reserved) \in Nat
    /\ InitCount \in Int
    /\ Bias \in 0 .. Cardinality(Reserved)
<1>1. Cardinality(Reserved) \in Nat
  BY UnitsFinite, ConstantsAssumption
<1>2. QED
  BY <1>1, ConstantsAssumption DEF Bias

(* The reserved and the lost units are all marked and disjoint, so the bitmap
   holds at least that many bits. *)
LEMMA MarkedAtLeast ==
    ASSUME TypeOK, Accounted
    PROVE  Cardinality(Reserved) + Cardinality(lost) <= Cardinality(used)
<1>1. /\ Reserved \in SUBSET Units
      /\ lost \in SUBSET Units
      /\ used \in SUBSET Units
      /\ Reserved \union lost \in SUBSET used
      /\ Reserved \intersect lost = {}
  BY ConstantsAssumption DEF TypeOK, Accounted
<1>2. /\ IsFiniteSet(Reserved) /\ Cardinality(Reserved) \in Nat
      /\ IsFiniteSet(lost) /\ Cardinality(lost) \in Nat
      /\ IsFiniteSet(used) /\ Cardinality(used) \in Nat
  BY <1>1, UnitsFinite
<1>3. Cardinality(Reserved \union lost)
        = Cardinality(Reserved) + Cardinality(lost)
  <2>1. Cardinality(Reserved \union lost)
          = Cardinality(Reserved) + Cardinality(lost)
              - Cardinality(Reserved \intersect lost)
    BY <1>2, FS_Union
  <2>2. Cardinality(Reserved \intersect lost) = 0
    BY <1>1, FS_EmptySet
  <2>3. QED
    BY <1>2, <2>1, <2>2
<1>4. Cardinality(Reserved \union lost) <= Cardinality(used)
  BY <1>1, <1>2, FS_Subset
<1>5. QED
  BY <1>3, <1>4

(* No call of free_block meets the range check, in any state of IInv. *)
LEMMA FreeFits ==
    ASSUME IInv
    PROVE  FreeNeverRefused
<1>1. /\ Cardinality(used) \in Nat
      /\ Cardinality(lost) \in Nat
      /\ Cardinality(Reserved) \in Nat
  BY UnitsFinite, ConstantsAssumption DEF IInv, TypeOK
<1>2. Cardinality(Reserved) + Cardinality(lost) <= Cardinality(used)
  BY MarkedAtLeast DEF IInv
<1>3. /\ sbFree \in Int /\ 0 <= sbFree
      /\ gdFree \in Int /\ 0 <= gdFree
      /\ NumUnits \in Nat
      /\ InitCount \in Int /\ InitCount <= NumUnits
  BY BiasFact, ConstantsAssumption DEF IInv, TypeOK
<1>4. ASSUME pc = "free_super" PROVE sbFree + 1 <= NumUnits
  <2>1. SbDrift <= Bias + Cardinality(lost)
    BY DEF IInv, DriftInv
  <2>2. SbDrift = sbFree + 1 - (NumUnits - Cardinality(used))
    BY <1>4, <1>1, <1>3 DEF SbDrift, SbGoal, RealFree
  <2>3. QED
    BY <1>1, <1>2, <1>3, <2>1, <2>2 DEF Bias
<1>5. ASSUME pc = "free_group" PROVE gdFree + 1 <= NumUnits
  <2>1. GdDrift <= Bias + Cardinality(lost)
    BY DEF IInv, DriftInv
  <2>2. GdDrift = gdFree + 1 - (NumUnits - Cardinality(used))
    BY <1>5, <1>1, <1>3 DEF GdDrift, GdGoal, RealFree
  <2>3. QED
    BY <1>1, <1>2, <1>3, <2>1, <2>2 DEF Bias
<1>6. QED
  BY <1>3, <1>4, <1>5 DEF FreeNeverRefused, Fits

-----------------------------------------------------------------------------
LEMMA InitIInv == Init => IInv
<1> SUFFICES ASSUME Init PROVE IInv
  OBVIOUS
<1>1. /\ Cardinality(Reserved) \in Nat
      /\ Cardinality({}) = 0
      /\ Bias \in Nat
      /\ InitCount \in 0 .. NumUnits
  <2>1. Cardinality(Reserved) <= NumUnits
    BY AtMostNumUnits, ConstantsAssumption
  <2>2. QED
    BY <2>1, BiasFact, FS_EmptySet, ConstantsAssumption
<1>2. TypeOK
  BY <1>1, ConstantsAssumption DEF Init, TypeOK, Stages
<1>3. UnitInv /\ Accounted
  BY DEF Init, UnitInv, Accounted, InFlight
<1>4. DriftInv
  <2>1. SbDrift = Bias /\ GdDrift = Bias
    BY <1>1, ConstantsAssumption
    DEF Init, SbDrift, GdDrift, SbGoal, GdGoal, RealFree, Bias
  <2>2. QED
    BY <1>1, <2>1 DEF Init, DriftInv
<1>5. QED
  BY <1>2, <1>3, <1>4 DEF IInv

(* TypeOK and the accounting of the bits are preserved by every step. *)
LEMMA NextAccounted ==
    ASSUME IInv, Next
    PROVE  TypeOK' /\ UnitInv' /\ Accounted'
<1> USE DEF IInv, TypeOK, UnitInv, Accounted, InFlight, Stages
<1>1. CASE AllocBit
  BY <1>1 DEF AllocBit, LowestFree, Units
<1>2. CASE \E u \in Units : FreeBit(u)
  BY <1>2 DEF FreeBit, Units
<1>3. CASE SuperUpdate
  BY <1>3 DEF SuperUpdate, Fits
<1>4. CASE GroupUpdate
  BY <1>4 DEF GroupUpdate, Fits
<1>5. CASE SuperRefuses
  BY <1>5 DEF SuperRefuses, GiveUp, Delta
<1>6. CASE GroupRefuses
  BY <1>6 DEF GroupRefuses, GiveUp, Delta
<1>7. CASE Fault
  BY <1>7, ConstantsAssumption DEF Fault, GiveUp, Delta
<1>8. QED
  BY <1>1, <1>2, <1>3, <1>4, <1>5, <1>6, <1>7 DEF Next

(* How the two cardinalities DriftInv is about change in a step. *)
LEMMA CardinalityStep ==
    ASSUME IInv
    PROVE  /\ Cardinality(used) \in Nat
           /\ Cardinality(lost) \in Nat
           /\ AllocBit => Cardinality(used') = Cardinality(used) + 1
           /\ \A u \in Units :
                FreeBit(u) => Cardinality(used') = Cardinality(used) - 1
           /\ GiveUp => Cardinality(lost') =
                IF Delta = -1 THEN Cardinality(lost) + 1 ELSE Cardinality(lost)
<1>1. IsFiniteSet(used) /\ IsFiniteSet(lost)
  BY UnitsFinite DEF IInv, TypeOK
<1>2. Cardinality(used) \in Nat /\ Cardinality(lost) \in Nat
  BY UnitsFinite DEF IInv, TypeOK
<1>3. ASSUME AllocBit PROVE Cardinality(used') = Cardinality(used) + 1
  <2>1. PICK u \in Units : u \notin used /\ used' = used \union {u}
    BY <1>3 DEF AllocBit, LowestFree
  <2>2. QED
    BY <1>1, <2>1, FS_AddElement
<1>4. ASSUME NEW u \in Units, FreeBit(u)
      PROVE  Cardinality(used') = Cardinality(used) - 1
  BY <1>1, <1>4, FS_RemoveElement DEF FreeBit
<1>5. ASSUME GiveUp
      PROVE  Cardinality(lost') =
               IF Delta = -1 THEN Cardinality(lost) + 1 ELSE Cardinality(lost)
  <2>1. CASE Delta = -1
    <3>1. lost' = lost \union {unit}
      BY <1>5, <2>1 DEF GiveUp
    <3>2. unit \notin lost
      BY <2>1 DEF IInv, Accounted, InFlight, Delta
    <3>3. QED
      BY <1>1, <2>1, <3>1, <3>2, FS_AddElement
  <2>2. CASE Delta # -1
    BY <1>5, <2>2 DEF GiveUp
  <2>3. QED
    BY <2>1, <2>2
<1>6. QED
  BY <1>2, <1>3, <1>4, <1>5

(* The drift bounds are preserved by every step. *)
LEMMA NextDrift ==
    ASSUME IInv, Next
    PROVE  DriftInv'
<1> DEFINE C == Cardinality(used)
           L == Cardinality(lost)
<1>1. /\ C \in Nat /\ L \in Nat /\ NumUnits \in Nat /\ Bias \in Nat
      /\ sbFree \in 0 .. NumUnits /\ gdFree \in 0 .. NumUnits
      /\ faults \in Nat /\ C <= NumUnits
  BY CardinalityStep, BiasFact, AtMostNumUnits, ConstantsAssumption
  DEF IInv, TypeOK
<1>2. /\ DriftInv
      /\ SbDrift \in Int /\ GdDrift \in Int
      /\ SbGoal \in Int /\ GdGoal \in Int
      /\ RealFree = NumUnits - C /\ RealFree \in Nat
  BY <1>1 DEF IInv, SbDrift, GdDrift, SbGoal, GdGoal, RealFree
(* Steps that leave both drifts alone. *)
<1>3. ASSUME /\ SbDrift' = SbDrift /\ GdDrift' = GdDrift
             /\ L' = L /\ faults' = faults
      PROVE  DriftInv'
  BY <1>2, <1>3 DEF DriftInv, Bias
<1>4. CASE AllocBit
  <2>1. C' = C + 1 /\ L' = L
    BY <1>4, CardinalityStep DEF AllocBit
  <2>2. /\ SbGoal' = SbGoal - 1 /\ GdGoal' = GdGoal - 1
        /\ faults' = faults
    BY <1>4 DEF AllocBit, SbGoal, GdGoal
  <2>3. RealFree' = RealFree - 1
    BY <1>1, <2>1 DEF RealFree
  <2>4. SbDrift' = SbDrift /\ GdDrift' = GdDrift
    BY <1>2, <2>2, <2>3 DEF SbDrift, GdDrift
  <2>5. QED
    BY <1>3, <2>1, <2>2, <2>4
<1>5. CASE \E u \in Units : FreeBit(u)
  <2>1. C' = C - 1 /\ L' = L
    BY <1>5, CardinalityStep DEF FreeBit
  <2>2. /\ SbGoal' = SbGoal + 1 /\ GdGoal' = GdGoal + 1
        /\ faults' = faults
    BY <1>5 DEF FreeBit, SbGoal, GdGoal
  <2>3. RealFree' = RealFree + 1
    BY <1>1, <2>1 DEF RealFree
  <2>4. SbDrift' = SbDrift /\ GdDrift' = GdDrift
    BY <1>2, <2>2, <2>3 DEF SbDrift, GdDrift
  <2>5. QED
    BY <1>3, <2>1, <2>2, <2>4
<1>6. CASE SuperUpdate
  <2>1. /\ RealFree' = RealFree /\ L' = L /\ faults' = faults
        /\ SbGoal' = SbGoal /\ GdGoal' = GdGoal
    BY <1>1, <1>6 DEF SuperUpdate, SbGoal, GdGoal, Delta, RealFree
  <2>2. QED
    BY <1>3, <2>1 DEF SbDrift, GdDrift
<1>7. CASE GroupUpdate
  <2>1. /\ RealFree' = RealFree /\ L' = L /\ faults' = faults
        /\ SbGoal' = SbGoal /\ GdGoal' = GdGoal
    BY <1>1, <1>7 DEF GroupUpdate, SbGoal, GdGoal, Delta, RealFree
  <2>2. QED
    BY <1>3, <2>1 DEF SbDrift, GdDrift
(* Only alloc is refused: the counter is at zero with a bit to spare, and
   losing the unit brings the counter back towards the bitmap. *)
<1>8. CASE SuperRefuses
  <2>1. pc = "alloc_super" /\ sbFree = 0
    BY <1>1, <1>8, FreeFits
    DEF SuperRefuses, FreeNeverRefused, Fits, Delta
  <2>2. L' = L + 1 /\ faults' = faults
    BY <1>8, <2>1, CardinalityStep DEF SuperRefuses, GiveUp, Delta
  <2>3. /\ SbGoal = -1 /\ SbGoal' = SbGoal + 1 /\ GdGoal' = GdGoal + 1
        /\ RealFree' = RealFree /\ GdGoal \in Int
    BY <1>1, <1>8, <2>1 DEF SuperRefuses, GiveUp, SbGoal, GdGoal, RealFree
  <2>4. SbDrift' = SbDrift + 1 /\ GdDrift' = GdDrift + 1 /\ SbDrift <= -1
    BY <1>2, <2>3 DEF SbDrift, GdDrift
  <2>5. QED
    BY <1>1, <1>2, <2>2, <2>4 DEF DriftInv, Bias
<1>9. CASE GroupRefuses
  <2>1. pc = "alloc_group" /\ gdFree = 0
    BY <1>1, <1>9, FreeFits
    DEF GroupRefuses, FreeNeverRefused, Fits, Delta
  <2>2. L' = L + 1 /\ faults' = faults
    BY <1>9, <2>1, CardinalityStep DEF GroupRefuses, GiveUp, Delta
  <2>3. /\ GdGoal = -1 /\ GdGoal' = GdGoal + 1
        /\ SbGoal' = SbGoal /\ SbGoal \in Nat
        /\ RealFree' = RealFree
    BY <1>1, <1>9, <2>1 DEF GroupRefuses, GiveUp, SbGoal, GdGoal, RealFree
  <2>4. /\ SbDrift' = SbDrift /\ GdDrift' = GdDrift + 1
        /\ GdDrift <= -1 /\ GdDrift + 1 <= SbDrift
    BY <1>2, <2>3 DEF SbDrift, GdDrift
  <2>5. QED
    BY <1>1, <1>2, <2>2, <2>4 DEF DriftInv, Bias
<1>10. CASE Fault
  <2>1. faults' = faults + 1 /\ GiveUp /\ pc # "idle" /\ pc' = "idle"
    BY <1>10 DEF Fault, GiveUp
  <2>2. L' = IF Delta = -1 THEN L + 1 ELSE L
    BY <2>1, CardinalityStep
  <2>3. /\ RealFree' = RealFree
        /\ SbGoal \in Int /\ GdGoal \in Int
        /\ \/ SbGoal' = SbGoal + 1 /\ GdGoal' = GdGoal + 1 /\ L' = L + 1
           \/ SbGoal' = SbGoal /\ GdGoal' = GdGoal + 1 /\ L' = L + 1
           \/ SbGoal' = SbGoal - 1 /\ GdGoal' = GdGoal - 1 /\ L' = L
           \/ SbGoal' = SbGoal /\ GdGoal' = GdGoal - 1 /\ L' = L
    BY <1>1, <2>1, <2>2
    DEF IInv, TypeOK, Stages, GiveUp, SbGoal, GdGoal, Delta, RealFree
  <2>4. \/ SbDrift' = SbDrift + 1 /\ GdDrift' = GdDrift + 1 /\ L' = L + 1
        \/ SbDrift' = SbDrift /\ GdDrift' = GdDrift + 1 /\ L' = L + 1
        \/ SbDrift' = SbDrift - 1 /\ GdDrift' = GdDrift - 1 /\ L' = L
        \/ SbDrift' = SbDrift /\ GdDrift' = GdDrift - 1 /\ L' = L
    BY <1>2, <2>3 DEF SbDrift, GdDrift
  <2>5. QED
    BY <1>1, <1>2, <2>1, <2>4 DEF DriftInv, Bias
<1>11. QED
  BY <1>4, <1>5, <1>6, <1>7, <1>8, <1>9, <1>10 DEF Next

-----------------------------------------------------------------------------
LEMMA StutterIInv == IInv /\ UNCHANGED vars => IInv'
BY DEF IInv, TypeOK, UnitInv, Accounted, InFlight, DriftInv, SbDrift, GdDrift,
       SbGoal, GdGoal, RealFree, Bias, vars

(* IInv is inductive, hence an invariant. *)
LEMMA Inductive == Spec => []IInv
<1>1. IInv /\ [Next]_vars => IInv'
  BY NextAccounted, NextDrift, StutterIInv DEF IInv
<1>2. QED
  BY InitIInv, <1>1, PTL DEF Spec

(* The model never leaves its types: in particular both counters stay between
   zero and the size of the bitmap. *)
THEOREM TypeCorrect == Spec => []TypeOK
<1>1. IInv => TypeOK
  BY DEF IInv
<1>2. QED
  BY Inductive, <1>1, PTL

(* alloc never hands out a unit that is reserved, held or lost, and every set
   bit has one known reason. *)
THEOREM AccountedAlways == Spec => []Accounted
<1>1. IInv => Accounted
  BY DEF IInv
<1>2. QED
  BY Inductive, <1>1, PTL

(* Each crash or failed write costs at most one unit for good. *)
THEOREM LossBoundedAlways == Spec => []LossBounded
<1>1. IInv => LossBounded
  BY DEF IInv, DriftInv, LossBounded
<1>2. QED
  BY Inductive, <1>1, PTL

(* Without faults the counters are the bitmap's, up to mkfs's bias. *)
THEOREM CountsFollowBitmapAlways == Spec => []CountsFollowBitmap
<1>1. ASSUME IInv PROVE CountsFollowBitmap
  <2>1. SUFFICES ASSUME faults = 0, pc = "idle"
                 PROVE  sbFree = RealFree + Bias /\ gdFree = RealFree + Bias
    BY DEF CountsFollowBitmap
  <2>2. /\ sbFree \in Int /\ gdFree \in Int
        /\ RealFree \in Int /\ Bias \in Int
    BY <1>1, UnitsFinite, BiasFact, ConstantsAssumption
    DEF IInv, TypeOK, RealFree
  <2>3. sbFree - RealFree = Bias /\ gdFree - RealFree = Bias
    BY <1>1, <2>1 DEF IInv, DriftInv, SbDrift, GdDrift, SbGoal, GdGoal
  <2>4. QED
    BY <2>2, <2>3
<1>2. QED
  BY Inductive, <1>1, PTL

(* Freeing a held unit never meets the upper range check of a counter. *)
THEOREM FreeNeverRefusedAlways == Spec => []FreeNeverRefused
<1>1. IInv => FreeNeverRefused
  BY FreeFits
<1>2. QED
  BY Inductive, <1>1, PTL

(* The two copies of the count part by at most one per fault. *)
THEOREM CopiesCloseAlways == Spec => []CopiesClose
<1>1. ASSUME IInv PROVE CopiesClose
  <2>1. /\ sbFree \in Int /\ gdFree \in Int /\ faults \in Int
        /\ RealFree \in Int /\ SbGoal \in Int /\ GdGoal \in Int
    BY <1>1, UnitsFinite, ConstantsAssumption
    DEF IInv, TypeOK, RealFree, SbGoal, GdGoal
  <2>2. SbDrift - GdDrift <= faults /\ GdDrift - SbDrift <= faults
    BY <1>1 DEF IInv, DriftInv
  <2>3. SbGoal - GdGoal <= faults /\ GdGoal - SbGoal <= faults
    BY <2>1, <2>2 DEF SbDrift, GdDrift
  <2>4. QED
    BY <1>1, <2>1, <2>3
    DEF CopiesClose, SbGoal, GdGoal, IInv, TypeOK, Stages
<1>2. QED
  BY Inductive, <1>1, PTL

=============================================================================
