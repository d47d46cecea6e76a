----------------------------- MODULE PfaProofs -----------------------------
(* Theorems about the physical frame allocator, for every machine: every   *)
(* memory map, every bitmap size and whatever the holders of frames write. *)
EXTENDS Pfa, FiniteSetTheorems, TLAPS

(* The bitmaps are placed at an integer page number.                       *)
LEMMA PlacementType == bitmap_placement_addr \in Int
<1>1. CASE \E i \in DOMAIN MemMap : IsFirstFit(i)
  <2>1. PICK i \in DOMAIN MemMap :
             bitmap_placement_addr = FirstPage(MemMap[i])
    BY <1>1 DEF bitmap_placement_addr
  <2>2. FirstPage(MemMap[i]) \in Int
    BY PfaConstants DEF FirstPage
  <2>3. QED
    BY <2>1, <2>2
<1>2. CASE ~ \E i \in DOMAIN MemMap : IsFirstFit(i)
  BY <1>2 DEF bitmap_placement_addr
<1>3. QED
  BY <1>1, <1>2

(* The managed frames are finitely many, in each of the two zones.         *)
LEMMA ManagedFinite ==
  /\ IsFiniteSet(LowManaged) /\ Cardinality(LowManaged) \in Nat
  /\ IsFiniteSet(HighManaged) /\ Cardinality(HighManaged) \in Nat
<1>1. IsFiniteSet(Frame)
  BY FS_Interval, PfaConstants DEF Frame
<1>2. LowManaged \in SUBSET Frame /\ HighManaged \in SUBSET Frame
  BY DEF LowManaged, HighManaged, Managed
<1>3. IsFiniteSet(LowManaged) /\ IsFiniteSet(HighManaged)
  BY <1>1, <1>2, FS_Subset
<1>4. QED
  BY <1>3, FS_CardinalityType

(* No frame outside the reserved pages stores a low bit: this is where the *)
(* size of the reservation matters.                                        *)
LEMMA LowBitsAreReserved == \A i \in Low : LowBitFrame(i) \in Reserved
<1> TAKE i \in Low
<1> DEFINE page == i \div BitsPerPage
<1>1. page \in 0 .. ReqPages - 1
  BY LowBitsReserved
<1> HIDE DEF page
<1>2. bitmap_placement_addr + page \in Reserved
  BY <1>1, PlacementType, PfaConstants DEF Reserved
<1>3. QED
  BY <1>2 DEF LowBitFrame, page

(* mm_init never frees a reserved page.                                    *)
LEMMA ManagedNotReserved == Managed \cap Reserved = {}
BY DEF Managed

-----------------------------------------------------------------------------
(* The inductive invariant.                                                *)
Inv == TypeOK /\ LowFramesPartitioned

LEMMA InitInv == Init => Inv
<1> SUFFICES ASSUME Init PROVE Inv
  OBVIOUS
<1>1. low_bitmap \subseteq Index
  BY PfaConstants DEF Init, mm_init, LowManaged, Low, Index
<1>2. bitmap \subseteq Index
  BY PfaConstants DEF Init, mm_init, HighManaged, Managed, Low, Frame, Index,
                      addr_to_index, bitmap_base
<1>3. TypeOK
  BY <1>1, <1>2, ManagedFinite, CounterWidth, PfaConstants
  DEF Init, mm_init, TypeOK
<1>4. LowFramesPartitioned
  BY DEF Init, mm_init, LowFramesPartitioned, LowManaged
<1>5. QED
  BY <1>3, <1>4 DEF Inv

(* Counter arithmetic stays inside the counter's width.                    *)
LEMMA CounterType ==
  \A n \in 0 .. CounterSpan - 1 :
    /\ (n - 1) % CounterSpan \in 0 .. CounterSpan - 1
    /\ (n + 1) % CounterSpan \in 0 .. CounterSpan - 1
BY PfaConstants

LEMMA TypeStep == TypeOK /\ [Next]_vars => TypeOK'
<1> SUFFICES ASSUME TypeOK, [Next]_vars PROVE TypeOK'
  OBVIOUS
<1> USE DEF TypeOK
<1>1. CASE pfa_alloc_low
  BY <1>1, CounterType, PfaConstants DEF pfa_alloc_low, HandOut, Index, Frame
<1>2. CASE pfa_alloc
  BY <1>2, CounterType, PfaConstants
  DEF pfa_alloc, HandOut, Index, Frame, bitmap_base
<1>3. ASSUME NEW f \in held, pfa_free(f) PROVE TypeOK'
  <2>1. CASE FreeLow(f)
    BY <1>3, <2>1, CounterType, PfaConstants
    DEF pfa_free, FreeLow, Index, Frame
  <2>2. CASE FreeHigh(f)
    BY <1>3, <2>2, CounterType, PfaConstants
    DEF pfa_free, FreeHigh, Index, Frame, addr_to_index, bitmap_base
  <2>3. CASE FreeNothing(f)
    BY <1>3, <2>3 DEF pfa_free, FreeNothing
  <2>4. QED
    BY <1>3, <2>1, <2>2, <2>3 DEF pfa_free
<1>4. ASSUME NEW f \in held, NEW free \in Patterns, HolderWrites(f, free)
      PROVE  TypeOK'
  BY <1>4 DEF HolderWrites
<1>5. CASE UNCHANGED vars
  BY <1>5 DEF vars
<1>6. QED
  BY <1>1, <1>2, <1>3, <1>4, <1>5 DEF Next

LEMMA PartitionStep == Inv /\ [Next]_vars => LowFramesPartitioned'
<1> SUFFICES ASSUME Inv, [Next]_vars PROVE LowFramesPartitioned'
  OBVIOUS
<1> USE DEF Inv, LowFramesPartitioned
<1>0. 0 \notin LowManaged
  BY DEF LowManaged, Managed
<1>1. CASE pfa_alloc_low
  BY <1>1, <1>0 DEF pfa_alloc_low, HandOut
<1>2. CASE pfa_alloc
  BY <1>2, PfaConstants DEF pfa_alloc, HandOut, bitmap_base, TypeOK, Index, Low
<1>3. ASSUME NEW f \in held, pfa_free(f) PROVE LowFramesPartitioned'
  <2>1. CASE FreeLow(f)
    BY <1>3, <2>1 DEF pfa_free, FreeLow
  <2>2. CASE FreeHigh(f)
    BY <1>3, <2>2, PfaConstants DEF pfa_free, FreeHigh, Low, bitmap_base
  <2>3. CASE FreeNothing(f)
    BY <1>3, <2>3, PfaConstants
    DEF pfa_free, FreeNothing, Low, TypeOK, Frame
  <2>4. QED
    BY <1>3, <2>1, <2>2, <2>3 DEF pfa_free
<1>4. ASSUME NEW f \in held, NEW free \in Patterns, HolderWrites(f, free)
      PROVE  LowFramesPartitioned'
  <2>1. \A i \in Low : LowBitFrame(i) # f
    <3>1. f \notin Reserved
      <4>1. CASE f \in Low
        BY <4>1, ManagedNotReserved DEF LowManaged
      <4>2. CASE f \notin Low
        BY <4>2, PlacedLow
      <4>3. QED
        BY <4>1, <4>2
    <3>2. QED
      BY <3>1, LowBitsAreReserved
  <2>2. low_bitmap' \cap Low = low_bitmap \cap Low
    BY <1>4, <2>1 DEF HolderWrites
  <2>3. QED
    BY <1>4, <2>2 DEF HolderWrites
<1>5. CASE UNCHANGED vars
  BY <1>5 DEF vars
<1>6. QED
  BY <1>1, <1>2, <1>3, <1>4, <1>5 DEF Next

(* The allocator's state keeps its types: bitmaps within MAX_PAGES bits,   *)
(* counters within their width, frames handed out within the two zones.    *)
THEOREM TypeCorrect == Spec => []TypeOK
<1>1. Init => TypeOK
  BY InitInv DEF Inv
<1>2. QED
  BY <1>1, TypeStep, PTL DEF Spec

LEMMA InvCorrect == Spec => []Inv
<1>1. Inv /\ [Next]_vars => Inv'
  BY TypeStep, PartitionStep DEF Inv
<1>2. QED
  BY <1>1, InitInv, PTL DEF Spec

(* On every machine the frames below 4 GB that mm_init freed stay divided  *)
(* into the free and the handed-out ones: pfa_alloc_low hands none out     *)
(* twice and loses none, whatever holders write into their frames.         *)
THEOREM LowPartition == Spec => []LowFramesPartitioned
BY InvCorrect, PTL DEF Inv

(* pfa_alloc_low hands out RAM below 4 GB as long as there is some: being  *)
(* first-fit, it reaches indices with rewritten bits only after that.      *)
THEOREM LowRamFirst == Spec => LowRamServedFirst
<1> DEFINE Served == (low_bitmap \cap Low # {} /\ low_bitmap' # low_bitmap)
                       => held' \ held \subseteq LowManaged
<1>1. Inv /\ [Next]_vars => [Served]_vars
  <2> SUFFICES ASSUME Inv, [Next]_vars PROVE [Served]_vars
    OBVIOUS
  <2> USE DEF Inv, LowFramesPartitioned
  <2>1. CASE pfa_alloc_low
    <3>1. PICK i \in low_bitmap :
            /\ \A j \in low_bitmap : i <= j
            /\ HandOut(i)
      BY <2>1 DEF pfa_alloc_low
    <3>2. ASSUME low_bitmap \cap Low # {} PROVE i \in Low
      BY <3>1, <3>2, PfaConstants DEF TypeOK, Index, Low
    <3>3. QED
      BY <3>1, <3>2 DEF HandOut
  <2>2. CASE pfa_alloc
    BY <2>2 DEF pfa_alloc
  <2>3. ASSUME NEW f \in held, pfa_free(f) PROVE Served
    BY <2>3 DEF pfa_free
  <2>4. ASSUME NEW f \in held, NEW free \in Patterns, HolderWrites(f, free)
        PROVE  Served
    BY <2>4 DEF HolderWrites
  <2>5. CASE UNCHANGED vars
    BY <2>5
  <2>6. QED
    BY <2>1, <2>2, <2>3, <2>4, <2>5 DEF Next
<1>2. QED
  BY <1>1, InvCorrect, PTL DEF Spec, LowRamServedFirst
=============================================================================
