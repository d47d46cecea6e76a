-------------------------------- MODULE Pfa --------------------------------
(***************************************************************************)
(* The physical frame allocator of kernel/core/mm.c.                       *)
(*                                                                         *)
(* Two bitmaps record which page frames are free: low_bitmap for frames    *)
(* below 4 GB and bitmap for the frames from bitmap_base = 4 GB upwards.   *)
(* Here a bitmap is the set of the indices whose bit says "free", and a    *)
(* physical address is its page number.                                    *)
(*                                                                         *)
(* The bitmaps themselves live in RAM: mm_init places both of them in the  *)
(* first usable region of at least ReqPages pages, low_bitmap first, and   *)
(* keeps only ReqPages pages from the allocator.  Whoever holds a frame    *)
(* may write it, so a frame that is handed out although a bitmap is stored *)
(* in it lets its holder rewrite that part of the bitmap (HolderWrites).   *)
(***************************************************************************)
EXTENDS Integers, FiniteSets, Sequences

CONSTANTS
  PAGE_SIZE,    \* bytes per page                     (4096 in the code)
  BitsPerPage,  \* bitmap bits one page stores        (8 * PAGE_SIZE)
  MAX_PAGES,    \* bits of each bitmap                (2^21)
  LowPages,     \* pages below 4 GB                   (2^20)
  ReqPages,     \* pages mm_init reserves for bitmaps (32)
  CounterSpan,  \* values of a page counter           (2^64)
  MemMap,       \* the memory map the boot loader reports
  Patterns,     \* what a holder may leave in a page of bitmap bits
  MaxFrees      \* bound on the number of pfa_free calls

Index == 0 .. MAX_PAGES - 1
Frame == 0 .. LowPages + MAX_PAGES - 1
Low   == 0 .. LowPages - 1

ASSUME PfaConstants ==
  /\ PAGE_SIZE \in Nat \ {0}
  /\ BitsPerPage \in Nat \ {0}
  /\ MAX_PAGES \in Nat
  /\ LowPages \in Nat
  /\ LowPages <= MAX_PAGES
  /\ ReqPages \in Nat
  /\ \A i \in DOMAIN MemMap : MemMap[i].base \in Nat /\ MemMap[i].length \in Nat
  /\ CounterSpan \in Nat
  /\ MaxFrees \in Nat

(* 32 reserved pages of 32768 bits are exactly the 2^20 pages below 4 GB.  *)
ASSUME LowBitsReserved ==
  \A i \in Low : i \div BitsPerPage \in 0 .. ReqPages - 1

VARIABLES
  low_bitmap,         \* free indices, frames below 4 GB
  bitmap,             \* free indices, frames from bitmap_base on
  low_free_count,
  low_total_count,
  free_pages_count,
  total_pages_count,
  held                \* frames handed out and not freed since

vars == <<low_bitmap, bitmap, low_free_count, low_total_count,
          free_pages_count, total_pages_count, held>>

-----------------------------------------------------------------------------
(* mm_init                                                                 *)

bitmap_base == LowPages

addr_to_index(f) == f - bitmap_base

IsUsable(entry) == entry.type \in {"usable", "bootloader_reclaimable"}

FirstPage(entry) == (entry.base + PAGE_SIZE - 1) \div PAGE_SIZE

LastPage(entry) == (entry.base + entry.length) \div PAGE_SIZE

(* A region that starts at address 0 cannot take the bitmaps: its address  *)
(* reads as "not found yet".                                               *)
FitsBitmaps(entry) ==
  /\ IsUsable(entry)
  /\ FirstPage(entry) # 0
  /\ LastPage(entry) > FirstPage(entry)
  /\ LastPage(entry) - FirstPage(entry) >= ReqPages

IsFirstFit(i) == /\ FitsBitmaps(MemMap[i])
                 /\ \A j \in DOMAIN MemMap : j < i => ~ FitsBitmaps(MemMap[j])

(* Where the bitmaps go; 0 means nowhere.                                  *)
bitmap_placement_addr ==
  IF \E i \in DOMAIN MemMap : IsFirstFit(i)
    THEN FirstPage(MemMap[CHOOSE i \in DOMAIN MemMap : IsFirstFit(i)])
    ELSE 0

(* Mutant: the reservation starts one page late.                           *)
Reserved_late ==
  LET at == bitmap_placement_addr IN at + 1 .. at + ReqPages

Reserved ==
  LET at == bitmap_placement_addr IN at .. at + ReqPages - 1

(* The frames mm_init frees, that is, the RAM the allocator manages.       *)
Managed ==
  {f \in Frame \ ({0} \cup Reserved) :
     \E i \in DOMAIN MemMap : /\ IsUsable(MemMap[i])
                              /\ FirstPage(MemMap[i]) <= f
                              /\ f < LastPage(MemMap[i])}

LowManaged  == Managed \cap Low

HighManaged == Managed \ Low

(* Every PC has its first 32 usable pages in a row well below 4 GB.        *)
ASSUME PlacedLow == Reserved \subseteq Low

(* The counters are wide enough for the memory there is.                   *)
ASSUME CounterWidth == /\ Cardinality(LowManaged) < CounterSpan
                       /\ Cardinality(HighManaged) < CounterSpan

(* The state mm_init leaves.  On a machine without a region for the        *)
(* bitmaps it gives up, the bitmap pointers stay NULL and the first        *)
(* allocation faults: such a machine has no behaviour here.                *)
mm_init ==
  /\ bitmap_placement_addr # 0
  /\ low_bitmap = LowManaged
  /\ bitmap = {addr_to_index(f) : f \in HighManaged}
  /\ low_free_count = Cardinality(LowManaged)
  /\ low_total_count = Cardinality(LowManaged)
  /\ free_pages_count = Cardinality(HighManaged)
  /\ total_pages_count = Cardinality(HighManaged)
  /\ held = {}

Init == mm_init

-----------------------------------------------------------------------------
(* The allocator's interface                                               *)

(* Address 0 is how failure is reported, so frame 0 would reach nobody.    *)
HandOut(f) == held' = held \cup ({f} \ {0})

(* Mutant: the scan starts at the other end.                               *)
pfa_alloc_low_downwards ==
  \E i \in low_bitmap :
    /\ \A j \in low_bitmap : i >= j
    /\ low_bitmap' = low_bitmap \ {i}
    /\ low_free_count' = (low_free_count - 1) % CounterSpan
    /\ HandOut(i)
    /\ UNCHANGED <<bitmap, low_total_count, free_pages_count, total_pages_count>>

(* Mutant: a signed counter.                                               *)
pfa_alloc_low_signed ==
  \E i \in low_bitmap :
    /\ \A j \in low_bitmap : i <= j
    /\ low_bitmap' = low_bitmap \ {i}
    /\ low_free_count' = low_free_count - 1
    /\ HandOut(i)
    /\ UNCHANGED <<bitmap, low_total_count, free_pages_count, total_pages_count>>

pfa_alloc_low ==
  \E i \in low_bitmap :
    /\ \A j \in low_bitmap : i <= j
    /\ low_bitmap' = low_bitmap \ {i}
    /\ low_free_count' = (low_free_count - 1) % CounterSpan
    /\ HandOut(i)
    /\ UNCHANGED <<bitmap, low_total_count, free_pages_count, total_pages_count>>

pfa_alloc ==
  \E i \in bitmap :
    /\ \A j \in bitmap : i <= j
    /\ bitmap' = bitmap \ {i}
    /\ free_pages_count' = (free_pages_count - 1) % CounterSpan
    /\ HandOut(bitmap_base + i)
    /\ UNCHANGED <<low_bitmap, low_free_count, low_total_count, total_pages_count>>

FreeLow(f) ==
  /\ f < LowPages
  /\ f \notin low_bitmap
  /\ low_bitmap' = low_bitmap \cup {f}
  /\ low_free_count' = (low_free_count + 1) % CounterSpan
  /\ low_total_count' = low_total_count + 1
  /\ UNCHANGED <<bitmap, free_pages_count, total_pages_count>>

FreeHigh(f) ==
  /\ f >= bitmap_base
  /\ addr_to_index(f) < MAX_PAGES
  /\ addr_to_index(f) \notin bitmap
  /\ bitmap' = bitmap \cup {addr_to_index(f)}
  /\ free_pages_count' = (free_pages_count + 1) % CounterSpan
  /\ total_pages_count' = total_pages_count + 1
  /\ UNCHANGED <<low_bitmap, low_free_count, low_total_count>>

(* Freeing what the bitmap already calls free changes nothing.             *)
FreeNothing(f) ==
  /\ IF f < LowPages THEN f \in low_bitmap ELSE addr_to_index(f) \in bitmap
  /\ UNCHANGED <<low_bitmap, bitmap, low_free_count, low_total_count,
                 free_pages_count, total_pages_count>>

(* MaxFrees bounds how often the two total counters may have been bumped.  *)
pfa_free(f) ==
  /\ f \in held
  /\ low_total_count + total_pages_count
       < Cardinality(LowManaged) + Cardinality(HighManaged) + MaxFrees
  /\ FreeLow(f) \/ FreeHigh(f) \/ FreeNothing(f)
  /\ held' = held \ {f}

-----------------------------------------------------------------------------
(* Where the bits are stored: low_bitmap first, bitmap BITMAP_SIZE later.  *)

LowBitFrame(i)  == bitmap_placement_addr + i \div BitsPerPage

HighBitFrame(i) == LowBitFrame(i) + MAX_PAGES \div BitsPerPage

BitmapFrames == {LowBitFrame(i) : i \in Index} \cup {HighBitFrame(i) : i \in Index}

(* The holder of frame f leaves pattern free in it: the bits stored there  *)
(* now say what the holder's data happens to say.                          *)
HolderWrites(f, free) ==
  LET Rewritten(bits, in) ==
        {i \in bits : i \notin in} \cup {i \in in : i % BitsPerPage \in free}
  IN  /\ f \in held \cap BitmapFrames
      /\ low_bitmap' = Rewritten(low_bitmap, {i \in Index : LowBitFrame(i) = f})
      /\ bitmap' = Rewritten(bitmap, {i \in Index : HighBitFrame(i) = f})
      /\ UNCHANGED <<low_free_count, low_total_count,
                     free_pages_count, total_pages_count, held>>

Next ==
  \/ pfa_alloc_low
  \/ pfa_alloc
  \/ \E f \in held : pfa_free(f)
  \/ \E f \in held, free \in Patterns : HolderWrites(f, free)

Spec == Init /\ [][Next]_vars

-----------------------------------------------------------------------------
(* Properties                                                              *)

(* Both bitmaps stay inside their MAX_PAGES bits, the free counters inside *)
(* their width, and every frame handed out is a frame the bitmaps cover.   *)
TypeOK ==
  /\ low_bitmap \subseteq Index
  /\ bitmap \subseteq Index
  /\ low_free_count \in 0 .. CounterSpan - 1
  /\ free_pages_count \in 0 .. CounterSpan - 1
  /\ low_total_count \in Nat
  /\ total_pages_count \in Nat
  /\ held \subseteq Frame

(* Below 4 GB every managed frame is either free or held, never both and   *)
(* never neither, and nothing else is free or held - whatever the holders  *)
(* of frames write, because the reserved pages store every low bit.        *)
LowFramesPartitioned ==
  /\ low_bitmap \cap held \cap Low = {}
  /\ (low_bitmap \cup held) \cap Low = LowManaged

(* While RAM below 4 GB is left, pfa_alloc_low (the only step that takes   *)
(* an index out of low_bitmap and hands a frame out) gives such a frame,   *)
(* even when rewritten bits offer others.                                  *)
LowRamServedFirst ==
  [][(low_bitmap \cap Low # {} /\ low_bitmap' # low_bitmap)
       => held' \ held \subseteq LowManaged]_vars
=============================================================================
