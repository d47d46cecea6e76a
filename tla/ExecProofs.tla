----------------------------- MODULE ExecProofs -----------------------------
(* Theorems about loading programs and mapping registers, for every set of *)
(* programs, every layout of the page tables and any number of free        *)
(* frames.                                                                 *)
EXTENDS Exec, FiniteSetTheorems, SequenceTheorems, TLAPS

(* The constants, one by one.                                              *)
LEMMA Sizes ==
  /\ PAGE_SIZE \in Nat /\ PAGE_SIZE > 0
  /\ MMIO_CAP \in Nat /\ MMIO_CAP > 0
  /\ STACK_TOP \in Nat /\ MaxFrames \in Nat /\ MaxRemaps \in Nat /\ KERNEL_PAGE \in Nat
  /\ INIT_STACK_PAGES \in Nat /\ 2 <= INIT_STACK_PAGES /\ INIT_STACK_PAGES <= STACK_TOP
  /\ MaxRemaps * MMIO_CAP <= KERNEL_PAGE
  /\ RemapSizes \subseteq Nat
<1>1. /\ {PAGE_SIZE, MMIO_CAP} \subseteq Nat \ {0}
      /\ {STACK_TOP, MaxFrames, MaxRemaps, KERNEL_PAGE} \subseteq Nat
      /\ INIT_STACK_PAGES \in 2 .. STACK_TOP
      /\ MaxRemaps * MMIO_CAP <= KERNEL_PAGE
      /\ RemapSizes \subseteq Nat
  BY ExecConstants
<1>2. QED
  BY <1>1

(* The pages of programs, those of the stack and those above 4 GB of       *)
(* registers and the kernel.                                               *)
LEMMA PageNumbers ==
  /\ StackPages \subseteq VPage
  /\ VPage \cap KPage = {}
  /\ KernelImage \in KPage
  /\ \A n \in 0 .. KERNEL_PAGE : MmioPage(n) \in KPage /\ Registers(n) \in Device
BY Sizes DEF StackPages, VPage, KPage, KernelImage, MmioPage, Device

-----------------------------------------------------------------------------
(* map_page                                                                *)

(* How many of three levels a set has.                                     *)
LEMMA CountThree ==
  ASSUME NEW M \in SUBSET (1 .. 3)
  PROVE  Cardinality(M) = (IF 1 \in M THEN 1 ELSE 0)
                        + (IF 2 \in M THEN 1 ELSE 0)
                        + (IF 3 \in M THEN 1 ELSE 0)
<1> DEFINE A == M \cap {1}
           B == M \cap {1, 2}
<1>1. IsFiniteSet(A) /\ Cardinality(A) = (IF 1 \in M THEN 1 ELSE 0)
  <2>1. CASE 1 \in M
    <3>1. A = {1}
      BY <2>1
    <3>2. QED
      BY <2>1, <3>1, FS_Singleton
  <2>2. CASE 1 \notin M
    <3>1. A = {}
      BY <2>2
    <3>2. QED
      BY <2>2, <3>1, FS_EmptySet
  <2>3. QED
    BY <2>1, <2>2
<1>2. IsFiniteSet(B) /\ Cardinality(B) = Cardinality(A) + (IF 2 \in M THEN 1 ELSE 0)
  <2>1. CASE 2 \in M
    <3>1. B = A \cup {2} /\ 2 \notin A
      BY <2>1
    <3>2. QED
      BY <1>1, <2>1, <3>1, FS_AddElement
  <2>2. CASE 2 \notin M
    <3>1. B = A
      BY <2>2
    <3>2. QED
      BY <1>1, <2>2, <3>1
  <2>3. QED
    BY <2>1, <2>2
<1>3. Cardinality(M) = Cardinality(B) + (IF 3 \in M THEN 1 ELSE 0)
  <2>0. \A i \in M : i = 1 \/ i = 2 \/ i = 3
    OBVIOUS
  <2>1. CASE 3 \in M
    <3>1. M = B \cup {3} /\ 3 \notin B
      <4>1. \A i \in M : i \in B \cup {3}
        BY <2>0
      <4>2. \A i \in B \cup {3} : i \in M
        BY <2>1
      <4>3. M = B \cup {3}
        BY <4>1, <4>2, Zenon
      <4>4. QED
        BY <4>3
    <3>2. QED
      BY <1>1, <1>2, <2>1, <3>1, FS_AddElement
  <2>2. CASE 3 \notin M
    <3>1. M = B
      BY <2>0, <2>2
    <3>2. QED
      BY <1>1, <1>2, <2>2, <3>1
  <2>3. QED
    BY <2>1, <2>2
<1>4. QED
  BY <1>1, <1>2, <1>3

(* The place of each missing level among them.                             *)
LEMMA NthOfThree ==
  ASSUME NEW v
  PROVE  /\ Missing(v) \subseteq 1 .. 3
         /\ Nth(v, 1) = (IF 1 \in Missing(v) THEN 1 ELSE 0)
         /\ Nth(v, 2) = Nth(v, 1) + (IF 2 \in Missing(v) THEN 1 ELSE 0)
         /\ Nth(v, 3) = Nth(v, 2) + (IF 3 \in Missing(v) THEN 1 ELSE 0)
<1> DEFINE upto(i) == {j \in Missing(v) : j <= i}
<1>1. Missing(v) \subseteq 1 .. 3
  BY DEF Missing
<1>2. /\ 1 \in upto(1) <=> 1 \in Missing(v)
      /\ 2 \notin upto(1) /\ 3 \notin upto(1)
      /\ 1 \in upto(2) <=> 1 \in Missing(v)
      /\ 2 \in upto(2) <=> 2 \in Missing(v)
      /\ 3 \notin upto(2)
      /\ 1 \in upto(3) <=> 1 \in Missing(v)
      /\ 2 \in upto(3) <=> 2 \in Missing(v)
      /\ 3 \in upto(3) <=> 3 \in Missing(v)
  OBVIOUS
<1>3. upto(1) \in SUBSET (1 .. 3) /\ upto(2) \in SUBSET (1 .. 3) /\ upto(3) \in SUBSET (1 .. 3)
  BY <1>1
<1>4. /\ Nth(v, 1) = Cardinality(upto(1))
      /\ Nth(v, 2) = Cardinality(upto(2))
      /\ Nth(v, 3) = Cardinality(upto(3))
  BY DEF Nth
<1> HIDE DEF upto
<1>5. QED
  BY <1>1, <1>2, <1>3, <1>4, CountThree

-----------------------------------------------------------------------------
(* The inductive invariant.                                                *)

Types ==
  /\ mode \in {"boot", "mmio", "user", "loading", "embedded", "halted", "panic"}
  /\ running \in Program \cup {"none"}
  /\ started \in BOOLEAN
  /\ pages \in [VPage \cup KPage -> Frame \cup Device \cup {NoFrame, Image}]
  /\ \A v \in VPage : pages[v] \in Frame \cup {NoFrame}
  /\ \A v \in KPage : pages[v] \in Device \cup {NoFrame, Image}
  /\ tables \in [Table -> Frame \cup {NoFrame, Image}]
  /\ DOMAIN memory = Frame
  /\ handed_out \in 0 .. MaxFrames

(* Frames in use have left the allocator.                                  *)
FramesHandedOut ==
  /\ \A v \in VPage : pages[v] <= handed_out
  /\ \A t \in Table : tables[t] <= handed_out

(* Where the loader is in its program.                                     *)
LoaderInRange ==
  mode = "loading" =>
    /\ loader \in [prog : Program, by : {"boot", "exit", "exec"}, seg : Nat, page : Nat]
    /\ Accepted(loader.prog)
    /\ loader.seg \in 1 .. Len(Segments(loader.prog)) + 1
    /\ Loading => loader.page \in page_start(Segment) .. page_end(Segment)
    /\ Stacking => loader.page <= INIT_STACK_PAGES

(* The addresses given to registers: below next_mmio_addr, which a bounded *)
(* number of bounded calls keeps below the kernel image.                   *)
RemapInRange ==
  /\ regions \in Seq([first : Nat, count : Nat]) /\ Len(regions) <= MaxRemaps
  /\ next_mmio_addr \in Nat /\ next_mmio_addr <= Len(regions) * MMIO_CAP
  /\ \A i \in DOMAIN regions : regions[i].first + regions[i].count <= next_mmio_addr
  /\ mode = "mmio" =>
       /\ Len(regions) < MaxRemaps
       /\ remap \in [done : Nat, needed : Nat]
       /\ remap.done <= remap.needed /\ remap.needed <= MMIO_CAP

(* What the call under way has mapped, unless frames ran out.              *)
RemapSoFar ==
  mode = "mmio" =>
    \A n \in 0 .. remap.done - 1 :
      \/ pages[MmioPage(next_mmio_addr + n)] = Registers(next_mmio_addr + n)
      \/ handed_out = MaxFrames

(* The first n segments of a program are in memory.                        *)
ImageLoaded(p, n) ==
  \A i \in 1 .. n : \A k \in 0 .. Segments(p)[i].memsz - 1 :
    LET seg == Segments(p)[i]
        v == PageOf(seg.vaddr + k)
        o == (seg.vaddr + k) % PAGE_SIZE
    IN  /\ pages[v] # NoFrame
        /\ memory[pages[v]][o] = IF k < seg.filesz THEN FileByte(p, i, k) ELSE Zero

(* The first n pages of the stack are there, and so are their tables.      *)
StackMapped(n) ==
  /\ \A k \in 1 .. n : pages[STACK_TOP - k] # NoFrame
  /\ n > 0 => \A i \in 1 .. 3 : tables[Walk[STACK_TOP - 1][i]] # NoFrame

(* What the loader has done so far.  Only the first page of the stack can  *)
(* be missing: then there is no frame for the second.                      *)
LoadedSoFar ==
  mode = "loading" =>
    /\ ImageLoaded(loader.prog, loader.seg - 1)
    /\ Stacking => \/ StackMapped(loader.page)
                   \/ loader.page = 1 /\ handed_out = MaxFrames

StartedInUserMode == started => mode = "user"

SpaceInv == Types /\ FramesHandedOut /\ FramesPrivate /\ LoaderInRange

RemapInv == RemapInRange /\ RemapSoFar /\ RegionsKept

ImageInv == LoadedSoFar /\ StartedInUserMode /\ StartsWithItsImage

Inv == SpaceInv /\ RemapInv /\ ImageInv

(* A step of map_page, whatever it is asked to map: it takes frames in     *)
(* order, gives different tables different ones, and either maps the page  *)
(* and has all its tables or has used up the frames.                       *)
MapsPage(v, phys, taken) ==
  /\ handed_out' \in handed_out + taken .. MaxFrames
  /\ tables' \in [Table -> Frame \cup {NoFrame, Image}]
  /\ \A t \in Table :
       \/ tables'[t] = tables[t]
       \/ tables'[t] \in handed_out + taken + 1 .. handed_out'
  /\ \A t, u \in Table :
       tables'[t] > handed_out + taken /\ tables'[t] = tables'[u] => t = u
  /\ \/ /\ pages' = [pages EXCEPT ![v] = phys]
        /\ \A i \in 1 .. 3 : tables'[Walk[v][i]] # NoFrame
     \/ /\ pages' = pages /\ handed_out' = MaxFrames
        /\ \E i \in 1 .. 3 : tables[Walk[v][i]] = NoFrame

(* map_page maps the page, with frames of their own for the tables that were*)
(* missing, or runs out of frames.                                         *)
LEMMA MapPageStep ==
  ASSUME tables \in [Table -> Frame \cup {NoFrame, Image}],
         \A t \in Table : tables[t] <= handed_out,
         NEW taken \in Nat, handed_out \in Nat, handed_out + taken <= MaxFrames,
         NEW v \in VPage \cup KPage, NEW phys, map_page(v, phys, taken)
  PROVE  MapsPage(v, phys, taken)
<1> DEFINE M == Missing(v)
           R == MaxFrames - handed_out - taken
           made == {i \in M : TableFrame(taken, Nth(v, i)) <= MaxFrames}
           new(t) == \E i \in made : Walk[v][i] = t
           level(t) == CHOOSE i \in made : Walk[v][i] = t
<1>1. R \in Nat /\ MaxFrames \in Nat
  BY Sizes
<1>2. /\ M \subseteq 1 .. 3
      /\ Nth(v, 1) = (IF 1 \in M THEN 1 ELSE 0)
      /\ Nth(v, 2) = Nth(v, 1) + (IF 2 \in M THEN 1 ELSE 0)
      /\ Nth(v, 3) = Nth(v, 2) + (IF 3 \in M THEN 1 ELSE 0)
  BY NthOfThree
<1>3. \A i \in 1 .. 3 : Nth(v, i) \in 0 .. 3
  BY <1>2
<1>4. made = {i \in M : Nth(v, i) <= R} /\ made \subseteq 1 .. 3
  <2>1. \A i \in M : TableFrame(taken, Nth(v, i)) <= MaxFrames <=> Nth(v, i) <= R
    BY <1>1, <1>2, <1>3 DEF TableFrame
  <2>2. QED
    BY <1>2, <2>1
<1>5. Cardinality(made) = (IF 1 \in made THEN 1 ELSE 0)
                        + (IF 2 \in made THEN 1 ELSE 0)
                        + (IF 3 \in made THEN 1 ELSE 0)
  BY <1>4, CountThree
<1>6. /\ tables' = [t \in Table |-> IF new(t) THEN TableFrame(taken, Nth(v, level(t)))
                                    ELSE tables[t]]
      /\ pages' = IF made = M THEN [pages EXCEPT ![v] = phys] ELSE pages
      /\ handed_out' = handed_out + taken + Cardinality(made)
  BY DEF map_page
<1>7. \A t \in Table : new(t) => level(t) \in made /\ Walk[v][level(t)] = t
  OBVIOUS
<1> HIDE DEF M, R, made, new, level
<1>8. \A i \in made : /\ i \in 1 .. 3 /\ i \in M
                      /\ Nth(v, i) \in 1 .. Cardinality(made)
  BY <1>1, <1>2, <1>4, <1>5
<1>9. \A i, j \in made : Nth(v, i) = Nth(v, j) => i = j
  BY <1>2, <1>4
<1>10. Cardinality(made) \in 0 .. R /\ (made # M => Cardinality(made) = R)
  <2>1. \A i \in 1 .. 3 : i \in made <=> i \in M /\ Nth(v, i) <= R
    BY <1>2, <1>4
  <2>2. /\ 1 \in made <=> 1 \in M /\ Nth(v, 1) <= R
        /\ 2 \in made <=> 2 \in M /\ Nth(v, 2) <= R
        /\ 3 \in made <=> 3 \in M /\ Nth(v, 3) <= R
    BY <2>1
  <2>3. made # M => \/ 1 \in M /\ 1 \notin made
                    \/ 2 \in M /\ 2 \notin made
                    \/ 3 \in M /\ 3 \notin made
    <3>1. ASSUME made # M PROVE \E i \in M : i \notin made
      BY <1>4, <3>1
    <3>2. \A i \in M : i = 1 \/ i = 2 \/ i = 3
      BY <1>2
    <3>3. QED
      BY <3>1, <3>2
  <2>4. Cardinality(made) \in 0 .. R
    BY <1>1, <1>2, <1>5, <2>2
  <2>5. ASSUME made # M PROVE Cardinality(made) = R
    BY <1>1, <1>2, <1>5, <2>2, <2>3, <2>5
  <2>6. QED
    BY <2>4, <2>5
<1>11. handed_out' \in handed_out + taken .. MaxFrames
       /\ (made # M => handed_out' = MaxFrames)
  BY <1>1, <1>6, <1>10 DEF R
<1>12. ASSUME NEW t \in Table, new(t)
       PROVE  tables'[t] \in handed_out + taken + 1 .. handed_out'
  BY <1>6, <1>7, <1>8, <1>12, <1>5 DEF TableFrame
<1>13. \A t \in Table : tables'[t] # tables[t] => new(t)
  BY <1>6
<1>14. tables' \in [Table -> Frame \cup {NoFrame, Image}]
  BY <1>1, <1>6, <1>11, <1>12 DEF Frame
<1>15. ASSUME NEW t \in Table, NEW u \in Table,
              tables'[t] > handed_out + taken, tables'[t] = tables'[u]
       PROVE  t = u
  <2>1. new(t) /\ new(u)
    <3>1. tables[t] \in Int /\ tables[u] \in Int
      BY <1>1 DEF Frame, NoFrame, Image
    <3>2. QED
      BY <1>13, <1>15, <3>1
  <2>2. level(t) \in made /\ level(u) \in made
    BY <1>7, <2>1
  <2>3. /\ tables'[t] = handed_out + taken + Nth(v, level(t))
        /\ tables'[u] = handed_out + taken + Nth(v, level(u))
    BY <1>6, <2>1 DEF TableFrame
  <2>4. Nth(v, level(t)) \in Int /\ Nth(v, level(u)) \in Int
    BY <1>3, <1>8, <2>2
  <2>5. Nth(v, level(t)) = Nth(v, level(u))
    <3> DEFINE a == Nth(v, level(t))
               b == Nth(v, level(u))
    <3>1. handed_out + taken + a = handed_out + taken + b
      BY <1>15, <2>3
    <3>2. a \in Int /\ b \in Int
      BY <2>4
    <3> HIDE DEF a, b
    <3>3. a = b
      BY <3>1, <3>2
    <3>4. QED
      BY <3>3 DEF a, b
  <2>6. level(t) = level(u)
    BY <1>9, <2>2, <2>5
  <2>7. QED
    BY <1>7, <2>1, <2>6
<1>16. ASSUME made = M, NEW i \in 1 .. 3 PROVE tables'[Walk[v][i]] # NoFrame
  <2>1. Walk[v][i] \in Table
    BY ExecConstants
  <2>2. CASE i \in M
    <3>1. new(Walk[v][i])
      BY <1>16, <2>2 DEF new
    <3>2. tables'[Walk[v][i]] \in handed_out + taken + 1 .. handed_out'
      BY <1>12, <2>1, <3>1
    <3>3. QED
      BY <3>2 DEF NoFrame
  <2>3. CASE i \notin M
    <3>1. tables[Walk[v][i]] # NoFrame
      BY <2>3 DEF M, Missing
    <3>2. QED
      BY <1>12, <1>13, <2>1, <3>1 DEF NoFrame
  <2>4. QED
    BY <2>2, <2>3
<1>17. made # M => \E i \in 1 .. 3 : tables[Walk[v][i]] = NoFrame
  <2>1. made # M => \E i \in M : i \notin made
    BY <1>4 DEF made
  <2>2. QED
    BY <2>1 DEF M, Missing
<1>18. \A t \in Table : \/ tables'[t] = tables[t]
                        \/ tables'[t] \in handed_out + taken + 1 .. handed_out'
  BY <1>12, <1>13
<1>19. CASE made = M
  BY <1>6, <1>11, <1>14, <1>15, <1>16, <1>18, <1>19 DEF MapsPage
<1>20. CASE made # M
  BY <1>6, <1>11, <1>14, <1>15, <1>17, <1>18, <1>20 DEF MapsPage
<1>21. QED
  BY <1>19, <1>20

-----------------------------------------------------------------------------
(* Segments and pages                                                      *)

(* A byte is in a page and has its place in it.                            *)
LEMMA Paging ==
  ASSUME NEW a \in Nat
  PROVE  /\ PageOf(a) \in Nat /\ a % PAGE_SIZE \in Offset
         /\ a = PAGE_SIZE * PageOf(a) + (a % PAGE_SIZE)
BY Sizes DEF PageOf, Offset

(* A higher address lies on no lower page.                                 *)
LEMMA PageMonotone ==
  ASSUME NEW a \in Nat, NEW b \in Nat, a <= b
  PROVE  PageOf(a) <= PageOf(b)
<1> DEFINE p == PageOf(a)  q == PageOf(b)
<1>1. /\ p \in Nat /\ a % PAGE_SIZE \in 0 .. PAGE_SIZE - 1
      /\ q \in Nat /\ b % PAGE_SIZE \in 0 .. PAGE_SIZE - 1
  BY Paging DEF Offset
<1>2. a = PAGE_SIZE * p + (a % PAGE_SIZE) /\ b = PAGE_SIZE * q + (b % PAGE_SIZE)
  BY Paging
<1> DEFINE r == a % PAGE_SIZE  u == b % PAGE_SIZE
<1> HIDE DEF p, q, r, u
<1>3. ASSUME q < p PROVE FALSE
  <2>1. PAGE_SIZE * (q + 1) <= PAGE_SIZE * p
    BY <1>1, <1>3, Sizes
  <2>2. PAGE_SIZE * (q + 1) = PAGE_SIZE * q + PAGE_SIZE
    BY <1>1, Sizes
  <2>3. /\ PAGE_SIZE * p \in Nat /\ PAGE_SIZE * q \in Nat
        /\ r \in 0 .. PAGE_SIZE - 1 /\ u \in 0 .. PAGE_SIZE - 1
        /\ a = PAGE_SIZE * p + r /\ b = PAGE_SIZE * q + u
    BY <1>1, <1>2, Sizes DEF r, u
  <2>4. QED
    BY <2>1, <2>2, <2>3, Sizes
<1>4. QED
  BY <1>1, <1>3 DEF p, q

(* The segments of a program that the loader accepts.                      *)
LEMMA SegmentFacts ==
  ASSUME NEW p \in Program, Accepted(p)
  PROVE  /\ Len(Segments(p)) \in Nat
         /\ \A i \in 1 .. Len(Segments(p)) :
              LET seg == Segments(p)[i]
              IN  /\ seg.vaddr \in Nat /\ seg.memsz \in Nat
                  /\ seg.filesz \in Nat /\ seg.filesz <= seg.memsz
                  /\ page_start(seg) \in Nat /\ page_end(seg) \in Nat
                  /\ page_start(seg) <= page_end(seg)
                  /\ PagesOf(seg) \subseteq VPage \ StackPages
                  /\ \A j \in 1 .. Len(Segments(p)) :
                       i # j => PagesOf(seg) \cap PagesOf(Segments(p)[j]) = {}
<1>1. /\ Segments(p) \in Seq(Segment64)
      /\ \A i, j \in DOMAIN Segments(p) :
           /\ PagesOf(Segments(p)[i]) \subseteq VPage \ StackPages
           /\ i # j => PagesOf(Segments(p)[i]) \cap PagesOf(Segments(p)[j]) = {}
  BY ExecConstants DEF Accepted
<1>2. /\ Len(Segments(p)) \in Nat /\ DOMAIN Segments(p) = 1 .. Len(Segments(p))
      /\ \A i \in 1 .. Len(Segments(p)) : Segments(p)[i] \in Segment64
  BY <1>1, LenProperties, ElementOfSeq
<1>3. ASSUME NEW seg \in Segment64
      PROVE  /\ seg.vaddr \in Nat /\ seg.memsz \in Nat
             /\ seg.filesz \in Nat /\ seg.filesz <= seg.memsz
             /\ page_start(seg) \in Nat /\ page_end(seg) \in Nat
             /\ page_start(seg) <= page_end(seg)
  <2>1. /\ seg.vaddr \in Nat /\ seg.memsz \in Nat
        /\ seg.filesz \in Nat /\ seg.filesz <= seg.memsz
    BY DEF Segment64
  <2> DEFINE end == seg.vaddr + seg.memsz + PAGE_SIZE - 1
  <2>2. end \in Nat /\ seg.vaddr <= end
    BY <2>1, Sizes
  <2>3. page_start(seg) = PageOf(seg.vaddr) /\ page_end(seg) = PageOf(end)
    BY DEF page_start, page_end
  <2> HIDE DEF end
  <2>4. PageOf(seg.vaddr) \in Nat /\ PageOf(end) \in Nat /\ PageOf(seg.vaddr) <= PageOf(end)
    BY <2>1, <2>2, Paging, PageMonotone
  <2>5. QED
    BY <2>1, <2>3, <2>4
<1>4. QED
  BY <1>1, <1>2, <1>3

(* The loader starts a segment, or the stack, at its beginning.            *)
LEMMA AtInRange ==
  ASSUME NEW p \in Program, Accepted(p), NEW by \in {"boot", "exit", "exec"},
         NEW n \in 1 .. Len(Segments(p)) + 1,
         loader' = At(p, by, n)
  PROVE  LoaderInRange'
<1>1. Len(Segments(p)) \in Nat
  BY SegmentFacts
<1> DEFINE page == IF n <= Len(Segments(p)) THEN page_start(Segments(p)[n]) ELSE 0
<1>2. loader' = [prog |-> p, by |-> by, seg |-> n, page |-> page]
  BY DEF At
<1>3. /\ page \in Nat
      /\ n <= Len(Segments(p)) =>
           page \in page_start(Segments(p)[n]) .. page_end(Segments(p)[n])
      /\ n > Len(Segments(p)) => page = 0
  <2>1. CASE n <= Len(Segments(p))
    <3>1. n \in 1 .. Len(Segments(p))
      BY <1>1, <2>1
    <3>2. /\ page_start(Segments(p)[n]) \in Nat /\ page_end(Segments(p)[n]) \in Nat
          /\ page_start(Segments(p)[n]) <= page_end(Segments(p)[n])
      BY <3>1, SegmentFacts
    <3>3. QED
      BY <1>1, <2>1, <3>2
  <2>2. CASE n > Len(Segments(p))
    BY <1>1, <2>2
  <2>3. QED
    BY <1>1, <2>1, <2>2
<1> HIDE DEF page
<1>4. /\ loader'.prog = p /\ loader'.seg = n /\ loader'.page = page
      /\ loader' \in [prog : Program, by : {"boot", "exit", "exec"}, seg : Nat, page : Nat]
  BY <1>1, <1>2, <1>3
<1>5. Accepted(loader.prog)'
  BY <1>4 DEF Accepted
<1>6. Loading' => loader'.page \in page_start(Segment)' .. page_end(Segment)'
  BY <1>3, <1>4 DEF Loading, Segment
<1>7. Stacking' => loader'.page <= INIT_STACK_PAGES
  BY <1>3, <1>4, Sizes DEF Stacking
<1>8. QED
  BY <1>4, <1>5, <1>6, <1>7 DEF LoaderInRange

-----------------------------------------------------------------------------
(* Frames                                                                  *)

(* Mapping a fresh frame for a program, or registers for a driver.         *)
Maps(v, phys, taken) ==
  /\ MapsPage(v, phys, taken)
  /\ \/ v \in VPage /\ phys = handed_out + 1 /\ taken = 1
     \/ v \in KPage \ {KernelImage} /\ phys \in Device /\ taken = 0

(* map_frame maps its page to the next frame.                              *)
LEMMA FrameMaps ==
  ASSUME Types, FramesHandedOut, NEW v \in VPage, map_frame(v)
  PROVE  Maps(v, handed_out + 1, 1)
<1>1. /\ tables \in [Table -> Frame \cup {NoFrame, Image}]
      /\ \A t \in Table : tables[t] <= handed_out
      /\ handed_out \in Nat /\ handed_out + 1 <= MaxFrames
  BY Sizes DEF Types, FramesHandedOut, map_frame
<1>2. map_page(v, handed_out + 1, 1)
  BY DEF map_frame
<1>3. MapsPage(v, handed_out + 1, 1)
  BY <1>1, <1>2, MapPageStep
<1>4. QED
  BY <1>3 DEF Maps

(* A page of an MMIO window is mapped without taking a frame for itself.   *)
LEMMA RegistersMap ==
  ASSUME Types, FramesHandedOut, NEW k \in 0 .. KERNEL_PAGE - 1,
         map_page(MmioPage(k), Registers(k), 0)
  PROVE  Maps(MmioPage(k), Registers(k), 0)
<1>1. /\ tables \in [Table -> Frame \cup {NoFrame, Image}]
      /\ \A t \in Table : tables[t] <= handed_out
      /\ handed_out \in Nat /\ handed_out + 0 <= MaxFrames
  BY Sizes DEF Types, FramesHandedOut
<1>2. MmioPage(k) \in KPage /\ MmioPage(k) # KernelImage /\ Registers(k) \in Device
  BY PageNumbers, Sizes DEF MmioPage, KernelImage
<1>3. MapsPage(MmioPage(k), Registers(k), 0)
  BY <1>1, <1>2, MapPageStep
<1>4. QED
  BY <1>2, <1>3 DEF Maps

(* It moves nothing else and keeps every frame and table private.          *)
LEMMA MapSpace ==
  ASSUME Types, FramesHandedOut, FramesPrivate,
         NEW v, NEW phys, NEW taken, Maps(v, phys, taken),
         UNCHANGED <<mode, running, started, memory>>
  PROVE  Types' /\ FramesHandedOut' /\ FramesPrivate'
<1>1. /\ MapsPage(v, phys, taken) /\ v \in VPage \cup KPage /\ taken \in {0, 1}
      /\ v \in VPage => phys = handed_out + 1 /\ taken = 1
      /\ v \in KPage => phys \in Device
  BY PageNumbers DEF Maps
<1>2. handed_out \in Nat /\ taken \in {0, 1} /\ handed_out' \in Nat
      /\ handed_out + taken <= handed_out' /\ handed_out' <= MaxFrames
  BY <1>1, Sizes DEF MapsPage, Types
<1>3. /\ DOMAIN pages' = VPage \cup KPage
      /\ \A w \in VPage \cup KPage :
           \/ pages'[w] = pages[w]
           \/ w = v /\ pages'[w] = phys
  BY <1>1 DEF MapsPage, Types
<1>4. ASSUME NEW w \in VPage
      PROVE  \/ pages'[w] = pages[w]
             \/ w = v /\ taken = 1 /\ pages'[w] = handed_out + 1
  BY <1>1, <1>3
<1>5. ASSUME NEW w \in VPage
      PROVE  /\ pages[w] \in Nat /\ pages[w] <= handed_out
             /\ pages'[w] \in 0 .. handed_out + taken
  <2>1. pages[w] \in Nat /\ pages[w] <= handed_out
    BY Sizes DEF Types, FramesHandedOut, Frame, NoFrame
  <2>2. QED
    BY <1>2, <1>4, <2>1
<1>6. ASSUME NEW t \in Table
      PROVE  /\ tables[t] \in Int /\ tables[t] <= handed_out
             /\ \/ tables'[t] = tables[t]
                \/ tables'[t] \in handed_out + taken + 1 .. handed_out'
  BY <1>1, Sizes DEF Types, FramesHandedOut, MapsPage, Frame, NoFrame, Image
<1>7. Types'
  <2>1. ASSUME NEW w \in VPage PROVE pages'[w] \in Frame \cup {NoFrame}
    BY <1>2, <1>5, Sizes DEF Frame, NoFrame
  <2>2. ASSUME NEW w \in KPage PROVE pages'[w] \in Device \cup {NoFrame, Image}
    BY <1>1, <1>3 DEF Types
  <2>3. tables' \in [Table -> Frame \cup {NoFrame, Image}]
    BY <1>1 DEF MapsPage
  <2>4. handed_out' \in 0 .. MaxFrames
    BY <1>2, Sizes
  <2>5. DOMAIN memory' = Frame
    BY DEF Types
  <2>6. pages' \in [VPage \cup KPage -> Frame \cup Device \cup {NoFrame, Image}]
    <3>1. pages' = [w \in VPage \cup KPage |-> pages'[w]]
      BY <1>1 DEF MapsPage, Types
    <3>2. QED
      BY <2>1, <2>2, <3>1
  <2>7. QED
    BY <2>1, <2>2, <2>3, <2>4, <2>5, <2>6 DEF Types
<1>8. FramesHandedOut'
  <2>1. ASSUME NEW w \in VPage PROVE pages'[w] <= handed_out'
    BY <1>2, <1>5
  <2>2. ASSUME NEW t \in Table PROVE tables'[t] <= handed_out'
    BY <1>2, <1>6
  <2>3. QED
    BY <2>1, <2>2 DEF FramesHandedOut
<1>9. FramesPrivate'
  <2>1. ASSUME NEW w \in VPage, NEW x \in VPage,
               pages'[w] # NoFrame, pages'[w] = pages'[x]
        PROVE  w = x
    <3>1. CASE pages'[w] = pages[w] /\ pages'[x] = pages[x]
      BY <2>1, <3>1 DEF FramesPrivate
    <3>2. CASE ~(pages'[w] = pages[w] /\ pages'[x] = pages[x])
      BY <1>2, <1>4, <1>5, <2>1, <3>2
    <3>3. QED
      BY <3>1, <3>2
  <2>2. ASSUME NEW t \in Table, NEW u \in Table,
               tables'[t] \in Frame, tables'[t] = tables'[u]
        PROVE  t = u
    <3>1. CASE tables'[t] > handed_out + taken
      BY <1>1, <2>2, <3>1 DEF MapsPage
    <3>2. CASE ~(tables'[t] > handed_out + taken)
      <4>1. tables'[t] = tables[t] /\ tables'[u] = tables[u]
        BY <1>2, <1>6, <2>2, <3>2
      <4>2. QED
        BY <2>2, <4>1 DEF FramesPrivate
    <3>3. QED
      BY <3>1, <3>2
  <2>3. ASSUME NEW w \in VPage, NEW t \in Table, pages'[w] # NoFrame
        PROVE  pages'[w] # tables'[t]
    <3>1. CASE pages'[w] = pages[w] /\ tables'[t] = tables[t]
      BY <2>3, <3>1 DEF FramesPrivate
    <3>2. CASE ~(pages'[w] = pages[w] /\ tables'[t] = tables[t])
      BY <1>2, <1>4, <1>5, <1>6, <3>2
    <3>3. QED
      BY <3>1, <3>2
  <2>4. QED
    BY <2>1, <2>2, <2>3 DEF FramesPrivate
<1>10. QED
  BY <1>7, <1>8, <1>9

(* A step that maps nothing.                                               *)
LEMMA SpaceUntouched ==
  ASSUME Types, FramesHandedOut, FramesPrivate,
         UNCHANGED <<pages, tables, handed_out>>, DOMAIN memory' = Frame,
         mode' \in {"boot", "mmio", "user", "loading", "embedded", "halted", "panic"},
         running' \in Program \cup {"none"}, started' \in BOOLEAN
  PROVE  Types' /\ FramesHandedOut' /\ FramesPrivate'
BY DEF Types, FramesHandedOut, FramesPrivate

-----------------------------------------------------------------------------
(* mmio_remap                                                              *)

(* The call cuts what it is asked for.                                     *)
LEMMA PagesNeeded ==
  ASSUME NEW offset \in Offset, NEW size \in RemapSizes
  PROVE  pages_needed(offset, size) \in 1 .. MMIO_CAP
<1> DEFINE n == (size + offset + PAGE_SIZE - 1) \div PAGE_SIZE
<1>1. size + offset + PAGE_SIZE - 1 \in Nat
  BY Sizes DEF Offset
<1>2. n \in Nat
  BY <1>1, Sizes
<1>3. pages_needed(offset, size) = IF n = 0 THEN 1 ELSE IF n > MMIO_CAP THEN MMIO_CAP ELSE n
  BY DEF pages_needed
<1> HIDE DEF n
<1>4. QED
  BY <1>2, <1>3, Sizes

(* So many pages of registers lie in front of the kernel image.            *)
LEMMA Below ==
  ASSUME NEW calls \in Nat, calls <= MaxRemaps
  PROVE  calls * MMIO_CAP \in Nat /\ calls * MMIO_CAP <= KERNEL_PAGE
<1>1. calls * MMIO_CAP <= MaxRemaps * MMIO_CAP
  BY Sizes
<1>2. calls * MMIO_CAP \in Nat /\ MaxRemaps * MMIO_CAP \in Nat
  BY Sizes
<1>3. QED
  BY <1>1, <1>2, Sizes

(* The regions mmio_remap returned lie below the next free address.        *)
LEMMA Regions ==
  ASSUME RemapInRange
  PROVE  /\ Len(regions) \in Nat /\ DOMAIN regions = 1 .. Len(regions)
         /\ next_mmio_addr \in Nat /\ next_mmio_addr <= KERNEL_PAGE
         /\ \A i \in DOMAIN regions :
              /\ regions[i].first \in Nat /\ regions[i].count \in Nat
              /\ \A n \in 0 .. regions[i].count - 1 :
                   /\ regions[i].first + n \in 0 .. KERNEL_PAGE - 1
                   /\ regions[i].first + n < next_mmio_addr
<1>1. /\ Len(regions) \in Nat /\ DOMAIN regions = 1 .. Len(regions)
      /\ \A i \in DOMAIN regions : regions[i] \in [first : Nat, count : Nat]
  BY LenProperties, ElementOfSeq DEF RemapInRange
<1>2. next_mmio_addr \in Nat /\ next_mmio_addr <= KERNEL_PAGE
  <2> DEFINE most == Len(regions) * MMIO_CAP
  <2>1. next_mmio_addr \in Nat /\ next_mmio_addr <= most
    BY DEF RemapInRange
  <2>2. most \in Nat /\ most <= KERNEL_PAGE
    BY <1>1, Below DEF RemapInRange
  <2> HIDE DEF most
  <2>3. QED
    BY <2>1, <2>2, Sizes
<1>3. ASSUME NEW i \in DOMAIN regions
      PROVE  /\ regions[i].first \in Nat /\ regions[i].count \in Nat
             /\ regions[i].first + regions[i].count <= next_mmio_addr
  BY <1>1 DEF RemapInRange
<1>4. QED
  BY <1>1, <1>2, <1>3, Sizes

(* The page that mmio_remap maps next lies in the window.                  *)
LEMMA RemapIndex ==
  ASSUME RemapInRange, mode = "mmio", NEW n \in Nat, n < remap.needed
  PROVE  next_mmio_addr + n \in 0 .. KERNEL_PAGE - 1
<1> DEFINE calls == Len(regions)
<1>1. calls \in Nat /\ calls + 1 <= MaxRemaps
  BY Regions, Sizes DEF RemapInRange
<1>2. /\ next_mmio_addr \in Nat /\ next_mmio_addr <= calls * MMIO_CAP
      /\ remap.needed \in Nat /\ remap.needed <= MMIO_CAP
  BY DEF RemapInRange
<1> HIDE DEF calls
<1>3. calls * MMIO_CAP \in Nat /\ (calls + 1) * MMIO_CAP = calls * MMIO_CAP + MMIO_CAP
  BY <1>1, Sizes
<1>4. (calls + 1) * MMIO_CAP <= KERNEL_PAGE
  BY <1>1, Below
<1> DEFINE used == calls * MMIO_CAP
<1>5. /\ used \in Nat /\ used + MMIO_CAP <= KERNEL_PAGE
      /\ next_mmio_addr <= used /\ MMIO_CAP \in Nat /\ KERNEL_PAGE \in Nat
  BY <1>2, <1>3, <1>4, Sizes
<1> HIDE DEF used
<1>6. QED
  BY <1>2, <1>5

(* A step outside mmio_remap leaves the registers where they are.          *)
LEMMA RemapUntouched ==
  ASSUME RemapInv, UNCHANGED mmio, mode' # "mmio",
         \A v \in KPage : pages'[v] = pages[v],
         handed_out \in Nat, handed_out' \in handed_out .. MaxFrames
  PROVE  RemapInv'
<1>1. RemapInRange' /\ RemapSoFar'
  BY DEF RemapInv, RemapInRange, RemapSoFar, mmio
<1>2. ASSUME NEW i \in DOMAIN regions, NEW n \in 0 .. regions[i].count - 1
      PROVE  \/ pages'[MmioPage(regions[i].first + n)] = Registers(regions[i].first + n)
             \/ handed_out' = MaxFrames
  <2>1. regions[i].first + n \in 0 .. KERNEL_PAGE
    BY <1>2, Regions, Sizes DEF RemapInv
  <2>2. pages'[MmioPage(regions[i].first + n)] = pages[MmioPage(regions[i].first + n)]
    BY <2>1, PageNumbers
  <2>3. \/ pages[MmioPage(regions[i].first + n)] = Registers(regions[i].first + n)
        \/ handed_out = MaxFrames
    BY <1>2 DEF RemapInv, RegionsKept
  <2>4. QED
    BY <2>2, <2>3, Sizes
<1>3. pages'[KernelImage] = Image
  BY PageNumbers DEF RemapInv, RegionsKept
<1>4. RegionsKept'
  BY <1>2, <1>3 DEF RegionsKept, mmio
<1>5. QED
  BY <1>1, <1>4 DEF RemapInv

(* Neither of the two has to do with the images of programs.               *)
LEMMA ImageIdle ==
  ASSUME mode' # "loading", ~started'
  PROVE  LoaderInRange' /\ ImageInv'
BY DEF LoaderInRange, ImageInv, LoadedSoFar, StartedInUserMode, StartsWithItsImage

(* mmio_remap starts a region without mapping anything.                    *)
LEMMA RemapStep ==
  ASSUME Inv, NEW offset \in Offset, NEW size \in RemapSizes, mmio_remap(offset, size)
  PROVE  Inv'
<1>1. /\ mode = "boot" /\ mode' = "mmio" /\ Len(regions) < MaxRemaps
      /\ remap' = [done |-> 0, needed |-> pages_needed(offset, size)]
      /\ UNCHANGED <<running, started, pages, tables, memory, handed_out,
                     next_mmio_addr, regions>>
  BY DEF mmio_remap, space
<1>2. ~started'
  BY <1>1 DEF Inv, ImageInv, StartedInUserMode
<1>3. Types' /\ FramesHandedOut' /\ FramesPrivate'
  BY <1>1, SpaceUntouched DEF Inv, SpaceInv, Types
<1>4. LoaderInRange' /\ ImageInv'
  BY <1>1, <1>2, ImageIdle
<1>5. RemapInRange'
  <2>1. pages_needed(offset, size) \in 1 .. MMIO_CAP
    BY PagesNeeded
  <2>2. /\ remap' \in [done : Nat, needed : Nat]
        /\ remap'.done <= remap'.needed /\ remap'.needed <= MMIO_CAP
    BY <1>1, <2>1, Sizes
  <2>3. QED
    BY <1>1, <2>2 DEF Inv, RemapInv, RemapInRange
<1>6. RemapSoFar'
  BY <1>1 DEF RemapSoFar
<1>7. RegionsKept'
  BY <1>1 DEF Inv, RemapInv, RegionsKept
<1>8. QED
  BY <1>3, <1>4, <1>5, <1>6, <1>7 DEF Inv, SpaceInv, RemapInv

(* Another page of the region is mapped, and no page of an earlier one.    *)
LEMMA RemapPageStep ==
  ASSUME Inv, remap_page
  PROVE  Inv'
<1> DEFINE at == next_mmio_addr + remap.done
<1>1. /\ mode = "mmio" /\ remap.done < remap.needed
      /\ map_page(MmioPage(at), Registers(at), 0)
      /\ remap' = [remap EXCEPT !.done = @ + 1]
      /\ UNCHANGED <<mode, running, started, memory, next_mmio_addr, regions>>
  BY DEF remap_page
<1>2. /\ RemapInRange /\ RemapSoFar /\ RegionsKept /\ Types /\ FramesHandedOut
      /\ FramesPrivate
  BY DEF Inv, SpaceInv, RemapInv
<1>3. /\ remap \in [done : Nat, needed : Nat] /\ next_mmio_addr \in Nat
      /\ remap'.done = remap.done + 1 /\ remap'.needed = remap.needed
      /\ remap' \in [done : Nat, needed : Nat]
  BY <1>1, <1>2 DEF RemapInRange
<1>4. at \in 0 .. KERNEL_PAGE - 1
  BY <1>1, <1>2, <1>3, RemapIndex
<1> HIDE DEF at
<1>5. Maps(MmioPage(at), Registers(at), 0)
  BY <1>1, <1>2, <1>4, RegistersMap
<1>6. Types' /\ FramesHandedOut' /\ FramesPrivate'
  BY <1>1, <1>2, <1>5, MapSpace
<1>7. LoaderInRange' /\ ImageInv'
  <2>1. ~started'
    BY <1>1 DEF Inv, ImageInv, StartedInUserMode
  <2>2. QED
    BY <1>1, <2>1, ImageIdle
<1>8. RemapInRange'
  BY <1>1, <1>2, <1>3 DEF RemapInRange
<1>9. /\ DOMAIN pages = VPage \cup KPage
      /\ handed_out \in 0 .. MaxFrames
      /\ handed_out' \in handed_out .. MaxFrames
      /\ \/ pages' = [pages EXCEPT ![MmioPage(at)] = Registers(at)]
         \/ pages' = pages /\ handed_out' = MaxFrames
  BY <1>2, <1>5, Sizes DEF Types, Maps, MapsPage
(* Where the pages of registers stay, and where this one comes to be.      *)
<1>10. ASSUME NEW k \in 0 .. KERNEL_PAGE,
              \/ pages[MmioPage(k)] = Registers(k)
              \/ handed_out = MaxFrames
              \/ k = at
       PROVE  pages'[MmioPage(k)] = Registers(k) \/ handed_out' = MaxFrames
  <2>1. MmioPage(k) \in DOMAIN pages
    BY <1>9, PageNumbers
  <2>2. MmioPage(k) = MmioPage(at) => k = at
    BY <1>4, Sizes DEF MmioPage
  <2>3. QED
    BY <1>9, <1>10, <2>1, <2>2
<1>11. RemapSoFar'
  <2>1. ASSUME NEW n \in 0 .. remap.done
        PROVE  \/ pages'[MmioPage(next_mmio_addr + n)] = Registers(next_mmio_addr + n)
               \/ handed_out' = MaxFrames
    <3>1. next_mmio_addr + n \in 0 .. KERNEL_PAGE
      <4>1. n \in Nat /\ n < remap.needed
        BY <1>1, <1>3
      <4>2. QED
        BY <1>1, <1>2, <4>1, RemapIndex, Sizes
    <3>2. CASE n < remap.done
      BY <1>1, <1>2, <1>3, <1>10, <3>1, <3>2 DEF RemapSoFar
    <3>3. CASE n = remap.done
      BY <1>10, <3>1, <3>3 DEF at
    <3>4. QED
      BY <1>3, <3>2, <3>3
  <2>2. QED
    BY <1>1, <1>3, <2>1 DEF RemapSoFar
<1>12. RegionsKept'
  <2>1. pages'[KernelImage] = Image
    <3>1. KernelImage \in DOMAIN pages /\ KernelImage # MmioPage(at)
      BY <1>4, <1>9, PageNumbers, Sizes DEF KernelImage, MmioPage
    <3>2. QED
      BY <1>2, <1>9, <3>1 DEF RegionsKept
  <2>2. ASSUME NEW i \in DOMAIN regions, NEW n \in 0 .. regions[i].count - 1
        PROVE  \/ pages'[MmioPage(regions[i].first + n)] = Registers(regions[i].first + n)
               \/ handed_out' = MaxFrames
    <3>1. regions[i].first + n \in 0 .. KERNEL_PAGE
      BY <1>2, <2>2, Regions, Sizes
    <3>2. QED
      BY <1>2, <1>10, <2>2, <3>1 DEF RegionsKept
  <2>3. QED
    BY <1>1, <2>1, <2>2 DEF RegionsKept
<1>13. QED
  BY <1>6, <1>7, <1>8, <1>11, <1>12 DEF Inv, SpaceInv, RemapInv

(* The finished region joins those to keep.                                *)
LEMMA RemapDoneStep ==
  ASSUME Inv, remap_done
  PROVE  Inv'
<1> DEFINE region == [first |-> next_mmio_addr, count |-> remap.needed]
<1>1. /\ mode = "mmio" /\ remap.done = remap.needed /\ mode' = "boot"
      /\ regions' = Append(regions, region)
      /\ next_mmio_addr' = next_mmio_addr + remap.needed
      /\ UNCHANGED <<running, started, pages, tables, memory, handed_out>>
  BY DEF remap_done, space
<1>2. /\ RemapInRange /\ RemapSoFar /\ RegionsKept /\ Types /\ FramesHandedOut
      /\ FramesPrivate
  BY DEF Inv, SpaceInv, RemapInv
<1>3. /\ next_mmio_addr \in Nat /\ remap.needed \in Nat /\ remap.needed <= MMIO_CAP
      /\ regions \in Seq([first : Nat, count : Nat])
      /\ Len(regions) \in Nat /\ DOMAIN regions = 1 .. Len(regions)
      /\ Len(regions) + 1 <= MaxRemaps
  BY <1>1, <1>2, Regions, Sizes DEF RemapInRange
<1>4. region \in [first : Nat, count : Nat]
        /\ region.first = next_mmio_addr /\ region.count = remap.needed
  BY <1>3
<1> HIDE DEF region
<1>5. /\ regions' \in Seq([first : Nat, count : Nat])
      /\ Len(regions') = Len(regions) + 1
      /\ DOMAIN regions' = 1 .. Len(regions) + 1
      /\ \A i \in 1 .. Len(regions) : regions'[i] = regions[i]
      /\ regions'[Len(regions) + 1] = region
  BY <1>1, <1>3, <1>4, AppendProperties, LenProperties
<1>6. Types' /\ FramesHandedOut' /\ FramesPrivate'
  BY <1>1, <1>2, SpaceUntouched DEF Types
<1>7. LoaderInRange' /\ ImageInv'
  <2>1. ~started'
    BY <1>1 DEF Inv, ImageInv, StartedInUserMode
  <2>2. QED
    BY <1>1, <2>1, ImageIdle
<1>8. RemapInRange'
  <2>1. next_mmio_addr' <= Len(regions') * MMIO_CAP
    <3> DEFINE calls == Len(regions)
    <3>1. next_mmio_addr <= calls * MMIO_CAP /\ calls \in Nat
      BY <1>2, <1>3 DEF RemapInRange
    <3> HIDE DEF calls
    <3>2. /\ calls * MMIO_CAP \in Nat
          /\ (calls + 1) * MMIO_CAP = calls * MMIO_CAP + MMIO_CAP
      BY <3>1, Sizes
    <3>3. next_mmio_addr' <= (calls + 1) * MMIO_CAP
      BY <1>1, <1>3, <3>1, <3>2, Sizes
    <3>4. Len(regions') = calls + 1
      BY <1>5 DEF calls
    <3>5. QED
      BY <3>3, <3>4
  <2>2. ASSUME NEW i \in DOMAIN regions'
        PROVE  regions'[i].first + regions'[i].count <= next_mmio_addr'
    <3>1. CASE i \in 1 .. Len(regions)
      <4>1. regions[i] \in [first : Nat, count : Nat]
        BY <1>3, <3>1, ElementOfSeq
      <4>2. regions[i].first + regions[i].count <= next_mmio_addr
        BY <1>2, <1>3, <3>1 DEF RemapInRange
      <4>3. regions'[i] = regions[i]
        BY <1>5, <3>1
      <4> DEFINE end == regions[i].first + regions[i].count
      <4>4. end \in Nat /\ end <= next_mmio_addr
        BY <4>1, <4>2
      <4> HIDE DEF end
      <4>5. end <= next_mmio_addr'
        BY <1>1, <1>3, <4>4
      <4>6. QED
        BY <4>3, <4>5 DEF end
    <3>2. CASE i = Len(regions) + 1
      BY <1>1, <1>3, <1>4, <1>5, <3>2
    <3>3. QED
      BY <1>3, <1>5, <3>1, <3>2
  <2>3. next_mmio_addr' \in Nat /\ Len(regions') <= MaxRemaps
    BY <1>1, <1>3, <1>5
  <2>4. QED
    BY <1>1, <1>5, <2>1, <2>2, <2>3 DEF RemapInRange
<1>9. RemapSoFar'
  BY <1>1 DEF RemapSoFar
<1>10. RegionsKept'
  <2>1. ASSUME NEW i \in DOMAIN regions', NEW n \in 0 .. regions'[i].count - 1
        PROVE  \/ pages[MmioPage(regions'[i].first + n)] = Registers(regions'[i].first + n)
               \/ handed_out = MaxFrames
    <3>1. CASE i \in 1 .. Len(regions)
      BY <1>2, <1>3, <1>5, <2>1, <3>1 DEF RegionsKept
    <3>2. CASE i = Len(regions) + 1
      BY <1>1, <1>2, <1>4, <1>5, <2>1, <3>2 DEF RemapSoFar
    <3>3. QED
      BY <1>3, <1>5, <3>1, <3>2
  <2>2. QED
    BY <1>1, <1>2, <2>1 DEF RegionsKept
<1>11. QED
  BY <1>6, <1>7, <1>8, <1>9, <1>10 DEF Inv, SpaceInv, RemapInv

-----------------------------------------------------------------------------
(* The loader                                                              *)

(* A step of the loader or of a program that maps nothing and is not one   *)
(* of mmio_remap keeps all that holds of frames and registers.             *)
LEMMA NothingMapped ==
  ASSUME Inv, UNCHANGED <<pages, tables, handed_out, mmio>>, DOMAIN memory' = Frame,
         mode' \in {"user", "loading", "embedded", "halted", "panic"},
         running' \in Program \cup {"none"}, started' \in BOOLEAN
  PROVE  Types' /\ FramesHandedOut' /\ FramesPrivate' /\ RemapInv'
<1>1. Types' /\ FramesHandedOut' /\ FramesPrivate'
  BY SpaceUntouched DEF Inv, SpaceInv
<1>2. handed_out \in Nat /\ handed_out' \in handed_out .. MaxFrames
  BY Sizes DEF Inv, SpaceInv, Types
<1>3. mode' # "mmio" /\ RemapInv /\ \A v \in KPage : pages'[v] = pages[v]
  BY DEF Inv
<1>4. RemapInv'
  BY <1>2, <1>3, RemapUntouched
<1>5. QED
  BY <1>1, <1>4

(* Nothing is loaded before the first segment.                             *)
LEMMA Begins ==
  ASSUME NEW p \in Program, Accepted(p), NEW by \in {"boot", "exit", "exec"},
         Begin(p, by), ~started'
  PROVE  LoaderInRange' /\ ImageInv' /\ mode' = "loading"
<1>1. mode' = "loading" /\ loader' = At(p, by, 1)
  BY DEF Begin
<1>2. Len(Segments(p)) \in Nat
  BY SegmentFacts
<1>3. LoaderInRange'
  BY <1>1, <1>2, AtInRange
<1>4. /\ loader'.prog = p /\ loader'.seg = 1
      /\ 1 > Len(Segments(p)) => loader'.page = 0
  BY <1>1, <1>2 DEF At
<1>5. ImageLoaded(loader.prog, loader.seg - 1)'
  BY <1>4 DEF ImageLoaded
<1>6. Stacking' => StackMapped(loader.page)'
  BY <1>4 DEF Stacking, StackMapped
<1>7. ImageInv'
  BY <1>1, <1>5, <1>6 DEF ImageInv, LoadedSoFar, StartedInUserMode, StartsWithItsImage
<1>8. QED
  BY <1>1, <1>3, <1>7

(* A load that ends with an error.                                         *)
LEMMA FailStep ==
  ASSUME Inv, mode = "loading",
         mode' \in {"embedded", "halted", "user", "panic"},
         UNCHANGED <<running, started, space, mmio>>
  PROVE  Inv'
<1>1. ~started'
  BY DEF Inv, ImageInv, StartedInUserMode
<1>2. LoaderInRange' /\ ImageInv'
  BY <1>1, ImageIdle
<1>3. Types' /\ FramesHandedOut' /\ FramesPrivate' /\ RemapInv'
  BY NothingMapped DEF Inv, SpaceInv, Types, space
<1>4. QED
  BY <1>2, <1>3 DEF Inv, SpaceInv

(* A load that fails ends in the embedded init, a halt or the caller.      *)
LEMMA Fails ==
  ASSUME Inv, mode = "loading", Fail
  PROVE  Inv'
<1>1. mode' \in {"embedded", "halted", "user"}
  BY DEF Fail, AfterFailure, Inv, SpaceInv, LoaderInRange
<1>2. QED
  BY <1>1, FailStep DEF Fail

(* start_init begins a load, and falls back if the file is not accepted.   *)
LEMMA StartInitStep ==
  ASSUME Inv, start_init
  PROVE  Inv'
<1>1. mode = "boot" /\ UNCHANGED <<running, started, space, mmio>>
  BY DEF start_init
<1>2. ~started'
  BY <1>1 DEF Inv, ImageInv, StartedInUserMode
<1>3. LoaderInRange' /\ ImageInv' /\ mode' \in {"loading", "embedded"}
  <2>1. CASE Accepted(init_path)
    <3>1. init_path \in Program /\ Begin(init_path, "boot")
      BY <2>1, ExecConstants DEF start_init
    <3>2. QED
      BY <1>2, <2>1, <3>1, Begins
  <2>2. CASE ~Accepted(init_path)
    BY <1>2, <2>2, ImageIdle DEF start_init
  <2>3. QED
    BY <2>1, <2>2
<1>4. Types' /\ FramesHandedOut' /\ FramesPrivate' /\ RemapInv'
  BY <1>1, <1>3, NothingMapped DEF Inv, SpaceInv, Types, space
<1>5. QED
  BY <1>3, <1>4 DEF Inv, SpaceInv

(* A program asks for another.                                             *)
LEMMA SysExecStep ==
  ASSUME Inv, NEW p \in Program, sys_exec(p)
  PROVE  Inv'
<1>1. mode = "user" /\ started' = FALSE /\ UNCHANGED <<running, space, mmio>>
  BY DEF sys_exec
<1>2. LoaderInRange' /\ ImageInv' /\ mode' \in {"loading", "user"}
  <2>1. CASE Accepted(p) /\ Begin(p, "exec")
    BY <1>1, <2>1, Begins
  <2>2. CASE UNCHANGED mode
    BY <1>1, <2>2, ImageIdle
  <2>3. QED
    BY <2>1, <2>2 DEF sys_exec
<1>3. Types' /\ FramesHandedOut' /\ FramesPrivate' /\ RemapInv'
  BY <1>1, <1>2, NothingMapped DEF Inv, SpaceInv, Types, space
<1>4. QED
  BY <1>2, <1>3 DEF Inv, SpaceInv

(* A program ends, and the prompt is loaded again.                         *)
LEMMA SysExitStep ==
  ASSUME Inv, sys_exit
  PROVE  Inv'
<1>1. mode = "user" /\ started' = FALSE /\ UNCHANGED <<running, space, mmio>>
  BY DEF sys_exit
<1>2. LoaderInRange' /\ ImageInv' /\ mode' \in {"loading", "halted"}
  <2>1. CASE Accepted(shell_path)
    <3>1. shell_path \in Program /\ Begin(shell_path, "exit")
      BY <2>1, ExecConstants DEF sys_exit
    <3>2. QED
      BY <1>1, <2>1, <3>1, Begins
  <2>2. CASE ~Accepted(shell_path)
    BY <1>1, <2>2, ImageIdle DEF sys_exit
  <2>3. QED
    BY <2>1, <2>2
<1>3. Types' /\ FramesHandedOut' /\ FramesPrivate' /\ RemapInv'
  BY <1>1, <1>2, NothingMapped DEF Inv, SpaceInv, Types, space
<1>4. QED
  BY <1>2, <1>3 DEF Inv, SpaceInv

(* A program writes only to its own memory.                                *)
LEMMA UserStoreStep ==
  ASSUME Inv, NEW v \in VPage, user_store(v)
  PROVE  Inv'
<1>1. /\ mode = "user" /\ mode' = "user" /\ started' = FALSE
      /\ DOMAIN memory' = DOMAIN memory
      /\ UNCHANGED <<running, loader, pages, tables, handed_out, mmio>>
  BY DEF user_store
<1>2. LoaderInRange' /\ ImageInv'
  BY <1>1, ImageIdle
<1>3. Types' /\ FramesHandedOut' /\ FramesPrivate' /\ RemapInv'
  BY <1>1, NothingMapped DEF Inv, SpaceInv, Types
<1>4. QED
  BY <1>2, <1>3 DEF Inv, SpaceInv

(* The program that the loader works on, as a value of this state.         *)
LEMMA Load ==
  ASSUME Inv, mode = "loading"
  PROVE  \E p \in Program, n \in Nat, page \in Nat :
           /\ p = loader.prog /\ n = loader.seg /\ page = loader.page
           /\ Accepted(p) /\ n \in 1 .. Len(Segments(p)) + 1
           /\ n > Len(Segments(p)) => page <= INIT_STACK_PAGES
           /\ n <= Len(Segments(p)) =>
                page \in page_start(Segments(p)[n]) .. page_end(Segments(p)[n])
           /\ ImageLoaded(p, n - 1)
           /\ n > Len(Segments(p)) => \/ StackMapped(page)
                                      \/ page = 1 /\ handed_out = MaxFrames
<1>1. /\ loader \in [prog : Program, by : {"boot", "exit", "exec"}, seg : Nat, page : Nat]
      /\ Accepted(loader.prog)
      /\ loader.seg \in 1 .. Len(Segments(loader.prog)) + 1
      /\ Loading => loader.page \in page_start(Segment) .. page_end(Segment)
      /\ Stacking => loader.page <= INIT_STACK_PAGES
  BY DEF Inv, SpaceInv, LoaderInRange
<1>2. /\ ImageLoaded(loader.prog, loader.seg - 1)
      /\ Stacking => \/ StackMapped(loader.page)
                     \/ loader.page = 1 /\ handed_out = MaxFrames
  BY DEF Inv, ImageInv, LoadedSoFar
<1>3. loader.prog \in Program /\ loader.seg \in Nat /\ loader.page \in Nat
  BY <1>1
<1>4. QED
  BY <1>1, <1>2, <1>3 DEF Loading, Stacking, Segment

(* A byte of a segment is in one of its pages.                             *)
LEMMA ByteInSegment ==
  ASSUME NEW p \in Program, Accepted(p), NEW i \in 1 .. Len(Segments(p)),
         NEW k \in 0 .. Segments(p)[i].memsz - 1
  PROVE  /\ PageOf(Segments(p)[i].vaddr + k) \in PagesOf(Segments(p)[i])
         /\ PageOf(Segments(p)[i].vaddr + k) \in VPage \ StackPages
         /\ (Segments(p)[i].vaddr + k) % PAGE_SIZE \in Offset
         /\ Segments(p)[i].vaddr + k \in Nat
<1> DEFINE seg == Segments(p)[i]
           a == seg.vaddr
           b == seg.vaddr + seg.memsz - 1
<1>1. /\ seg.vaddr \in Nat /\ seg.memsz \in Nat
      /\ PagesOf(seg) \subseteq VPage \ StackPages
      /\ page_start(seg) \in Nat /\ page_end(seg) \in Nat
  BY SegmentFacts
<1>2. /\ page_start(seg) = PageOf(a)
      /\ page_end(seg) = PageOf(b + PAGE_SIZE)
      /\ PagesOf(seg) = page_start(seg) .. page_end(seg) - 1
  <2>1. seg.vaddr + seg.memsz + PAGE_SIZE - 1 = b + PAGE_SIZE
    BY <1>1, Sizes
  <2>2. QED
    BY <2>1 DEF page_start, page_end, PagesOf
<1>3. /\ a \in Nat /\ b \in Nat /\ a + k \in Nat /\ a <= a + k /\ a + k <= b
      /\ a + k + PAGE_SIZE \in Nat /\ b + PAGE_SIZE \in Nat
      /\ a + k + PAGE_SIZE <= b + PAGE_SIZE
  <2> DEFINE m == seg.memsz
  <2>1. a \in Nat /\ m \in Nat /\ k \in 0 .. m - 1 /\ b = a + m - 1
    BY <1>1
  <2> HIDE DEF a, b, m
  <2>2. QED
    BY <2>1, Sizes
<1> HIDE DEF b
<1>4. PageOf(a) <= PageOf(a + k) /\ PageOf(a + k + PAGE_SIZE) <= PageOf(b + PAGE_SIZE)
  BY <1>3, PageMonotone
<1>5. PageOf(a + k + PAGE_SIZE) = PageOf(a + k) + 1
  <2> DEFINE c == a + k
  <2>1. c \in Nat
    BY <1>3
  <2> HIDE DEF c
  <2>2. (c + PAGE_SIZE) \div PAGE_SIZE = (c \div PAGE_SIZE) + 1
    BY <2>1, Sizes
  <2>3. QED
    BY <2>2 DEF c, PageOf
<1>6. PageOf(a + k) \in Nat /\ (a + k) % PAGE_SIZE \in Offset
  BY <1>3, Paging
<1>7. PageOf(a + k) \in PagesOf(seg)
  BY <1>1, <1>2, <1>4, <1>5, <1>6
<1>8. QED
  BY <1>1, <1>3, <1>6, <1>7

(* What was loaded stays while pages of others are mapped.                 *)
LEMMA ImageKept ==
  ASSUME NEW p \in Program, Accepted(p), NEW n \in Nat, n <= Len(Segments(p)),
         ImageLoaded(p, n), UNCHANGED memory,
         \A i \in 1 .. n : \A v \in PagesOf(Segments(p)[i]) : pages'[v] = pages[v]
  PROVE  ImageLoaded(p, n)'
<1>1. Len(Segments(p)) \in Nat
  BY SegmentFacts
<1>2. ASSUME NEW i \in 1 .. n, NEW k \in 0 .. Segments(p)[i].memsz - 1
      PROVE  /\ pages'[PageOf(Segments(p)[i].vaddr + k)]
                  = pages[PageOf(Segments(p)[i].vaddr + k)]
             /\ memory' = memory
  BY <1>1, <1>2, ByteInSegment
<1>3. QED
  BY <1>2 DEF ImageLoaded

(* The loader maps the next page, of a segment or of the stack.            *)
LEMMA LoaderMaps ==
  ASSUME Inv, mode = "loading", NEW v \in VPage, map_frame(v),
         UNCHANGED <<mode, running, started, memory, mmio>>
  PROVE  /\ Maps(v, handed_out + 1, 1)
         /\ Types' /\ FramesHandedOut' /\ FramesPrivate' /\ RemapInv'
<1>1. Types /\ FramesHandedOut /\ FramesPrivate /\ RemapInv
  BY DEF Inv, SpaceInv
<1>2. Maps(v, handed_out + 1, 1)
  BY <1>1, FrameMaps
<1>3. Types' /\ FramesHandedOut' /\ FramesPrivate'
  BY <1>1, <1>2, MapSpace
<1>4. handed_out \in Nat /\ handed_out' \in handed_out .. MaxFrames
  BY <1>1, <1>2, Sizes DEF Types, Maps, MapsPage
<1>5. \A w \in KPage : pages'[w] = pages[w]
  <2>1. v \notin KPage
    BY PageNumbers
  <2>2. QED
    BY <1>1, <1>2, <2>1 DEF Maps, MapsPage, Types
<1>6. RemapInv'
  BY <1>1, <1>4, <1>5, RemapUntouched
<1>7. QED
  BY <1>2, <1>3, <1>6

(* One more page of a segment gets a frame of its own.                     *)
LEMMA MapSegmentPageStep ==
  ASSUME Inv, map_segment_page
  PROVE  Inv'
<1>1. /\ mode = "loading" /\ loader.seg <= Len(Segments(loader.prog))
      /\ loader.page < page_end(Segments(loader.prog)[loader.seg])
      /\ map_frame(loader.page)
      /\ loader' = [loader EXCEPT !.page = @ + 1]
      /\ UNCHANGED <<mode, running, started, memory, mmio>>
  BY DEF map_segment_page, Loading, Segment
<1>2. PICK p \in Program, n \in Nat, page \in Nat :
        /\ p = loader.prog /\ n = loader.seg /\ page = loader.page
        /\ Accepted(p) /\ n \in 1 .. Len(Segments(p)) + 1
        /\ n <= Len(Segments(p)) =>
             page \in page_start(Segments(p)[n]) .. page_end(Segments(p)[n])
        /\ ImageLoaded(p, n - 1)
  BY <1>1, Load
<1>3. /\ Len(Segments(p)) \in Nat /\ n \in 1 .. Len(Segments(p))
      /\ page_start(Segments(p)[n]) \in Nat /\ page_end(Segments(p)[n]) \in Nat
      /\ page_start(Segments(p)[n]) <= page /\ page < page_end(Segments(p)[n])
  BY <1>1, <1>2, SegmentFacts
<1>4. page \in PagesOf(Segments(p)[n]) /\ page \in VPage
  <2>1. page \in PagesOf(Segments(p)[n])
    BY <1>2, <1>3 DEF PagesOf
  <2>2. PagesOf(Segments(p)[n]) \subseteq VPage
    BY <1>2, <1>3, SegmentFacts
  <2>3. QED
    BY <2>1, <2>2
<1>5. map_frame(page)
  BY <1>1, <1>2
<1>6. /\ Maps(page, handed_out + 1, 1)
      /\ Types' /\ FramesHandedOut' /\ FramesPrivate' /\ RemapInv'
  BY <1>1, <1>4, <1>5, LoaderMaps
<1>7. /\ loader'.prog = p /\ loader'.seg = n /\ loader'.page = page + 1
      /\ loader' \in [prog : Program, by : {"boot", "exit", "exec"}, seg : Nat, page : Nat]
  BY <1>1, <1>2 DEF Inv, SpaceInv, LoaderInRange
<1>8. LoaderInRange'
  BY <1>2, <1>3, <1>7 DEF LoaderInRange, Loading, Stacking, Segment, Accepted
<1>9. ImageLoaded(p, n - 1)'
  <2>1. ASSUME NEW i \in 1 .. n - 1, NEW v \in PagesOf(Segments(p)[i])
        PROVE  pages'[v] = pages[v]
    <3>1. i \in 1 .. Len(Segments(p)) /\ i # n
      BY <1>3
    <3>2. v # page /\ v \in VPage
      BY <1>2, <1>3, <1>4, <3>1, SegmentFacts
    <3>3. QED
      BY <1>6, <3>2 DEF Maps, MapsPage, Inv, SpaceInv, Types
  <2>2. n - 1 \in Nat /\ n - 1 <= Len(Segments(p))
    BY <1>3
  <2>3. QED
    BY <1>1, <1>2, <2>1, <2>2, ImageKept
<1>10. ImageInv'
  <2>1. ~started'
    BY <1>1 DEF Inv, ImageInv, StartedInUserMode
  <2>2. LoadedSoFar'
    BY <1>3, <1>7, <1>9 DEF LoadedSoFar, ImageLoaded, Stacking
  <2>3. QED
    BY <2>1, <2>2 DEF ImageInv, StartedInUserMode, StartsWithItsImage
<1>11. QED
  BY <1>6, <1>8, <1>10 DEF Inv, SpaceInv

(* The second and later pages of the stack find their tables, unless there *)
(* was no frame for those of the first.                                    *)
LEMMA MapStackPageStep ==
  ASSUME Inv, map_stack_page
  PROVE  Inv'
<1>1. /\ mode = "loading" /\ loader.seg > Len(Segments(loader.prog))
      /\ loader.page < INIT_STACK_PAGES
      /\ map_frame(STACK_TOP - (loader.page + 1))
      /\ loader' = [loader EXCEPT !.page = @ + 1]
      /\ UNCHANGED <<mode, running, started, memory, mmio>>
  BY DEF map_stack_page, Stacking
<1>2. PICK p \in Program, n \in Nat, page \in Nat :
        /\ p = loader.prog /\ n = loader.seg /\ page = loader.page
        /\ Accepted(p) /\ n \in 1 .. Len(Segments(p)) + 1
        /\ ImageLoaded(p, n - 1)
        /\ n > Len(Segments(p)) => \/ StackMapped(page)
                                   \/ page = 1 /\ handed_out = MaxFrames
  BY <1>1, Load
<1> DEFINE v == STACK_TOP - (page + 1)
<1>3. Len(Segments(p)) \in Nat /\ n = Len(Segments(p)) + 1 /\ page < INIT_STACK_PAGES
  BY <1>1, <1>2, SegmentFacts
<1>4. v \in StackPages /\ v \in VPage
  BY <1>3, Sizes DEF StackPages, VPage
<1>5. map_frame(v)
  BY <1>1, <1>2
<1>6. /\ Maps(v, handed_out + 1, 1)
      /\ Types' /\ FramesHandedOut' /\ FramesPrivate' /\ RemapInv'
  BY <1>1, <1>4, <1>5, LoaderMaps
<1>7. /\ loader'.prog = p /\ loader'.seg = n /\ loader'.page = page + 1
      /\ loader' \in [prog : Program, by : {"boot", "exit", "exec"}, seg : Nat, page : Nat]
  BY <1>1, <1>2 DEF Inv, SpaceInv, LoaderInRange
<1>8. LoaderInRange'
  BY <1>2, <1>3, <1>7, Sizes DEF LoaderInRange, Loading, Stacking, Segment, Accepted
<1>9. /\ MapsPage(v, handed_out + 1, 1)
      /\ DOMAIN pages = VPage \cup KPage /\ v \in DOMAIN pages
      /\ handed_out \in Nat /\ handed_out < MaxFrames
  BY <1>4, <1>5, <1>6, PageNumbers, Sizes DEF Maps, Inv, SpaceInv, Types, map_frame
<1> HIDE DEF v
<1>10. ImageLoaded(p, n - 1)'
  <2>1. ASSUME NEW i \in 1 .. n - 1, NEW w \in PagesOf(Segments(p)[i])
        PROVE  pages'[w] = pages[w]
    <3>1. w \in VPage \ StackPages
      BY <1>2, <1>3, SegmentFacts
    <3>2. QED
      BY <1>4, <1>9, <3>1 DEF MapsPage
  <2>2. n - 1 \in Nat /\ n - 1 <= Len(Segments(p))
    BY <1>3
  <2>3. QED
    BY <1>1, <1>2, <2>1, <2>2, ImageKept
<1>11. StackMapped(page)
  BY <1>2, <1>3, <1>9, Sizes
<1>12. StackMapped(page + 1)' \/ (page + 1 = 1 /\ handed_out' = MaxFrames)
  <2>1. CASE /\ pages' = [pages EXCEPT ![v] = handed_out + 1]
             /\ \A i \in 1 .. 3 : tables'[Walk[v][i]] # NoFrame
    <3>1. ASSUME NEW k \in 1 .. page + 1 PROVE pages'[STACK_TOP - k] # NoFrame
      <4>1. CASE k = page + 1
        BY <1>9, <2>1, <4>1 DEF v, NoFrame
      <4>2. CASE k \in 1 .. page
        <5>1. STACK_TOP - k # v
          BY <4>2, Sizes DEF v
        <5>2. QED
          BY <1>9, <1>11, <2>1, <4>2, <5>1 DEF StackMapped
      <4>3. QED
        BY <4>1, <4>2
    <3>2. Walk[v] = Walk[STACK_TOP - 1]
      <4>1. STACK_TOP - 1 \in StackPages
        BY Sizes DEF StackPages
      <4>2. QED
        BY <1>4, <4>1, ExecConstants
    <3>3. QED
      BY <2>1, <3>1, <3>2 DEF StackMapped
  <2>2. CASE handed_out' = MaxFrames /\ \E i \in 1 .. 3 : tables[Walk[v][i]] = NoFrame
    <3>1. page = 0
      <4>1. Walk[v] = Walk[STACK_TOP - 1]
        <5>1. STACK_TOP - 1 \in StackPages
          BY Sizes DEF StackPages
        <5>2. QED
          BY <1>4, <5>1, ExecConstants
      <4>2. QED
        BY <1>11, <2>2, <4>1 DEF StackMapped
    <3>2. QED
      BY <2>2, <3>1
  <2>3. QED
    BY <1>9, <2>1, <2>2 DEF MapsPage
<1>13. ImageInv'
  <2>1. ~started'
    BY <1>1 DEF Inv, ImageInv, StartedInUserMode
  <2>2. LoadedSoFar'
    BY <1>7, <1>10, <1>12 DEF LoadedSoFar, ImageLoaded, StackMapped
  <2>3. QED
    BY <2>1, <2>2 DEF ImageInv, StartedInUserMode, StartsWithItsImage
<1>14. QED
  BY <1>6, <1>8, <1>13 DEF Inv, SpaceInv

(* Where a byte is copied: every page of the segment has a frame, and two  *)
(* bytes share neither frame and place.                                    *)
LEMMA CopiedByte ==
  ASSUME Inv, mode = "loading", NEW p \in Program, p = loader.prog, Accepted(p),
         NEW n \in 1 .. Len(Segments(p)), n = loader.seg, copy_segment,
         NEW i \in 1 .. n, NEW k \in 0 .. Segments(p)[i].memsz - 1,
         i # n => pages[PageOf(Segments(p)[i].vaddr + k)] # NoFrame
  PROVE  LET f == pages[PageOf(Segments(p)[i].vaddr + k)]
             o == (Segments(p)[i].vaddr + k) % PAGE_SIZE
         IN  /\ f # NoFrame
             /\ memory'[f][o] = IF i # n THEN memory[f][o]
                                ELSE IF k < Segments(p)[n].filesz THEN FileByte(p, n, k)
                                ELSE Zero
<1> DEFINE seg == Segments(p)[n]
           a == Segments(p)[i].vaddr + k
           f == pages[PageOf(a)]
           o == a % PAGE_SIZE
           here(j) == pages[PageOf(seg.vaddr + j)] = f /\ (seg.vaddr + j) % PAGE_SIZE = o
           copied == \E j \in 0 .. seg.memsz - 1 : here(j)
           from == CHOOSE j \in 0 .. seg.memsz - 1 : here(j)
<1>1. /\ Len(Segments(p)) \in Nat /\ i \in 1 .. Len(Segments(p))
      /\ seg.memsz \in Nat /\ seg.vaddr \in Nat
      /\ PagesOf(Segments(p)[i]) \subseteq VPage
  <2>1. Len(Segments(p)) \in Nat
    BY SegmentFacts
  <2>2. i \in 1 .. Len(Segments(p))
    BY <2>1
  <2>3. seg.memsz \in Nat /\ seg.vaddr \in Nat
    BY SegmentFacts
  <2>4. PagesOf(Segments(p)[i]) \subseteq VPage \ StackPages
    BY <2>2, SegmentFacts
  <2>5. QED
    BY <2>1, <2>2, <2>3, <2>4
<1>2. /\ a \in Nat /\ PageOf(a) \in PagesOf(Segments(p)[i]) /\ PageOf(a) \in VPage
      /\ o \in Offset
  BY <1>1, ByteInSegment
<1>3. f # NoFrame /\ f \in Frame
  <2>1. i = n => f # NoFrame
    BY <1>2 DEF copy_segment, Segment
  <2>2. f \in Frame \cup {NoFrame}
    BY <1>2 DEF Inv, SpaceInv, Types
  <2>3. QED
    BY <2>1, <2>2
<1>4. memory'[f][o] = IF copied THEN SegmentByte(seg, from, memory[f][o]) ELSE memory[f][o]
  BY <1>2, <1>3 DEF copy_segment, Segment
<1>5. ASSUME NEW j \in 0 .. seg.memsz - 1, here(j)
      PROVE  i = n /\ seg.vaddr + j = a
  <2>1. /\ seg.vaddr + j \in Nat /\ PageOf(seg.vaddr + j) \in PagesOf(seg)
        /\ PageOf(seg.vaddr + j) \in VPage
    BY ByteInSegment
  <2>2. PageOf(seg.vaddr + j) = PageOf(a)
    BY <1>2, <1>3, <1>5, <2>1 DEF Inv, SpaceInv, FramesPrivate
  <2>3. i = n
    BY <1>1, <1>2, <2>1, <2>2, SegmentFacts
  <2>4. seg.vaddr + j = a
    <3> DEFINE b == seg.vaddr + j
    <3>1. a \in Nat /\ b \in Nat /\ PageOf(b) = PageOf(a) /\ b % PAGE_SIZE = a % PAGE_SIZE
      BY <1>2, <1>5, <2>1, <2>2
    <3> HIDE DEF a, b
    <3>2. /\ a = PAGE_SIZE * PageOf(a) + (a % PAGE_SIZE)
          /\ b = PAGE_SIZE * PageOf(b) + (b % PAGE_SIZE)
      BY <3>1, Paging
    <3>3. b = a
      BY <3>1, <3>2
    <3>4. QED
      BY <3>3 DEF b
  <2>5. QED
    BY <2>3, <2>4
<1>6. copied => from \in 0 .. seg.memsz - 1 /\ here(from)
  OBVIOUS
<1> HIDE DEF from, here
<1>7. CASE i # n
  <2>1. ~copied
    BY <1>5, <1>7
  <2>2. QED
    BY <1>3, <1>4, <1>7, <2>1
<1>8. CASE i = n
  <2>1. copied
    BY <1>8 DEF here
  <2>2. from = k
    <3>1. from \in 0 .. seg.memsz - 1 /\ seg.vaddr + from = seg.vaddr + k
      BY <1>5, <1>6, <1>8, <2>1
    <3>2. QED
      BY <1>1, <3>1
  <2>3. QED
    BY <1>3, <1>4, <1>8, <2>1, <2>2 DEF SegmentByte
<1>9. QED
  BY <1>7, <1>8

(* The segment is copied, and what was copied before it stays.             *)
LEMMA CopySegmentStep ==
  ASSUME Inv, copy_segment
  PROVE  Inv'
<1>1. /\ mode = "loading" /\ loader.seg <= Len(Segments(loader.prog))
      /\ loader' = At(loader.prog, loader.by, loader.seg + 1)
      /\ DOMAIN memory' = Frame
      /\ UNCHANGED <<mode, running, started, pages, tables, handed_out, mmio>>
  BY DEF copy_segment, Loading
<1>2. PICK p \in Program, n \in Nat, page \in Nat :
        /\ p = loader.prog /\ n = loader.seg /\ page = loader.page
        /\ Accepted(p) /\ n \in 1 .. Len(Segments(p)) + 1
        /\ ImageLoaded(p, n - 1)
  BY <1>1, Load
<1>3. Len(Segments(p)) \in Nat /\ n \in 1 .. Len(Segments(p))
  BY <1>1, <1>2, SegmentFacts
<1>4. PICK by \in {"boot", "exit", "exec"} : by = loader.by
  BY <1>1 DEF Inv, SpaceInv, LoaderInRange
<1>5. loader' = At(p, by, n + 1)
  BY <1>1, <1>2, <1>4
<1>6. LoaderInRange'
  BY <1>2, <1>3, <1>5, AtInRange
<1>7. Types' /\ FramesHandedOut' /\ FramesPrivate' /\ RemapInv'
  BY <1>1, NothingMapped DEF Inv, SpaceInv, Types
<1>8. ImageLoaded(p, n)'
  <2>1. ASSUME NEW i \in 1 .. n, NEW k \in 0 .. Segments(p)[i].memsz - 1
        PROVE  LET f == pages[PageOf(Segments(p)[i].vaddr + k)]
                   o == (Segments(p)[i].vaddr + k) % PAGE_SIZE
               IN  /\ f # NoFrame
                   /\ memory'[f][o] = IF k < Segments(p)[i].filesz
                                        THEN FileByte(p, i, k) ELSE Zero
    <3>1. i # n => i \in 1 .. n - 1
      BY <1>3
    <3>2. i # n =>
            LET f == pages[PageOf(Segments(p)[i].vaddr + k)]
                o == (Segments(p)[i].vaddr + k) % PAGE_SIZE
            IN  /\ f # NoFrame
                /\ memory[f][o] = IF k < Segments(p)[i].filesz
                                    THEN FileByte(p, i, k) ELSE Zero
      BY <1>2, <3>1 DEF ImageLoaded
    <3>3. LET f == pages[PageOf(Segments(p)[i].vaddr + k)]
              o == (Segments(p)[i].vaddr + k) % PAGE_SIZE
          IN  /\ f # NoFrame
              /\ memory'[f][o] = IF i # n THEN memory[f][o]
                                 ELSE IF k < Segments(p)[n].filesz THEN FileByte(p, n, k)
                                 ELSE Zero
      BY <1>1, <1>2, <1>3, <3>2, CopiedByte
    <3>4. QED
      BY <3>2, <3>3
  <2>2. QED
    BY <1>1, <2>1 DEF ImageLoaded
<1>9. ImageInv'
  <2>1. ~started'
    BY <1>1 DEF Inv, ImageInv, StartedInUserMode
  <2>2. /\ loader'.prog = p /\ loader'.seg = n + 1
        /\ n + 1 > Len(Segments(p)) => loader'.page = 0
    BY <1>3, <1>5 DEF At
  <2>3. LoadedSoFar'
    BY <1>3, <1>8, <2>2 DEF LoadedSoFar, ImageLoaded, Stacking, StackMapped
  <2>4. QED
    BY <2>1, <2>3 DEF ImageInv, StartedInUserMode, StartsWithItsImage, LoadedSoFar
<1>10. QED
  BY <1>6, <1>7, <1>9 DEF Inv, SpaceInv

(* The program starts when all its segments are in memory.                 *)
LEMMA EnterUserModeStep ==
  ASSUME Inv, enter_user_mode
  PROVE  Inv'
<1>1. /\ mode = "loading" /\ loader.seg > Len(Segments(loader.prog))
      /\ loader.page = INIT_STACK_PAGES /\ mode' = "user"
      /\ running' = loader.prog /\ started' = TRUE
      /\ UNCHANGED <<pages, tables, memory, handed_out, mmio>>
  BY DEF enter_user_mode, Stacking, space
<1>2. PICK p \in Program, n \in Nat, page \in Nat :
        /\ p = loader.prog /\ n = loader.seg /\ page = loader.page
        /\ Accepted(p) /\ n \in 1 .. Len(Segments(p)) + 1
        /\ ImageLoaded(p, n - 1)
        /\ n > Len(Segments(p)) => \/ StackMapped(page)
                                   \/ page = 1 /\ handed_out = MaxFrames
  BY <1>1, Load
<1>3. Len(Segments(p)) \in Nat /\ n - 1 = Len(Segments(p))
  BY <1>1, <1>2, SegmentFacts
<1>4. StackMapped(INIT_STACK_PAGES)
  BY <1>1, <1>2, Sizes
<1>5. Types' /\ FramesHandedOut' /\ FramesPrivate' /\ RemapInv'
  BY <1>1, <1>2, NothingMapped DEF Inv, SpaceInv, Types
<1>6. LoaderInRange'
  BY <1>1 DEF LoaderInRange
<1>7. LoadedSoFar' /\ StartedInUserMode'
  BY <1>1 DEF LoadedSoFar, StartedInUserMode
<1>8. StartsWithItsImage'
  <2>1. \A v \in StackPages : pages'[v] # NoFrame
    BY <1>1, <1>4 DEF StackMapped, StackPages
  <2>2. DOMAIN Segments(p) = 1 .. n - 1
    BY <1>2, <1>3, ExecConstants, LenProperties DEF Accepted
  <2>3. running' = p
    BY <1>1, <1>2
  <2>4. QED
    BY <1>1, <1>2, <2>1, <2>2, <2>3 DEF StartsWithItsImage, ImageLoaded
<1>9. QED
  BY <1>5, <1>6, <1>7, <1>8 DEF Inv, SpaceInv, ImageInv

-----------------------------------------------------------------------------
(* The theorems                                                            *)

(* At the start no program runs and only the kernel image is mapped.       *)
LEMMA InitInv == Init => Inv
<1> SUFFICES ASSUME Init PROVE Inv
  OBVIOUS
<1>1. Types
  <2>1. KernelImage \notin VPage
    BY PageNumbers
  <2>2. QED
    BY <2>1, Sizes DEF Init, Types
<1>2. FramesHandedOut
  BY <1>1, Sizes DEF Init, FramesHandedOut, Types, NoFrame, Image
<1>3. FramesPrivate
  <2>1. \A v \in VPage : pages[v] = NoFrame
    BY PageNumbers DEF Init
  <2>2. \A t \in Table : tables[t] \notin Frame
    BY Sizes DEF Init, Frame, Image, NoFrame
  <2>3. QED
    BY <2>1, <2>2 DEF FramesPrivate
<1>4. RemapInRange /\ RemapSoFar
  <2>1. regions = <<>> /\ next_mmio_addr = 0 /\ mode = "boot"
    BY DEF Init
  <2>2. regions \in Seq([first : Nat, count : Nat]) /\ Len(regions) = 0
        /\ DOMAIN regions = {}
    BY <2>1
  <2>3. QED
    BY <2>1, <2>2, Sizes DEF RemapInRange, RemapSoFar
<1>5. RegionsKept
  BY PageNumbers DEF Init, RegionsKept
<1>6. LoaderInRange /\ ImageInv
  BY DEF Init, LoaderInRange, ImageInv, LoadedSoFar, StartedInUserMode, StartsWithItsImage
<1>7. QED
  BY <1>1, <1>2, <1>3, <1>4, <1>5, <1>6 DEF Inv, SpaceInv, RemapInv

(* Each action keeps the invariant.                                        *)
LEMMA InvStep == Inv /\ [Next]_vars => Inv'
<1> SUFFICES ASSUME Inv, [Next]_vars PROVE Inv'
  OBVIOUS
<1>1. CASE remap_page
  BY <1>1, RemapPageStep
<1>2. CASE remap_done
  BY <1>2, RemapDoneStep
<1>3. CASE start_init
  BY <1>3, StartInitStep
<1>4. CASE out_of_bounds \/ no_frame
  BY <1>4, Fails DEF out_of_bounds, no_frame, Loading, Stacking
<1>5. CASE map_segment_page
  BY <1>5, MapSegmentPageStep
<1>6. CASE copy_segment
  BY <1>6, CopySegmentStep
<1>7. CASE copy_faults
  BY <1>7, FailStep DEF copy_faults, Loading
<1>8. CASE map_stack_page
  BY <1>8, MapStackPageStep
<1>9. CASE enter_user_mode
  BY <1>9, EnterUserModeStep
<1>10. CASE \E offset \in Offset, size \in RemapSizes : mmio_remap(offset, size)
  BY <1>10, RemapStep
<1>11. CASE \E p \in Program : sys_exec(p)
  BY <1>11, SysExecStep
<1>12. CASE sys_exit
  BY <1>12, SysExitStep
<1>13. CASE \E v \in VPage : user_store(v)
  BY <1>13, UserStoreStep
<1>14. CASE UNCHANGED vars
  <2>1. /\ UNCHANGED <<mode, loader, running, started, pages, tables, memory>>
        /\ UNCHANGED <<handed_out, next_mmio_addr, regions, remap>>
    BY <1>14 DEF vars, space, mmio
  <2>2. SpaceInv'
    BY <2>1 DEF Inv, SpaceInv, Types, FramesHandedOut, FramesPrivate, LoaderInRange,
         Loading, Stacking, Segment
  <2>3. RemapInv'
    BY <2>1 DEF Inv, RemapInv, RemapInRange, RemapSoFar, RegionsKept
  <2>4. LoadedSoFar'
    BY <2>1 DEF Inv, ImageInv, LoadedSoFar, ImageLoaded, StackMapped, Stacking
  <2>5. StartedInUserMode' /\ StartsWithItsImage'
    BY <2>1 DEF Inv, ImageInv, StartedInUserMode, StartsWithItsImage
  <2>6. QED
    BY <2>2, <2>3, <2>4, <2>5 DEF Inv, ImageInv
<1>15. QED
  BY <1>1, <1>2, <1>3, <1>4, <1>5, <1>6, <1>7, <1>8, <1>9, <1>10, <1>11, <1>12,
     <1>13, <1>14 DEF Next, Loader

(* The invariant holds in every reachable state: through boot, mmio_remap, *)
(* and any sequence of loads, whole or broken off.                         *)
THEOREM Invariance == Spec => []Inv
BY InitInv, InvStep, PTL DEF Spec

(* map_page and mmio_remap keep the pages, the tables and the count of     *)
(* frames in their ranges, even when one of the four frames is missing.    *)
THEOREM TypeCorrect == Spec => []TypeOK
<1>1. Inv => TypeOK
  BY PageNumbers DEF Inv, SpaceInv, Types, TypeOK
<1>2. QED
  BY <1>1, Invariance, PTL

(* map_page never puts a page or a table of one program into a frame that  *)
(* is in use.                                                              *)
THEOREM FramesStayPrivate == Spec => []FramesPrivate
<1>1. Inv => FramesPrivate
  BY DEF Inv, SpaceInv
<1>2. QED
  BY <1>1, Invariance, PTL

(* What mmio_remap has returned stays mapped to the registers asked for,   *)
(* and the kernel image is never mapped over.                              *)
THEOREM RegionsStay == Spec => []RegionsKept
<1>1. Inv => RegionsKept
  BY DEF Inv, RemapInv
<1>2. QED
  BY <1>1, Invariance, PTL

(* elf64_load_and_run enters no program before its segments, their zeros   *)
(* and its stack are in memory.                                            *)
THEOREM ProgramsStartWhole == Spec => []StartsWithItsImage
<1>1. Inv => StartsWithItsImage
  BY DEF Inv, ImageInv
<1>2. QED
  BY <1>1, Invariance, PTL
=============================================================================
