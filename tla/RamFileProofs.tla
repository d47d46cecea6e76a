--------------------------- MODULE RamFileProofs ---------------------------
(* Theorems about the contents of ramfs files, for every number of files,  *)
(* descriptors and frames and every page size.                             *)
EXTENDS RamFile, FiniteSetTheorems, TLAPS

(* The lesser of two numbers.                                              *)
LEMMA MinOfTwo ==
  ASSUME NEW a \in Int, NEW b \in Int
  PROVE  Min({a, b}) = IF a <= b THEN a ELSE b
<1> DEFINE m == IF a <= b THEN a ELSE b
<1>1. m \in {a, b} /\ \A y \in {a, b} : m <= y
  OBVIOUS
<1>2. \A x \in {a, b} : (\A y \in {a, b} : x <= y) => x = m
  OBVIOUS
<1>3. QED
  BY <1>1, <1>2 DEF Min

(* The greater of two numbers.                                             *)
LEMMA MaxOfTwo ==
  ASSUME NEW a \in Int, NEW b \in Int
  PROVE  Max({a, b}) = IF a >= b THEN a ELSE b
<1> DEFINE m == IF a >= b THEN a ELSE b
<1>1. m \in {a, b} /\ \A y \in {a, b} : m >= y
  OBVIOUS
<1>2. \A x \in {a, b} : (\A y \in {a, b} : x >= y) => x = m
  OBVIOUS
<1>3. QED
  BY <1>1, <1>2 DEF Max

(* The constants, one by one.                                              *)
LEMMA Sizes ==
  /\ PAGE_SIZE \in Nat /\ PAGE_SIZE > 0
  /\ NPAGES \in Nat /\ NPAGES > 0
  /\ PageSpan \in Nat /\ NPAGES < PageSpan
  /\ MaxFrames \in Nat
  /\ MaxEnd \in Nat /\ MaxEnd <= NPAGES * PAGE_SIZE
<1>1. /\ PAGE_SIZE \in Nat /\ PAGE_SIZE > 0
      /\ NPAGES \in Nat /\ NPAGES > 0
      /\ PageSpan \in Nat /\ NPAGES < PageSpan
      /\ MaxFrames \in Nat
  BY RamFileConstants
<1>2. NPAGES * PAGE_SIZE \in Nat
  BY <1>1
<1>3. MaxEnd \in 0 .. NPAGES * PAGE_SIZE
  BY RamFileConstants
<1>4. QED
  BY <1>1, <1>2, <1>3

(* A position is its page and its place in it, and pages partition.        *)
LEMMA Paging ==
  ASSUME NEW pos \in Nat
  PROVE  /\ PageOf(pos) \in Nat /\ pos % PAGE_SIZE \in 0 .. PAGE_SIZE - 1
         /\ pos = PAGE_SIZE * PageOf(pos) + (pos % PAGE_SIZE)
BY Sizes DEF PageOf

(* A position lies below a page boundary just when its page does.          *)
LEMMA PageBound ==
  ASSUME NEW pos \in Nat, NEW n \in Nat
  PROVE  pos < n * PAGE_SIZE <=> PageOf(pos) < n
<1>1. PAGE_SIZE \in Nat /\ PAGE_SIZE > 0
  BY Sizes
<1> DEFINE q == PageOf(pos)  r == pos % PAGE_SIZE
<1>2. q \in Nat /\ r \in 0 .. PAGE_SIZE - 1 /\ pos = PAGE_SIZE * q + r
  BY Paging
<1> HIDE DEF q, r
<1>3. ASSUME q < n PROVE pos < n * PAGE_SIZE
  <2>1. PAGE_SIZE * (q + 1) <= PAGE_SIZE * n
    BY <1>1, <1>2, <1>3
  <2>2. QED
    BY <1>1, <1>2, <2>1
<1>4. ASSUME ~ (q < n) PROVE ~ (pos < n * PAGE_SIZE)
  <2>1. PAGE_SIZE * n <= PAGE_SIZE * q
    BY <1>1, <1>2, <1>4
  <2>2. QED
    BY <1>1, <1>2, <2>1
<1>5. QED
  BY <1>3, <1>4 DEF q

-----------------------------------------------------------------------------
(* The inductive invariant.                                                *)

Types ==
  /\ TypeOK
  /\ num_pages \in [File -> 0 .. NPAGES]
  /\ fds \in [FD -> [node : File \cup {NoFile}, offset : Nat]]
  /\ emptied \subseteq File
  /\ DOMAIN written = File
  /\ \A f \in File : DOMAIN written[f] \subseteq Nat

(* Frames in use have left the allocator.                                  *)
PagesHandedOut ==
  \A f \in File : \A i \in PageIdx : pages[f][i] <= handed_out

(* Each byte reported as written is below the size and in its frame.       *)
WrittenIsThere ==
  \A f \in File \ emptied : \A pos \in DOMAIN written[f] :
    /\ pos < size[f]
    /\ memory[pages[f][PageOf(pos)]][pos % PAGE_SIZE] = written[f][pos]

Inv == Types /\ PagesPrivate /\ PagesHandedOut /\ PagesCoverSize /\ WrittenIsThere

-----------------------------------------------------------------------------
(* Allocation                                                              *)

(* The page that holds the last byte of a write; with a write of nothing   *)
(* at 0 it is the last page of all, and num_pages becomes 0.               *)
LEMMA EndPageValue ==
  ASSUME NEW offset \in Nat, NEW count \in Nat, offset + count <= MaxEnd
  PROVE  LET last == Min({EndPage(offset, count), NPAGES - 1})
         IN  /\ last \in PageIdx
             /\ IF offset + count = 0
                  THEN EndPage(offset, count) >= NPAGES
                       /\ (EndPage(offset, count) + 1) % PageSpan = 0
                  ELSE /\ EndPage(offset, count) = PageOf(offset + count - 1)
                       /\ last = EndPage(offset, count)
                       /\ (EndPage(offset, count) + 1) % PageSpan = last + 1
<1> DEFINE e == EndPage(offset, count)
<1>1. CASE offset + count = 0
  <2>1. e = PageSpan - 1 /\ e \in Int /\ e >= NPAGES
    BY <1>1, Sizes DEF EndPage
  <2>2. (e + 1) % PageSpan = 0
    BY <2>1, Sizes
  <2>3. Min({e, NPAGES - 1}) = NPAGES - 1
    BY <2>1, MinOfTwo, Sizes
  <2>4. QED
    BY <1>1, <2>1, <2>2, <2>3, Sizes DEF PageIdx
<1>2. CASE offset + count # 0
  <2> DEFINE q == PageOf(offset + count - 1)
  <2>1. offset + count - 1 \in Nat /\ offset + count - 1 < NPAGES * PAGE_SIZE
    BY <1>2, Sizes
  <2>2. q \in Nat /\ q < NPAGES
    BY <2>1, Paging, PageBound, Sizes
  <2>3. e = q % PageSpan
    BY <1>2 DEF EndPage
  <2> HIDE DEF q, e
  <2>4. e = q
    BY <2>2, <2>3, Sizes
  <2>5. Min({e, NPAGES - 1}) = e
    BY <2>2, <2>4, MinOfTwo, Sizes
  <2>6. (e + 1) % PageSpan = e + 1
    BY <2>2, <2>4, Sizes
  <2>7. QED
    BY <1>2, <2>2, <2>4, <2>5, <2>6, Sizes DEF PageIdx, e, q
<1>3. QED
  BY <1>1, <1>2

(* AllocPages gives the wanted pages frames that nobody has, as many as    *)
(* there are, and leaves every other page alone.                           *)
LEMMA AllocStep ==
  ASSUME Types, NEW f \in File, NEW last \in PageIdx, NEW wanted,
         wanted = num_pages[f] .. last, AllocPages(f, wanted)
  PROVE  /\ handed_out' \in handed_out .. MaxFrames
         /\ pages' \in [File -> [PageIdx -> Frame \cup {NoFrame}]]
         /\ \A g \in File \ {f} : pages'[g] = pages[g]
         /\ \A i \in PageIdx \ wanted : pages'[f][i] = pages[f][i]
         /\ \A i \in wanted :
              \/ pages'[f][i] = handed_out + (i - num_pages[f]) + 1
                 /\ pages'[f][i] <= handed_out'
              \/ pages'[f][i] = pages[f][i] /\ handed_out + Cardinality(wanted) > MaxFrames
<1> DEFINE first == num_pages[f]
           new(i) == handed_out + i - first + 1
<1>1. first \in Nat /\ last \in Nat /\ wanted \subseteq PageIdx
      /\ handed_out \in Nat /\ handed_out <= MaxFrames
  BY Sizes DEF Types, TypeOK, PageIdx
<1>2. Cardinality(wanted) = (IF first > last THEN 0 ELSE last - first + 1)
  <2>1. first \in Int /\ last \in Int /\ wanted = first .. last
    BY <1>1
  <2> HIDE DEF first
  <2>2. QED
    BY <2>1, FS_Interval
<1>3. Cardinality(wanted) \in Nat
  BY <1>1, <1>2
<1>4. handed_out' = IF handed_out + Cardinality(wanted) <= MaxFrames
                      THEN handed_out + Cardinality(wanted) ELSE MaxFrames
  BY <1>1, <1>3, MinOfTwo, Sizes DEF AllocPages
<1>5. handed_out' \in handed_out .. MaxFrames
  BY <1>1, <1>3, <1>4, Sizes
<1>6. \A g \in File \ {f} : pages'[g] = pages[g]
  BY DEF AllocPages, Types, TypeOK
<1>7. \A i \in PageIdx :
         pages'[f][i] = IF i \in wanted /\ handed_out + i - first < MaxFrames
                          THEN new(i) ELSE pages[f][i]
  BY DEF AllocPages, Types, TypeOK
<1>8. ASSUME NEW i \in wanted, handed_out + i - first < MaxFrames
      PROVE  /\ new(i) \in Frame
             /\ new(i) = handed_out + (i - first) + 1
             /\ new(i) <= handed_out'
  <2>1. i \in Int /\ first <= i /\ i <= last
    BY <1>1
  <2>2. QED
    BY <1>1, <1>2, <1>4, <1>8, <2>1, Sizes DEF Frame
<1>9. ASSUME NEW i \in wanted, ~ (handed_out + i - first < MaxFrames)
      PROVE  handed_out + Cardinality(wanted) > MaxFrames
  <2>1. i \in Int /\ first <= i /\ i <= last
    BY <1>1
  <2>2. QED
    BY <1>1, <1>2, <1>9, <2>1, Sizes
<1>10. pages' \in [File -> [PageIdx -> Frame \cup {NoFrame}]]
  <2>1. \A i \in PageIdx : pages[f][i] \in Frame \cup {NoFrame}
    BY DEF Types, TypeOK
  <2> DEFINE row == [i \in PageIdx |->
                 IF i \in wanted /\ handed_out + i - first < MaxFrames
                   THEN new(i) ELSE pages[f][i]]
  <2>2. row \in [PageIdx -> Frame \cup {NoFrame}]
    BY <1>8, <2>1
  <2>3. pages' = [pages EXCEPT ![f] = row]
    BY DEF AllocPages
  <2> HIDE DEF row
  <2>4. QED
    BY <2>2, <2>3 DEF Types, TypeOK
<1>11. \A i \in PageIdx \ wanted : pages'[f][i] = pages[f][i]
  BY <1>7
<1>12. ASSUME NEW i \in wanted
       PROVE  \/ pages'[f][i] = handed_out + (i - first) + 1
                 /\ pages'[f][i] <= handed_out'
              \/ pages'[f][i] = pages[f][i]
                 /\ handed_out + Cardinality(wanted) > MaxFrames
  BY <1>1, <1>7, <1>8, <1>9
<1>13. QED
  BY <1>5, <1>6, <1>10, <1>11, <1>12

(* The new frames are above every frame in use and differ from each other. *)
LEMMA PrivateStep ==
  ASSUME Types, PagesPrivate, PagesHandedOut,
         NEW f \in File, NEW last \in PageIdx, NEW wanted,
         wanted = num_pages[f] .. last, AllocPages(f, wanted)
  PROVE  PagesPrivate' /\ PagesHandedOut'
<1> DEFINE fresh(g, i) == /\ g = f /\ i \in wanted
                          /\ pages'[g][i] = handed_out + (i - num_pages[f]) + 1
                          /\ pages'[g][i] <= handed_out'
<1>1. /\ num_pages[f] \in Int /\ wanted \subseteq Int
      /\ \A i \in wanted : i >= num_pages[f]
  BY Sizes DEF Types
<1>2. handed_out \in Int /\ handed_out' \in Int /\ handed_out <= handed_out'
  BY AllocStep, Sizes DEF Types, TypeOK
<1>3. \A g \in File : \A i \in PageIdx :
        pages[g][i] \in Int /\ pages'[g][i] \in Int /\ pages[g][i] <= handed_out
  BY AllocStep, Sizes DEF Types, TypeOK, PagesHandedOut, Frame, NoFrame
<1>4. ASSUME NEW g \in File, NEW i \in PageIdx
      PROVE  fresh(g, i) \/ pages'[g][i] = pages[g][i]
  BY AllocStep
<1>5. PagesHandedOut'
  BY <1>2, <1>3, <1>4 DEF PagesHandedOut
<1>6. ASSUME NEW g \in File, NEW h \in File, NEW i \in PageIdx, NEW j \in PageIdx,
             pages'[g][i] # NoFrame, pages'[g][i] = pages'[h][j]
      PROVE  g = h /\ i = j
  <2>1. CASE fresh(g, i) /\ fresh(h, j)
    <3>1. i \in Int /\ j \in Int
      BY <1>1, <2>1
    <3>2. QED
      BY <1>1, <1>2, <1>6, <2>1, <3>1
  <2>2. CASE fresh(g, i) /\ pages'[h][j] = pages[h][j]
    <3>1. pages'[g][i] > handed_out
      BY <1>1, <1>2, <2>2
    <3>2. QED
      BY <1>2, <1>3, <1>6, <2>2, <3>1
  <2>3. CASE fresh(h, j) /\ pages'[g][i] = pages[g][i]
    <3>1. pages'[h][j] > handed_out
      BY <1>1, <1>2, <2>3
    <3>2. QED
      BY <1>2, <1>3, <1>6, <2>3, <3>1
  <2>4. CASE pages'[h][j] = pages[h][j] /\ pages'[g][i] = pages[g][i]
    BY <1>6, <2>4 DEF PagesPrivate
  <2>5. QED
    BY <1>4, <2>1, <2>2, <2>3, <2>4
<1>7. QED
  BY <1>5, <1>6 DEF PagesPrivate

-----------------------------------------------------------------------------
(* What a copy loop reaches                                                *)

(* A later position lies on no earlier page.                               *)
LEMMA PageMonotone ==
  ASSUME NEW p \in Nat, NEW q \in Nat, p <= q
  PROVE  PageOf(p) <= PageOf(q)
<1>1. PageOf(p) \in Nat /\ PageOf(q) \in Nat
  BY Paging
<1>2. q < (PageOf(q) + 1) * PAGE_SIZE
  BY <1>1, PageBound
<1>3. p < (PageOf(q) + 1) * PAGE_SIZE
  BY <1>1, <1>2, Sizes
<1>4. PageOf(p) < PageOf(q) + 1
  BY <1>1, <1>3, PageBound
<1>5. QED
  BY <1>1, <1>4

(* An unbroken run of positions from offset on, all of them in frames.     *)
LEMMA ReachableRun ==
  ASSUME NEW page, NEW n \in Nat, NEW offset \in Nat, NEW count \in Nat, NEW R,
         R = Reachable(page, n, offset, count)
  PROVE  /\ R \subseteq offset .. offset + count - 1
         /\ Cardinality(R) \in 0 .. count
         /\ \A pos \in R : /\ PageOf(pos) < n /\ page[PageOf(pos)] # NoFrame
                           /\ pos < offset + Cardinality(R)
<1>1. R \subseteq offset .. offset + count - 1
  BY DEF Reachable
<1>2. IsFiniteSet(R) /\ Cardinality(R) \in 0 .. count
  <2>1. /\ IsFiniteSet(offset .. offset + count - 1)
        /\ Cardinality(offset .. offset + count - 1) = count
    <3> DEFINE last == offset + count - 1
    <3>1. last \in Int
      OBVIOUS
    <3> HIDE DEF last
    <3>2. /\ IsFiniteSet(offset .. last)
          /\ Cardinality(offset .. last)
               = IF offset > last THEN 0 ELSE last - offset + 1
      BY <3>1, FS_Interval
    <3>3. QED
      BY <3>2 DEF last
  <2>2. IsFiniteSet(R) /\ Cardinality(R) <= count
    BY <1>1, <2>1, FS_Subset
  <2>3. Cardinality(R) \in Nat
    BY <2>2, FS_CardinalityType
  <2>4. QED
    BY <2>2, <2>3
<1>3. ASSUME NEW pos \in R
      PROVE  /\ PageOf(pos) < n /\ page[PageOf(pos)] # NoFrame
             /\ pos < offset + Cardinality(R)
  <2>1. pos \in Nat /\ offset <= pos /\ pos <= offset + count - 1
    BY <1>1
  <2>2. PageOf(pos) \in Nat /\ PageOf(offset) \in Nat /\ PageOf(offset) <= PageOf(pos)
    BY <2>1, Paging, PageMonotone
  <2>3. \A i \in PageOf(offset) .. PageOf(pos) : i < n /\ page[i] # NoFrame
    BY DEF Reachable
  <2>4. offset .. pos \subseteq R
    <3> SUFFICES ASSUME NEW p \in offset .. pos PROVE p \in R
      OBVIOUS
    <3>1. p \in Nat /\ p \in offset .. offset + count - 1
      BY <2>1
    <3>2. PageOf(p) \in Nat /\ PageOf(p) <= PageOf(pos)
      BY <2>1, <3>1, Paging, PageMonotone
    <3>3. \A i \in PageOf(offset) .. PageOf(p) : i < n /\ page[i] # NoFrame
      BY <2>2, <2>3, <3>2
    <3>4. QED
      BY <3>1, <3>3 DEF Reachable
  <2>5. Cardinality(offset .. pos) = pos - offset + 1
    BY <2>1, FS_Interval
  <2>6. Cardinality(offset .. pos) <= Cardinality(R)
    BY <1>2, <2>4, FS_Subset
  <2>7. QED
    BY <1>2, <2>1, <2>2, <2>3, <2>5, <2>6
<1>4. QED
  BY <1>1, <1>2, <1>3

-----------------------------------------------------------------------------
(* Writes                                                                  *)

(* The part of Types that a write disturbs.                                *)
FileTypes ==
  /\ size \in [File -> 0 .. MaxEnd]
  /\ num_pages \in [File -> 0 .. NPAGES]
  /\ pages \in [File -> [PageIdx -> Frame \cup {NoFrame}]]
  /\ memory \in [Frame -> [0 .. PAGE_SIZE - 1 -> Byte \cup {Garbage}]]
  /\ handed_out \in 0 .. MaxFrames
  /\ emptied \subseteq File
  /\ DOMAIN written = File
  /\ \A f \in File : DOMAIN written[f] \subseteq Nat

FileInv ==
  FileTypes /\ PagesPrivate /\ PagesHandedOut /\ PagesCoverSize /\ WrittenIsThere

FdTypes == fds \in [FD -> [node : File \cup {NoFile}, offset : Nat]]

(* The invariant speaks of the file and of the descriptors, each on its own.*)
LEMMA InvParts == Inv <=> FileInv /\ FdTypes
<1>1. num_pages \in [File -> 0 .. NPAGES] => num_pages \in [File -> 0 .. PageSpan - 1]
  BY Sizes
<1>2. FdTypes => \A fd \in FD : fds[fd].node \in File \cup {NoFile} /\ fds[fd].offset \in Nat
  BY DEF FdTypes
<1>3. Types <=> FileTypes /\ FdTypes
  BY <1>1, <1>2 DEF Types, TypeOK, FileTypes, FdTypes
<1>4. QED
  BY <1>3 DEF Inv, FileInv

(* The same after a step.                                                  *)
LEMMA InvPartsAfter == FileInv' /\ FdTypes' => Inv'
BY InvParts, PTL

(* Allocation touches no page below num_pages.                             *)
LEMMA AllocKeeps ==
  ASSUME Types, NEW f \in File, NEW last \in PageIdx, NEW wanted,
         wanted = num_pages[f] .. last, AllocPages(f, wanted)
  PROVE  \A g \in File : \A i \in PageIdx : i < num_pages[g] => pages'[g][i] = pages[g][i]
<1>1. \A i \in wanted : i >= num_pages[f]
  BY Sizes DEF Types
<1>2. SUFFICES ASSUME NEW g \in File, NEW i \in PageIdx, i < num_pages[g]
               PROVE  pages'[g][i] = pages[g][i]
  OBVIOUS
<1>3. CASE g = f
  <2>1. i \notin wanted
    BY <1>1, <1>2, <1>3, Sizes DEF PageIdx, Types
  <2>2. QED
    BY <1>3, <2>1, AllocStep
<1>4. CASE g # f
  BY <1>4, AllocStep
<1>5. QED
  BY <1>3, <1>4

(* A byte reported as written is on a page below num_pages.                *)
LEMMA WrittenPage ==
  ASSUME Types, PagesCoverSize, WrittenIsThere,
         NEW g \in File \ emptied, NEW pos \in DOMAIN written[g]
  PROVE  /\ pos \in Nat /\ PageOf(pos) \in PageIdx /\ PageOf(pos) < num_pages[g]
         /\ pages[g][PageOf(pos)] \in Frame
<1>1. pos \in Nat /\ pos < size[g] /\ size[g] \in Nat /\ num_pages[g] \in 0 .. NPAGES
  BY Sizes DEF Types, TypeOK, WrittenIsThere
<1>2. size[g] <= num_pages[g] * PAGE_SIZE
  BY DEF PagesCoverSize
<1>3. pos < num_pages[g] * PAGE_SIZE
  BY <1>1, <1>2, Sizes
<1>4. PageOf(pos) \in Nat /\ PageOf(pos) < num_pages[g]
  <2>1. num_pages[g] \in Nat
    BY <1>1, Sizes
  <2>2. QED
    BY <1>1, <1>3, <2>1, PageBound, Paging
<1>5. PageOf(pos) \in PageIdx
  BY <1>1, <1>4, Sizes DEF PageIdx
<1>6. pages[g][PageOf(pos)] # NoFrame
  BY <1>4, <1>5 DEF PagesCoverSize
<1>7. QED
  BY <1>1, <1>4, <1>5, <1>6 DEF Types, TypeOK

(* Out of frames: the pages obtained stay, and nothing is lost.            *)
LEMMA WriteFailsStep ==
  ASSUME Inv, NEW f \in File, NEW offset \in Nat, NEW count \in Nat,
         offset + count <= MaxEnd, ramfs_write_fails(f, offset, count)
  PROVE  FileInv'
<1> USE DEF Inv
<1> DEFINE last == Min({EndPage(offset, count), NPAGES - 1})
           wanted == Wanted(f, offset, count)
<1>1. last \in PageIdx /\ wanted = num_pages[f] .. last
  BY EndPageValue DEF Wanted
<1>2. /\ AllocPages(f, wanted)
      /\ UNCHANGED <<size, num_pages, memory, written, emptied>>
  BY DEF ramfs_write_fails
<1> HIDE DEF last, wanted
<1>3. /\ handed_out' \in 0 .. MaxFrames
      /\ pages' \in [File -> [PageIdx -> Frame \cup {NoFrame}]]
  <2>1. handed_out' \in handed_out .. MaxFrames
    BY <1>1, <1>2, AllocStep
  <2>2. pages' \in [File -> [PageIdx -> Frame \cup {NoFrame}]]
    BY <1>1, <1>2, AllocStep
  <2>3. QED
    BY <2>1, <2>2, Sizes DEF Types, TypeOK
<1>4. \A g \in File : \A i \in PageIdx : i < num_pages[g] => pages'[g][i] = pages[g][i]
  BY <1>1, <1>2, AllocKeeps
<1>5. FileTypes'
  BY <1>2, <1>3 DEF Types, TypeOK, FileTypes
<1>6. PagesPrivate' /\ PagesHandedOut'
  BY <1>1, <1>2, PrivateStep
<1>7. PagesCoverSize'
  BY <1>2, <1>4 DEF PagesCoverSize
<1>8. WrittenIsThere'
  <2> SUFFICES ASSUME NEW g \in File \ emptied, NEW pos \in DOMAIN written[g]
               PROVE  /\ pos < size[g]
                      /\ memory[pages'[g][PageOf(pos)]][pos % PAGE_SIZE] = written[g][pos]
    BY <1>2 DEF WrittenIsThere
  <2>1. pages'[g][PageOf(pos)] = pages[g][PageOf(pos)]
    BY <1>4, WrittenPage
  <2>2. QED
    BY <2>1 DEF WrittenIsThere
<1>9. QED
  BY <1>5, <1>6, <1>7, <1>8 DEF FileInv

(* num_pages after a write: it covers the write, unless that was one of    *)
(* nothing at 0.                                                           *)
LEMMA NumPagesAfter ==
  ASSUME Types, NEW f \in File, NEW offset \in Nat, NEW count \in Nat,
         offset + count <= MaxEnd, NEW n,
         n = IF EndPage(offset, count) >= num_pages[f]
               THEN (EndPage(offset, count) + 1) % PageSpan ELSE num_pages[f],
         NEW last, last = Min({EndPage(offset, count), NPAGES - 1})
  PROVE  /\ n \in 0 .. NPAGES
         /\ offset + count # 0 =>
              /\ n = IF last >= num_pages[f] THEN last + 1 ELSE num_pages[f]
              /\ offset + count <= n * PAGE_SIZE
<1>1. num_pages[f] \in Nat /\ num_pages[f] <= NPAGES
  BY Sizes DEF Types
<1>2. CASE offset + count = 0
  BY <1>1, <1>2, EndPageValue, Sizes
<1>3. CASE offset + count # 0
  <2>1. /\ last \in PageIdx
        /\ EndPage(offset, count) = last /\ last = PageOf(offset + count - 1)
        /\ (EndPage(offset, count) + 1) % PageSpan = last + 1
    BY <1>3, EndPageValue
  <2>2. n = IF last >= num_pages[f] THEN last + 1 ELSE num_pages[f]
    BY <2>1
  <2>3. n \in 0 .. NPAGES /\ n \in Nat /\ last < n
    BY <1>1, <2>1, <2>2, Sizes DEF PageIdx
  <2>4. offset + count - 1 \in Nat
    BY <1>3
  <2>5. offset + count - 1 < n * PAGE_SIZE
    BY <2>1, <2>3, <2>4, PageBound
  <2>6. offset + count <= n * PAGE_SIZE
    BY <2>3, <2>4, <2>5, Sizes
  <2>7. QED
    BY <2>2, <2>3, <2>6
<1>4. QED
  BY <1>2, <1>3

(* A whole write: the bytes land in frames of their own, and bytes written *)
(* earlier, in this file or another, stay.                                 *)
LEMMA WriteStep ==
  ASSUME Inv, NEW f \in File, NEW offset \in Nat, NEW count \in Nat, NEW byte \in Byte,
         offset + count <= MaxEnd, ramfs_write(f, offset, count, byte)
  PROVE  FileInv' /\ Cardinality(Reachable(pages'[f], num_pages'[f], offset, count)) \in Nat
<1> USE DEF Inv
<1> DEFINE last == Min({EndPage(offset, count), NPAGES - 1})
           wanted == Wanted(f, offset, count)
           n == num_pages'[f]
           stored == Reachable(pages'[f], n, offset, count)
<1>1. last \in PageIdx /\ wanted = num_pages[f] .. last
  BY EndPageValue DEF Wanted
<1>2. /\ handed_out + Cardinality(wanted) <= MaxFrames
      /\ AllocPages(f, wanted)
      /\ num_pages' = [num_pages EXCEPT ![f] =
                         IF EndPage(offset, count) >= num_pages[f]
                           THEN (EndPage(offset, count) + 1) % PageSpan ELSE num_pages[f]]
      /\ memory' = CopyIn(pages'[f], stored, byte)
      /\ size' = [size EXCEPT ![f] = SizeAfter(size[f], offset, Cardinality(stored))]
      /\ written' = [written EXCEPT ![f] = [pos \in DOMAIN written[f] \cup stored |->
                       IF pos \in stored THEN byte ELSE written[f][pos]]]
      /\ emptied' = IF offset + count = 0 THEN emptied \cup {f} ELSE emptied
  BY DEF ramfs_write
<1>3. /\ n \in 0 .. NPAGES
      /\ offset + count # 0 =>
           /\ n = IF last >= num_pages[f] THEN last + 1 ELSE num_pages[f]
           /\ offset + count <= n * PAGE_SIZE
  <2>1. n = IF EndPage(offset, count) >= num_pages[f]
              THEN (EndPage(offset, count) + 1) % PageSpan ELSE num_pages[f]
    BY <1>2 DEF Types
  <2>2. last = Min({EndPage(offset, count), NPAGES - 1})
    OBVIOUS
  <2> HIDE DEF n, last
  <2>3. QED
    BY <2>1, <2>2, NumPagesAfter
<1> HIDE DEF last, wanted, n
<1>4. /\ stored \subseteq offset .. offset + count - 1
      /\ Cardinality(stored) \in 0 .. count
      /\ \A pos \in stored : /\ PageOf(pos) < n /\ pages'[f][PageOf(pos)] # NoFrame
                             /\ pos < offset + Cardinality(stored)
  <2>1. n \in Nat
    BY <1>3, Sizes
  <2>2. QED
    BY <2>1, ReachableRun
<1> HIDE DEF stored
<1>5. /\ size' \in [File -> 0 .. MaxEnd]
      /\ \A g \in File \ {f} : size'[g] = size[g]
      /\ size'[f] = IF size[f] >= offset + Cardinality(stored)
                      THEN size[f] ELSE offset + Cardinality(stored)
  <2>1. size[f] \in Nat /\ size[f] <= MaxEnd /\ size \in [File -> 0 .. MaxEnd]
    BY Sizes DEF Types, TypeOK
  <2>2. offset + Cardinality(stored) \in Nat /\ offset + Cardinality(stored) <= MaxEnd
    BY <1>4, Sizes
  <2>3. SizeAfter(size[f], offset, Cardinality(stored))
          = IF size[f] >= offset + Cardinality(stored)
              THEN size[f] ELSE offset + Cardinality(stored)
    BY <2>1, <2>2, MaxOfTwo DEF SizeAfter
  <2>4. SizeAfter(size[f], offset, Cardinality(stored)) \in 0 .. MaxEnd
    BY <2>1, <2>2, <2>3
  <2>5. QED
    BY <1>2, <2>1, <2>3, <2>4
<1>6. /\ handed_out' \in 0 .. MaxFrames
      /\ pages' \in [File -> [PageIdx -> Frame \cup {NoFrame}]]
      /\ \A i \in wanted : pages'[f][i] # NoFrame
  <2>1. handed_out' \in handed_out .. MaxFrames
    BY <1>1, <1>2, AllocStep
  <2>2. pages' \in [File -> [PageIdx -> Frame \cup {NoFrame}]]
    BY <1>1, <1>2, AllocStep
  <2>3. handed_out \in Nat /\ num_pages[f] \in Nat
    BY Sizes DEF Types, TypeOK
  <2>4. ~ (handed_out + Cardinality(wanted) > MaxFrames)
    <3>1. last \in Int /\ num_pages[f] \in Int
      BY <1>1, <2>3, Sizes DEF PageIdx
    <3>2. IsFiniteSet(wanted)
      BY <1>1, <3>1, FS_Interval
    <3>3. Cardinality(wanted) \in Nat
      BY <3>2, FS_CardinalityType
    <3>4. QED
      BY <1>2, <2>3, <3>3, Sizes
  <2>5. ASSUME NEW i \in wanted PROVE pages'[f][i] # NoFrame
    <3>1. pages'[f][i] = handed_out + (i - num_pages[f]) + 1
      BY <1>1, <1>2, <2>4, AllocStep
    <3>2. i \in Int /\ i >= num_pages[f]
      BY <1>1, <2>3
    <3>3. QED
      BY <2>3, <3>1, <3>2 DEF NoFrame
  <2>6. QED
    BY <2>1, <2>2, <2>3, <2>5, Sizes
<1>7. \A g \in File : \A i \in PageIdx : i < num_pages[g] => pages'[g][i] = pages[g][i]
  BY <1>1, <1>2, AllocKeeps
<1>8. FileTypes'
  <2>1. memory' \in [Frame -> [0 .. PAGE_SIZE - 1 -> Byte \cup {Garbage}]]
    BY <1>2 DEF CopyIn, Types, TypeOK
  <2>2. num_pages' \in [File -> 0 .. NPAGES]
    BY <1>2, <1>3 DEF Types, n
  <2>3. \A g \in File : DOMAIN written'[g] \subseteq Nat
    BY <1>2, <1>4 DEF Types
  <2>4. DOMAIN written' = File /\ emptied' \subseteq File
    BY <1>2 DEF Types
  <2>5. QED
    BY <1>5, <1>6, <2>1, <2>2, <2>3, <2>4 DEF FileTypes
<1>9. PagesPrivate' /\ PagesHandedOut'
  BY <1>1, <1>2, PrivateStep
<1>10. PagesCoverSize'
  <2>1. ASSUME NEW g \in File \ emptied', g # f
        PROVE  /\ size'[g] <= num_pages'[g] * PAGE_SIZE
               /\ \A i \in PageIdx : i < num_pages'[g] => pages'[g][i] # NoFrame
    <3>1. g \in File \ emptied /\ num_pages'[g] = num_pages[g] /\ size'[g] = size[g]
      BY <1>2, <1>5, <2>1 DEF Types
    <3>2. QED
      BY <1>7, <3>1 DEF PagesCoverSize
  <2>2. ASSUME f \notin emptied'
        PROVE  /\ size'[f] <= n * PAGE_SIZE
               /\ \A i \in PageIdx : i < n => pages'[f][i] # NoFrame
    <3>1. f \notin emptied /\ offset + count # 0
      BY <1>2, <2>2
    <3>2. /\ n = IF last >= num_pages[f] THEN last + 1 ELSE num_pages[f]
          /\ offset + count <= n * PAGE_SIZE
      BY <1>3, <3>1
    <3>3. /\ num_pages[f] \in Nat /\ last \in Nat /\ n \in Nat /\ num_pages[f] <= n
          /\ size[f] \in Nat
      <4>1. num_pages[f] \in Nat /\ last \in Nat /\ size[f] \in Nat
        BY <1>1, <1>3, Sizes DEF Types, TypeOK, PageIdx
      <4> HIDE DEF last, n
      <4>2. n \in Nat /\ num_pages[f] <= n
        BY <3>2, <4>1
      <4>3. QED
        BY <4>1, <4>2
    <3>4. size'[f] <= n * PAGE_SIZE
      <4>1. size[f] <= num_pages[f] * PAGE_SIZE
        BY <3>1 DEF PagesCoverSize
      <4>2. num_pages[f] * PAGE_SIZE <= n * PAGE_SIZE
        BY <3>3, Sizes
      <4>3. n * PAGE_SIZE \in Nat /\ num_pages[f] * PAGE_SIZE \in Nat
        BY <3>3, Sizes
      <4>4. QED
        BY <1>4, <1>5, <3>2, <3>3, <4>1, <4>2, <4>3
    <3>5. ASSUME NEW i \in PageIdx, i < n PROVE pages'[f][i] # NoFrame
      <4>1. i \in Nat
        BY Sizes DEF PageIdx
      <4>2. CASE i < num_pages[f]
        BY <1>7, <3>1, <4>2 DEF PagesCoverSize
      <4>3. CASE i >= num_pages[f]
        <5>1. i \in wanted
          BY <1>1, <3>2, <3>3, <3>5, <4>1, <4>3
        <5>2. QED
          BY <1>6, <5>1
      <4>4. QED
        BY <3>3, <4>1, <4>2, <4>3
    <3>6. QED
      BY <3>4, <3>5
  <2>3. QED
    BY <2>1, <2>2 DEF PagesCoverSize, n
<1>11. WrittenIsThere'
  <2> SUFFICES ASSUME NEW g \in File \ emptied', NEW pos \in DOMAIN written'[g]
               PROVE  /\ pos < size'[g]
                      /\ memory'[pages'[g][PageOf(pos)]][pos % PAGE_SIZE] = written'[g][pos]
    BY DEF WrittenIsThere
  <2> DEFINE hit(m, o) == \E p \in stored : pages'[f][PageOf(p)] = m /\ p % PAGE_SIZE = o
  <2>1. ASSUME NEW m \in Frame, NEW o \in 0 .. PAGE_SIZE - 1
        PROVE  memory'[m][o] = IF hit(m, o) THEN byte ELSE memory[m][o]
    BY <1>2 DEF CopyIn
  <2>2. \A p \in stored : p \in Nat /\ PageOf(p) \in PageIdx
    <3>1. ASSUME NEW p \in stored PROVE p \in Nat /\ PageOf(p) \in PageIdx
      <4>1. p \in Nat
        BY <1>4
      <4>2. PageOf(p) \in Nat /\ PageOf(p) < n
        BY <1>4, <4>1, Paging
      <4>3. QED
        BY <1>3, <4>1, <4>2, Sizes DEF PageIdx
    <3>2. QED
      BY <3>1
  <2>3. g \in File \ emptied
    BY <1>2
  <2>4. CASE g = f /\ pos \in stored
    <3>1. pos \in Nat /\ PageOf(pos) \in PageIdx
      BY <2>2, <2>4
    <3>2. pages'[f][PageOf(pos)] \in Frame
      BY <1>4, <1>6, <2>4, <3>1
    <3>3. pos % PAGE_SIZE \in 0 .. PAGE_SIZE - 1
      BY <3>1, Paging
    <3>4. memory'[pages'[f][PageOf(pos)]][pos % PAGE_SIZE] = byte
      BY <2>1, <2>4, <3>2, <3>3
    <3>5. written'[f][pos] = byte
      BY <1>2, <2>4 DEF Types
    <3>6. pos < size'[f]
      <4>1. size[f] \in Nat
        BY Sizes DEF Types, TypeOK
      <4>2. QED
        BY <1>4, <1>5, <2>4, <3>1, <4>1
    <3>7. QED
      BY <2>4, <3>4, <3>5, <3>6
  <2>5. CASE ~ (g = f /\ pos \in stored)
    <3>1. pos \in DOMAIN written[g] /\ written'[g][pos] = written[g][pos]
      BY <1>2, <2>5 DEF Types
    <3>2. /\ pos \in Nat /\ PageOf(pos) \in PageIdx /\ PageOf(pos) < num_pages[g]
          /\ pages[g][PageOf(pos)] \in Frame
      BY <2>3, <3>1, WrittenPage
    <3>3. pages'[g][PageOf(pos)] = pages[g][PageOf(pos)]
      BY <1>7, <3>2
    <3>4. /\ pos % PAGE_SIZE \in 0 .. PAGE_SIZE - 1
          /\ pos = PAGE_SIZE * PageOf(pos) + (pos % PAGE_SIZE)
      BY <3>2, Paging
    <3>5. ~ hit(pages'[g][PageOf(pos)], pos % PAGE_SIZE)
      <4> SUFFICES ASSUME NEW p \in stored,
                          pages'[f][PageOf(p)] = pages'[g][PageOf(pos)],
                          p % PAGE_SIZE = pos % PAGE_SIZE
                   PROVE  FALSE
        OBVIOUS
      <4>1. pages'[g][PageOf(pos)] # NoFrame
        BY <3>2, <3>3 DEF Frame, NoFrame
      <4>2. f = g /\ PageOf(p) = PageOf(pos)
        BY <1>9, <2>2, <3>2, <4>1 DEF PagesPrivate
      <4>3. p = PAGE_SIZE * PageOf(p) + (p % PAGE_SIZE)
        BY <2>2, Paging
      <4>4. p = pos
        BY <3>4, <4>2, <4>3
      <4>5. QED
        BY <2>5, <4>2, <4>4
    <3>6. memory'[pages'[g][PageOf(pos)]][pos % PAGE_SIZE] = written[g][pos]
      <4>1. memory[pages[g][PageOf(pos)]][pos % PAGE_SIZE] = written[g][pos]
        BY <2>3, <3>1 DEF WrittenIsThere
      <4>2. QED
        BY <2>1, <3>2, <3>3, <3>4, <3>5, <4>1
    <3>7. pos < size'[g]
      <4>1. pos < size[g]
        BY <2>3, <3>1 DEF WrittenIsThere
      <4>2. size[g] \in Nat /\ size[g] <= size'[g]
        <5>1. size[g] \in Nat /\ offset + Cardinality(stored) \in Nat
          BY <1>4, Sizes DEF Types, TypeOK
        <5>2. CASE g = f
          BY <1>5, <5>1, <5>2
        <5>3. CASE g # f
          BY <1>5, <5>1, <5>3
        <5>4. QED
          BY <5>2, <5>3
      <4>3. size'[g] \in Nat
        BY <1>5, Sizes
      <4>4. QED
        BY <3>2, <4>1, <4>2, <4>3
    <3>8. QED
      BY <3>1, <3>6, <3>7
  <2>6. QED
    BY <2>4, <2>5
<1>12. Cardinality(stored) \in Nat
  BY <1>4
<1>13. QED
  BY <1>8, <1>9, <1>10, <1>11, <1>12 DEF FileInv, stored, n

-----------------------------------------------------------------------------
(* The steps                                                               *)

(* A step that leaves the file alone keeps what the invariant says of it.  *)
LEMMA FileUntouched == FileInv /\ UNCHANGED file => FileInv'
BY DEF file, FileInv, FileTypes, PagesPrivate, PagesHandedOut, PagesCoverSize,
       WrittenIsThere

(* At the start every file is empty and no frame is handed out.            *)
LEMMA InitInv == Init => Inv
<1> SUFFICES ASSUME Init PROVE Inv
  OBVIOUS
<1>1. FdTypes
  BY DEF Init, FdTypes
<1>2. FileTypes
  <2>1. 0 \in 0 .. MaxEnd /\ 0 \in 0 .. NPAGES /\ 0 \in 0 .. MaxFrames
    BY Sizes
  <2>2. DOMAIN written = File /\ \A f \in File : DOMAIN written[f] \subseteq Nat
    BY DEF Init
  <2>3. QED
    BY <2>1, <2>2 DEF Init, FileTypes
<1>3. PagesPrivate /\ PagesHandedOut
  BY DEF Init, PagesPrivate, PagesHandedOut, NoFrame
<1>4. PagesCoverSize
  BY Sizes DEF Init, PagesCoverSize, PageIdx
<1>5. WrittenIsThere
  BY DEF Init, WrittenIsThere
<1>6. QED
  BY <1>1, <1>2, <1>3, <1>4, <1>5, InvParts DEF FileInv

(* vfs_read moves the offset by a number of bytes.                         *)
LEMMA ReadLength ==
  ASSUME Inv, NEW f \in File, NEW offset \in Nat, NEW count \in Nat
  PROVE  Len(ramfs_read(f, offset, count)) \in Nat
<1> DEFINE clipped == IF offset >= size[f] THEN 0 ELSE Min({count, size[f] - offset})
           reached == Reachable(pages[f], num_pages[f], offset, clipped)
<1>1. size[f] \in Nat /\ num_pages[f] \in Nat
  BY Sizes DEF Inv, Types, TypeOK
<1>2. clipped \in Nat
  <2>1. CASE offset >= size[f]
    BY <2>1
  <2>2. CASE ~ (offset >= size[f])
    <3>1. size[f] - offset \in Nat
      BY <1>1, <2>2
    <3>2. Min({count, size[f] - offset}) \in Nat
      BY <3>1, MinOfTwo
    <3>3. QED
      BY <2>2, <3>2
  <2>3. QED
    BY <2>1, <2>2
<1> HIDE DEF clipped
<1>3. Cardinality(reached) \in Nat
  <2>1. Cardinality(reached) \in 0 .. clipped
    BY <1>1, <1>2, ReachableRun
  <2>2. QED
    BY <1>2, <2>1
<1> HIDE DEF reached
<1>4. ramfs_read(f, offset, count) =
        [i \in 1 .. Cardinality(reached) |->
           memory[pages[f][PageOf(offset + i - 1)]][(offset + i - 1) % PAGE_SIZE]]
  BY DEF ramfs_read, clipped, reached
<1>5. QED
  BY <1>3, <1>4

(* The descriptor table keeps its type when vfs_open, vfs_close, vfs_seek  *)
(* and vfs_read change it.                                                 *)
LEMMA FdStep ==
  ASSUME Inv, NEW fd \in FD, UNCHANGED file,
         \/ \E f \in File, append \in BOOLEAN : vfs_open(fd, f, append)
         \/ vfs_close(fd)
         \/ \E offset \in Offsets : vfs_seek(fd, offset)
         \/ \E count \in ReadSizes : vfs_read(fd, count)
  PROVE  FdTypes'
<1>1. /\ fds \in [FD -> [node : File \cup {NoFile}, offset : Nat]]
      /\ size \in [File -> Nat]
  BY Sizes DEF Inv, Types, TypeOK
<1>2. Offsets \subseteq Nat /\ ReadSizes \subseteq Nat
  BY RamFileConstants
<1>3. ASSUME NEW f \in File, NEW append \in BOOLEAN, vfs_open(fd, f, append)
      PROVE  FdTypes'
  BY <1>1, <1>3 DEF vfs_open, FdTypes
<1>4. CASE vfs_close(fd)
  BY <1>1, <1>4 DEF vfs_close, FdTypes
<1>5. ASSUME NEW offset \in Offsets, vfs_seek(fd, offset) PROVE FdTypes'
  BY <1>1, <1>2, <1>5 DEF vfs_seek, FdTypes
<1>6. ASSUME NEW count \in ReadSizes, vfs_read(fd, count) PROVE FdTypes'
  <2> DEFINE n == Len(ramfs_read(fds[fd].node, fds[fd].offset, count))
  <2>1. n \in Nat
    BY <1>1, <1>2, <1>6, ReadLength DEF vfs_read
  <2>2. fds' = [fds EXCEPT ![fd].offset = fds[fd].offset + n]
    BY <1>6 DEF vfs_read
  <2> HIDE DEF n
  <2>3. QED
    BY <1>1, <2>1, <2>2 DEF FdTypes
<1>7. QED
  BY <1>3, <1>4, <1>5, <1>6

(* Each action keeps the invariant.                                        *)
LEMMA InvStep == Inv /\ [Next]_vars => Inv'
<1> SUFFICES ASSUME Inv, [Next]_vars PROVE Inv'
  OBVIOUS
<1>0. FileInv /\ FdTypes
  BY InvParts
<1>1. ASSUME NEW fd \in FD,
             \/ \E f \in File, append \in BOOLEAN : vfs_open(fd, f, append)
             \/ vfs_close(fd)
             \/ \E offset \in Offsets : vfs_seek(fd, offset)
             \/ \E count \in ReadSizes : vfs_read(fd, count)
      PROVE  Inv'
  <2>1. UNCHANGED file
    BY <1>1 DEF vfs_open, vfs_close, vfs_seek, vfs_read
  <2>2. FdTypes'
    BY <1>1, <2>1, FdStep
  <2>3. FileInv'
    BY <1>0, <2>1, FileUntouched
  <2>4. QED
    BY <2>2, <2>3, InvPartsAfter
<1>2. ASSUME NEW fd \in FD, NEW count \in WriteSizes, NEW byte \in Byte,
             vfs_write(fd, count, byte)
      PROVE  Inv'
  <2> DEFINE f == fds[fd].node
             offset == fds[fd].offset
             moved == Cardinality(Reachable(pages'[f], num_pages'[f], offset, count))
  <2>1. f \in File /\ offset \in Nat /\ count \in Nat /\ offset + count <= MaxEnd
    BY <1>0, <1>2, RamFileConstants DEF vfs_write, FdTypes
  <2>2. CASE ramfs_write_fails(f, offset, count) /\ UNCHANGED fds
    <3>1. FileInv'
      BY <2>1, <2>2, WriteFailsStep
    <3>2. FdTypes'
      BY <1>0, <2>2 DEF FdTypes
    <3>3. QED
      BY <3>1, <3>2, InvPartsAfter
  <2>3. CASE /\ ramfs_write(f, offset, count, byte)
             /\ fds' = [fds EXCEPT ![fd].offset = @ + moved]
    <3>1. FileInv' /\ moved \in Nat
      BY <2>1, <2>3, WriteStep
    <3>2. fds' = [fds EXCEPT ![fd].offset = offset + moved]
      BY <2>3
    <3> HIDE DEF moved
    <3>3. FdTypes'
      BY <1>0, <2>1, <3>1, <3>2 DEF FdTypes
    <3>4. QED
      BY <3>1, <3>3, InvPartsAfter
  <2>4. QED
    BY <1>2, <2>2, <2>3 DEF vfs_write
<1>3. CASE AllocElsewhere
  <2>1. /\ handed_out' = handed_out + 1 /\ handed_out < MaxFrames
        /\ UNCHANGED <<size, num_pages, pages, memory, written, emptied, fds>>
    BY <1>3 DEF AllocElsewhere
  <2>2. FileTypes'
    BY <1>0, <2>1, Sizes DEF FileInv, FileTypes
  <2>3. PagesHandedOut'
    BY <1>0, <2>1, Sizes DEF FileInv, FileTypes, PagesHandedOut, Frame, NoFrame
  <2>4. PagesPrivate' /\ PagesCoverSize' /\ WrittenIsThere' /\ FdTypes'
    BY <1>0, <2>1 DEF FileInv, PagesPrivate, PagesCoverSize, WrittenIsThere, FdTypes
  <2>5. QED
    BY <2>2, <2>3, <2>4, InvPartsAfter DEF FileInv
<1>4. CASE UNCHANGED vars
  <2>1. FileInv'
    BY <1>0, <1>4, FileUntouched DEF vars
  <2>2. FdTypes'
    BY <1>0, <1>4 DEF vars, FdTypes
  <2>3. QED
    BY <2>1, <2>2, InvPartsAfter
<1>5. QED
  BY <1>1, <1>2, <1>3, <1>4 DEF Next

(* The run of one byte that starts at a written position.                  *)
LEMMA ReadBack == Inv => ReadsReturnWrites
<1> SUFFICES ASSUME Inv, NEW f \in File \ emptied, NEW pos \in DOMAIN written[f]
             PROVE  /\ Len(ramfs_read(f, pos, 1)) = 1
                    /\ ramfs_read(f, pos, 1)[1] = written[f][pos]
  BY DEF ReadsReturnWrites
<1> DEFINE reached == Reachable(pages[f], num_pages[f], pos, 1)
<1>1. /\ pos \in Nat /\ PageOf(pos) \in PageIdx /\ PageOf(pos) < num_pages[f]
      /\ pages[f][PageOf(pos)] # NoFrame
  BY WrittenPage DEF Inv, Frame, NoFrame
<1>2. /\ pos < size[f] /\ size[f] \in Nat
      /\ memory[pages[f][PageOf(pos)]][pos % PAGE_SIZE] = written[f][pos]
  BY Sizes DEF Inv, WrittenIsThere, Types, TypeOK
<1>3. (IF pos >= size[f] THEN 0 ELSE Min({1, size[f] - pos})) = 1
  <2>1. size[f] - pos \in Nat /\ 1 <= size[f] - pos /\ ~ (pos >= size[f])
    BY <1>1, <1>2
  <2>2. Min({1, size[f] - pos}) = 1
    BY <2>1, MinOfTwo
  <2>3. QED
    BY <2>1, <2>2
<1>4. reached = {pos}
  <2>1. PageOf(pos) \in Int
    BY <1>1, Sizes DEF PageIdx
  <2>2. pos .. pos + 1 - 1 = {pos} /\ PageOf(pos) .. PageOf(pos) = {PageOf(pos)}
    BY <1>1, <2>1
  <2>3. QED
    BY <1>1, <2>2 DEF Reachable
<1>5. Cardinality(reached) = 1
  BY <1>4, FS_Singleton
<1> HIDE DEF reached
<1>6. ramfs_read(f, pos, 1) =
        [i \in 1 .. 1 |->
           memory[pages[f][PageOf(pos + i - 1)]][(pos + i - 1) % PAGE_SIZE]]
  BY <1>3, <1>5 DEF ramfs_read, reached
<1>7. pos + 1 - 1 = pos
  BY <1>1
<1>8. QED
  BY <1>2, <1>6, <1>7

-----------------------------------------------------------------------------
(* Theorems                                                                *)

(* The invariant holds in every reachable state, for every number of files *)
(* and descriptors and every size of page and file.                        *)
THEOREM Invariance == Spec => []Inv
<1>1. Init => Inv
  BY InitInv
<1>2. Inv /\ [Next]_vars => Inv'
  BY InvStep
<1>3. QED
  BY <1>1, <1>2, PTL DEF Spec

(* num_pages and the size keep their ranges through the unsigned           *)
(* arithmetic of ramfs_write: the type invariant.                          *)
THEOREM TypeCorrect == Spec => []TypeOK
<1>1. Inv => TypeOK
  BY DEF Inv, Types
<1>2. QED
  BY <1>1, Invariance, PTL

(* ramfs_write never maps a frame twice, in one file or in two.            *)
THEOREM PagesStayPrivate == Spec => []PagesPrivate
<1>1. Inv => PagesPrivate
  BY DEF Inv
<1>2. QED
  BY <1>1, Invariance, PTL

(* A file has all the pages its size promises, also after a write that     *)
(* ran out of frames, unless it met a write of nothing at 0.               *)
THEOREM SizeIsCovered == Spec => []PagesCoverSize
<1>1. Inv => PagesCoverSize
  BY DEF Inv
<1>2. QED
  BY <1>1, Invariance, PTL

(* ramfs_read returns the bytes vfs_write reported as written, whatever    *)
(* was written, sought and opened in between.                              *)
THEOREM WritesAreReadBack == Spec => []ReadsReturnWrites
<1>1. Inv => ReadsReturnWrites
  BY ReadBack
<1>2. QED
  BY <1>1, Invariance, PTL
=============================================================================
