------------------------------ MODULE RamFile ------------------------------
(***************************************************************************)
(* The contents of ramfs files: ramfs_write and ramfs_read of ramfs.c      *)
(* below vfs_read, vfs_write, vfs_seek and vfs_open of vfs.c.  A file is   *)
(* an array of page frames taken from pfa_alloc_low.  No code gives a low  *)
(* frame back, so the allocator appears as the number of frames it has     *)
(* handed out; a frame comes with whatever it held before.                 *)
(*                                                                         *)
(* One write carries Len copies of one byte.  The page index arithmetic    *)
(* is that of the code: uint32_t pages of a uint64_t position.  The pool   *)
(* of file_data blocks is as large as that of nodes and never runs out, so *)
(* a file without a block is one with no page.  Writes end inside the 512  *)
(* KB that pages[] covers (MaxEnd): nothing in the code refuses a longer   *)
(* one, and its copy loop would run over the end of the array.             *)
(* A write of no byte at offset 0 takes every page and then resets         *)
(* num_pages, and the next write takes them all again: what the file held  *)
(* is lost.  The history variable emptied names the files it happened to.  *)
(***************************************************************************)
EXTENDS Integers, Sequences, FiniteSets, FiniteSetsExt

CONSTANTS
  File,          \* the ramfs nodes that are files
  NoFile,        \* the node of a free descriptor
  FD,            \* descriptors
  Byte,
  Garbage,       \* what an uninitialised byte of a frame reads as
  PAGE_SIZE,     \* 4096
  NPAGES,        \* 128, the length of pages[]
  PageSpan,      \* 2^32, the range of a uint32_t page index
  MaxFrames,     \* low frames the allocator has
  WriteSizes,    \* counts passed to vfs_write
  ReadSizes,     \* counts passed to vfs_read
  Offsets,       \* targets of vfs_seek
  MaxEnd         \* bound on the position where a write ends

ASSUME RamFileConstants ==
  /\ {PAGE_SIZE, NPAGES, PageSpan} \subseteq Nat \ {0}
  /\ NPAGES < PageSpan
  /\ MaxFrames \in Nat /\ MaxEnd \in 0 .. NPAGES * PAGE_SIZE
  /\ WriteSizes \subseteq Nat /\ ReadSizes \subseteq Nat /\ Offsets \subseteq Nat
  /\ Garbage \notin Byte /\ NoFile \notin File

NoFrame == 0
Frame   == 1 .. MaxFrames
PageIdx == 0 .. NPAGES - 1

VARIABLES
  size,        \* file -> node->size
  num_pages,   \* file -> file_data->num_pages
  pages,       \* file -> page index -> frame
  memory,      \* frame -> offset in the page -> byte
  handed_out,  \* frames pfa_alloc_low has returned so far
  fds,         \* descriptor -> node and offset
  written,     \* file -> position -> the byte last reported as written there
  emptied      \* files that met a write of no byte at offset 0

file == <<size, num_pages, pages, memory, handed_out, written, emptied>>
vars == <<file, fds>>

PageOf(pos) == pos \div PAGE_SIZE

(* (offset + size - 1) / 4096 cut to 32 bits; the subtraction wraps when   *)
(* both are zero, and every bit of the quotient is then set.               *)
EndPage(offset, count) ==
  IF offset + count = 0 THEN PageSpan - 1 ELSE PageOf(offset + count - 1) % PageSpan

-----------------------------------------------------------------------------
(* The page indices the allocation loop visits; when frames run out in the *)
(* middle of them the pages obtained so far stay in the array.             *)
Wanted(f, offset, count) == num_pages[f] .. Min({EndPage(offset, count), NPAGES - 1})

(* Mutant: frames of a failed allocation are given back but stay mapped.   *)
AllocPages_undone(f, wanted) ==
  /\ pages' = [pages EXCEPT ![f] = [i \in PageIdx |->
                 IF i \in wanted /\ handed_out + i - num_pages[f] < MaxFrames
                   THEN handed_out + i - num_pages[f] + 1 ELSE @[i]]]
  /\ handed_out' = IF handed_out + Cardinality(wanted) > MaxFrames
                      THEN handed_out ELSE handed_out + Cardinality(wanted)

AllocPages(f, wanted) ==
  /\ pages' = [pages EXCEPT ![f] = [i \in PageIdx |->
                 IF i \in wanted /\ handed_out + i - num_pages[f] < MaxFrames
                   THEN handed_out + i - num_pages[f] + 1 ELSE @[i]]]
  /\ handed_out' = Min({handed_out + Cardinality(wanted), MaxFrames})

(* Mutant: num_pages is set before the loop that may fail.                 *)
ramfs_write_fails_late(f, offset, count) ==
  /\ handed_out + Cardinality(Wanted(f, offset, count)) > MaxFrames
  /\ AllocPages(f, Wanted(f, offset, count))
  /\ num_pages' = [num_pages EXCEPT ![f] = (EndPage(offset, count) + 1) % PageSpan]
  /\ UNCHANGED <<size, memory, written, emptied>>

(* pfa_alloc_low returns 0 before the last page that is needed.            *)
ramfs_write_fails(f, offset, count) ==
  /\ handed_out + Cardinality(Wanted(f, offset, count)) > MaxFrames
  /\ AllocPages(f, Wanted(f, offset, count))
  /\ UNCHANGED <<size, num_pages, memory, written, emptied>>

(* The positions from offset on that the copy loops reach: up to the first *)
(* page that is not there.                                                 *)
Reachable(page, n, offset, count) ==
  {pos \in offset .. offset + count - 1 :
     \A i \in PageOf(offset) .. PageOf(pos) : i < n /\ page[i] # NoFrame}

(* Mutant: every write starts at the beginning of its page.                *)
CopyIn_aligned(page, at, byte) ==
  [m \in Frame |-> [o \in 0 .. PAGE_SIZE - 1 |->
     IF \E pos \in at : page[PageOf(pos)] = m /\ (pos - Min(at)) % PAGE_SIZE = o
       THEN byte ELSE memory[m][o]]]

(* The frames after byte went to the positions at, through the array page. *)
CopyIn(page, at, byte) ==
  [m \in Frame |-> [o \in 0 .. PAGE_SIZE - 1 |->
     IF \E pos \in at : page[PageOf(pos)] = m /\ pos % PAGE_SIZE = o
       THEN byte ELSE memory[m][o]]]

SizeAfter(old, offset, done) == Max({old, offset + done})

ramfs_write(f, offset, count, byte) ==
  LET wanted == Wanted(f, offset, count)
      stored == Reachable(pages'[f], num_pages'[f], offset, count)
  IN  /\ handed_out + Cardinality(wanted) <= MaxFrames
      /\ AllocPages(f, wanted)
      /\ num_pages' = [num_pages EXCEPT ![f] =
                         IF EndPage(offset, count) >= @
                           THEN (EndPage(offset, count) + 1) % PageSpan ELSE @]
      /\ memory' = CopyIn(pages'[f], stored, byte)
      /\ size' = [size EXCEPT ![f] = SizeAfter(@, offset, Cardinality(stored))]
      /\ written' = [written EXCEPT ![f] = [pos \in DOMAIN @ \cup stored |->
                       IF pos \in stored THEN byte ELSE @[pos]]]
      /\ emptied' = IF offset + count = 0 THEN emptied \cup {f} ELSE emptied

(* The bytes ramfs_read copies out, in order.                              *)
ramfs_read(f, offset, count) ==
  LET clipped == IF offset >= size[f] THEN 0 ELSE Min({count, size[f] - offset})
      reached == Reachable(pages[f], num_pages[f], offset, clipped)
  IN  [i \in 1 .. Cardinality(reached) |->
         memory[pages[f][PageOf(offset + i - 1)]][(offset + i - 1) % PAGE_SIZE]]

-----------------------------------------------------------------------------
(* The descriptor layer.  The offset moves by what was transferred.        *)

vfs_open(fd, f, append) ==
  /\ fds[fd].node = NoFile
  /\ fds' = [fds EXCEPT ![fd] = [node |-> f, offset |-> IF append THEN size[f] ELSE 0]]
  /\ UNCHANGED file

vfs_close(fd) ==
  /\ fds[fd].node # NoFile
  /\ fds' = [fds EXCEPT ![fd] = [node |-> NoFile, offset |-> 0]]
  /\ UNCHANGED file

vfs_seek(fd, offset) ==
  /\ fds[fd].node # NoFile
  /\ fds' = [fds EXCEPT ![fd].offset = offset]
  /\ UNCHANGED file

vfs_read(fd, count) ==
  /\ fds[fd].node # NoFile
  /\ fds' = [fds EXCEPT ![fd].offset = @ + Len(ramfs_read(fds[fd].node, @, count))]
  /\ UNCHANGED file

(* MaxEnd bounds the position a write may end at.                          *)
vfs_write(fd, count, byte) ==
  LET f == fds[fd].node
      offset == fds[fd].offset
  IN  /\ f # NoFile
      /\ offset + count <= MaxEnd
      /\ \/ /\ ramfs_write_fails(f, offset, count)
            /\ UNCHANGED fds
         \/ /\ ramfs_write(f, offset, count, byte)
            /\ fds' = [fds EXCEPT ![fd].offset =
                         @ + Cardinality(Reachable(pages'[f], num_pages'[f],
                                                   offset, count))]

(* Some other user of pfa_alloc_low takes a frame.                         *)
AllocElsewhere ==
  /\ handed_out < MaxFrames
  /\ handed_out' = handed_out + 1
  /\ UNCHANGED <<size, num_pages, pages, memory, written, emptied, fds>>

Init ==
  /\ size = [f \in File |-> 0]
  /\ num_pages = [f \in File |-> 0]
  /\ pages = [f \in File |-> [i \in PageIdx |-> NoFrame]]
  /\ memory = [m \in Frame |-> [o \in 0 .. PAGE_SIZE - 1 |-> Garbage]]
  /\ handed_out = 0
  /\ fds = [fd \in FD |-> [node |-> NoFile, offset |-> 0]]
  /\ written = [f \in File |-> <<>>]
  /\ emptied = {}

Next ==
  \/ \E fd \in FD :
       \/ \E f \in File, append \in BOOLEAN : vfs_open(fd, f, append)
       \/ vfs_close(fd)
       \/ \E offset \in Offsets : vfs_seek(fd, offset)
       \/ \E count \in ReadSizes : vfs_read(fd, count)
       \/ \E count \in WriteSizes, byte \in Byte : vfs_write(fd, count, byte)
  \/ AllocElsewhere

Spec == Init /\ [][Next]_vars

-----------------------------------------------------------------------------
(* Properties                                                              *)

(* Sizes stay inside the array of pages, the page count inside uint32_t,   *)
(* and the array holds only frames the allocator has.                      *)
TypeOK ==
  /\ size \in [File -> 0 .. MaxEnd]
  /\ num_pages \in [File -> 0 .. PageSpan - 1]
  /\ pages \in [File -> [PageIdx -> Frame \cup {NoFrame}]]
  /\ memory \in [Frame -> [0 .. PAGE_SIZE - 1 -> Byte \cup {Garbage}]]
  /\ handed_out \in 0 .. MaxFrames
  /\ \A fd \in FD : fds[fd].node \in File \cup {NoFile} /\ fds[fd].offset \in Nat

(* No frame backs two pages, of one file or of two: a write into one file  *)
(* can never show up in another, even after an allocation failed halfway.  *)
PagesPrivate ==
  \A f, g \in File : \A i, j \in PageIdx :
    pages[f][i] # NoFrame /\ pages[f][i] = pages[g][j] => f = g /\ i = j

(* Every position below the size has its page, so no read stops short,     *)
(* except in a file that itself met a write of no byte at offset 0.        *)
PagesCoverSize ==
  \A f \in File \ emptied :
    /\ size[f] <= num_pages[f] * PAGE_SIZE
    /\ \A i \in PageIdx : i < num_pages[f] => pages[f][i] # NoFrame

(* A read returns what vfs_write last reported as written, however writes  *)
(* through several descriptors, seeks, holes and failed writes interleave, *)
(* and whatever happened to the file next to it.                           *)
ReadsReturnWrites ==
  \A f \in File \ emptied : \A offset \in DOMAIN written[f] :
    LET bytes == ramfs_read(f, offset, 1)
    IN  Len(bytes) = 1 /\ bytes[1] = written[f][offset]
=============================================================================
