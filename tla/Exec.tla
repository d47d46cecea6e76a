-------------------------------- MODULE Exec --------------------------------
(***************************************************************************)
(* Programs: sys_exec and sys_exit of core/syscall.c, the ELF loader of    *)
(* core/elf.c, map_page and mmio_remap of core/mm.c, and the end of        *)
(* kernel_main, which maps device registers and then starts init.          *)
(*                                                                         *)
(* There is one address space and one program.  A new program is mapped    *)
(* over the old one page by page, with frames that nobody ever gives back, *)
(* and a load that fails halfway returns to whoever asked for it.  The     *)
(* loader is one process; a program acts only while it runs.               *)
(*                                                                         *)
(* Addresses count bytes, and a page has PAGE_SIZE of them.  Page flags    *)
(* are left out.  Frames are handed out in order, as in RamFile; how many  *)
(* were taken during boot is any number.                                   *)
(***************************************************************************)
EXTENDS Integers, Sequences, FiniteSets

CONSTANTS
  Program,            \* paths
  init_path, shell_path, \* Booter/init and Programs/rash
  File,               \* path -> kind, and of an ELF file its PT_LOAD segments
  PAGE_SIZE,
  STACK_TOP,          \* the page number of INIT_STACK_TOP
  INIT_STACK_PAGES,   \* 4
  Table, Walk,        \* page -> the three tables its address walks through
  MaxFrames,          \* low frames the machine has
  MMIO_CAP,           \* 64, pages of one mmio_remap
  KERNEL_PAGE,        \* the page where the kernel image begins, 512
  RemapSizes,         \* sizes passed to mmio_remap
  MaxRemaps           \* bound on its calls; kernel_main's drivers make one

VPage   == 0 .. STACK_TOP - 1
NoFrame == 0
Frame   == 1 .. MaxFrames

Offset  == 0 .. PAGE_SIZE - 1

(* The pages from 0xFFFFFFFF80000000 on, up to the first of the kernel     *)
(* image, numbered above those of the programs.  Registers and the image   *)
(* are mapped like frames and are none.                                    *)
MmioPage(n)  == STACK_TOP + 1 + n
KernelImage  == MmioPage(KERNEL_PAGE)
KPage        == MmioPage(0) .. KernelImage
Registers(n) == -2 - n
Image        == -1
Device       == {Registers(n) : n \in 0 .. KERNEL_PAGE}

Segments(p) == File[p].segments

PageOf(addr) == addr \div PAGE_SIZE

page_start(seg) == PageOf(seg.vaddr)

page_end(seg) == PageOf(seg.vaddr + seg.memsz + PAGE_SIZE - 1)

PagesOf(seg) == page_start(seg) .. page_end(seg) - 1

StackPages == {STACK_TOP - n : n \in 1 .. INIT_STACK_PAGES}

(* inside says that the segment lies inside the bytes that were read.      *)
Segment64 ==
  {seg \in [vaddr : Nat, filesz : Nat, memsz : Nat, inside : BOOLEAN] :
     seg.filesz <= seg.memsz}

(* The segments of a program share no page, nor does one reach the stack;  *)
(* so it is with every program of the root file system.  The pages of the  *)
(* stack, which end at a multiple of 2 MB, share their tables.             *)
ASSUME ExecConstants ==
  /\ {init_path, shell_path} \subseteq Program
  /\ {PAGE_SIZE, MMIO_CAP} \subseteq Nat \ {0}
  /\ {STACK_TOP, MaxFrames, MaxRemaps, KERNEL_PAGE} \subseteq Nat
  /\ INIT_STACK_PAGES \in 2 .. STACK_TOP
  /\ RemapSizes \subseteq Nat
  /\ MaxRemaps * MMIO_CAP <= KERNEL_PAGE
  /\ \A v \in VPage \cup KPage : \A i \in 1 .. 3 : Walk[v][i] \in Table
  /\ \A v, w \in StackPages : Walk[v] = Walk[w]
  /\ \A p \in Program : File[p].kind \in {"absent", "empty", "malformed", "elf"}
  /\ \A p \in Program : File[p].kind = "elf" =>
       /\ Segments(p) \in Seq(Segment64)
       /\ \A i, j \in DOMAIN Segments(p) :
            /\ PagesOf(Segments(p)[i]) \subseteq VPage \ StackPages
            /\ i # j => PagesOf(Segments(p)[i]) \cap PagesOf(Segments(p)[j]) = {}

(* What a byte of memory may hold.                                         *)
Garbage == <<"garbage">>
Zero    == <<"zero">>
Own     == <<"own">>         \* a program stored it
FileByte(p, i, k) == <<p, i, k>>

VARIABLES
  mode,        \* "boot", "mmio", "user", "loading", "embedded", "halted" or "panic"
  running,     \* the program that entered user mode last, or "none"
  started,     \* it has not done anything yet
  loader,      \* the call of elf64_load_and_run that is under way
  pages,       \* page -> frame, or device registers
  tables,      \* table -> frame
  memory,      \* frame -> offset -> byte
  handed_out,  \* frames pfa_alloc_low has returned so far
  next_mmio_addr, \* as a page number
  remap,       \* mmio_remap: pages mapped and pages_needed
  regions      \* what it has returned: first page, and pages asked for

space == <<pages, tables, memory, handed_out>>
mmio  == <<next_mmio_addr, remap, regions>>
vars  == <<mode, running, started, loader, space, mmio>>

-----------------------------------------------------------------------------
(* map_page                                                                *)

(* Mutant: a new table is put into the frame that is to be mapped.         *)
TableFrame_same(taken, n) == handed_out + n

(* The frame of the n-th table that map_page allocates: the frame that is  *)
(* to be mapped, if it is one, was taken before.                           *)
TableFrame(taken, n) == handed_out + taken + n

(* The levels of a page's walk that have no table yet, and the place of    *)
(* one of them among these.                                                *)
Missing(v) == {i \in 1 .. 3 : tables[Walk[v][i]] = NoFrame}

Nth(v, i) == Cardinality({j \in Missing(v) : j <= i})

(* One frame for each table that is missing.  When those run out map_page  *)
(* returns without a word and without the mapping.                         *)
map_page(v, phys, taken) ==
  LET made == {i \in Missing(v) : TableFrame(taken, Nth(v, i)) <= MaxFrames}
  IN  /\ tables' = [t \in Table |->
                      IF \E i \in made : Walk[v][i] = t
                        THEN TableFrame(taken, Nth(v, CHOOSE i \in made : Walk[v][i] = t))
                        ELSE tables[t]]
      /\ pages' = IF made = Missing(v)
                    THEN [pages EXCEPT ![v] = phys] ELSE pages
      /\ handed_out' = handed_out + taken + Cardinality(made)

(* The loader takes a frame and maps it.                                   *)
map_frame(v) == handed_out < MaxFrames /\ map_page(v, handed_out + 1, 1)

-----------------------------------------------------------------------------
(* mmio_remap                                                              *)

(* Mutant: the request is not cut.                                         *)
pages_needed_all(offset, size) == (size + offset + PAGE_SIZE - 1) \div PAGE_SIZE

(* At least one page and no more than the cap, whatever was asked for.     *)
pages_needed(offset, size) ==
  LET n == (size + offset + PAGE_SIZE - 1) \div PAGE_SIZE
  IN  IF n = 0 THEN 1 ELSE IF n > MMIO_CAP THEN MMIO_CAP ELSE n

mmio_remap(offset, size) ==
  /\ mode = "boot" /\ Len(regions) < MaxRemaps
  /\ mode' = "mmio"
  /\ remap' = [done |-> 0, needed |-> pages_needed(offset, size)]
  /\ UNCHANGED <<running, started, loader, space, next_mmio_addr, regions>>

(* Nothing looks at what lies ahead of next_mmio_addr.                     *)
remap_page ==
  /\ mode = "mmio" /\ remap.done < remap.needed
  /\ map_page(MmioPage(next_mmio_addr + remap.done),
              Registers(next_mmio_addr + remap.done), 0)
  /\ remap' = [remap EXCEPT !.done = @ + 1]
  /\ UNCHANGED <<mode, running, started, loader, memory, next_mmio_addr, regions>>

remap_done ==
  /\ mode = "mmio" /\ remap.done = remap.needed
  /\ mode' = "boot"
  /\ regions' = Append(regions, [first |-> next_mmio_addr, count |-> remap.needed])
  /\ next_mmio_addr' = next_mmio_addr + remap.needed
  /\ remap' = [done |-> 0, needed |-> 0]
  /\ UNCHANGED <<running, started, loader, space>>

-----------------------------------------------------------------------------
(* elf64_load_and_run                                                      *)

NoLoad == [prog |-> "none", by |-> "none", seg |-> 0, page |-> 0]

(* What precedes the first mapping: the file is opened, read and its       *)
(* header looked at.                                                       *)
Accepted(p) == File[p].kind = "elf"

(* The loader in front of segment n of program p, or of the stack.         *)
At(p, by, n) ==
  [prog |-> p, by |-> by, seg |-> n,
   page |-> IF n <= Len(Segments(p)) THEN page_start(Segments(p)[n]) ELSE 0]

Begin(p, by) == mode' = "loading" /\ loader' = At(p, by, 1)

(* Every return of the loader is an error.  Its callers go on: kernel_main *)
(* with the embedded shell, sys_exit with cli and hlt, and sys_exec by     *)
(* returning to the program that asked.                                    *)
AfterFailure(by) ==
  CASE by = "boot" -> "embedded"
    [] by = "exit" -> "halted"
    [] by = "exec" -> "user"

Fail ==
  /\ mode' = AfterFailure(loader.by)
  /\ loader' = NoLoad
  /\ UNCHANGED <<running, started, space, mmio>>

Loading == mode = "loading" /\ loader.seg <= Len(Segments(loader.prog))
Stacking == mode = "loading" /\ loader.seg > Len(Segments(loader.prog))

Segment == Segments(loader.prog)[loader.seg]

out_of_bounds ==
  /\ Loading /\ loader.page = page_start(Segment)
  /\ ~Segment.inside
  /\ Fail

map_segment_page ==
  /\ Loading /\ Segment.inside
  /\ loader.page < page_end(Segment)
  /\ map_frame(loader.page)
  /\ loader' = [loader EXCEPT !.page = @ + 1]
  /\ UNCHANGED <<mode, running, started, memory, mmio>>

(* OOM, for a segment or for the stack.                                    *)
no_frame ==
  /\ \/ Loading /\ Segment.inside /\ loader.page < page_end(Segment)
     \/ Stacking /\ loader.page < INIT_STACK_PAGES
  /\ handed_out = MaxFrames
  /\ Fail

(* Mutant: the end of the segment is left as it was found.                 *)
SegmentByte_no_bss(seg, k, old) ==
  IF k < seg.filesz THEN FileByte(loader.prog, loader.seg, k) ELSE old

(* elf_memcpy, then elf_memset for the rest.                               *)
SegmentByte(seg, k, old) ==
  IF k < seg.filesz THEN FileByte(loader.prog, loader.seg, k) ELSE Zero

copy_segment ==
  LET seg == Segment
  IN  /\ Loading /\ seg.inside
      /\ loader.page = page_end(seg)
      /\ \A v \in PagesOf(seg) : pages[v] # NoFrame
      /\ memory' = [f \in Frame |-> [o \in Offset |->
           IF \E k \in 0 .. seg.memsz - 1 :
                pages[PageOf(seg.vaddr + k)] = f /\ (seg.vaddr + k) % PAGE_SIZE = o
             THEN SegmentByte(seg,
                    CHOOSE k \in 0 .. seg.memsz - 1 :
                      /\ pages[PageOf(seg.vaddr + k)] = f
                      /\ (seg.vaddr + k) % PAGE_SIZE = o,
                    memory[f][o])
             ELSE memory[f][o]]]
      /\ loader' = At(loader.prog, loader.by, loader.seg + 1)
      /\ UNCHANGED <<mode, running, started, pages, tables, handed_out, mmio>>

(* The copy reaches a page map_page could not map: exc_handler_c stops the *)
(* machine.                                                                *)
copy_faults ==
  /\ Loading /\ Segment.inside
  /\ loader.page = page_end(Segment)
  /\ \E v \in PagesOf(Segment) : pages[v] = NoFrame
  /\ mode' = "panic"
  /\ loader' = NoLoad
  /\ UNCHANGED <<running, started, space, mmio>>

map_stack_page ==
  /\ Stacking /\ loader.page < INIT_STACK_PAGES
  /\ map_frame(STACK_TOP - (loader.page + 1))
  /\ loader' = [loader EXCEPT !.page = @ + 1]
  /\ UNCHANGED <<mode, running, started, memory, mmio>>

enter_user_mode ==
  /\ Stacking /\ loader.page = INIT_STACK_PAGES
  /\ mode' = "user"
  /\ running' = loader.prog
  /\ started' = TRUE
  /\ loader' = NoLoad
  /\ UNCHANGED <<space, mmio>>

-----------------------------------------------------------------------------
(* The programs                                                            *)

sys_exec(p) ==
  /\ mode = "user"
  /\ started' = FALSE
  /\ \/ Accepted(p) /\ Begin(p, "exec")
     \/ ~Accepted(p) /\ UNCHANGED <<mode, loader>>
  /\ UNCHANGED <<running, space, mmio>>

(* Mutant: the program that ended is started again.                        *)
sys_exit_same ==
  /\ mode = "user"
  /\ started' = FALSE
  /\ Begin(running, "exit")
  /\ UNCHANGED <<running, space, mmio>>

sys_exit ==
  /\ mode = "user"
  /\ started' = FALSE
  /\ IF Accepted(shell_path) THEN Begin(shell_path, "exit")
                             ELSE mode' = "halted" /\ UNCHANGED loader
  /\ UNCHANGED <<running, space, mmio>>

(* The program fills a page that it can reach.                             *)
user_store(v) ==
  /\ mode = "user" /\ pages[v] # NoFrame
  /\ memory' = [memory EXCEPT ![pages[v]] = [o \in Offset |-> Own]]
  /\ started' = FALSE
  /\ UNCHANGED <<mode, running, loader, pages, tables, handed_out, mmio>>

(* What kernel_main does when the devices are set up.                      *)
start_init ==
  /\ mode = "boot"
  /\ IF Accepted(init_path)
       THEN Begin(init_path, "boot")
       ELSE mode' = "embedded" /\ UNCHANGED loader
  /\ UNCHANGED <<running, started, space, mmio>>

Loader == \/ remap_page \/ remap_done \/ start_init
          \/ out_of_bounds \/ map_segment_page \/ no_frame \/ copy_segment
          \/ copy_faults \/ map_stack_page \/ enter_user_mode

Init ==
  /\ mode = "boot" /\ loader = NoLoad
  /\ running = "none" /\ started = FALSE
  /\ pages = [v \in VPage \cup KPage |-> IF v = KernelImage THEN Image ELSE NoFrame]
  /\ tables = [t \in Table |-> IF \E i \in 1 .. 3 : Walk[KernelImage][i] = t
                                 THEN Image ELSE NoFrame]
  /\ next_mmio_addr = 0 /\ remap = [done |-> 0, needed |-> 0] /\ regions = <<>>
  /\ memory = [f \in Frame |-> [o \in Offset |-> Garbage]]
  /\ handed_out \in 0 .. MaxFrames

Next ==
  \/ Loader
  \/ \E offset \in Offset, size \in RemapSizes : mmio_remap(offset, size)
  \/ \E p \in Program : sys_exec(p)
  \/ sys_exit
  \/ \E v \in VPage : user_store(v)

(* The loader waits for nothing.                                           *)
Spec == Init /\ [][Next]_vars /\ WF_vars(Loader)

-----------------------------------------------------------------------------
(* Properties                                                              *)

(* The loader never leaves its tables: pages, tables and the count of      *)
(* frames keep their ranges although map_page may fail at each level.      *)
TypeOK ==
  /\ mode \in {"boot", "mmio", "user", "loading", "embedded", "halted", "panic"}
  /\ running \in Program \cup {"none"}
  /\ started \in BOOLEAN
  /\ pages \in [VPage \cup KPage -> Frame \cup Device \cup {NoFrame, Image}]
  /\ tables \in [Table -> Frame \cup {NoFrame, Image}]
  /\ handed_out \in 0 .. MaxFrames

(* No frame is mapped twice and none that holds a page table is mapped:    *)
(* what a program stores never changes a table or another page, after any  *)
(* sequence of loads, whole or broken off.                                 *)
FramesPrivate ==
  /\ \A v, w \in VPage : pages[v] # NoFrame /\ pages[v] = pages[w] => v = w
  /\ \A t, u \in Table : tables[t] \in Frame /\ tables[t] = tables[u] => t = u
  /\ \A v \in VPage, t \in Table : pages[v] # NoFrame => pages[v] # tables[t]

(* The registers a driver has asked for stay mapped where mmio_remap said, *)
(* unless frames had run out, and the kernel image stays where it is:      *)
(* regions neither overlap nor grow into it, and no program is mapped over *)
(* them.                                                                   *)
RegionsKept ==
  /\ pages[KernelImage] = Image
  /\ \A i \in DOMAIN regions : \A n \in 0 .. regions[i].count - 1 :
       LET k == regions[i].first + n
       IN  pages[MmioPage(k)] = Registers(k) \/ handed_out = MaxFrames

(* A program that starts finds its own image: each byte of a segment is    *)
(* that of its file or zero, and its stack is there - whatever was loaded, *)
(* broken off or stored at those addresses before.                         *)
StartsWithItsImage ==
  started =>
    /\ \A v \in StackPages : pages[v] # NoFrame
    /\ \A i \in DOMAIN Segments(running) :
         LET seg == Segments(running)[i]
         IN  \A k \in 0 .. seg.memsz - 1 :
               LET v == PageOf(seg.vaddr + k)
                   o == (seg.vaddr + k) % PAGE_SIZE
               IN  /\ pages[v] # NoFrame
                   /\ memory[pages[v]][o] =
                        IF k < seg.filesz THEN FileByte(running, i, k) ELSE Zero

(* "re-exec the shell so we get a prompt back instead of freezing": a      *)
(* program that exits is followed by the shell, as long as frames are      *)
(* left.                                                                   *)
PromptComesBack ==
  (mode = "loading" /\ loader.by = "exit")
    ~> ((running = shell_path /\ started) \/ handed_out = MaxFrames)
=============================================================================
