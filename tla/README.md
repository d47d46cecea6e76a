# Rhoudveine OS: TLA+ models, checks and proofs

This directory holds TLA+ models of the kernel's own logic, the TLC runs that check
them on small instances, and proofs checked by TLAPS. Every definition is translated
from the C and assembly sources; `PROJECT.json` maps each one to its lines. Paths
below are relative to `src/kernel/src/impl/kernel/` unless they start with `src/`.

* [The system](#the-system)
* [Modules](#modules)
* [Runs](#runs)
* [Fairness and deadlock](#fairness-and-deadlock)
* [Refinement](#refinement)
* [Proofs](#proofs)
* [Where code and text disagree](#where-code-and-text-disagree)
* [What is not modelled](#what-is-not-modelled)
* [Plan](#plan)

## The system

Rhoudveine OS is a small x86_64 kernel: one CPU runs kernel and user code, other CPUs
are found in the ACPI tables but not started. There is no preemption. Concurrency comes
from interrupts (IRQ0 timer, IRQ1 keyboard), from devices that work on shared memory on
their own (xHCI, AHCI), and from the machine stopping between two disk writes. System calls
run with interrupts masked (SFMASK); the shell embedded in the kernel runs with them
enabled.

| Part | State | Operations | Uses | What is hard |
|---|---|---|---|---|
| Frame allocator `core/mm.c` | two bitmaps stored in RAM, counters | `mm_init`, `pfa_alloc`, `pfa_alloc_low`, `pfa_free` | boot memory map | the bitmaps lie in frames the allocator may hand out |
| Page tables `core/mm.c` | tables from `pfa_alloc_low`, next free register page | `map_page`, `mmio_remap` | frame allocator | allocation failure in the middle of a walk; register mappings grow towards the kernel image |
| VFS `fs/vfs.c` | mount table, descriptor table, root | mount, unmount, resolve, open, close, read, write, seek, readdir, mkdir, create | the file systems' callbacks | a mount that fails late, static roots shared by two mounts, listing while creating |
| ramfs `fs/ramfs.c` | node pool, child tables, page arrays | mount, finddir, readdir, create, mkdir, read, write | `pfa_alloc_low` | partial allocation, holes, index arithmetic |
| devfs, procfs `fs/` | static root and entries | mount, finddir, readdir, read | VFS | mounting again resets the one static root |
| FAT32 `fs/fat32_vfs.c` | cached FAT, FAT and clusters on disk, nodes | mount, finddir, readdir, read, write, create, mkdir | AHCI | order of disk writes, failed commands, stops, two nodes of one file |
| AHCI `drivers/ahci.c` | command slots, ports | init, read, write | PCI | polling and its timeout, commands that finish after they were given up (configured out at this commit) |
| Keyboard `drivers/ps2.c`, `drivers/usb_hid.c`, `drivers/nvec.c` | ring of characters, modifier flags, display mode | IRQ1 handler, `ps2_getchar`, `try_getchar`, report decoder | 8042, xHCI | two producers of one ring, one of them an interrupt handler; polling and the interrupt read one port |
| xHCI `drivers/xhci.c` | command, event and transfer rings, slots | init, enumeration, `usb_kbd_poll` | controller, devices | the controller is asynchronous; timeouts; events taken by whoever looks first |
| Block layer `core/blk.c` | request lists | submit, dispatch, scheduler choice | - | a request submitted while linked, order among equal deadlines |
| Scheduler `core/sched.c` | task pool, per-CPU queues | init, create, schedule, yield, tick | ACPI's CPU count | initialised before ACPI counts CPUs; queue rotation |
| ACPI `drivers/acpi.c` | tables, CPU list | init, shutdown, reboot | firmware | lengths in tables, several fall-backs |
| Timer, interrupt entry `core/timer.c`, `src/kernel/src/impl/x86_64/` | ticks, saved registers, PIC | stubs, `irq_handler`, `timer_sleep_ms`, SYSCALL entry | keyboard handler | registers preserved across an interrupt, acknowledgements, a sleep that depends on them |
| System calls, ELF, exec `core/syscall.c`, `core/elf.c` | saved contexts, load addresses | dispatcher, exec, exit | VFS, keyboard | an exec that fails after the image was overwritten |
| Boot, archive `core/main.c`, `core/tar_extract.c` | - | boot order, extraction into ramfs | VFS, ACPI, scheduler | order of initialisation |
| Shell `src/kernel/src/impl/init/main.c` | working directory, line | commands | VFS, keyboard | path normalisation |

Interactions that the models keep: ramfs takes its pages from the frame allocator and
shares it with everyone else (`RamFile`, `AllocElsewhere`); the VFS reaches ramfs, devfs
and procfs through callbacks, which are inlined in the actions of `Vfs`; `Boot` runs the
extractor and the set-up of the standard tree on the operations of `Vfs`; both keyboards
and both readers share one ring (`Keyboard`), whose interrupt handler is entered and left
as in `Intr`; the USB side of `Keyboard` sees xHCI as one outstanding transfer, and `Xhci`
models what keeps that transfer outstanding; `Fat32` sees the disk as synchronous commands
that succeed or fail, which is what `Ahci` implements (`Disk`); `kernel_main` calls
`sched_init` before `acpi_init`, and `Acpi` composes the scheduler with the tables.

What makes each part correct, and therefore what the properties say: no frame, page,
cluster or list element belongs to two owners; what was written is what is read; names
keep their meaning; events, requests and keys arrive once, in order; nothing that should
go on stops. `PROJECT.json` lists the hazards with the lines where they bite.

## Modules

| Module | Models | State and actions against the code |
|---|---|---|
| `Pfa` | `core/mm.c`, allocator | A bitmap is the set of indices whose bit says free. Placement of the bitmaps and the free loop of `mm_init` are computed from the memory map (`bitmap_placement_addr`, `Reserved`, `Managed`). `HolderWrites` is anybody writing a frame it holds: if bitmap bits live there they change. |
| `Vfs` | `fs/vfs.c`, node side of `fs/ramfs.c`, mounts of devfs and procfs | Nodes are numbered in pool order. A path is a sequence of names; `vfs_resolve_path` follows the mount pointer of each node it passes once, as the code does. `vfs_mount_fs` includes the file system's own mount, which has run when the mount point proves unusable. Names of more than 31 characters are cut in the directory entry (`ChildName`). No caller in the kernel unmounts; `MaxUnmounts` bounds how often the model does. |
| `Boot` | `core/tar_extract.c`, the part of `core/main.c` that builds the tree and finds init | Extends `Vfs`. An archive is a sequence of 512-byte blocks, each with what it would mean if it were read as a header; blocks that are contents (`body`) may look like one. `NameField` is what the code makes of a member's path: the path itself below 100 characters, above that whatever the name field alone holds. `Script` is the list of calls of `kernel_main` after the extraction, in its order. A write of file contents may fail at any time (frames), and the loader may refuse any init, one that is no program always; the embedded one then runs. |
| `RamFile` | `ramfs_read`, `ramfs_write` below `vfs_read`, `vfs_write`, `vfs_seek`, `vfs_open` | Page arrays of frames with contents. Allocation may fail in the middle of a write. A write of no byte at offset 0 wraps the page count, as in the code. History variables record what was reported as written (`written`) and which files met such a write (`emptied`). |
| `Keyboard` | `drivers/ps2.c`, `drivers/usb_hid.c`, mode of `drivers/nvec.c`, reader in `core/syscall.c` | The reader has a program counter that stops at every access to state it shares with the handler; the handler is one step that runs between any two of them unless `in_syscall`. Status and data port reads of the poller are separate steps. 8042 and USB keyboard are external. |
| `Blk` | `core/blk.c` | Lists are sequences. The guard of `blk_submit_request` that the request is not linked is the contract of its callers; the module says so. |
| `Sched` | `core/sched.c` | State and operations only; `Acpi` runs them. The list of a CPU is a sequence; the code uses the list of CPU 0 only to choose the next task, and so does the model. |
| `Acpi` | `drivers/acpi.c`, `sys_shutdown` and `sys_reboot` of `core/syscall.c`, boot order of `core/main.c` | Extends `Sched`. `fw` is the machine: tables, and which ports and registers it reacts to. Table walk entry by entry; shutdown and reboot one write to the machine per step, because the machine may go off or reset at each of them. |
| `Intr` | `src/kernel/src/impl/x86_64/isr.asm`, `syscall.asm`, `core/irq.c`, `core/idt.c`, `core/timer.c` | A register holds its own name while its value is that of the running code; stubs push, pop and move names. `rax` is split into `al` and the rest. CPU, PIC and PIT are external: interrupt gates clear IF, SYSCALL clears it by SFMASK, one non-specific EOI ends the most urgent line in service. |
| `Fat32` | `fs/fat32_vfs.c` | A cluster has `UNITS` directory slots or bytes. `op` is the operation under way: one step per disk write, each of which may fail after any of its units or FAT entries moved, and `crash_and_mount` between any two. The volume may be larger than the one page of the FAT that is read (`Covered`); `alloc_behind_cache`, the search behind that page, ends the model. `written` holds the bytes a position may have: one after a successful write, the failed one's as well after a failed write. Modelled as with AHCI configured in. |
| `Disk` | what `fs/fat32_vfs.c` expects of `ahci_read_sectors` and `ahci_write_sectors` | Abstract specification: one request at a time, data moves only during it, result 0 means all of it moved. |
| `Ahci` | `drivers/ahci.c` | `port_read` and `port_write` with a program counter at each wait; the controller copies the command of a slot when it starts it, moves data when it ends, reports an error or is late. A wait's counter keeps the values of the code, -1 included. |
| `Xhci` | `drivers/xhci.c` | Rings are functions from index to TRB with cycle bit. The driver is one process (`Driver`) that takes the controller from the firmware, resets and starts it, blocks on the event ring during enumeration and polls afterwards, the controller another (`Controller`) that has its own dequeue pointers and sees only TRBs whose cycle bit fits. Timeouts are a choice at each wait; the controller may answer after them. `hc` holds its control registers, and `hc.wild` whether it was reset while it still ran and has not recovered: the source says this must not be done, warns, and does it. |
| `Exec` | `sys_exec`, `sys_exit` of `core/syscall.c`, `core/elf.c`, `map_page` and `mmio_remap` of `core/mm.c`, start of init in `kernel_main` | One address space: page -> frame, table -> frame, frame -> bytes. The loader goes page by page; `map_page` takes a frame for each missing table and gives up silently when there is none. A page that is not mapped stops the machine in the copy (`copy_faults`). `user_store` is the running program overwriting its memory. Before init starts, drivers call `mmio_remap`, which maps page after page upwards and never more than its cap per call. `Init` has any number of frames already handed out. Segments share no page with each other or with the stack, as in every program of the root file system. |

`MCPfa`, `MCVfs`, `MCRamFile`, `MCKeyboard`, `MCBlk`, `MCFat32`, `MCExec`, `MCAcpi` (machines)
and `MCBoot` (archives) only define values for constants and symmetry sets; `Ahci`, `Intr`
and `Xhci` get theirs from the configuration alone. The modules named `...Proofs` hold the theorems. Operators
marked `Mutant` in comments are deliberately wrong variants of the definition that
follows; each property is checked to fail when one of them takes its place.

## Runs

Passing runs explore every state of their instance.

| Run | Instance | Distinct states | Shows |
|---|---|---|---|
| `pfa` | 6 low pages and 3 above, 3 bits per page of bitmap, 2 reserved pages, counters modulo 4 | 1.9 M | Below 4 GB free and held frames partition the managed RAM whatever holders write, and real RAM is served before indices that are not RAM. |
| `vfs` | 3 ramfs nodes, 1 static file system, 2 mounts, 5 paths, 1 descriptor, 1 unmount | 108 k | Listings interrupted by creations are prefixes of the directory; paths keep their meaning except under a successful mount at a prefix, or an unmount. |
| `ramfile` | 2 files, 2 descriptors, 2 pages of 2 bytes, 3 frames, writes of 0, 1 and 3 bytes, seeks to 0 and 3 | 93 k | No page is shared, every position below the size has a page, reads return what was written, of every file that met no empty write at offset 0; such a write damages no other file. |
| `keyboard` | ring of 3, 3 scancodes or reports out of 11 and 3 | 188 k | With interrupts masked nothing is lost; with them enabled what arrives is in order; input is always read. |
| `blk` | 3 reads, 2 writes, 2 deadlines, 7 submissions | 58 k | Lists never become cycles and stay sorted; the earliest request is dispatched. |
| `sched` | 43 machines (`MCAcpi`), 2 tasks, 2 CPUs, slice 2, 3 ticks, 2 polls | 40 k | The boot passes ACPI with the right CPUs; no task is lost or queued twice; round robin starves nobody; `shutdown` and `reboot` stop or reset every machine, and switch off those that one of the methods suits. |
| `fat32` | 7 clusters of 2 units with 6 cached, 2 nodes, a short and a long name, 2 bytes | 511 k | Chains stay disjoint in memory, and on disk at every moment; reads return writes, also where a failed command moved part of its data. |
| `xhci` | 2 ports, command ring 7, event ring 3, transfer ring 5, 5 reports, 1 failure, 1 port event | 577 k | The controller is in the driver's hands when ports are enumerated, however late it reset or started, unless it was reset while it still ran and went wild; the event ring is a queue; answers match commands unless a wait timed out; reports are processed once; the keyboard goes on working. |
| `exec` | 14 frames, 5 virtual pages of 2 bytes, 2 stack pages, 2 register mappings of up to 2 pages below a kernel image at page 4, 6 paths (init, shell, a tool with two segments, a truncated program, a text file, no file) | 226 k | No frame is mapped twice or serves as table and page; register mappings stay where drivers were told and spare the kernel image; a program that starts finds its own image and stack; after an exit the shell comes back while frames are left. |
| `boot` | 23 archives (`MCBoot`), 12 nodes, blocks of 2 bytes | 1.5 k | Every file of an archive is reported as failed or can be read under the name its name field spells; DeviceFS and ProcessFS are found at their places; the boot gets to an init: the archive's own is handed to the loader exactly if it was extracted and is not empty, and in every other case, a refusal by the loader included, the embedded one runs. |
| `ahci` | 2 slots, 2 ports, 2 sectors, 1 buffer, 3 requests, 1 and 2 polls | 435 k | The driver implements `Disk`; no slot is reused while the controller owns it; every request returns. |
| `intr` | timer and keyboard line, sleeps of up to 2 ticks | 848 | Registers and arguments survive interrupts and system calls (but for `al`); requests are served; sleeps end. |

Why the bounds are enough for the cases the properties are about:

* `pfa`: the reserved pages store exactly the low bits, as 32 pages do in the code; the
  rest of `low_bitmap` and all of `bitmap` lie in frames that are handed out, one region
  crosses the 4 GB line, one starts at address 0, ends are not page aligned, and the
  counters wrap.
* `vfs`: the node pool, the child table (2), the static root and the mount table all
  run full; mounts nest; a path with a trailing slash and a name that is cut are included.
* `ramfile`: writes inside a page, across pages and after a hole; 3 frames for 4 pages,
  so that allocation fails at each point; another user takes frames in between; an empty
  write takes both pages of a file.
* `keyboard`: a ring of 3 holds 2 characters and is both wrapped and full within three
  keys; two characters of one report reach `input_add_char` in a row.
* `blk`: equal and different deadlines in one queue, resubmission after dispatch.
* `fat32`: a directory that must grow, a file of two clusters, an allocator that runs past
  its page, a partial cluster rewrite, two nodes for one file. Clusters and FAT writes are
  cut at every place where a failing command can stop; two bytes tell old from new. The
  search behind the page may also find nothing, which is how a volume ends whose FAT
  is cached whole.
* `xhci`: the event ring wraps several times and its controller side runs full, the
  transfer ring passes its link TRB, the second port is enumerated while the first has a
  working keyboard, any wait may time out. The command ring has room for all commands of
  two ports; it never wraps in the code either.
* `sched`: each machine differs from a plain one in one respect, or in two that meet in one
  step: no tables, either root table, disabled, unknown and too many entries in the MADT,
  an entry of length zero, an entry whose body looks like a CPU, each kind of `_S5_`, one,
  two or no PM1 blocks, every emulator port, with and without an 8042 and a reset register.
  Two tasks and a slice of 2 are enough for a rotation and a slice that starts again.
* `exec`: loading init takes 9 frames (3 tables for the program, 3 for the stack, 3
  pages), and exits take the others. Since `Init` starts from any count of frames,
  memory runs out at each allocation, those of the tables included. The tool's second
  segment starts in the middle of a page, crosses into another and ends in zeros. Two
  register mappings cut to the cap of 2 pages just reach the kernel image, as eight of
  64 pages do in the code; the drivers of the tree make one.
* `boot`: archives with and without entries for directories, file sizes at and next to a
  multiple of the block, contents that look like a header, a name that is cut, a file as
  the parent of a file, a member twice, also emptied by the second, no end mark, more
  members than nodes, and an init that is no program. Of long paths there are two with the same first
  100 characters, with and without the record in which GNU tar spells them, and one
  whose beginning ustar puts into `prefix`.
* `ahci`: with 2 slots the second has no command table, as all but the first have none in
  the code; the third request finds a slot, none, or one the controller still owns; both
  poll counters run out, also in the very poll in which the command completes.
* `intr`: both lines may request at any moment, in program, kernel and stubs; a second tick
  arrives during the sleep.

Symmetry is used in `ramfile` (files, descriptors, bytes) and `fat32` (nodes, bytes), in runs
without liveness properties.

## Fairness and deadlock

* `Keyboard`, weak fairness of the reader: `ps2_getchar` loops without waiting for anything,
  and the shell calls `try_getchar` in an endless loop. Nothing is assumed of the interrupt:
  `InputIsRead` holds although IRQ1 may never be delivered.
* `Acpi`, weak fairness of the boot steps and of the steps of a shutdown or reboot, which
  run unconditionally. That somebody keeps calling `sched_schedule` is not guaranteed by
  the code and therefore is the hypothesis of `NoTaskStarves`, not part of the
  specification.
* `Boot`, weak fairness of `kernel_main`, which waits for nothing.
* `Ahci`, weak fairness of the driver only: its loops are bounded. Nothing is assumed of
  controller and drive, which may hang.
* `Intr`, weak fairness of the stubs and of the `sti` of `kernel_main` (the CPU goes on),
  strong fairness of taking an interrupt and of the test in the loop of `timer_sleep_ms`
  (both are possible again and again, between two ticks that are 10 ms apart), weak
  fairness of the PIT's requests. Whether a system call returns is not assumed.
* `Xhci`, weak fairness of the driver (it never waits for ever: every loop has a bound and
  the readers poll for ever) and of the controller and its devices: someone types, and the
  hardware works. Completion of commands before the driver's timeout is not assumed.
  Nothing is assumed of its halt, reset and start: a controller that went wild serves
  no ring, so no device is ever addressed on it.
* `Exec`, weak fairness of the loader, which waits for nothing. Nothing is assumed of
  programs: one may run for ever.
* `Pfa`, `Vfs`, `RamFile`, `Blk`, `Fat32` state safety only and have no fairness.

Deadlock is checked except in `Blk` and `Ahci`, whose bounds on requests let the system
come to rest, `Fat32`, which ends where the code reads behind its page, `Xhci`, which is idle when no key is left to type, `Boot`, which ends, and
`Exec`, `Acpi` and `Intr`, where the machine may halt, go off, or stop in an exception.

## Refinement

`SynchronousDisk` says that `Ahci` implements `Disk` (`D == INSTANCE Disk WITH call <- req,
broken <- expired`, the other variables have the same names). A request of the driver is
one of the abstract disk from its entry to its return; `hba_finish` is `Transfer`, of part
of the data if the command fails; a return value of 0 requires all of it. Submission and
refusal are one step each; polling stutters. `broken` is set by the poll that runs out:
from then on nothing is promised, because the command goes on and may move data into a
buffer the caller uses again, and because `port_read` then returns 0 (see below). `Fat32`
uses the disk under this promise and no more: a command that failed has moved any part of its
data, in `WriteCluster` and `FatPartlyWritten` as in `Transfer`. TLC checks the mapping on the instance of the run
`ahci`, and `StorageProofs` proves it: the initial states agree, and `StepRefines` takes each
action to its step of `Disk` or to a stutter.

## Proofs

A proof module extends the module or the two modules it is about (`StorageProofs`: `Blk`
and `Ahci`; `CpuProofs`: `Sched` with `Acpi`, and `Intr`; `InputProofs`: `Keyboard` and
`Xhci`; `VfsProofs`: `Vfs`, and `Boot`, which extends it) and states its theorems for every value of the constants that satisfies the
assumptions. Each has an inductive invariant
`Inv`, which TLC checks on the instance of the run as well (its parts that are
properties of the run as such, the others when the proof was made); `InitInv` and
`InvStep` (in `Fat32Proofs` the steps of `Invariance`) show it inductive, one lemma or case
per action, and `Invariance` is `Spec => []Inv`. Where a proof module is about two
components, the second has names of its own (`BootInv`, `BootStarts`, `BootStep`,
`BootAlways`; `KbdInv`). The theorems that follow:

| Module | Theorem | States |
|---|---|---|
| `PfaProofs` | `TypeCorrect`, `LowPartition`, `LowRamFirst` | `TypeOK`, `LowFramesPartitioned`, `LowRamServedFirst` |
| `StorageProofs` | `NoCycle`, `QueuesOrdered`, `DispatchIsEarliest` about `Blk`; `TypeCorrect`, `SlotsStayPrivate`, `DriverIsSynchronousDisk` about `Ahci` | `LinkedOnce`, `DeadlineOrder`, `EarliestFirst`; `TypeOK`, `SlotsPrivate`, `SynchronousDisk` |
| `RamFileProofs` | `TypeCorrect`, `PagesStayPrivate`, `SizeIsCovered`, `WritesAreReadBack` | `TypeOK`, `PagesPrivate`, `PagesCoverSize`, `ReadsReturnWrites` |
| `ExecProofs` | `TypeCorrect`, `FramesStayPrivate`, `RegionsStay`, `ProgramsStartWhole` | `TypeOK`, `FramesPrivate`, `RegionsKept`, `StartsWithItsImage` |
| `VfsProofs` | `TypeCorrect`, `ListingsFollow`, `PathsKeepMeaning` about `Vfs`; `ArchiveExtracted`, `RuntimeComplete` about `Boot` | `TypeOK`, `ListingIsPrefix`, `ResolutionStable`; `ExtractionExact`, `RuntimeReachable` |
| `InputProofs` | `RingTypeCorrect`, `RingYieldsInOrder`, `MaskedRingLosesNothing` about `Keyboard`; `ControllerIsOwned`, `EventsAreInOrder`, `AnswersAreMatched`, `ReportsAreProcessedOnce` about `Xhci` | `TypeOK`, `DeliveredInOrder`, `MaskedKeysDelivered`; `DriverOwns`, `EventsInOrder`, `AnswersMatch`, `ReportsProcessedOnce` |
| `CpuProofs` | `TypeCorrect`, `TasksStayQueued` about `Sched` with `Acpi`; `ContextKept`, `IntrTypeCorrect` about `Intr` | `TypeOK`, `EachTaskQueuedOnce`; `ContextPreserved`, `IntrTypeOK` |
| `Fat32Proofs` | `OwnersKept`, `DiskSound`, `ReadBack` | `ChainsDisjoint`, `CrashConsistent`, `ReadsReturnWrites` |

**Allocator.** Assumptions, all in `Pfa`: the ranges of the constants
(`PfaConstants`); the reserved pages store the bits of all pages below 4 GB
(`LowBitsReserved`: 32 pages of 32768 bits are exactly 2^20); the counters can count the
managed frames (`CounterWidth`); the bitmaps are placed below 4 GB (`PlacedLow`). The
inductive invariant is `Inv == TypeOK /\ LowFramesPartitioned`: the partition is needed
to see that a holder never holds a reserved frame, which with the lemma
`LowBitsAreReserved` (every low bit is stored in a reserved frame) shows that
`HolderWrites` cannot change a low bit. That is why the allocator survives the
reservation being four times too small as long as only frames below 4 GB are concerned.

**Virtual file system.** For every set of names, paths and static file systems and any
number of nodes, mounts and descriptors. `TreeInv` describes the tree: nothing in it is
unused (`UsedOnly`), nodes are taken in order, so that a new one is nobody's child
(`PoolInOrder`), every node has one name in one directory of its own file system, and roots
are nobody's children (`TreeShape`); `MountShape` says, until something is unmounted, that
mount points refer to slots in use and that a ramfs root hangs at one place.
`ListingIsPrefix` needs besides that descriptors refer to nodes in use and that no offset
runs past its directory.

`ResolutionStable` is about whole paths. `Walk` and `Components` are recursive functions on
the places of a path; `RecursionExists` and `RecursionTypes` show by the least
counterexample that such a recursion defines a function, and from then on a walk is known
by its steps (`ResolveAll`). As directories only grow at their ends, a component that led
somewhere leads there again (`DescendAgain`), so a path that changes its meaning has a first
place where it turns off (`FirstChange`), and there a mount pointer was set. That node is the
mount point, to which the mounted path led. To conclude that this path is a prefix
of the changed one takes `OneName`: while nothing has been unmounted two walks that end on
one ramfs node took the same names, empty ones aside. It is the reason for
most of `TreeShape` and `MountShape`. A path into a static file system needs none of it, as
no mount point lies below a static root.

**Archive and boot.** `Boot` takes the steps of `Vfs` through the calls of `kernel_main`,
so the invariant of the file system is one part of `BootInv` (`TreeSound`). The assumptions are
those of `Vfs` and three more, which TLC evaluates on the archives of the run:
`ArchivesOfTar` (the blocks behind a header are contents up to the size it states and no
further, the name of a file has no empty part, directories may end in a slash, and no file
is larger than the 512 KB of a page array; `NameRead`, what the name field of a path of 100
characters or more reads as, is arbitrary), `StandardNames` (no name is cut to one of the standard tree), and in `BootConstants` that a
directory can hold every node of the pool (64 and 64), a static file system the entries
made in it, and the mount table three mounts. `BootInv` says besides where the walk through the archive is (`WalkPlace`: at a
header, with everything before it reported), that at most the descriptor of the file being
written is open (`OneFd`), which mounts have been made (`MountsSoFar`), and what has been
achieved: `FilesKept` (the name an extracted file was given leads to its bytes until it is replaced or
mounted over), `DirsMade` and `RuntimeMade` (each line of the script that has run has had
its effect).

Three arguments carry it. `SamePath`: two paths without empty names that lead to one ramfs
node are the same path, which follows from `OneName` above; so truncating and writing the
file of one block leaves the bytes of all others alone. Two long paths that read as one name
are one file here as in the code, the later of which counts. `FilesNamed`: every file was created for a
block of the archive, in the directory its path names; so a file that is where a standard
directory should be is one of the archive, which is the exception that `RuntimeReachable` makes. And a
mount changes only paths that its own path is a prefix of (`ResolutionStable`, in the form the
single step needs), so the second mount leaves the first one and the files beside it
reachable. `ChildrenCounted` (a directory has fewer children than there are nodes) excludes
that a directory fills up before the pool does; with a smaller `RAMFS_MAX_CHILDREN` a full
directory would be a further exception.

**Keyboard ring.** For every ring size from 2 on, every set of keys, scancodes and reports;
`KeyboardConstants` says that a report holds finitely many keys (boot protocol reports
hold six). `Line` is what has left the ring followed by what is in it. `BeingAdded` says that
the reader is inside `input_add_char`, found room, and that no interrupt has added a character
since; it is told from the indices alone, by the reader's copy of the successor being one
ahead of the head. The invariant `KbdInv` has two statements about `Line`: it is a
subsequence of what was accepted, also with the character that is being added at its end
(`InOrder`), and in a system call it is all of it (`NoneLost`). The steps are put in terms of
`Line`: the handler and the end of `input_add_char` append to it (`LineGrows`), taking a
character leaves it (`LineTaken`), and when the reader sets the head to a successor that an
interrupt has overtaken, `Line` is cut at its end or stays (`LineCut`). This last case is
how a key is lost, and it is why nothing stale is read even then: the head stays or goes back.

**Block layer.** For every set of requests and every assignment of deadlines.
`QueueInv == BlkTypeOK /\ LinkedOnce /\ StampsPast /\ DeadlineOrder`; `StampsPast` (submission
numbers of queued requests lie in the past) makes a new request come after those with
its deadline. Lemmas describe what linking at a place and unlinking the head do to
length, elements and order of a sequence.

**ramfs files.** For every number of files and descriptors and all sizes of pages and
page arrays; `RamFileConstants` bounds writes to the page array, because the code does
not. Two parts are added to the properties: `PagesHandedOut` (a frame in use has left
the allocator) makes the frame of a new page different from all others;
`WrittenIsThere` (a byte reported as written lies below the size and in its frame) is
what a read needs, and needs `PagesCoverSize` in turn to know that the page of a
byte stays below `num_pages`, where no later allocation replaces it. `EndPageValue`
does the arithmetic of the last page, including the write of no byte at offset 0 whose
page number wraps; such a file is in `emptied` from then on, and the proof shows that no
other file notices.

**AHCI.** For every number of slots, sectors and polls. Assumptions: `AhciConstants`, and that
the value for "no request" is not a request (`IdleIsNothing`). `SlotsOwned` ties the command
the controller works on to `PxCI` and to a table that was written, and says that nothing
runs after an error. `OneAtATime` holds while no request has outlived its polls: the
only command is that of the request under way, in slot 0, and a wait that sees `PxCI`
clear ends after the data moved. It is what makes the driver synchronous:
`DriverIsSynchronousDisk` maps each step to one of `Disk` or a stutter (see
Refinement). `SlotsPrivate` is proved without that condition, after any number of requests
that timed out or failed.

**Page tables and exec.** For every root file system, page size, layout of page
tables, number of frames and number of MMIO pages. `ExecConstants` states what the
module takes for granted: segments share no page with each other or with the stack,
file bytes do not exceed memory bytes, the pages of the stack have the same tables,
`mmio_remap` is not called so often that its regions could reach the kernel image. The
invariant has three groups. `SpaceInv`: frames in use have left the allocator, so
that new ones are private, and the loader is at a page of its segment. `RemapInv`:
regions lie below `next_mmio_addr`, which stays below the kernel image as calls and
pages per call are bounded. `ImageInv`: what the loader has done so far - the first
segments are in memory, the pages of the stack are mapped. The lemma `MapPageStep`
describes all of `map_page` for the other proofs: different missing tables get
different frames in order, and either the page is mapped with all its tables or all
frames are used up. The proof found a case that is easily overlooked: a stack page of
which `map_page` could not allocate a table is missing without a word. It is harmless
only because all stack pages share their tables, so that the next one finds no
frame, and the load fails there; with a stack of one page the program would start
without it, which is why `ExecConstants` asks for two (the code has four).

**xHCI.** For all ring sizes from the smallest on and any number of ports. `HandedOver` follows
the control registers through the phases of `xhci_init`: the reset over before rings are
given, the run bit set after them, and all of it only if the controller is not `wild`, which it
becomes exactly when the reset is issued before it halted. `EventRing` relates the two
ends of the event ring: the cycle state of the controller equals that of the driver
exactly when it is in the same lap, every TRB before its place carries its cycle and
the others the opposite, `ERDP` lies behind the driver, and the TRBs from the driver to
the controller are the events posted and not taken. The proofs walk around the ring
with `Ahead` (the distance between two places) rather than with `%`. `CommandRing`
says that commands lie in the ring in the order of their numbers. It holds because the
ring is never wrapped: `xhci_send_command` refuses a command when the next place is that
of the Link TRB, the place is kept, and every later command is refused as well; the
toggle of `cmd_cycle` never happens. `OneCommand` then gives `AnswersMatch`: until a wait
for a command times out, at most one command or one answer is under way.

`ReportsAreProcessedOnce` needs `KeyboardInv`, which joins the transfer rings, the report
buffer and the event ring over all phases of enumeration: no keyboard yet, `Describing`
(the descriptor's transfers are on EP0), `Described` before and after the endpoint is
configured. It speaks of the time while `Undisturbed`: one device was addressed and no event
was thrown away, which is when the property says anything; `UndisturbedBefore` shows that
this is never regained once lost. In the last phase `TransferRing` describes the two
laps on the ring of the endpoint, and `OneTransfer` says where the one transfer is: queued,
taken up by the endpoint, or done with its event not taken, in which case the report
waits exactly if the event is a success. In `Described` the endpoint of EP0 has passed the
place where `xhci_set_boot_protocol` writes its three stages, so that no event comes from
there: the request is never carried out, and the proof relies on that.

**Scheduler.** For every machine (`Firmware` is arbitrary), any number of CPUs and
tasks, with power management in between. `CpusCounted` says that `sched_init` has counted
one CPU, as it runs before `acpi_init`; `QueuedAtItsCpu` and `LinkedOnce` say that a task
is in the queue of its CPU, there once, and in no other. `Rotation` describes what the
rotation in `sched_schedule` does to a queue. `TimeAccounted` (no task has run longer
than all together) bounds run times, which `TypeOK` needs.

**Interrupt and system call stubs.** The invariant `ContextInv` says for each stage of each
stub where the registers are: those the interrupted code relies on are in place before
the stub pushed and after it popped, and on the stack in between, each at the place of
its name in `IrqPushed` or `SyscallPushed`. `IrqRestores` and `CallRestores` show that popping
in the order of the code finds each register's own value (`IrqOrder`: the two lists are
each other's reverse; `IrqCovers`: only `rsp` is in neither). `IFlag => mode \in {"kernel",
"user"}` is what keeps interrupts out of the stubs, whose one static stack would
otherwise be used twice. `IntrTypeCorrect` bounds the stacks.

**FAT32.** For every set of names and every sequence of operations, failed commands and
stops, up to the allocation that searches behind the cached page. Assumptions:
`Fat32Constants`; `ClustersFitPage`, as clusters are read and written in buffers of one page;
`FilesAreCached`: however large the volume, its files and directories lie in the clusters
whose FAT entries `fat32_mount` reads (8 sectors, 1024 entries). `fat32_mount` checks
neither, so both are limits of the theorems, not of the code: a volume larger than
4 MB (1024 clusters of a page) is within them only if all its files lie in its first 4 MB.
And `FormattedDisk`: the volume that is mounted first is sound. Its files and directories
start with clusters of their own, no link leads there, and no two links lead to one
cluster. Nothing is assumed of the chains themselves; in particular the tables may
hold clusters that nothing refers to.

The three properties speak of whole chains, and of those a step changes many at once.
The invariant therefore speaks of single links: `Linked` (a table leads to a cluster at
most once, and never to a free one) and `Starts` (no link leads to what a file or a directory
starts with), for the cached table and for the one on disk. `FileStart` and `DirStart` say
which clusters these are: those an entry on disk or a node names, the directory that is
being made, and files written through a node that is gone, whose first cluster never
reached the disk. The lemma `SoundTable` gets the chains back: from such starts they end
(`ChainEnds`, as a chain without end would pass a cluster twice), and two of them share
no cluster (`ChainsApart`, from the first place where they would meet). Induction along a
chain is made by way of the least counterexample, which `MinOfSet` gets from the library's
theorem on well-founded orders.

Three more parts carry the steps. `Keeps` (a link on disk is in the cache too) is what
`crash_and_mount` needs: the table that is read back has no link that the cache had not.
It holds because the cache is changed before the disk and nothing is ever freed.
`Creating`, `Writing` and `Extending` say what an operation relies on between two
commands, such as that the place it keeps is still a cluster of its chain, and that what it
links to the end was just allocated and is known to nobody. `Apart` (no file starts where
a directory does) keeps data out of directories. `Lags` says what holds of the
table on disk also when a FAT write failed halfway: what is in use there is in use in the cache,
and no link was written before the mark of the cluster it leads to. `Stored` follows every byte written to its place in its chain; after
a failed write a position has two possible bytes, and after a rewrite whose read failed
the rest of that cluster has none, the only loss `ReadsReturnWrites` excepts.
`MarkedTable` and `LinkedTable` say what the two changes of a table, marking a free
cluster and linking it, do to all chains.

Every safety property that a run checks, invariant or action property, is also proved.
Only model-checked are the liveness properties, which are out of the prover's reach:
`InputIsRead`, `KeyboardKeepsWorking`, `NoTaskStarves`, `CpusMatchMadt`,
`ShutdownPowersOff`, `RebootResets`, `PromptComesBack`, `InitFromArchive`,
`RequestsReturn`, `RequestsServed`, `SleepEnds`.

Of the type invariants only that of `Pfa` is listed in a run; those of the other modules
that have one are proved for every instance.

## Where code and text disagree

Met while modelling; the modules keep what the code does.

* `core/mm.c:292`: `mm_init` reserves 32 pages for 128 pages of bitmaps, while it prints what
  the bitmaps occupy. Frames that hold bits of frames above 4 GB are handed out;
  `LowFramesPartitioned` is what survives.
* `drivers/ps2.c:9`: "both PS/2 and USB feed the same queue", but `input_add_char` (`:25`) is
  not protected against the handler: an interrupt inside it loses a key. Nothing is lost
  with interrupts masked (`MaskedKeysDelivered`).
* `drivers/xhci.c:1181`: "Requeue regardless of success/failure", but enumeration (`:788`)
  throws events away, that of a keyboard which is set up included; its transfer is then
  never queued again.
* `core/mm.c:82`: every `pfa_free` raises the total counters and no allocation lowers them, so
  the total that is reported grows with each alloc and free pair.
* `fs/vfs.c:174`, `:278`: a second mount on one path succeeds and is never seen. `:181`: the
  reference count of a mount is never raised, so the busy test of unmount never refuses.
* `fs/ramfs.c:276`: names are cut to 31 characters in the entry, and a longer name is not
  found again. `:105`: a write of no byte at offset 0 takes all 128 pages and makes
  `num_pages` 0, after which contents are lost; so does an empty file of the archive.
  `:118`: nothing bounds a write to 512 KB.
* `drivers/usb_hid.c:217`, `:227`: "Ctrl+Alt+F10", but Ctrl+F10 without Alt toggles the mode as
  well; and while a system call waits in graphics mode USB is not polled, so a USB keyboard
  cannot leave it (`drivers/ps2.c:224`).
  `drivers/ps2.c:122`, `:134`: the prefix 0xE0 is taken as a break code first.
* `core/sched.c:30`: "we already parsed this in acpi.c", but `kernel_main` calls `sched_init`
  (`core/main.c:749`) before `acpi_init` (`:774`), so it sees one CPU.
* `drivers/ahci.c:271`: the test for a counter of 0 misses the -1 that an expired wait
  leaves, so a request that ran out of polls returns 0. `:265`: after a task file error the
  port is never restarted, and of the slots that later requests take only the first has a
  command table.
* `src/kernel/src/impl/x86_64/isr.asm:53`: the EOI goes through `al` after `rax` was restored,
  so interrupted code goes on with 0x20 in `al`. A program interrupted between loading the
  number of a system call and `syscall` makes another call.
* `drivers/acpi.c:282`: an entry of length 0 in the MADT keeps the boot in the walk. The
  guess 13 for the sleep type is written to a field of three bits and means 5. `int 0x15`
  is an exception vector here, so "All shutdown methods failed" is never reached.
  `sys_reboot` waits without a limit for an 8042 that may not exist.
* `drivers/xhci.c:455`: "Intel Comet Lake requires HCH before HCRST", but when the wait for
  HCH runs out, `:463` prints a warning and `:470` resets the controller all the same.
  `DriverOwns` excepts a controller that does not recover from that.
* `core/tar_extract.c:102`: the name of a member is its 100-byte name field, which has no end
  when it is full and then runs into `mode`; `prefix` (`:45`) and the records in which GNU tar,
  which `src/Makefile:36` calls, spells longer paths are passed over. A file with a path of
  100 characters or more is created under another name, and main.c counts it as extracted.
* `core/main.c:929`: "Falling back to embedded init" is said of an init that is not found, but an
  init that the loader refuses or an empty one (`:922`, `:926`) ends there too.
* `drivers/xhci.c:523`: "Allocate contiguously", but only the first address of each pool is
  kept, and nothing checks that the frames that follow are adjacent.
  `:1078`: the SET_PROTOCOL TRBs are written behind the controller's dequeue
  pointer and never executed. `:298`: a late completion answers the next command. Every
  addressed device becomes the keyboard; a second device takes over. `:123`: "usable TRBs =
  SIZE - 1", but the test at `:244` refuses the last of them, so SIZE - 2 commands can be
  sent in all and the ring never wraps.
* `fs/fat32_vfs.c:973`: "fail if anything exists with that name", but a directory that grew
  past a free slot hides its later entries from the search (`:848`), and a name can be
  created twice.
* `core/syscall.c:63`: "get a prompt back instead of freezing", but frames of programs are
  never freed (`core/elf.c:182`), so `sys_exit` halts in the end. A load that fails after its
  first page returns to a caller whose pages were replaced. Of two segments that share a
  page, the second would replace the first one's bytes; no program of the tree has such.
* `fs/fat32_vfs.c:348`: first cluster and size of a written file never reach its directory
  entry.
* `fs/fat32_vfs.c:1154`: "only cache first page of FAT ... This limits us but prevents memory
  issues", but `:92` and `:122` write the whole FAT from that page, so that the memory behind it
  lands over the other entries on disk, and `:84` searches behind the page for a free entry.
  `:1127` accepts clusters of up to 128 sectors, while every cluster buffer is one page of 8.
  `:81` counts the sectors in front of the data as clusters, so the last ones it hands
  out may lie behind the end of the volume.

## What is not modelled

* Console, framebuffer, serial, drawing, the text of procfs and of panic screens, logging:
  pure output. PCI enumeration and `cpufreq`: reads of registers and tables.
* Vnode registries: append-only tables printed on request.
* User programs: outside the kernel, except as callers. The shell's parsing and path
  normalisation are text processing. The working directory of `chdir`; `open`, `close`, `fork`,
  `waitpid`, `sbrk` and `stat`, which are stubs without state.
* Addresses of the contexts and rings of xHCI; hubs; detach.
* Long names beyond their number of slots, time stamps, and `.`/`..` in FAT32.
* What a wild xHCI controller writes to memory.
* FAT32 volumes with files outside the cached page of the FAT, what an allocation finds behind
  that page, and clusters larger than a page: the driver then reads and writes memory that
  is not its own.
* A write past 512 KB in ramfs, also by the extraction of a larger file, and a submission of
  a linked block request: what follows is undefined or a broken list; the modules exclude both
  and say so.

Share of the repository: of its 63 k implementation lines 50 k are three generated tables,
the PCI and USB name databases (`include/pci_db_generated.h`, `include/usb_db.h`) and a font
(`include/gallant12x22.h`). They are data that no operation changes, and `include/limine.h` is
the header of the boot loader. Of the other 13 k lines the models stand for 5.3 k; most
of the rest draws, prints, declares or parses text.

## Plan

Order: shared resources first (allocator, files, input), then devices, then program
execution, then proofs.

1. Done: `Pfa`, `Vfs`, `Boot`, `RamFile`, `Keyboard`, `Blk`, `Sched` with `Acpi`, `Fat32`,
   `Disk` and `Ahci`, `Xhci`, `Exec`, `Intr`; proofs about all of them: every safety property of
   the runs, and the refinement of `Disk` by `Ahci`.
2. Further abstractions: a FIFO queue that the keyboard ring implements with interrupts
   masked, and one that the event ring of `Xhci` implements; the outstanding transfer of
   `Keyboard` as an abstraction of the transfer ring.
3. Possible extensions: the frames of the xHCI pools as a client of `Pfa`, the vnode
   registries, the working directory of system calls.
