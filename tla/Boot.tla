-------------------------------- MODULE Boot --------------------------------
(***************************************************************************)
(* How kernel_main fills the file system: tar_extract_all of tar_extract.c *)
(* walks rootfs.tar, rootfs_extract_callback of main.c creates its files   *)
(* in ramfs, then the standard directories are made, DeviceFS and          *)
(* ProcessFS mounted and filled, and init is looked up.  The operations    *)
(* are those of module Vfs; no interrupt handler uses the file system, so  *)
(* nothing runs in between.                                                *)
(*                                                                         *)
(* The archive is a sequence of blocks.  Any block can be read as a        *)
(* header; body marks those that belong to a file, which the code cannot   *)
(* see.  A path is one without its first slash.                            *)
(*                                                                         *)
(* The code takes the 100 bytes of the name field for a C string and looks *)
(* neither at prefix nor at the records in which GNU tar spells a longer   *)
(* path.  From 100 characters on it therefore reads something else than    *)
(* the member's path: its beginning run into the mode field, or its end    *)
(* without the prefix.                                                     *)
(***************************************************************************)
EXTENDS Vfs

CONSTANTS
  Archives,   \* sequences of blocks; the loader may also give none: <<>>
  NameRead,   \* path of 100 characters or more -> what the name field reads as
  Dot,        \* the name "."
  MAX_FILE,   \* 512 KB, the bytes that pages[] of a ramfs file covers
  BLOCK       \* 512, bytes in a block

ASSUME BootConstants ==
  /\ BLOCK \in Nat \ {0} /\ MAX_FILE \in Nat
  /\ Dot \in Names \ {EmptyName}
  /\ StaticFs = {"DeviceFS", "ProcessFS"}
  /\ RAMFS_MAX_CHILDREN >= MAX_RAMFS_NODES /\ MAX_STATIC_NODES >= 4 /\ MAX_MOUNTS >= 3

(* What the code reads as the name of a member.                            *)
NameField(path) == IF path \in DOMAIN NameRead THEN NameRead[path] ELSE path

(* An archive as tar makes it of a directory, in any of its formats: the   *)
(* name of a file has no empty part, and its contents, and nothing else,   *)
(* lie behind its header.  elf: the bytes behind it begin like a program.  *)
(* Nothing refuses a larger file; its copy would leave the array of pages. *)
ASSUME ArchivesOfTar ==
  /\ NameRead \in [DOMAIN NameRead -> Seq(Names)]
  /\ \A a \in Archives :
       /\ a \in Seq([type : {"file", "dir", "other"}, path : Seq(Names), size : Nat,
                     body : BOOLEAN, elf : BOOLEAN])
       /\ a # <<>> => ~a[1].body
       /\ \A b \in DOMAIN a :
            LET end  == b + (a[b].size + BLOCK - 1) \div BLOCK
                name == NameField(a[b].path)
            IN  ~a[b].body /\ name # <<>> =>
                  /\ \A c \in DOMAIN a : b < c /\ c <= end => a[c].body
                  /\ end + 1 \in DOMAIN a => ~a[end + 1].body
                  /\ a[b].type = "file" =>
                       a[b].size <= MAX_FILE /\ \A i \in DOMAIN name : name[i] # EmptyName

(* Names of the standard tree are never cut, nor is another cut to one.    *)
ASSUME StandardNames ==
  /\ \A name \in {"ahci0", "vga0", "eth0", "cpu0", "init", "meminfo", "cpuinfo"} :
       name \in Names /\ ChildName[name] = name
  /\ \A name \in {"System", "Rhoudveine", "Booter", "Runtime", "Device", "Process"} :
       /\ name \in Names \ {EmptyName}
       /\ \A other \in Names : ChildName[other] = name <=> other = name

VARIABLES
  archive,
  boot,      \* "next", "open", "write", "script", "init" or "done"
  offset,    \* the block the walk is at
  content,   \* node -> the bytes written to it, each by its place in the archive
  report,    \* block -> "ok" or "error" for the file whose header it is
  step,      \* the next line of Script
  init       \* "none"; "vfs"; "embedded"; "refused", by the loader: embedded too

bootVars == <<archive, boot, offset, content, report, step, init>>
fsVars   == vars

-----------------------------------------------------------------------------
(* Extraction                                                              *)

NameOf(b) == NameField(archive[b].path)

hdr ==
  [type |-> archive[offset].type, name |-> NameOf(offset), size |-> archive[offset].size]

(* Mutant: the last, partly filled block of a file is not counted.         *)
Padded_floor(size) == size \div BLOCK

(* Blocks a file takes.                                                    *)
Padded(size) == (size + BLOCK - 1) \div BLOCK

NextEntry ==
  /\ boot' = "next"
  /\ offset' = offset + 1 + Padded(hdr.size)

(* "./" in front is dropped, as is the slash at the end of a directory.    *)
AbsPath(name) == IF Len(name) > 1 /\ name[1] = Dot THEN Tail(name) ELSE name

DirPath(name) ==
  LET p == AbsPath(name)
  IN  IF Len(p) > 1 /\ Last(p) = EmptyName THEN Front(p) ELSE p

Skipped(name) == name \in {<<Dot>>, <<Dot, EmptyName>>}

CanCreate(path) ==
  LET parent == vfs_resolve_path(Front(path))
  IN  /\ parent \in RamNode \cap Dirs
      /\ Len(children[parent]) < RAMFS_MAX_CHILDREN
      /\ ramfs_node_count < MAX_RAMFS_NODES

(* A call whose result is not looked at.                                   *)
TryMkdir(path) == IF CanCreate(path) THEN vfs_mkdir(path) ELSE UNCHANGED fsVars

(* A block of zeros ends the walk, and so does the end of the module.      *)
AtEntry == offset <= Len(archive) /\ hdr.name # <<>>

tar_end ==
  /\ boot = "next" /\ ~AtEntry
  /\ boot' = "script"
  /\ UNCHANGED <<fsVars, archive, offset, content, report, step, init>>

(* Links and other types are passed over.                                  *)
tar_skip ==
  /\ boot = "next" /\ AtEntry
  /\ hdr.type = "other" \/ Skipped(hdr.name)
  /\ NextEntry
  /\ UNCHANGED <<fsVars, archive, content, report, step, init>>

tar_directory ==
  /\ boot = "next" /\ AtEntry
  /\ hdr.type = "dir" /\ ~Skipped(hdr.name)
  /\ TryMkdir(DirPath(hdr.name))
  /\ NextEntry
  /\ UNCHANGED <<archive, content, report, step, init>>

(* Every file makes its parent directory anew, but not those above it.     *)
tar_file ==
  /\ boot = "next" /\ AtEntry
  /\ hdr.type = "file" /\ ~Skipped(hdr.name)
  /\ boot' = "open"
  /\ IF Len(AbsPath(hdr.name)) > 1
       THEN TryMkdir(Front(AbsPath(hdr.name)))
       ELSE UNCHANGED fsVars
  /\ UNCHANGED <<archive, offset, content, report, step, init>>

Report(result) == report' = [report EXCEPT ![offset] = result]

(* Mutant: a file that could not be opened is not counted.                 *)
OpenFailed_silent == Report("ok") /\ NextEntry

OpenFailed == Report("error") /\ NextEntry

(* O_CREAT without O_TRUNC.                                                *)
tar_open ==
  /\ boot = "open"
  /\ \E path \in {AbsPath(hdr.name)} :
       IF vfs_resolve_path(path) # NULL \/ CanCreate(path)
         THEN vfs_open(path, TRUE)
         ELSE UNCHANGED fsVars
  /\ IF g_fds' # g_fds
       THEN boot' = "write" /\ UNCHANGED <<offset, report>>
       ELSE OpenFailed
  /\ UNCHANGED <<archive, content, step, init>>

Bytes(from, size) == [k \in 1 .. size |-> <<from, k>>]

(* An empty write at offset 0 resets num_pages.                            *)
Overwrite(old, new) ==
  IF new = <<>> THEN <<>> ELSE new \o SubSeq(old, Len(new) + 1, Len(old))

TheFd == CHOOSE fd \in FDs : g_fds[fd].node # NULL

(* Write and close.  A directory has no write; frames may run out, before  *)
(* any byte is copied; what lies behind the end of the module is read like *)
(* the rest.                                                               *)
tar_write ==
  LET node == g_fds[TheFd].node
  IN  /\ boot = "write"
      /\ vfs_close(TheFd)
      /\ \/ /\ kind[node] = "file"
            /\ content' = [content EXCEPT ![node] = Overwrite(@, Bytes(offset, hdr.size))]
            /\ Report("ok")
         \/ Report("error") /\ UNCHANGED content
      /\ NextEntry
      /\ UNCHANGED <<archive, step, init>>

-----------------------------------------------------------------------------
(* The standard tree                                                       *)

Mkdir(p)       == [call |-> "mkdir", path |-> p]
Mount(p, fs)   == [call |-> "mount", path |-> p, fs |-> fs]
Add(fs, name)  == [call |-> "add", fs |-> fs, name |-> name]

Rhoudveine == <<"System", "Rhoudveine">>
Device     == Rhoudveine \o <<"Runtime", "Device">>
Process    == Rhoudveine \o <<"Runtime", "Process">>
InitPath   == Rhoudveine \o <<"Booter", "init">>

Mkdirs ==
  <<Mkdir(<<"System">>), Mkdir(Rhoudveine), Mkdir(Front(InitPath)),
    Mkdir(Front(Device)), Mkdir(Device), Mkdir(Process)>>

Mounts ==
  <<Mount(Device, "DeviceFS"),
    Add("DeviceFS", "ahci0"), Add("DeviceFS", "vga0"), Add("DeviceFS", "eth0"),
    Add("DeviceFS", "cpu0"),
    Mount(Process, "ProcessFS"),
    Add("ProcessFS", "init"), Add("ProcessFS", "meminfo"), Add("ProcessFS", "cpuinfo")>>

(* Mutant: file systems are mounted before there are directories.          *)
Script_early == Mounts \o Mkdirs

(* What kernel_main does to the tree after the extraction.                 *)
Script == Mkdirs \o Mounts

Line(call) == boot = "script" /\ step <= Len(Script) /\ Script[step].call = call

script_mkdir ==
  /\ Line("mkdir")
  /\ TryMkdir(Script[step].path)
  /\ step' = step + 1
  /\ UNCHANGED <<archive, boot, offset, content, report, init>>

script_mount ==
  /\ Line("mount")
  /\ IF g_mount_count < MAX_MOUNTS
       THEN vfs_mount(Script[step].path, Script[step].fs)
       ELSE UNCHANGED fsVars
  /\ step' = step + 1
  /\ UNCHANGED <<archive, boot, offset, content, report, init>>

Mounted(fs) == \E s \in 1 .. g_mount_count : g_mounts[s].root = <<fs, 0>>

(* Only after the mount succeeded.                                         *)
script_add ==
  /\ Line("add")
  /\ IF Mounted(Script[step].fs)
       THEN AddStaticEntry(Script[step].fs, Script[step].name)
       ELSE UNCHANGED fsVars
  /\ step' = step + 1
  /\ UNCHANGED <<archive, boot, offset, content, report, init>>

script_end ==
  /\ boot = "script" /\ step > Len(Script)
  /\ boot' = "init"
  /\ UNCHANGED <<fsVars, archive, offset, content, report, step, init>>

(* Open, read, close.                                                      *)
InitImage ==
  LET node == vfs_resolve_path(InitPath)
  IN  IF node # NULL /\ kind[node] = "file" THEN content[node] ELSE <<>>

(* The loader may run an image that begins like a program; the block that  *)
(* its first byte comes from tells.                                        *)
Runs(image) == image # <<>> /\ archive[image[1][1]].elf

(* An init that does not resolve or is empty leaves the embedded one, and  *)
(* so does the loader when it returns: the image is no program, a segment  *)
(* is not whole, frames run out.                                           *)
start_init ==
  /\ boot = "init" /\ boot' = "done"
  /\ \/ InitImage = <<>> /\ init' = "embedded"
     \/ InitImage # <<>> /\ init' = "refused"
     \/ Runs(InitImage) /\ init' = "vfs"
  /\ UNCHANGED <<fsVars, archive, offset, content, report, step>>

-----------------------------------------------------------------------------

BootInit ==
  /\ Init
  /\ archive \in Archives
  /\ boot = "next" /\ offset = 1 /\ step = 1
  /\ content = [n \in Node |-> <<>>]
  /\ report = [b \in DOMAIN archive |-> "none"]
  /\ init = "none"

BootNext ==
  \/ tar_end \/ tar_skip \/ tar_directory \/ tar_file \/ tar_open \/ tar_write
  \/ script_mkdir \/ script_mount \/ script_add \/ script_end \/ start_init

(* kernel_main runs through.  What programs then do to the tree is in Vfs. *)
BootSpec ==
  /\ BootInit /\ [][BootNext]_<<fsVars, bootVars>>
  /\ WF_<<fsVars, bootVars>>(BootNext)

-----------------------------------------------------------------------------
(* Properties                                                              *)

(* The headers of files, as whoever wrote the archive sees them.           *)
Regular ==
  {b \in DOMAIN archive :
     /\ archive[b].type = "file" /\ ~archive[b].body /\ ~Skipped(NameOf(b))
     /\ \A c \in 1 .. b : archive[c].body \/ NameOf(c) # <<>>}

(* Where a file goes: its own path only below 100 characters.              *)
PathOf(b) == AbsPath(NameOf(b))

(* Every file of the archive, whatever it contains and in whatever order   *)
(* directories and files come, is counted as an error or can be read back, *)
(* when the tree is complete too, unless a later entry or a mount has      *)
(* replaced it: under the name that its header alone spells.  That is its  *)
(* path if it has fewer than 100 characters; a longer one is counted as    *)
(* extracted, but lies elsewhere, where two such files may meet.           *)
ExtractionExact ==
  boot \in {"script", "init"} =>
    \A b \in Regular :
      LET node     == vfs_resolve_path(PathOf(b))
          replaced == \E c \in Regular : c > b /\ PathOf(c) = PathOf(b) /\ report[c] = "ok"
          hidden   == \E s \in 2 .. g_mount_count : IsPrefix(g_mounts[s].path, PathOf(b))
      IN  /\ report[b] # "none"
          /\ report[b] = "ok" /\ ~replaced /\ ~hidden =>
               /\ node # NULL
               /\ SubSeq(content[node], 1, archive[b].size) = Bytes(b, archive[b].size)

(* Unless the archive has used up the pool of nodes or has put a file in   *)
(* the way, DeviceFS and ProcessFS are found at their places with all      *)
(* their entries when init is started.                                     *)
RuntimeReachable ==
  LET names(fs) == {children[<<fs, 0>>][i].name : i \in DOMAIN children[<<fs, 0>>]}
      free(p)   == \A b \in Regular : ~IsPrefix(PathOf(b), p)
  IN  boot = "init" /\ ramfs_node_count < MAX_RAMFS_NODES =>
        \A i \in DOMAIN Script : LET line == Script[i] IN
          /\ line.call = "mount" /\ free(line.path) =>
               vfs_resolve_path(line.path) = <<line.fs, 0>>
          /\ line.call = "add" /\ free(Front(Device)) /\ free(Device) /\ free(Process) =>
               line.name \in names(line.fs)

(* Whatever the archive holds, the boot gets to an init.  The last file    *)
(* extracted to its path decides: the loader gets it exactly if there is   *)
(* one and it is not empty, and runs it only if it is a program.  In all   *)
(* other cases the embedded init is what runs.                             *)
InitFromArchive ==
  LET inits == {b \in Regular : PathOf(b) = InitPath /\ report[b] = "ok"}
  IN  <>(/\ init # "none"
         /\ init = "embedded" <=> \A b \in inits : b = Max(inits) => archive[b].size = 0
         /\ init = "vfs" => archive[Max(inits)].elf)
=============================================================================
