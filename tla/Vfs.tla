-------------------------------- MODULE Vfs --------------------------------
(***************************************************************************)
(* The virtual file system of kernel/fs/vfs.c over the trees that ramfs.c, *)
(* devfs.c and procfs.c keep: the mount table, path resolution, the file   *)
(* descriptor table and the operations that create, open and list.  File   *)
(* contents and the other uses of an offset are in module RamFile.         *)
(*                                                                         *)
(* A path is the sequence of the names between its slashes, so "/" is      *)
(* <<EmptyName>>, "/a" is <<a>> and "/a/" is <<a, EmptyName>>.             *)
(* vfs_unlink is not an action: no file system provides the operation, so  *)
(* it only ever returns -1.  A call that returns -1 without a side effect  *)
(* is a stuttering step.                                                   *)
(***************************************************************************)
EXTENDS Integers, Sequences, FiniteSets, SequencesExt

CONSTANTS
  Names,               \* what may stand between two slashes
  EmptyName,           \* the name of length zero
  ChildName,           \* name -> its first 31 characters
  StaticFs,            \* DeviceFS and ProcessFS: one static root, no create
  MAX_RAMFS_NODES,     \* 64, the pool all ramfs mounts share
  RAMFS_MAX_CHILDREN,  \* 64
  MAX_STATIC_NODES,    \* 16, MAX_DEVFS_NODES and MAX_PROCFS_NODES
  MAX_MOUNTS,          \* 16
  FDs,                 \* 3 .. MAX_FDS - 1
  Path,                \* the paths passed in
  MaxUnmounts          \* bound on calls of vfs_unmount

ASSUME VfsConstants ==
  /\ EmptyName \in Names
  /\ ChildName \in [Names -> Names]
  /\ ChildName[EmptyName] = EmptyName
  /\ FDs \subseteq Nat /\ IsFiniteSet(FDs)
  /\ {MAX_RAMFS_NODES, RAMFS_MAX_CHILDREN, MAX_STATIC_NODES, MAX_MOUNTS,
      MaxUnmounts} \subseteq Nat
  /\ MAX_RAMFS_NODES > 0 /\ MAX_MOUNTS > 0
  /\ \A p \in Path : p \in Seq(Names) /\ p # <<>>
  /\ "ramfs" \notin StaticFs /\ "null" \notin StaticFs

(* A node is its file system type and its index in that type's pool; the   *)
(* static root of DeviceFS and ProcessFS is index 0.                       *)
NULL     == <<"null", 0>>
RamNode  == {"ramfs"} \X (1 .. MAX_RAMFS_NODES)
Node     == RamNode \cup (StaticFs \X (0 .. MAX_STATIC_NODES))
RootPath == <<EmptyName>>
Slot     == 1 .. MAX_MOUNTS

VARIABLES
  ramfs_node_count,
  kind,           \* node -> "unused", "file" or "dir"
  children,       \* node -> its entries, in slot order
  mount,          \* node -> the mount table slot it points to, 0 for none
  g_mounts,       \* slot -> path and root
  g_mount_count,
  g_vfs_root,
  g_fds,          \* descriptor -> node and offset; NULL node when free
  listed,         \* descriptor -> the nodes vfs_readdir returned on it
  unmounts        \* calls of vfs_unmount so far (the kernel makes none)

tree   == <<ramfs_node_count, kind, children>>
mounts == <<mount, g_mounts, g_mount_count, g_vfs_root>>
vars   == <<tree, mounts, g_fds, listed, unmounts>>

Dirs == {n \in Node : kind[n] = "dir"}

ClosedFd == [node |-> NULL, offset |-> 0]

-----------------------------------------------------------------------------
(* Path resolution                                                         *)

(* The first entry whose stored name is the one looked for.                *)
finddir(n, name) ==
  LET hits == {i \in DOMAIN children[n] : children[n][i].name = name}
  IN  IF hits = {} THEN NULL ELSE children[n][Min(hits)].node

(* One hop from a mount point into what its slot holds, and only one.      *)
Hop(slots, n) ==
  IF n # NULL /\ mount[n] # 0 THEN slots[mount[n]].root ELSE n

(* Where a component leads to; an empty one is skipped.  (A slot emptied   *)
(* behind a mount point's back would end the walk in a fault; here it ends *)
(* it in NULL.)                                                            *)
Descend(slots, name) ==
  [n \in Node \cup {NULL} |->
     IF n = NULL \/ name = EmptyName THEN n ELSE Hop(slots, finddir(n, name))]

(* The node after each component.                                          *)
Walk(slots, path) ==
  LET walk[i \in 0 .. Len(path)] ==
        IF i = 0 THEN g_vfs_root ELSE Descend(slots, path[i])[walk[i - 1]]
  IN  walk

ResolveIn(slots, path) == Walk(slots, path)[Len(path)]

vfs_resolve_path(path) == ResolveIn(g_mounts, path)

-----------------------------------------------------------------------------
(* Creating nodes                                                          *)

ramfs_alloc_node(as) ==
  /\ ramfs_node_count < MAX_RAMFS_NODES
  /\ ramfs_node_count' = ramfs_node_count + 1
  /\ kind' = [kind EXCEPT ![<<"ramfs", ramfs_node_count + 1>>] = as]

(* Mutant: a new entry becomes the first one.                              *)
ramfs_create_front(parent, name, as) ==
  /\ parent \in RamNode \cap Dirs
  /\ Len(children[parent]) < RAMFS_MAX_CHILDREN
  /\ ramfs_alloc_node(as)
  /\ children' = [children EXCEPT ![parent] =
                    <<[name |-> ChildName[name],
                       node |-> <<"ramfs", ramfs_node_count + 1>>]>> \o @]

ramfs_create(parent, name, as) ==
  /\ parent \in RamNode \cap Dirs
  /\ Len(children[parent]) < RAMFS_MAX_CHILDREN
  /\ ramfs_alloc_node(as)
  /\ children' = [children EXCEPT ![parent] =
                    Append(@, [name |-> ChildName[name],
                               node |-> <<"ramfs", ramfs_node_count + 1>>])]

(* vfs_create and vfs_mkdir differ in the kind of node only.               *)
CreateAt(path, as) ==
  ramfs_create(vfs_resolve_path(Front(path)), Last(path), as)

vfs_create(path) == CreateAt(path, "file") /\ UNCHANGED <<mounts, g_fds, listed, unmounts>>

vfs_mkdir(path) == CreateAt(path, "dir") /\ UNCHANGED <<mounts, g_fds, listed, unmounts>>

(* devfs_add_device and procfs_add_entry.                                  *)
AddStaticEntry(fs, name) ==
  LET n == Len(children[<<fs, 0>>]) + 1
  IN  /\ n <= MAX_STATIC_NODES
      /\ kind' = [kind EXCEPT ![<<fs, n>>] = "file"]
      /\ children' = [children EXCEPT ![<<fs, 0>>] =
                        Append(@, [name |-> ChildName[name], node |-> <<fs, n>>])]
      /\ UNCHANGED <<ramfs_node_count, mounts, g_fds, listed, unmounts>>

-----------------------------------------------------------------------------
(* Mounting                                                                *)

(* fs->mount: ramfs takes a node from its pool; a static root is reset,    *)
(* and with its flags it loses its being a mount point.                    *)
FsMount(fstype, root) ==
  \/ /\ fstype = "ramfs"
     /\ root = <<"ramfs", ramfs_node_count + 1>>
     /\ ramfs_alloc_node("dir")
  \/ /\ fstype \in StaticFs
     /\ root = <<fstype, 0>>
     /\ kind' = [kind EXCEPT ![root] = "dir"]
     /\ UNCHANGED ramfs_node_count

(* Mutant: the mount point is linked before its kind is looked at.         *)
LinkMount_early(path, s, root) ==
  LET slots  == [g_mounts EXCEPT ![s] = [path |-> path, root |-> root]]
      at     == ResolveIn(slots, path)
  IN  /\ path # RootPath /\ at # NULL
      /\ g_mounts' = slots
      /\ mount' = [mount EXCEPT ![at] = s]
      /\ g_mount_count' = IF at \in Dirs' THEN s ELSE g_mount_count
      /\ UNCHANGED g_vfs_root

(* The link from the tree to slot s, made only when everything before it   *)
(* succeeded.  fs->mount has run and the slot is filled in either case.    *)
LinkMount(path, s, root) ==
  LET slots  == [g_mounts EXCEPT ![s] = [path |-> path, root |-> root]]
      at     == ResolveIn(slots, path)
      unlinked == IF root[1] \in StaticFs THEN [mount EXCEPT ![root] = 0] ELSE mount
  IN  /\ g_mounts' = slots
      /\ \/ /\ path = RootPath
            /\ g_vfs_root' = root
            /\ mount' = [unlinked EXCEPT ![root] = s]
            /\ g_mount_count' = s
         \/ /\ path # RootPath
            /\ at \in Dirs'
            /\ mount' = [unlinked EXCEPT ![at] = s]
            /\ g_mount_count' = s
            /\ UNCHANGED g_vfs_root
         \/ /\ path # RootPath
            /\ at \notin Dirs'
            /\ mount' = unlinked
            /\ UNCHANGED <<g_mount_count, g_vfs_root>>

vfs_mount(path, fstype) ==
  /\ g_mount_count < MAX_MOUNTS
  /\ \E root \in Node :
       /\ FsMount(fstype, root)
       /\ LinkMount(path, g_mount_count + 1, root)
  /\ UNCHANGED <<children, g_fds, listed, unmounts>>

(* fs->mount fails: ramfs has no node left.  The slot is already cleared.  *)
vfs_mount_fails(path, fstype) ==
  /\ g_mount_count < MAX_MOUNTS
  /\ fstype = "ramfs" /\ ramfs_node_count = MAX_RAMFS_NODES
  /\ g_mounts' = [g_mounts EXCEPT ![g_mount_count + 1] =
                    [path |-> path, root |-> NULL]]
  /\ UNCHANGED <<tree, mount, g_mount_count, g_vfs_root, g_fds, listed, unmounts>>

SlotsAt(path) == {s \in 1 .. g_mount_count : g_mounts[s].path = path}

MountedAt(path) == Min(SlotsAt(path))

(* Nothing ever raises a mount's refcount, so the busy test never refuses. *)
vfs_unmount(path) ==
  /\ unmounts < MaxUnmounts
  /\ SlotsAt(path) # {}
  /\ g_mounts' = [s \in Slot |->
                    IF s \in MountedAt(path) .. g_mount_count - 1
                      THEN g_mounts[s + 1] ELSE g_mounts[s]]
  /\ g_mount_count' = g_mount_count - 1
  /\ unmounts' = unmounts + 1
  /\ UNCHANGED <<tree, mount, g_vfs_root, g_fds, listed>>

-----------------------------------------------------------------------------
(* Descriptors                                                             *)

FreeFds == {fd \in FDs : g_fds[fd].node = NULL}

(* O_CREAT creates first; the descriptor may then turn out to be missing,  *)
(* or the new name not to resolve.                                         *)
vfs_open(path, creat) ==
  /\ UNCHANGED <<mounts, unmounts>>
  /\ IF vfs_resolve_path(path) = NULL /\ creat
       THEN CreateAt(path, "file")
       ELSE UNCHANGED tree
  /\ LET node == vfs_resolve_path(path)'
     IN  IF node = NULL \/ FreeFds = {}
           THEN UNCHANGED <<g_fds, listed>>
           ELSE /\ g_fds' = [g_fds EXCEPT ![Min(FreeFds)] =
                               [node |-> node, offset |-> 0]]
                /\ listed' = [listed EXCEPT ![Min(FreeFds)] = <<>>]

vfs_close(fd) ==
  /\ g_fds[fd].node # NULL
  /\ g_fds' = [g_fds EXCEPT ![fd] = ClosedFd]
  /\ listed' = [listed EXCEPT ![fd] = <<>>]
  /\ UNCHANGED <<tree, mounts, unmounts>>

(* The entry at the descriptor's offset; past the last one it returns -1.  *)
vfs_readdir(fd) ==
  LET file == g_fds[fd]
  IN  /\ file.node # NULL
      /\ file.offset < Len(children[file.node])
      /\ listed' = [listed EXCEPT ![fd] =
                      Append(@, children[file.node][file.offset + 1].node)]
      /\ g_fds' = [g_fds EXCEPT ![fd].offset = @ + 1]
      /\ UNCHANGED <<tree, mounts, unmounts>>

-----------------------------------------------------------------------------
(* vfs_init, the registrations and the mount of "/" in kernel_main.        *)
Init ==
  LET root == <<"ramfs", 1>>
  IN  /\ ramfs_node_count = 1
      /\ kind = [n \in Node |-> IF n = root THEN "dir" ELSE "unused"]
      /\ children = [n \in Node |-> <<>>]
      /\ mount = [n \in Node |-> IF n = root THEN 1 ELSE 0]
      /\ g_mounts = [s \in Slot |-> IF s = 1 THEN [path |-> RootPath, root |-> root]
                                    ELSE [path |-> <<>>, root |-> NULL]]
      /\ g_mount_count = 1
      /\ g_vfs_root = root
      /\ g_fds = [fd \in FDs |-> ClosedFd]
      /\ listed = [fd \in FDs |-> <<>>]
      /\ unmounts = 0

Next ==
  \/ \E path \in Path : \/ vfs_create(path)
                        \/ vfs_mkdir(path)
                        \/ vfs_unmount(path)
                        \/ \E creat \in BOOLEAN : vfs_open(path, creat)
                        \/ \E fstype \in StaticFs \cup {"ramfs"} :
                             \/ vfs_mount(path, fstype)
                             \/ vfs_mount_fails(path, fstype)
  \/ \E fs \in StaticFs, name \in Names \ {EmptyName} : AddStaticEntry(fs, name)
  \/ \E fd \in FDs : vfs_close(fd) \/ vfs_readdir(fd)

Spec == Init /\ [][Next]_vars

-----------------------------------------------------------------------------
(* Properties                                                              *)

(* Every table keeps its shape, and nothing points at an unused node.      *)
TypeOK ==
  LET Used == {n \in Node : kind[n] # "unused"}
  IN  /\ ramfs_node_count \in 0 .. MAX_RAMFS_NODES
      /\ kind \in [Node -> {"unused", "file", "dir"}]
      /\ \A n \in Node : \A i \in DOMAIN children[n] :
           children[n][i].name \in Names /\ children[n][i].node \in Used
      /\ mount \in [Node -> Slot \cup {0}]
      /\ \A s \in Slot : g_mounts[s].root \in Used \cup {NULL}
      /\ g_mount_count \in 0 .. MAX_MOUNTS
      /\ g_vfs_root \in Used
      /\ \A fd \in FDs : g_fds[fd].node \in Used \cup {NULL}

(* A listing that is interrupted by creations misses no entry, repeats     *)
(* none and follows the order of creation: what vfs_readdir has returned   *)
(* is a prefix of the directory.                                           *)
ListingIsPrefix ==
  \A fd \in FDs : g_fds[fd].node # NULL =>
    LET entries == children[g_fds[fd].node]
    IN  listed[fd] = [i \in 1 .. g_fds[fd].offset |-> entries[i].node]

(* The names of a path without the empty ones.                             *)
Components(p) ==
  LET taken[i \in 0 .. Len(p)] ==
        IF i = 0 THEN <<>>
        ELSE IF p[i] = EmptyName THEN taken[i - 1] ELSE Append(taken[i - 1], p[i])
  IN  taken[Len(p)]

(* A path that resolves changes its meaning only when the mount table      *)
(* changes, whatever is created, opened or closed and however often a name *)
(* is created again; and in the kernel as it stands, which never unmounts, *)
(* only by a successful mount at one of its prefixes: one that fails       *)
(* halfway changes no path.                                                *)
ResolutionStable ==
  [][\A p \in Path : vfs_resolve_path(p) \notin {NULL, vfs_resolve_path(p)'} =>
       /\ ~UNCHANGED mounts
       /\ unmounts' = 0 =>
            /\ g_mount_count' = g_mount_count + 1
            /\ IsPrefix(Components(g_mounts'[g_mount_count'].path), Components(p))]_vars
=============================================================================
