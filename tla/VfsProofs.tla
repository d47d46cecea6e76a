----------------------------- MODULE VfsProofs -----------------------------
(* Theorems about the virtual file system, for every set of names and      *)
(* paths and all sizes of the tables: listings follow the directory, and   *)
(* what a path means is changed by mounts only.  And about the boot, for   *)
(* every archive that tar can make: no file is lost silently, and the      *)
(* runtime directories are found at their places.                          *)
EXTENDS Boot, SequenceTheorems, WellFoundedInduction, TLAPS

-----------------------------------------------------------------------------
(* The least of some numbers is one of them and comes before the others.   *)
LEMMA MinOfSet ==
  ASSUME NEW S \in SUBSET Nat, S # {}
  PROVE  Min(S) \in S /\ \A s \in S : Min(S) <= s
<1> DEFINE less == {p \in Nat \X Nat : p[1] < p[2]}
<1>0. IsWellFoundedOn(less, Nat)
  BY NatLessThanWellFounded DEF OpToRel
<1> HIDE DEF less
<1>2. PICK x \in S : \A y \in S : ~ (<<y, x>> \in less)
  BY <1>0, WFMin
<1>3. ASSUME NEW y \in S PROVE x <= y
  <2>1. <<y, x>> \in Nat \X Nat /\ <<y, x>>[1] = y /\ <<y, x>>[2] = x
    OBVIOUS
  <2>2. ~ (y < x)
    BY <1>2, <2>1 DEF less
  <2> QED  BY <2>2
<1> QED  BY <1>2, <1>3 DEF Min

(* A recursion on the places of a sequence defines a function: the first   *)
(* length for which it would not is none.                                  *)
Recursion(f, n, base, go) ==
  f = [i \in 0 .. n |-> IF i = 0 THEN base ELSE go[i][f[i - 1]]]

LEMMA RecursionTypes ==
  ASSUME NEW S, NEW base \in S, NEW n \in Nat, NEW go \in [1 .. n -> [S -> S]],
         NEW f, Recursion(f, n, base, go)
  PROVE  f \in [0 .. n -> S]
<1>0. f = [i \in 0 .. n |-> f[i]]
  BY DEF Recursion
<1> DEFINE bad == {i \in 0 .. n : f[i] \notin S}
<1>1. ASSUME bad # {} PROVE FALSE
  <2>1. bad \in SUBSET Nat
    OBVIOUS
  <2> DEFINE i == Min(bad)
  <2>2. i \in bad /\ \A k \in bad : i <= k
    BY <1>1, <2>1, MinOfSet
  <2> HIDE DEF i
  <2>3. i \in 0 .. n /\ f[i] \notin S
    BY <2>2
  <2>4. i # 0
    BY <2>3 DEF Recursion
  <2>5. i - 1 \in 0 .. n /\ i - 1 \notin bad
    BY <2>2, <2>3, <2>4
  <2>6. f[i - 1] \in S
    BY <2>5
  <2>7. f[i] = go[i][f[i - 1]] /\ i \in 1 .. n
    BY <2>3, <2>4 DEF Recursion
  <2>8. go[i] \in [S -> S]
    BY <2>7
  <2> QED  BY <2>3, <2>6, <2>7, <2>8
<1> QED  BY <1>0, <1>1

LEMMA RecursionExists ==
  ASSUME NEW S, NEW base \in S, NEW n \in Nat, NEW go \in [1 .. n -> [S -> S]]
  PROVE  \E f : Recursion(f, n, base, go)
<1> DEFINE bad == {m \in 0 .. n : ~ \E f : Recursion(f, m, base, go)}
<1>1. ASSUME bad # {} PROVE FALSE
  <2>1. bad \in SUBSET Nat
    OBVIOUS
  <2> DEFINE m == Min(bad)
  <2>2. m \in bad /\ \A k \in bad : m <= k
    BY <1>1, <2>1, MinOfSet
  <2> HIDE DEF m
  <2>3. m \in 0 .. n /\ ~ \E f : Recursion(f, m, base, go)
    BY <2>2
  <2>4. m # 0
    <3>1. Recursion([i \in 0 .. 0 |-> base], 0, base, go)
      BY DEF Recursion
    <3> QED  BY <2>3, <3>1
  <2>5. m - 1 \in 0 .. n /\ m - 1 \notin bad
    BY <2>2, <2>3, <2>4
  <2>6. PICK g : Recursion(g, m - 1, base, go)
    BY <2>5
  <2> DEFINE h == [i \in 0 .. m |-> IF i = m THEN go[m][g[m - 1]] ELSE g[i]]
  <2>7. DOMAIN g = 0 .. m - 1 /\ g[0] = base
        /\ \A i \in 1 .. m - 1 : g[i] = go[i][g[i - 1]]
    BY <2>3, <2>4, <2>6 DEF Recursion
  <2>8. ASSUME NEW i \in 0 .. m
        PROVE  h[i] = IF i = 0 THEN base ELSE go[i][h[i - 1]]
    <3>1. CASE i = 0
      BY <2>3, <2>4, <2>7, <3>1
    <3>2. CASE i \in 1 .. m - 1
      <4>1. h[i] = g[i] /\ h[i - 1] = g[i - 1]
        BY <2>3, <3>2
      <4> QED  BY <2>7, <3>2, <4>1
    <3>3. CASE i = m
      <4>1. h[m] = go[m][g[m - 1]] /\ h[m - 1] = g[m - 1]
        BY <2>3, <2>4
      <4> QED  BY <2>4, <3>3, <4>1
    <3> QED  BY <2>3, <3>1, <3>2, <3>3
  <2>9. Recursion(h, m, base, go)
    BY <2>8 DEF Recursion
  <2> QED  BY <2>3, <2>9
<1>2. n \notin bad
  BY <1>1
<1> QED  BY <1>2

-----------------------------------------------------------------------------
(* The inductive invariant.                                                *)

Entry == [name : Names, node : Node]
MountEntry == [path : Seq(Names), root : Node \cup {NULL}]
File  == [node : Node \cup {NULL}, offset : Nat]

Used == {n \in Node : kind[n] # "unused"}

Shapes ==
  /\ ramfs_node_count \in 0 .. MAX_RAMFS_NODES
  /\ kind \in [Node -> {"unused", "file", "dir"}]
  /\ children \in [Node -> Seq(Entry)]
  /\ mount \in [Node -> Slot \cup {0}]
  /\ g_mounts \in [Slot -> MountEntry]
  /\ g_mount_count \in 0 .. MAX_MOUNTS
  /\ g_vfs_root \in Node
  /\ unmounts \in Nat

(* Nothing in the tree points at an unused node, roots and mount points    *)
(* are directories.                                                        *)
UsedOnly ==
  /\ \A n \in Node : \A i \in DOMAIN children[n] : children[n][i].node \in Used
  /\ \A s \in Slot : g_mounts[s].root \in Dirs \cup {NULL}
  /\ g_vfs_root \in Dirs
  /\ \A n \in Node : mount[n] # 0 => n \in Dirs

(* Neither does a descriptor.                                              *)
Files ==
  /\ g_fds \in [FDs -> File]
  /\ listed \in [FDs -> Seq(Node)]
  /\ \A fd \in FDs : g_fds[fd].node \in Used \cup {NULL}

IsChild(n) == \E d \in Node : \E i \in DOMAIN children[d] : children[d][i].node = n

(* Nodes are taken in order, so that a new one is nobody's child.          *)
PoolInOrder ==
  \A k \in ramfs_node_count + 1 .. MAX_RAMFS_NODES : kind[<<"ramfs", k>>] = "unused"

(* Every node has one name in one directory of its own file system, the    *)
(* roots have none, and static file systems have no directories below.     *)
TreeShape ==
  /\ \A d, e \in Node : \A i \in DOMAIN children[d], j \in DOMAIN children[e] :
       children[d][i].node = children[e][j].node => d = e /\ i = j
  /\ \A d \in RamNode : \A i \in DOMAIN children[d] : children[d][i].node \in RamNode
  /\ \A fs \in StaticFs, k \in 0 .. MAX_STATIC_NODES :
       \A i \in DOMAIN children[<<fs, k>>] :
         k = 0 /\ i <= MAX_STATIC_NODES /\ children[<<fs, k>>][i].node = <<fs, i>>
  /\ \A fs \in StaticFs, k \in 1 .. MAX_STATIC_NODES : kind[<<fs, k>>] # "dir"
  /\ ~IsChild(g_vfs_root)
  /\ \A s \in Slot : ~IsChild(g_mounts[s].root)

(* Until something is unmounted, mount points refer to slots in use, and a *)
(* ramfs root hangs at one place.                                          *)
MountShape ==
  unmounts = 0 =>
    /\ \A n \in Node : mount[n] <= g_mount_count
    /\ \A s \in 1 .. g_mount_count : g_mounts[s].root # NULL
    /\ \A n \in Node : IsChild(n) /\ mount[n] # 0 =>
         n \in RamNode /\ (g_vfs_root \in RamNode => g_mounts[mount[n]].root # g_vfs_root)
    /\ \A m, n \in Node :
         (/\ IsChild(m) /\ mount[m] # 0 /\ IsChild(n) /\ mount[n] # 0
          /\ g_mounts[mount[m]].root = g_mounts[mount[n]].root
          /\ g_mounts[mount[m]].root \in RamNode) => m = n

(* An offset never runs past the directory.                                *)
OffsetsInside ==
  \A fd \in FDs : g_fds[fd].node # NULL => g_fds[fd].offset <= Len(children[g_fds[fd].node])

TreeInv == Shapes /\ UsedOnly /\ PoolInOrder /\ TreeShape /\ MountShape

Inv == TreeInv /\ Files /\ OffsetsInside /\ ListingIsPrefix

-----------------------------------------------------------------------------
(* Path resolution                                                         *)

LEMMA NullIsNoNode == NULL \notin Node
BY VfsConstants DEF NULL, Node, RamNode

LEMMA EntriesAre ==
  ASSUME Shapes, NEW n \in Node, NEW i \in DOMAIN children[n]
  PROVE  /\ children[n] \in Seq(Entry) /\ i \in 1 .. Len(children[n])
         /\ children[n][i].name \in Names /\ children[n][i].node \in Node
<1>1. children[n] \in Seq(Entry)
  BY DEF Shapes
<1>2. i \in 1 .. Len(children[n]) /\ children[n][i] \in Entry
  BY <1>1
<1> QED  BY <1>1, <1>2 DEF Entry

(* finddir finds the first entry of the name.                              *)
LEMMA FindDir ==
  ASSUME Shapes, NEW n \in Node, NEW name
  PROVE  \/ /\ finddir(n, name) = NULL
            /\ \A i \in DOMAIN children[n] : children[n][i].name # name
         \/ \E i \in DOMAIN children[n] :
              /\ children[n][i].name = name
              /\ \A j \in DOMAIN children[n] : children[n][j].name = name => i <= j
              /\ finddir(n, name) = children[n][i].node
<1> DEFINE hits == {i \in DOMAIN children[n] : children[n][i].name = name}
<1>1. finddir(n, name) = IF hits = {} THEN NULL ELSE children[n][Min(hits)].node
  BY DEF finddir
<1>2. hits \in SUBSET Nat
  <2>1. children[n] \in Seq(Entry)
    BY DEF Shapes
  <2> QED  BY <2>1
<1>3. CASE hits = {}
  BY <1>1, <1>3
<1>4. CASE hits # {}
  <2> DEFINE i == Min(hits)
  <2>1. i \in hits /\ \A j \in hits : i <= j
    BY <1>2, <1>4, MinOfSet
  <2>2. finddir(n, name) = children[n][i].node
    BY <1>1, <1>4
  <2> HIDE DEF i
  <2> QED  BY <2>1, <2>2
<1> QED  BY <1>3, <1>4

LEMMA FindDirType ==
  ASSUME Shapes, NEW n \in Node, NEW name
  PROVE  finddir(n, name) \in Node \cup {NULL}
BY FindDir, EntriesAre

LEMMA DescendType ==
  ASSUME Shapes, NEW slots \in [Slot -> MountEntry], NEW name
  PROVE  Descend(slots, name) \in [Node \cup {NULL} -> Node \cup {NULL}]
<1> SUFFICES ASSUME NEW n \in Node \cup {NULL}
             PROVE  Descend(slots, name)[n] \in Node \cup {NULL}
  BY DEF Descend
<1>1. CASE n = NULL \/ name = EmptyName
  BY <1>1 DEF Descend
<1>2. CASE n # NULL /\ name # EmptyName
  <2>1. Descend(slots, name)[n] = Hop(slots, finddir(n, name))
    BY <1>2 DEF Descend
  <2>2. finddir(n, name) \in Node \cup {NULL}
    BY <1>2, FindDirType
  <2> DEFINE m == finddir(n, name)
  <2> HIDE DEF m
  <2>3. CASE m # NULL /\ mount[m] # 0
    <3>1. mount[m] \in Slot
      BY <2>2, <2>3 DEF Shapes, m
    <3>2. slots[mount[m]].root \in Node \cup {NULL}
      BY <3>1 DEF MountEntry
    <3> QED  BY <2>1, <2>3, <3>2 DEF Hop, m
  <2>4. CASE ~ (m # NULL /\ mount[m] # 0)
    BY <2>1, <2>2, <2>4 DEF Hop, m
  <2> QED  BY <2>3, <2>4
<1> QED  BY <1>1, <1>2

(* The walk does what its recursive definition says.                       *)
WalkSteps(slots, path) ==
  /\ Walk(slots, path) \in [0 .. Len(path) -> Node \cup {NULL}]
  /\ Walk(slots, path)[0] = g_vfs_root
  /\ \A i \in 1 .. Len(path) :
       Walk(slots, path)[i] = Descend(slots, path[i])[Walk(slots, path)[i - 1]]

LEMMA WalkIs ==
  ASSUME Shapes, NEW slots \in [Slot -> MountEntry], NEW path \in Seq(Names)
  PROVE  WalkSteps(slots, path)
<1> DEFINE n == Len(path)
           S == Node \cup {NULL}
           go == [i \in 1 .. n |-> Descend(slots, path[i])]
<1>1. n \in Nat /\ g_vfs_root \in S
  BY DEF Shapes
<1>2. go \in [1 .. n -> [S -> S]]
  BY DescendType
<1>3. \E f : Recursion(f, n, g_vfs_root, go)
  <2> HIDE DEF S, go, n
  <2> QED  BY <1>1, <1>2, RecursionExists
<1>4. \A f : Recursion(f, n, g_vfs_root, go) <=>
        f = [i \in 0 .. Len(path) |->
               IF i = 0 THEN g_vfs_root ELSE Descend(slots, path[i])[f[i - 1]]]
  <2> SUFFICES ASSUME NEW f
               PROVE  [i \in 0 .. n |-> IF i = 0 THEN g_vfs_root ELSE go[i][f[i - 1]]]
                       = [i \in 0 .. n |->
                            IF i = 0 THEN g_vfs_root ELSE Descend(slots, path[i])[f[i - 1]]]
    BY DEF Recursion
  <2>1. ASSUME NEW i \in 0 .. n, i # 0 PROVE go[i] = Descend(slots, path[i])
    BY <1>1, <2>1
  <2> HIDE DEF go, n
  <2> QED  BY <2>1
<1> DEFINE w == Walk(slots, path)
<1>5. w = CHOOSE f : f = [i \in 0 .. Len(path) |->
               IF i = 0 THEN g_vfs_root ELSE Descend(slots, path[i])[f[i - 1]]]
  BY DEF Walk
<1> HIDE DEF go
<1>6. w = [i \in 0 .. Len(path) |->
               IF i = 0 THEN g_vfs_root ELSE Descend(slots, path[i])[w[i - 1]]]
  <2> HIDE DEF w
  <2> QED  BY <1>3, <1>4, <1>5
<1>7. Recursion(w, n, g_vfs_root, go)
  <2> HIDE DEF w
  <2> QED  BY <1>4, <1>6
<1>8. w \in [0 .. n -> S]
  <2> HIDE DEF w, n, S
  <2> QED  BY <1>1, <1>2, <1>7, RecursionTypes
<1>9. w[0] = g_vfs_root
  <2> HIDE DEF w
  <2> QED  BY <1>1, <1>6
<1>10. ASSUME NEW i \in 1 .. Len(path)
       PROVE  w[i] = Descend(slots, path[i])[w[i - 1]]
  <2>1. i \in 0 .. n /\ i # 0
    OBVIOUS
  <2> HIDE DEF w, n
  <2>2. w[i] = IF i = 0 THEN g_vfs_root ELSE Descend(slots, path[i])[w[i - 1]]
    BY <1>6, <2>1 DEF n
  <2> QED  BY <2>1, <2>2
<1> QED  BY <1>8, <1>9, <1>10 DEF WalkSteps

FindsFirst(n, name) ==
  \/ /\ finddir(n, name) = NULL
     /\ \A i \in DOMAIN children[n] : children[n][i].name # name
  \/ \E i \in DOMAIN children[n] :
       /\ children[n][i].name = name
       /\ \A j \in DOMAIN children[n] : children[n][j].name = name => i <= j
       /\ finddir(n, name) = children[n][i].node

FindsAll == \A n \in Node : \A name \in Names : FindsFirst(n, name)

LEMMA FindDirAll == Shapes => FindsAll
BY FindDir DEF FindsFirst, FindsAll

ResolvesAll == \A path \in Seq(Names) : WalkSteps(g_mounts, path)

LEMMA ResolveAll == Shapes => ResolvesAll
<1> SUFFICES ASSUME Shapes, NEW path \in Seq(Names) PROVE WalkSteps(g_mounts, path)
  BY DEF ResolvesAll
<1>1. g_mounts \in [Slot -> MountEntry]
  BY DEF Shapes
<1> QED  BY <1>1, WalkIs

(* Directories only grow, at their ends, and no node becomes unused.       *)
Grows ==
  /\ Used \subseteq Used'
  /\ \A n \in Node : /\ Len(children[n]) <= Len(children'[n])
                     /\ \A i \in DOMAIN children[n] : children'[n][i] = children[n][i]

LEMMA FoundAgain ==
  ASSUME Shapes, Shapes', Grows, NEW n \in Node, NEW name \in Names, finddir(n, name) # NULL
  PROVE  finddir(n, name)' = finddir(n, name)
<1>1. FindsFirst(n, name)
  BY FindDirAll DEF FindsAll
<1>2. FindsFirst(n, name)'
  <2>1. Shapes' => FindsAll'
    BY FindDirAll, PTL
  <2> QED  BY <2>1 DEF FindsAll
<1>3. PICK i \in DOMAIN children[n] :
         /\ children[n][i].name = name
         /\ \A j \in DOMAIN children[n] : children[n][j].name = name => i <= j
         /\ finddir(n, name) = children[n][i].node
  BY <1>1 DEF FindsFirst
<1>4. children[n] \in Seq(Entry) /\ children'[n] \in Seq(Entry)
  BY DEF Shapes
<1>5. i \in DOMAIN children'[n] /\ children'[n][i] = children[n][i]
  BY <1>4 DEF Grows
<1>6. PICK k \in DOMAIN children'[n] :
         /\ children'[n][k].name = name
         /\ \A j \in DOMAIN children'[n] : children'[n][j].name = name => k <= j
         /\ finddir(n, name)' = children'[n][k].node
  BY <1>2, <1>3, <1>5 DEF FindsFirst
<1>7. k <= i
  BY <1>3, <1>5, <1>6
<1>8. k \in DOMAIN children[n] /\ children'[n][k] = children[n][k]
  BY <1>4, <1>6, <1>7 DEF Grows
<1>9. i <= k
  BY <1>3, <1>6, <1>8
<1>10. i = k
  BY <1>4, <1>6, <1>7, <1>9
<1> QED  BY <1>3, <1>5, <1>6, <1>10

(* A walk that has come to nothing stays there.                            *)
LEMMA NothingStays ==
  ASSUME Shapes, NEW slots \in [Slot -> MountEntry], NEW path \in Seq(Names),
         Walk(slots, path)[Len(path)] # NULL, NEW k \in 0 .. Len(path)
  PROVE  Walk(slots, path)[k] # NULL
<1> DEFINE w == Walk(slots, path)
           n == Len(path)
           bad == {j \in 0 .. n : k <= j /\ w[j] # NULL}
<1>1. /\ \A i \in 1 .. n : w[i] = Descend(slots, path[i])[w[i - 1]]
      /\ n \in Nat
  <2>1. WalkSteps(slots, path)
    BY WalkIs, Zenon
  <2>2. n \in Nat
    OBVIOUS
  <2> QED  BY <2>1, <2>2, Zenon DEF WalkSteps
<1>2. ASSUME w[k] = NULL PROVE FALSE
  <2>1. bad \in SUBSET Nat /\ n \in bad
    BY <1>1
  <2> DEFINE j == Min(bad)
  <2>2. j \in bad /\ \A i \in bad : j <= i
    BY <2>1, MinOfSet
  <2> HIDE DEF j, w, n
  <2>3. j # k
    BY <1>2, <2>2
  <2>4. j \in 1 .. n /\ k <= j - 1
    BY <1>1, <2>2, <2>3
  <2>5. j - 1 \in 0 .. n /\ j - 1 \notin bad
    BY <1>1, <2>2, <2>4
  <2>6. w[j - 1] = NULL
    BY <2>4, <2>5
  <2>7. w[j] = Descend(slots, path[j])[NULL]
    BY <1>1, <2>4, <2>6
  <2>8. w[j] = NULL
    BY <2>7 DEF Descend
  <2> QED  BY <2>2, <2>8
<1> QED  BY <1>2

(* A component that led somewhere leads there again, unless what it finds  *)
(* is a mount point now and was not, or refers to another root.            *)
LEMMA DescendAgain ==
  ASSUME Shapes, Shapes', Grows, NEW n \in Node, NEW name \in Names,
         Descend(g_mounts, name)[n] # NULL,
         \A m \in Node : name # EmptyName /\ m = finddir(n, name) =>
           Hop(g_mounts, m)' = Hop(g_mounts, m)
  PROVE  Descend(g_mounts, name)'[n] = Descend(g_mounts, name)[n]
<1>1. CASE name = EmptyName
  BY <1>1 DEF Descend
<1>2. CASE name # EmptyName
  <2>1. /\ Descend(g_mounts, name)[n] = Hop(g_mounts, finddir(n, name))
        /\ Descend(g_mounts, name)'[n] = Hop(g_mounts, finddir(n, name))'
    BY <1>2, NullIsNoNode DEF Descend
  <2>2. PICK m : m = finddir(n, name)
    OBVIOUS
  <2>3. m # NULL
    BY <2>1, <2>2 DEF Hop
  <2>4. m \in Node /\ finddir(n, name)' = m
    BY <2>2, <2>3, FindDirType, FoundAgain
  <2>5. Hop(g_mounts, m)' = Hop(g_mounts, m)
    BY <1>2, <2>2, <2>4
  <2>6. Hop(g_mounts, finddir(n, name))' = Hop(g_mounts, m)'
    BY <2>4 DEF Hop
  <2> QED  BY <2>1, <2>2, <2>5, <2>6
<1> QED  BY <1>1, <1>2

(* The first place where a path turns off.                                 *)
TurnsOff(p, i, m) ==
  /\ i \in 1 .. Len(p) /\ m \in Node
  /\ Walk(g_mounts, p)[i - 1] \in Node /\ p[i] # EmptyName
  /\ finddir(Walk(g_mounts, p)[i - 1], p[i]) = m

LEMMA FirstChange ==
  ASSUME Shapes, Shapes', Grows, g_vfs_root' = g_vfs_root, NEW p \in Seq(Names),
         vfs_resolve_path(p) # NULL, vfs_resolve_path(p)' # vfs_resolve_path(p)
  PROVE  \E i, m : TurnsOff(p, i, m) /\ Hop(g_mounts, m)' # Hop(g_mounts, m)
<1> DEFINE w == Walk(g_mounts, p)
           v == Walk(g_mounts, p)'
           n == Len(p)
           bad == {i \in 0 .. n : v[i] # w[i]}
<1>1. WalkSteps(g_mounts, p)
  BY ResolveAll DEF ResolvesAll
<1>2. WalkSteps(g_mounts, p)'
  <2>1. Shapes' => ResolvesAll'
    BY ResolveAll, PTL
  <2> QED  BY <2>1 DEF ResolvesAll
<1>3. /\ w \in [0 .. n -> Node \cup {NULL}] /\ w[0] = g_vfs_root
      /\ \A i \in 1 .. n : w[i] = Descend(g_mounts, p[i])[w[i - 1]]
  BY <1>1 DEF WalkSteps
<1>4. /\ v[0] = g_vfs_root
      /\ \A i \in 1 .. n : v[i] = Descend(g_mounts, p[i])'[v[i - 1]]
  BY <1>2 DEF WalkSteps
<1>5. n \in bad /\ n \in Nat /\ bad \in SUBSET Nat
  BY DEF vfs_resolve_path, ResolveIn
<1>6. \A k \in 0 .. n : w[k] # NULL
  <2>1. g_mounts \in [Slot -> MountEntry] /\ w[n] # NULL
    BY DEF Shapes, vfs_resolve_path, ResolveIn
  <2> QED  BY <2>1, NothingStays
<1> DEFINE i == Min(bad)
<1>7. i \in bad /\ \A k \in bad : i <= k
  BY <1>5, MinOfSet
<1> HIDE DEF w, v, n, i
<1>8. i \in 1 .. n
  BY <1>3, <1>4, <1>5, <1>7
<1>9. i - 1 \in 0 .. n /\ i - 1 \notin bad
  BY <1>5, <1>7, <1>8
<1>10. v[i - 1] = w[i - 1] /\ w[i - 1] \in Node /\ w[i] # NULL
  BY <1>3, <1>6, <1>8, <1>9
<1>11. p[i] \in Names
  BY <1>8 DEF n
<1>12. PICK at : at = w[i - 1]
  OBVIOUS
<1>13. PICK name : name = p[i]
  OBVIOUS
<1>14. w[i] = Descend(g_mounts, name)[at] /\ v[i] = Descend(g_mounts, name)'[at]
  BY <1>3, <1>4, <1>8, <1>10, <1>12, <1>13
<1>15. at \in Node /\ name \in Names /\ v[i] # w[i]
  BY <1>7, <1>10, <1>11, <1>12, <1>13
<1>16. PICK m \in Node : /\ name # EmptyName /\ m = finddir(at, name)
                         /\ Hop(g_mounts, m)' # Hop(g_mounts, m)
  BY <1>10, <1>14, <1>15, DescendAgain
<1>17. TurnsOff(p, i, m)
  BY <1>8, <1>12, <1>13, <1>15, <1>16 DEF TurnsOff, n, w
<1> QED  BY <1>16, <1>17

-----------------------------------------------------------------------------
(* The tree under creations and mounts                                     *)

IsPath(p) == p \in Seq(Names) /\ p # <<>>

LEMMA InitTree == Init => TreeInv
<1> SUFFICES ASSUME Init PROVE TreeInv
  OBVIOUS
<1> DEFINE root == <<"ramfs", 1>>
<1>1. root \in RamNode /\ root \in Node /\ 1 \in Slot /\ MAX_RAMFS_NODES \in Nat /\ MAX_MOUNTS \in Nat
  BY VfsConstants DEF RamNode, Node, Slot
<1>2. RootPath \in Seq(Names) /\ <<>> \in Seq(Names)
  BY VfsConstants DEF RootPath
<1>3. /\ kind = [n \in Node |-> IF n = root THEN "dir" ELSE "unused"]
      /\ children = [n \in Node |-> <<>>]
      /\ mount = [n \in Node |-> IF n = root THEN 1 ELSE 0]
      /\ g_mounts = [s \in Slot |-> IF s = 1 THEN [path |-> RootPath, root |-> root]
                                    ELSE [path |-> <<>>, root |-> NULL]]
      /\ ramfs_node_count = 1 /\ g_mount_count = 1 /\ g_vfs_root = root /\ unmounts = 0
  BY DEF Init
<1> HIDE DEF root
<1>4. g_mounts \in [Slot -> MountEntry] /\ \A s \in Slot : g_mounts[s].root \in {root, NULL}
  BY <1>1, <1>2, <1>3 DEF MountEntry
<1>5. Shapes
  <2>1. 1 \in 0 .. MAX_RAMFS_NODES /\ 1 \in 0 .. MAX_MOUNTS /\ 1 \in Slot \cup {0}
    BY VfsConstants, <1>1
  <2>2. children \in [Node -> Seq(Entry)]
    BY <1>3
  <2> QED  BY <1>1, <1>3, <1>4, <2>1, <2>2 DEF Shapes
<1>6. \A n \in Node : DOMAIN children[n] = {}
  BY <1>3
<1>7. ~IsChild(root) /\ \A n : ~IsChild(n)
  BY <1>6 DEF IsChild
<1>8. root \in Dirs
  BY <1>1, <1>3 DEF Dirs
<1>9. UsedOnly
  BY <1>1, <1>3, <1>4, <1>6, <1>8 DEF UsedOnly
<1>10. PoolInOrder
  <2> SUFFICES ASSUME NEW k \in ramfs_node_count + 1 .. MAX_RAMFS_NODES
               PROVE  kind[<<"ramfs", k>>] = "unused"
    BY Zenon DEF PoolInOrder
  <2>1. k \in 1 .. MAX_RAMFS_NODES /\ k # 1
    BY <1>1, <1>3
  <2>2. <<"ramfs", k>> \in Node /\ <<"ramfs", k>> # root
    BY <2>1 DEF root, Node, RamNode
  <2> QED  BY <1>3, <2>2
<1>11. TreeShape
  <2>1. \A fs \in StaticFs, k \in 0 .. MAX_STATIC_NODES : <<fs, k>> \in Node /\ <<fs, k>> # root
    BY VfsConstants DEF Node, root
  <2>2. RamNode \subseteq Node
    BY DEF Node
  <2>3. ASSUME NEW fs \in StaticFs, NEW k \in 1 .. MAX_STATIC_NODES
        PROVE  kind[<<fs, k>>] # "dir"
    <3>1. k \in 0 .. MAX_STATIC_NODES
      BY VfsConstants
    <3> QED  BY <1>3, <2>1, <3>1
  <2> QED  BY <1>6, <1>7, <2>1, <2>2, <2>3 DEF TreeShape
<1>12. MountShape
  <2>1. \A n \in Node : mount[n] <= g_mount_count
    BY <1>3
  <2>2. \A s \in 1 .. g_mount_count : g_mounts[s].root # NULL
    BY <1>1, <1>3, NullIsNoNode
  <2> QED  BY <1>7, <2>1, <2>2 DEF MountShape
<1> QED  BY <1>5, <1>9, <1>10, <1>11, <1>12 DEF TreeInv

(* An entry with a new node goes to the end of one directory.              *)
Adds(d, name, n, as) ==
  /\ d \in Node /\ name \in Names /\ n \in Node /\ as \in {"file", "dir"}
  /\ kind[n] # "dir" /\ ~IsChild(n)
  /\ kind' = [kind EXCEPT ![n] = as]
  /\ children' = [children EXCEPT ![d] = Append(@, [name |-> name, node |-> n])]
  /\ UNCHANGED <<mounts, unmounts>>

Added(d, n, as) ==
  /\ children' \in [Node -> Seq(Entry)]
  /\ kind' \in [Node -> {"unused", "file", "dir"}]
  /\ \A e \in Node : e # d => children'[e] = children[e]
  /\ Len(children'[d]) = Len(children[d]) + 1
  /\ \A i \in DOMAIN children'[d] :
       IF i = Len(children[d]) + 1 THEN children'[d][i].node = n
       ELSE i \in DOMAIN children[d] /\ children'[d][i] = children[d][i]
  /\ DOMAIN children[d] \subseteq DOMAIN children'[d]
  /\ \A i \in DOMAIN children[d] : children'[d][i] = children[d][i]
  /\ kind'[n] = as /\ \A m \in Node : m # n => kind'[m] = kind[m]

LEMMA AddedEntries ==
  ASSUME Shapes, NEW d, NEW name, NEW n, NEW as, Adds(d, name, n, as)
  PROVE  Added(d, n, as)
<1> DEFINE new == [name |-> name, node |-> n]
<1>1. d \in Node /\ new \in Entry /\ children[d] \in Seq(Entry) /\ n \in Node
      /\ children \in [Node -> Seq(Entry)] /\ kind \in [Node -> {"unused", "file", "dir"}]
      /\ as \in {"file", "dir"} /\ new.node = n
  BY DEF Adds, Entry, Shapes
<1>2. children' = [children EXCEPT ![d] = Append(children[d], new)] /\ kind' = [kind EXCEPT ![n] = as]
  BY DEF Adds
<1> HIDE DEF new
<1>3. Append(children[d], new) \in Seq(Entry)
  BY <1>1
<1>4. children'[d] = Append(children[d], new)
  BY <1>1, <1>2
<1>5. children' \in [Node -> Seq(Entry)] /\ \A e \in Node : e # d => children'[e] = children[e]
  BY <1>1, <1>2, <1>3
<1>6. Len(children'[d]) = Len(children[d]) + 1
  BY <1>1, <1>4
<1>7. ASSUME NEW i \in DOMAIN children'[d]
      PROVE  IF i = Len(children[d]) + 1 THEN children'[d][i].node = n
             ELSE i \in DOMAIN children[d] /\ children'[d][i] = children[d][i]
  <2>1. i \in 1 .. Len(children[d]) + 1
    BY <1>3, <1>4, <1>6
  <2>2. CASE i = Len(children[d]) + 1
    BY <1>1, <1>4, <2>2
  <2>3. CASE i \in 1 .. Len(children[d])
    BY <1>1, <1>4, <2>3
  <2> QED  BY <1>1, <2>1, <2>2, <2>3
<1>8. DOMAIN children[d] \subseteq DOMAIN children'[d]
      /\ \A i \in DOMAIN children[d] : children'[d][i] = children[d][i]
  BY <1>1, <1>3, <1>4
<1>9. kind' \in [Node -> {"unused", "file", "dir"}]
      /\ kind'[n] = as /\ \A m \in Node : m # n => kind'[m] = kind[m]
  BY <1>1, <1>2
<1> QED  BY <1>5, <1>6, <1>7, <1>8, <1>9 DEF Added

LEMMA AddsGrows ==
  ASSUME Shapes, NEW d, NEW name, NEW n, NEW as, Adds(d, name, n, as)
  PROVE  Grows
<1> SUFFICES ASSUME NEW e \in Node
             PROVE  /\ Len(children[e]) <= Len(children'[e])
                    /\ \A i \in DOMAIN children[e] : children'[e][i] = children[e][i]
  <2>1. Added(d, n, as) /\ as # "unused"
    BY AddedEntries, Zenon DEF Adds
  <2>2. Used \subseteq Used'
    BY <2>1 DEF Added, Used
  <2> QED  BY <2>2 DEF Grows
<1>1. children[e] \in Seq(Entry) /\ children[d] \in Seq(Entry)
  BY DEF Shapes, Adds
<1>0. Added(d, n, as)
  BY AddedEntries, Zenon
<1>2. CASE e # d
  <2>1. children'[e] = children[e] /\ Len(children[e]) \in Nat
    BY <1>0, <1>1, <1>2 DEF Added
  <2> QED  BY <2>1
<1>3. CASE e = d
  <2>1. Len(children[d]) \in Nat
    BY <1>1
  <2>2. Len(children[d]) <= Len(children'[d])
    BY <1>0, <2>1 DEF Added
  <2> QED  BY <1>0, <1>3, <2>2 DEF Added
<1> QED  BY <1>2, <1>3

NewEntries(d, n) ==
  \A e \in Node : \A i \in DOMAIN children'[e] :
    \/ i \in DOMAIN children[e] /\ children'[e][i] = children[e][i]
    \/ e = d /\ i = Len(children[d]) + 1 /\ children'[e][i].node = n

LEMMA AddsChildren ==
  ASSUME Shapes, NEW d, NEW name, NEW n, NEW as, Adds(d, name, n, as)
  PROVE  NewEntries(d, n) /\ \A m : IsChild(m)' => m = n \/ IsChild(m)
<1>0. Added(d, n, as)
  BY AddedEntries, Zenon
<1>1. ASSUME NEW e \in Node, NEW i \in DOMAIN children'[e]
      PROVE  \/ i \in DOMAIN children[e] /\ children'[e][i] = children[e][i]
             \/ e = d /\ i = Len(children[d]) + 1 /\ children'[e][i].node = n
  <2>1. CASE e = d
    BY <1>0, <1>1, <2>1 DEF Added
  <2>2. CASE e # d
    BY <1>0, <1>1, <2>2 DEF Added
  <2> QED  BY <2>1, <2>2
<1>2. ASSUME NEW m, IsChild(m)' PROVE m = n \/ IsChild(m)
  <2>1. PICK e \in Node : \E i \in DOMAIN children'[e] : children'[e][i].node = m
    BY <1>2 DEF IsChild
  <2>2. PICK i \in DOMAIN children'[e] : children'[e][i].node = m
    BY <2>1
  <2> QED  BY <1>1, <2>2 DEF IsChild
<1> QED  BY <1>1, <1>2 DEF NewEntries

(* What any such addition keeps of the tree.                               *)
LEMMA AddsKeeps ==
  ASSUME TreeInv, NEW d, NEW name, NEW n, NEW as, Adds(d, name, n, as),
         ramfs_node_count' \in 0 .. MAX_RAMFS_NODES,
         PoolInOrder',
         \/ d \in RamNode /\ n \in RamNode /\ mount[n] = 0
         \/ \E fs \in StaticFs : d = <<fs, 0>> /\ n = <<fs, Len(children[d]) + 1>> /\ as = "file"
  PROVE  TreeInv'
<1>0. Shapes /\ UsedOnly /\ TreeShape /\ MountShape
  BY DEF TreeInv
<1>10. Added(d, n, as)
  BY <1>0, AddedEntries, Zenon
<1>11. NewEntries(d, n) /\ \A m : IsChild(m)' => m = n \/ IsChild(m)
  BY <1>0, AddsChildren, Zenon
<1>1. /\ mount' = mount /\ g_mounts' = g_mounts /\ g_mount_count' = g_mount_count
      /\ g_vfs_root' = g_vfs_root /\ unmounts' = unmounts
      /\ d \in Node /\ n \in Node /\ ~IsChild(n) /\ kind[n] # "dir" /\ as \in {"file", "dir"}
  BY DEF Adds, mounts
<1>2. Shapes'
  BY <1>0, <1>1, <1>10 DEF Shapes, Added
<1>3. Dirs \subseteq Dirs' /\ Used \subseteq Used' /\ n \in Used'
  <2>1. /\ kind'[n] = as /\ \A m \in Node : m # n => kind'[m] = kind[m]
    BY <1>10 DEF Added
  <2> QED  BY <1>1, <2>1 DEF Dirs, Used
<1>6. \A e \in Node : \A i \in DOMAIN children'[e] :
        \/ i \in DOMAIN children[e] /\ children'[e][i] = children[e][i]
        \/ e = d /\ i = Len(children[d]) + 1 /\ children'[e][i].node = n
  BY <1>11 DEF NewEntries
<1>7. \A m : IsChild(m)' => m = n \/ IsChild(m)
  BY <1>11
<1>4. UsedOnly'
  <2>1. \A e \in Node : \A i \in DOMAIN children'[e] : children'[e][i].node \in Used'
    BY <1>0, <1>3, <1>6 DEF UsedOnly
  <2>2. /\ \A s \in Slot : g_mounts'[s].root \in Dirs' \cup {NULL}
        /\ g_vfs_root' \in Dirs'
        /\ \A m \in Node : mount'[m] # 0 => m \in Dirs'
    BY <1>0, <1>1, <1>3 DEF UsedOnly
  <2> QED  BY <2>1, <2>2 DEF UsedOnly
<1>5. n \notin Dirs /\ mount[n] = 0 /\ n # NULL
  BY <1>0, <1>1, NullIsNoNode DEF Dirs, UsedOnly
<1>8. TreeShape'
  <2>1. ASSUME NEW e \in Node, NEW f \in Node,
               NEW i \in DOMAIN children'[e], NEW j \in DOMAIN children'[f],
               children'[e][i].node = children'[f][j].node
        PROVE  e = f /\ i = j
    <3>1. \A g \in Node : \A k \in DOMAIN children[g] : children[g][k].node # n
      BY <1>1 DEF IsChild
    <3>2. \A g, h \in Node : \A k \in DOMAIN children[g], l \in DOMAIN children[h] :
             children[g][k].node = children[h][l].node => g = h /\ k = l
      BY <1>0 DEF TreeShape
    <3> QED  BY <1>6, <2>1, <3>1, <3>2
  <2>2. ASSUME NEW e \in RamNode, NEW i \in DOMAIN children'[e]
        PROVE  children'[e][i].node \in RamNode
    <3>1. e \in Node /\ \A fs \in StaticFs : e # <<fs, 0>>
      BY VfsConstants DEF Node, RamNode
    <3>2. \A k \in DOMAIN children[e] : children[e][k].node \in RamNode
      BY <1>0 DEF TreeShape
    <3> QED  BY <1>6, <3>1, <3>2
  <2>3. ASSUME NEW fs \in StaticFs, NEW k \in 0 .. MAX_STATIC_NODES, NEW i \in DOMAIN children'[<<fs, k>>]
        PROVE  k = 0 /\ i <= MAX_STATIC_NODES /\ children'[<<fs, k>>][i].node = <<fs, i>>
    <3>1. <<fs, k>> \in Node /\ <<fs, k>> \notin RamNode
      BY VfsConstants DEF Node, RamNode
    <3>2. \A j \in DOMAIN children[<<fs, k>>] :
            k = 0 /\ j <= MAX_STATIC_NODES /\ children[<<fs, k>>][j].node = <<fs, j>>
      BY <1>0 DEF TreeShape
    <3>3. PICK e : e = <<fs, k>>
      OBVIOUS
    <3>4. CASE i \in DOMAIN children[e] /\ children'[e][i] = children[e][i]
      BY <3>2, <3>3, <3>4
    <3>5. CASE e = d /\ i = Len(children[d]) + 1 /\ children'[e][i].node = n
      <4>1. PICK gs \in StaticFs : d = <<gs, 0>> /\ n = <<gs, Len(children[d]) + 1>>
        BY <3>1, <3>3, <3>5
      <4>2. gs = fs /\ k = 0
        BY <3>3, <3>5, <4>1
      <4>3. n \notin RamNode /\ n = <<fs, i>>
        BY <3>5, <4>1, <4>2, VfsConstants DEF RamNode
      <4>4. i <= MAX_STATIC_NODES
        BY <1>1, <4>3, VfsConstants DEF Node
      <4> QED  BY <3>3, <3>5, <4>2, <4>3, <4>4
    <3> QED  BY <1>6, <3>1, <3>3, <3>4, <3>5
  <2>4. ASSUME NEW fs \in StaticFs, NEW k \in 1 .. MAX_STATIC_NODES
        PROVE  kind'[<<fs, k>>] # "dir"
    <3>1. PICK m : m = <<fs, k>>
      OBVIOUS
    <3>2. m \in Node /\ m \notin RamNode
      BY <3>1, VfsConstants DEF Node, RamNode
    <3>3. kind[m] # "dir"
      BY <1>0, <3>1 DEF TreeShape
    <3>4. m = n => as = "file"
      BY <3>2
    <3>5. kind'[n] = as /\ (m # n => kind'[m] = kind[m])
      BY <1>10, <3>2 DEF Added
    <3> QED  BY <3>1, <3>3, <3>4, <3>5
  <2>5. ~IsChild(g_vfs_root)'
    <3>1. PICK r : r = g_vfs_root
      OBVIOUS
    <3>2. ~IsChild(r) /\ r # n
      BY <1>0, <1>5, <3>1 DEF TreeShape, UsedOnly
    <3>3. ~IsChild(r)'
      BY <1>7, <3>2
    <3> QED  BY <1>1, <3>1, <3>3 DEF IsChild
  <2>6. ASSUME NEW s \in Slot PROVE ~IsChild(g_mounts[s].root)'
    <3>1. PICK r : r = g_mounts[s].root
      OBVIOUS
    <3>2. ~IsChild(r) /\ r # n
      BY <1>0, <1>5, <3>1 DEF TreeShape, UsedOnly
    <3>3. ~IsChild(r)'
      BY <1>7, <3>2
    <3> QED  BY <1>1, <3>1, <3>3 DEF IsChild
  <2> QED  BY <2>1, <2>2, <2>3, <2>4, <2>5, <2>6 DEF TreeShape
<1>9. MountShape'
  <2>1. \A m \in Node : IsChild(m)' /\ mount[m] # 0 => IsChild(m) /\ mount[m] # 0
    BY <1>5, <1>7
  <2> QED  BY <1>0, <1>1, <2>1 DEF MountShape
<1> QED  BY <1>2, <1>4, <1>8, <1>9 DEF TreeInv

LEMMA FreshNode ==
  ASSUME TreeInv, ramfs_node_count < MAX_RAMFS_NODES
  PROVE  /\ <<"ramfs", ramfs_node_count + 1>> \in RamNode \cap Node
         /\ kind[<<"ramfs", ramfs_node_count + 1>>] = "unused"
         /\ ~IsChild(<<"ramfs", ramfs_node_count + 1>>)
         /\ mount[<<"ramfs", ramfs_node_count + 1>>] = 0
         /\ ramfs_node_count + 1 \in 0 .. MAX_RAMFS_NODES
<1> DEFINE k == ramfs_node_count + 1
           n == <<"ramfs", k>>
<1>1. k \in 1 .. MAX_RAMFS_NODES /\ k \in ramfs_node_count + 1 .. MAX_RAMFS_NODES
  BY VfsConstants DEF TreeInv, Shapes
<1> HIDE DEF k
<1>2. n \in RamNode /\ n \in Node
  BY <1>1 DEF RamNode, Node
<1>3. kind[n] = "unused"
  BY <1>1 DEF TreeInv, PoolInOrder
<1> HIDE DEF n
<1>4. n \notin Used /\ n \notin Dirs
  BY <1>3 DEF Used, Dirs
<1>5. ~IsChild(n) /\ mount[n] = 0
  BY <1>2, <1>4 DEF TreeInv, UsedOnly, IsChild
<1> QED  BY <1>1, <1>2, <1>3, <1>5, VfsConstants DEF k, n

(* The nodes after the new one are as unused as before.                    *)
LEMMA PoolMoves ==
  ASSUME Shapes, PoolInOrder, ramfs_node_count < MAX_RAMFS_NODES, NEW as, ramfs_alloc_node(as)
  PROVE  PoolInOrder'
<1> SUFFICES ASSUME NEW k \in ramfs_node_count' + 1 .. MAX_RAMFS_NODES
             PROVE  kind'[<<"ramfs", k>>] = "unused"
  BY Zenon DEF PoolInOrder
<1>1. ramfs_node_count \in Nat /\ MAX_RAMFS_NODES \in Nat /\ ramfs_node_count' = ramfs_node_count + 1
  BY VfsConstants DEF Shapes, ramfs_alloc_node
<1>2. k \in ramfs_node_count + 1 .. MAX_RAMFS_NODES /\ k # ramfs_node_count + 1 /\ k \in 1 .. MAX_RAMFS_NODES
  BY <1>1
<1>3. kind[<<"ramfs", k>>] = "unused"
  BY <1>2 DEF PoolInOrder
<1> DEFINE n == <<"ramfs", ramfs_node_count + 1>>
<1>4. <<"ramfs", k>> # n /\ <<"ramfs", k>> \in Node
  BY <1>2 DEF RamNode, Node
<1>5. kind' = [kind EXCEPT ![n] = as] /\ kind \in [Node -> {"unused", "file", "dir"}]
  BY DEF ramfs_alloc_node, Shapes
<1> HIDE DEF n
<1> QED  BY <1>3, <1>4, <1>5

LEMMA LastName ==
  ASSUME NEW p, IsPath(p)
  PROVE  Last(p) \in Names /\ Front(p) \in Seq(Names)
<1>1. p \in Seq(Names) /\ Len(p) \in Nat /\ Len(p) # 0
  BY DEF IsPath
<1>2. Len(p) \in 1 .. Len(p) /\ Len(p) - 1 \in 0 .. Len(p)
  BY <1>1
<1>3. Last(p) \in Names
  BY <1>1, <1>2 DEF Last
<1>4. Front(p) \in Seq(Names)
  <2>1. SubSeq(p, 1, Len(p) - 1) \in Seq(Names)
    <3>1. \A i \in 1 .. Len(p) - 1 : p[i] \in Names
      BY <1>1
    <3> QED  BY <1>1, <3>1
  <2> QED  BY <2>1 DEF Front
<1> QED  BY <1>3, <1>4

LEMMA CreateAdds ==
  ASSUME TreeInv, NEW p, IsPath(p), NEW as \in {"file", "dir"}, CreateAt(p, as),
         UNCHANGED <<mounts, unmounts>>
  PROVE  TreeInv' /\ Grows
<1> DEFINE d == vfs_resolve_path(Front(p))
           name == ChildName[Last(p)]
           n == <<"ramfs", ramfs_node_count + 1>>
<1>1. /\ d \in RamNode \cap Dirs
      /\ ramfs_alloc_node(as)
      /\ children' = [children EXCEPT ![d] = Append(@, [name |-> name, node |-> n])]
  <2>1. ramfs_create(d, Last(p), as)
    BY DEF CreateAt
  <2> HIDE DEF d
  <2> QED  BY <2>1, Zenon DEF ramfs_create
<1>9. ramfs_node_count < MAX_RAMFS_NODES
  BY <1>1 DEF ramfs_alloc_node
<1>2. name \in Names
  BY LastName, VfsConstants
<1>3. n \in RamNode /\ n \in Node /\ kind[n] = "unused" /\ ~IsChild(n) /\ mount[n] = 0
      /\ ramfs_node_count + 1 \in 0 .. MAX_RAMFS_NODES
  BY <1>9, FreshNode
<1>4. ramfs_node_count' = ramfs_node_count + 1 /\ kind' = [kind EXCEPT ![n] = as]
  BY <1>1 DEF ramfs_alloc_node
<1>5. PoolInOrder'
  BY <1>1, <1>9, PoolMoves DEF TreeInv
<1> HIDE DEF d, name, n
<1>6. Adds(d, name, n, as)
  BY <1>1, <1>2, <1>3, <1>4 DEF Adds, Dirs
<1>7. TreeInv'
  BY <1>1, <1>3, <1>4, <1>5, <1>6, AddsKeeps, Zenon
<1>8. Grows
  BY <1>6, AddsGrows, Zenon DEF TreeInv
<1> QED  BY <1>7, <1>8

LEMMA AddStaticAdds ==
  ASSUME TreeInv, NEW fs \in StaticFs, NEW name \in Names, AddStaticEntry(fs, name)
  PROVE  TreeInv' /\ Grows
<1> DEFINE d == <<fs, 0>>
           k == Len(children[d]) + 1
           n == <<fs, k>>
           stored == ChildName[name]
<1>1. /\ k <= MAX_STATIC_NODES
      /\ kind' = [kind EXCEPT ![n] = "file"]
      /\ children' = [children EXCEPT ![d] = Append(@, [name |-> stored, node |-> n])]
      /\ UNCHANGED <<ramfs_node_count, mounts, unmounts>>
  BY DEF AddStaticEntry
<1>2. MAX_STATIC_NODES \in Nat /\ stored \in Names /\ d \in Node
  BY VfsConstants DEF Node
<1>3. children[d] \in Seq(Entry) /\ Shapes /\ TreeShape
  BY <1>2 DEF TreeInv, Shapes
<1>4. k \in 1 .. MAX_STATIC_NODES
  BY <1>1, <1>2, <1>3
<1> HIDE DEF stored, k
<1>5. n \in Node /\ n \notin RamNode /\ kind[n] # "dir"
  BY <1>2, <1>3, <1>4, VfsConstants DEF Node, RamNode, TreeShape
<1>6. ~IsChild(n)
  <2> SUFFICES ASSUME NEW e \in Node, NEW i \in DOMAIN children[e], children[e][i].node = n
               PROVE  FALSE
    BY DEF IsChild
  <2>1. e \notin RamNode
    BY <1>3, <1>5 DEF TreeShape
  <2>2. PICK gs \in StaticFs, j \in 0 .. MAX_STATIC_NODES : e = <<gs, j>>
    BY <2>1 DEF Node
  <2>3. j = 0 /\ n = <<gs, i>>
    BY <1>3, <2>2 DEF TreeShape
  <2>4. gs = fs /\ i = k /\ e = d
    BY <2>2, <2>3
  <2>5. k \in 1 .. Len(children[d])
    BY <1>3, <2>4
  <2> QED  BY <1>3, <2>5 DEF k
<1>7. PoolInOrder'
  <2> SUFFICES ASSUME NEW j \in ramfs_node_count + 1 .. MAX_RAMFS_NODES
               PROVE  kind'[<<"ramfs", j>>] = "unused"
    <3>1. ramfs_node_count' = ramfs_node_count
      BY <1>1
    <3> QED  BY <3>1, Zenon DEF PoolInOrder
  <2>1. j \in 1 .. MAX_RAMFS_NODES
    BY <1>3, VfsConstants DEF Shapes
  <2>2. <<"ramfs", j>> \in Node /\ <<"ramfs", j>> # n
    BY <1>5, <2>1 DEF Node, RamNode
  <2>3. kind[<<"ramfs", j>>] = "unused"
    BY DEF TreeInv, PoolInOrder
  <2>4. kind \in [Node -> {"unused", "file", "dir"}]
    BY <1>3 DEF Shapes
  <2> HIDE DEF n
  <2> QED  BY <1>1, <2>2, <2>3, <2>4
<1>8. ramfs_node_count' \in 0 .. MAX_RAMFS_NODES
  BY <1>1, <1>3 DEF Shapes
<1>9. \E gs \in StaticFs : d = <<gs, 0>> /\ n = <<gs, Len(children[d]) + 1>>
  BY DEF k
<1> HIDE DEF d, n
<1>10. Adds(d, stored, n, "file")
  BY <1>1, <1>2, <1>5, <1>6 DEF Adds
<1>11. TreeInv'
  BY <1>7, <1>8, <1>9, <1>10, AddsKeeps, Zenon
<1>12. Grows
  BY <1>3, <1>10, AddsGrows, Zenon
<1> QED  BY <1>11, <1>12

(* What fs->mount returns: a root that is nobody's child.                  *)
LEMMA NewRoot ==
  ASSUME TreeInv, NEW fstype \in StaticFs \cup {"ramfs"}, NEW root \in Node, FsMount(fstype, root)
  PROVE  /\ kind' = [kind EXCEPT ![root] = "dir"]
         /\ kind' \in [Node -> {"unused", "file", "dir"}]
         /\ ramfs_node_count' \in 0 .. MAX_RAMFS_NODES
         /\ ~IsChild(root) /\ PoolInOrder'
         /\ root \in Dirs' /\ Dirs' = Dirs \cup {root} /\ Used \subseteq Used'
         /\ \/ root \in RamNode /\ root \notin Dirs
            \/ \E fs \in StaticFs : root = <<fs, 0>>
<1>1. Shapes /\ TreeShape /\ PoolInOrder
  BY DEF TreeInv
<1>2. CASE fstype = "ramfs"
  <2>1. ramfs_alloc_node("dir") /\ root = <<"ramfs", ramfs_node_count + 1>>
    BY <1>2, VfsConstants DEF FsMount
  <2>2. /\ kind' = [kind EXCEPT ![root] = "dir"]
        /\ ramfs_node_count < MAX_RAMFS_NODES /\ ramfs_node_count' = ramfs_node_count + 1
    BY <2>1 DEF ramfs_alloc_node
  <2>3. root \in RamNode /\ ~IsChild(root) /\ kind[root] = "unused"
        /\ ramfs_node_count' \in 0 .. MAX_RAMFS_NODES
    BY <2>1, <2>2, FreshNode
  <2>4. PoolInOrder'
    BY <1>1, <2>1, <2>2, PoolMoves
  <2>5. kind \in [Node -> {"unused", "file", "dir"}]
    BY <1>1 DEF Shapes
  <2>6. kind' \in [Node -> {"unused", "file", "dir"}]
    BY <2>2, <2>5
  <2>7. root \in Dirs' /\ Dirs' = Dirs \cup {root} /\ Used \subseteq Used' /\ root \notin Dirs
    BY <2>2, <2>3, <2>5 DEF Dirs, Used
  <2> QED  BY <2>2, <2>3, <2>4, <2>6, <2>7
<1>3. CASE fstype \in StaticFs
  <2>1. /\ kind' = [kind EXCEPT ![root] = "dir"]
        /\ root = <<fstype, 0>> /\ UNCHANGED ramfs_node_count
    BY <1>3, VfsConstants DEF FsMount
  <2>2. ~IsChild(root)
    <3> SUFFICES ASSUME NEW e \in Node, NEW i \in DOMAIN children[e], children[e][i].node = root
                 PROVE  FALSE
      BY DEF IsChild
    <3>1. root \notin RamNode
      BY <1>3, <2>1, VfsConstants DEF RamNode
    <3>2. e \notin RamNode
      BY <1>1, <3>1 DEF TreeShape
    <3>3. PICK gs \in StaticFs, j \in 0 .. MAX_STATIC_NODES : e = <<gs, j>>
      BY <3>2 DEF Node
    <3>4. root = <<gs, i>>
      BY <1>1, <3>3 DEF TreeShape
    <3>5. i = 0
      BY <2>1, <3>4
    <3>6. i \in 1 .. Len(children[e])
      BY <1>1, EntriesAre
    <3> QED  BY <3>5, <3>6
  <2>3. kind \in [Node -> {"unused", "file", "dir"}] /\ ramfs_node_count \in 0 .. MAX_RAMFS_NODES
    BY <1>1 DEF Shapes
  <2>4. kind' \in [Node -> {"unused", "file", "dir"}]
    BY <2>1, <2>3
  <2>5. root \in Dirs' /\ Dirs' = Dirs \cup {root} /\ Used \subseteq Used'
    BY <2>1, <2>3 DEF Dirs, Used
  <2>6. PoolInOrder'
    <3> SUFFICES ASSUME NEW k \in ramfs_node_count' + 1 .. MAX_RAMFS_NODES
                 PROVE  kind'[<<"ramfs", k>>] = "unused"
      BY Zenon DEF PoolInOrder
    <3>1. k \in ramfs_node_count + 1 .. MAX_RAMFS_NODES
      BY <2>1
    <3>2. k \in 1 .. MAX_RAMFS_NODES
      BY <2>3, <3>1, VfsConstants
    <3>3. <<"ramfs", k>> \in Node /\ <<"ramfs", k>> # root
      BY <1>3, <2>1, <3>2, VfsConstants DEF Node, RamNode
    <3>4. kind[<<"ramfs", k>>] = "unused"
      BY <1>1, <3>1 DEF PoolInOrder
    <3> HIDE DEF PoolInOrder
    <3> QED  BY <2>1, <2>3, <3>3, <3>4
  <2> QED  BY <1>3, <2>1, <2>2, <2>3, <2>4, <2>5, <2>6
<1> QED  BY <1>2, <1>3

(* What LinkMount does to the links.                                       *)
Links(s, root, at) ==
  /\ mount' \in [Node -> Slot \cup {0}]
  /\ \A n \in Node : n # root /\ (n # at \/ at \notin Dirs') => mount'[n] = mount[n]
  /\ mount'[root] \in {0, s, mount[root]}
  /\ at \in Dirs' => mount'[at] = s
  /\ at \notin Dirs' => \A n \in Node : mount'[n] \in {0, mount[n]}
  /\ g_mount_count' = IF at \in Dirs' THEN s ELSE g_mount_count

LEMMA LinksAre ==
  ASSUME TreeInv, NEW p, NEW s \in Slot, NEW root \in Node, root \in Dirs', LinkMount(p, s, root)
  PROVE  \/ p = RootPath /\ g_vfs_root' = root /\ Links(s, root, root)
         \/ /\ p # RootPath /\ g_vfs_root' = g_vfs_root
            /\ Links(s, root, ResolveIn([g_mounts EXCEPT ![s] = [path |-> p, root |-> root]], p))
<1> DEFINE at == ResolveIn([g_mounts EXCEPT ![s] = [path |-> p, root |-> root]], p)
           unlinked == IF root[1] \in StaticFs THEN [mount EXCEPT ![root] = 0] ELSE mount
<1>1. \/ /\ p = RootPath /\ g_vfs_root' = root
         /\ mount' = [unlinked EXCEPT ![root] = s] /\ g_mount_count' = s
      \/ /\ p # RootPath /\ at \in Dirs' /\ g_vfs_root' = g_vfs_root
         /\ mount' = [unlinked EXCEPT ![at] = s] /\ g_mount_count' = s
      \/ /\ p # RootPath /\ at \notin Dirs' /\ g_vfs_root' = g_vfs_root
         /\ mount' = unlinked /\ g_mount_count' = g_mount_count
  BY DEF LinkMount
<1>2. mount \in [Node -> Slot \cup {0}] /\ Dirs' \subseteq Node
  BY DEF TreeInv, Shapes, Dirs
<1>3. /\ unlinked \in [Node -> Slot \cup {0}]
      /\ \A n \in Node : n # root => unlinked[n] = mount[n]
      /\ unlinked[root] \in {0, mount[root]}
  BY <1>2
<1> HIDE DEF at, unlinked
<1>4. CASE /\ p = RootPath /\ g_vfs_root' = root
           /\ mount' = [unlinked EXCEPT ![root] = s] /\ g_mount_count' = s
  BY <1>2, <1>3, <1>4 DEF Links
<1>5. CASE /\ p # RootPath /\ at \in Dirs' /\ g_vfs_root' = g_vfs_root
           /\ mount' = [unlinked EXCEPT ![at] = s] /\ g_mount_count' = s
  <2>1. Links(s, root, at)
    BY <1>2, <1>3, <1>5 DEF Links
  <2> QED  BY <1>5, <2>1 DEF at
<1>6. CASE /\ p # RootPath /\ at \notin Dirs' /\ g_vfs_root' = g_vfs_root
           /\ mount' = unlinked /\ g_mount_count' = g_mount_count
  <2>1. Links(s, root, at)
    BY <1>2, <1>3, <1>6 DEF Links
  <2> QED  BY <1>6, <2>1 DEF at
<1> QED  BY <1>1, <1>4, <1>5, <1>6

(* A directory below another is a ramfs node.                              *)
LEMMA ChildDirs ==
  ASSUME Shapes, TreeShape, NEW n \in Dirs, IsChild(n)
  PROVE  n \in RamNode
<1> SUFFICES ASSUME n \notin RamNode PROVE FALSE
  OBVIOUS
<1>1. n \in Node /\ kind[n] = "dir"
  BY DEF Dirs
<1>2. PICK fs \in StaticFs, k \in 0 .. MAX_STATIC_NODES : n = <<fs, k>>
  BY <1>1 DEF Node
<1>3. k = 0
  <2>1. k \notin 1 .. MAX_STATIC_NODES
    BY <1>1, <1>2 DEF TreeShape
  <2> QED  BY <2>1, VfsConstants
<1>4. PICK e \in Node : \E i \in DOMAIN children[e] : children[e][i].node = n
  BY DEF IsChild
<1>5. PICK i \in DOMAIN children[e] : children[e][i].node = n
  BY <1>4
<1>6. e \notin RamNode
  BY <1>5 DEF TreeShape
<1>7. PICK gs \in StaticFs, j \in 0 .. MAX_STATIC_NODES : e = <<gs, j>>
  BY <1>6 DEF Node
<1>8. n = <<gs, i>>
  BY <1>5, <1>7 DEF TreeShape
<1>9. i \in 1 .. Len(children[e])
  BY EntriesAre
<1> QED  BY <1>2, <1>3, <1>8, <1>9

LEMMA MountKeeps ==
  ASSUME TreeInv, NEW p, IsPath(p), NEW fstype \in StaticFs \cup {"ramfs"}, vfs_mount(p, fstype)
  PROVE  TreeInv' /\ Grows
<1> DEFINE s == g_mount_count + 1
<1>1. PICK root \in Node : FsMount(fstype, root) /\ LinkMount(p, s, root)
  BY DEF vfs_mount
<1>2. g_mount_count < MAX_MOUNTS /\ children' = children /\ unmounts' = unmounts
  BY DEF vfs_mount
<1>0. Shapes /\ UsedOnly /\ TreeShape /\ MountShape
  BY DEF TreeInv
<1>3. s \in Slot /\ s \in 0 .. MAX_MOUNTS /\ g_mount_count \in 0 .. MAX_MOUNTS /\ s > g_mount_count
  BY <1>0, <1>2, VfsConstants DEF Shapes, Slot
<1>4. /\ kind' = [kind EXCEPT ![root] = "dir"]
      /\ kind' \in [Node -> {"unused", "file", "dir"}]
      /\ ramfs_node_count' \in 0 .. MAX_RAMFS_NODES
      /\ ~IsChild(root) /\ PoolInOrder'
      /\ root \in Dirs' /\ Dirs' = Dirs \cup {root} /\ Used \subseteq Used'
      /\ \/ root \in RamNode /\ root \notin Dirs
         \/ \E fs \in StaticFs : root = <<fs, 0>>
  BY <1>1, NewRoot, Zenon
<1> HIDE DEF s
<1>5. PICK at : Links(s, root, at) /\ ((g_vfs_root' = root /\ at = root) \/ g_vfs_root' = g_vfs_root)
  BY <1>1, <1>3, <1>4, LinksAre, Zenon
<1>6. g_mounts' = [g_mounts EXCEPT ![s] = [path |-> p, root |-> root]]
  BY <1>1 DEF LinkMount
<1>7. /\ g_mounts' \in [Slot -> MountEntry]
      /\ g_mounts'[s].root = root
      /\ \A t \in Slot : t # s => g_mounts'[t] = g_mounts[t]
  <2>1. g_mounts \in [Slot -> MountEntry]
    BY <1>0 DEF Shapes
  <2>2. [path |-> p, root |-> root] \in MountEntry /\ [path |-> p, root |-> root].root = root
    BY DEF MountEntry, IsPath
  <2> DEFINE entry == [path |-> p, root |-> root]
  <2> HIDE DEF entry
  <2>3. g_mounts' = [g_mounts EXCEPT ![s] = entry] /\ entry \in MountEntry /\ entry.root = root
    BY <1>6, <2>2 DEF entry
  <2> QED  BY <1>3, <2>1, <2>3
<1>8. Shapes'
  <2>1. mount' \in [Node -> Slot \cup {0}] /\ g_mount_count' \in 0 .. MAX_MOUNTS /\ g_vfs_root' \in Node
    BY <1>0, <1>3, <1>5 DEF Shapes, Links
  <2> QED  BY <1>0, <1>2, <1>4, <1>7, <2>1 DEF Shapes
<1>9. UsedOnly'
  <2>1. \A n \in Node : \A i \in DOMAIN children'[n] : children'[n][i].node \in Used'
    BY <1>0, <1>2, <1>4 DEF UsedOnly
  <2>2. \A t \in Slot : g_mounts'[t].root \in Dirs' \cup {NULL}
    BY <1>0, <1>4, <1>7 DEF UsedOnly
  <2>3. g_vfs_root' \in Dirs'
    BY <1>0, <1>4, <1>5 DEF UsedOnly
  <2>4. ASSUME NEW n \in Node, mount'[n] # 0 PROVE n \in Dirs'
    <3>1. CASE n = root
      BY <1>4, <3>1
    <3>2. CASE n # root /\ n # at
      <4>1. mount[n] # 0
        BY <1>5, <2>4, <3>2 DEF Links
      <4> QED  BY <1>0, <1>4, <4>1 DEF UsedOnly
    <3>3. CASE n = at /\ at \notin Dirs'
      <4>1. mount[n] # 0
        BY <1>5, <2>4, <3>3 DEF Links
      <4> QED  BY <1>0, <1>4, <4>1 DEF UsedOnly
    <3> QED  BY <3>1, <3>2, <3>3
  <2> QED  BY <2>1, <2>2, <2>3, <2>4 DEF UsedOnly
<1>10. \A m : IsChild(m)' <=> IsChild(m)
  BY <1>2 DEF IsChild
<1>11. TreeShape'
  <2>1. ASSUME NEW fs \in StaticFs, NEW k \in 1 .. MAX_STATIC_NODES PROVE kind'[<<fs, k>>] # "dir"
    <3>1. PICK m : m = <<fs, k>>
      OBVIOUS
    <3>2. m \in Node /\ m # root
      BY <1>4, <3>1, VfsConstants DEF Node, RamNode
    <3>3. kind[m] # "dir" /\ kind \in [Node -> {"unused", "file", "dir"}]
      BY <1>0, <3>1 DEF TreeShape, Shapes
    <3> QED  BY <1>4, <3>1, <3>2, <3>3
  <2>2. ~IsChild(g_vfs_root)'
    <3>1. PICK r : r = g_vfs_root'
      OBVIOUS
    <3>2. ~IsChild(r)
      BY <1>0, <1>4, <1>5, <3>1 DEF TreeShape
    <3>3. ~IsChild(r)'
      BY <1>10, <3>2
    <3> QED  BY <3>1, <3>3 DEF IsChild
  <2>3. ASSUME NEW t \in Slot PROVE ~IsChild(g_mounts[t].root)'
    <3>1. PICK r : r = g_mounts'[t].root
      OBVIOUS
    <3>2. ~IsChild(r)
      BY <1>0, <1>4, <1>7, <3>1 DEF TreeShape
    <3>3. ~IsChild(r)'
      BY <1>10, <3>2
    <3> QED  BY <3>1, <3>3 DEF IsChild
  <2> QED  BY <1>0, <1>2, <2>1, <2>2, <2>3 DEF TreeShape
<1>12. MountShape'
  <2> SUFFICES ASSUME unmounts' = 0
               PROVE  /\ \A n \in Node : mount'[n] <= g_mount_count'
                      /\ \A t \in 1 .. g_mount_count' : g_mounts'[t].root # NULL
                      /\ \A n \in Node : IsChild(n)' /\ mount'[n] # 0 =>
                           n \in RamNode
                           /\ (g_vfs_root' \in RamNode => g_mounts'[mount'[n]].root # g_vfs_root')
                      /\ \A m, n \in Node :
                           (/\ IsChild(m)' /\ mount'[m] # 0 /\ IsChild(n)' /\ mount'[n] # 0
                            /\ g_mounts'[mount'[m]].root = g_mounts'[mount'[n]].root
                            /\ g_mounts'[mount'[m]].root \in RamNode) => m = n
    BY DEF MountShape
  <2>1. /\ \A n \in Node : mount[n] <= g_mount_count
        /\ \A t \in 1 .. g_mount_count : g_mounts[t].root # NULL
        /\ \A n \in Node : IsChild(n) /\ mount[n] # 0 =>
             n \in RamNode /\ (g_vfs_root \in RamNode => g_mounts[mount[n]].root # g_vfs_root)
        /\ \A m, n \in Node :
             (/\ IsChild(m) /\ mount[m] # 0 /\ IsChild(n) /\ mount[n] # 0
              /\ g_mounts[mount[m]].root = g_mounts[mount[n]].root
              /\ g_mounts[mount[m]].root \in RamNode) => m = n
    BY <1>0, <1>2 DEF MountShape
  <2>2. /\ mount' \in [Node -> Slot \cup {0}] /\ mount \in [Node -> Slot \cup {0}]
        /\ MAX_MOUNTS \in Nat /\ g_mount_count \in Nat /\ s \in Nat /\ s = g_mount_count + 1
    BY <1>0, <1>3, <1>5, VfsConstants DEF Shapes, Links, s
  (* Slots in use keep their roots, and a new root is in none of them.     *)
  <2>3. \A t \in 1 .. g_mount_count : t \in Slot /\ t # s /\ g_mounts'[t] = g_mounts[t]
    BY <1>3, <1>7, <2>2 DEF Slot
  <2>4. root \in RamNode => g_vfs_root # root /\ \A t \in Slot : g_mounts[t].root # root
    BY <1>0, <1>4, VfsConstants, NullIsNoNode DEF UsedOnly, RamNode
  (* A mount point that is a child was one before, or is the new one.      *)
  <2>5. ASSUME NEW n \in Node, IsChild(n)', mount'[n] # 0
        PROVE  /\ IsChild(n) /\ n \in RamNode
               /\ \/ /\ n = at /\ at \in Dirs' /\ mount'[n] = s
                     /\ g_mounts'[mount'[n]].root = root /\ g_vfs_root' = g_vfs_root
                  \/ /\ mount'[n] = mount[n] /\ mount[n] \in 1 .. g_mount_count
                     /\ g_mounts'[mount'[n]] = g_mounts[mount[n]]
    <3>1. IsChild(n) /\ n # root
      BY <1>4, <1>10, <2>5
    <3>2. CASE n = at /\ at \in Dirs'
      <4>1. mount'[n] = s /\ g_vfs_root' = g_vfs_root
        BY <1>5, <3>1, <3>2 DEF Links
      <4>2. n \in RamNode
        <5>1. n \in Dirs
          BY <1>4, <3>1, <3>2
        <5> QED  BY <1>0, <3>1, <5>1, ChildDirs
      <4> QED  BY <1>7, <3>1, <3>2, <4>1, <4>2
    <3>3. CASE ~ (n = at /\ at \in Dirs')
      <4>1. mount'[n] = mount[n]
        BY <1>5, <2>5, <3>1, <3>3 DEF Links
      <4>2. mount[n] \in 1 .. g_mount_count
        BY <2>1, <2>2, <2>5, <4>1 DEF Slot
      <4> QED  BY <2>1, <2>3, <2>5, <3>1, <4>1, <4>2
    <3> QED  BY <3>2, <3>3
  <2>6. ASSUME NEW n \in Node PROVE mount'[n] <= g_mount_count'
    <3>1. at \notin Dirs' => mount'[n] \in {0, mount[n]}
      BY <1>5 DEF Links
    <3>2. at \in Dirs' => mount'[n] \in {0, s, mount[n]}
      BY <1>5 DEF Links
    <3>3. g_mount_count' = IF at \in Dirs' THEN s ELSE g_mount_count
      BY <1>5 DEF Links
    <3>4. mount[n] <= g_mount_count /\ mount[n] \in Nat
      BY <2>1, <2>2 DEF Slot
    <3> QED  BY <2>2, <3>1, <3>2, <3>3, <3>4
  <2>7. ASSUME NEW t \in 1 .. g_mount_count' PROVE g_mounts'[t].root # NULL
    <3>1. t \in 1 .. g_mount_count \/ t = s
      BY <1>5, <2>2 DEF Links
    <3> QED  BY <1>7, <2>1, <2>3, <3>1, NullIsNoNode
  <2>8. ASSUME NEW n \in Node, IsChild(n)', mount'[n] # 0, g_vfs_root' \in RamNode
        PROVE  g_mounts'[mount'[n]].root # g_vfs_root'
    <3>1. CASE n = at /\ at \in Dirs' /\ g_mounts'[mount'[n]].root = root /\ g_vfs_root' = g_vfs_root
      BY <2>4, <2>8, <3>1
    <3>2. CASE mount[n] \in 1 .. g_mount_count /\ mount'[n] = mount[n]
               /\ g_mounts'[mount'[n]] = g_mounts[mount[n]]
      <4>1. IsChild(n) /\ mount[n] # 0 /\ mount[n] \in Slot
        BY <2>3, <2>5, <2>8, <3>2
      <4>2. CASE g_vfs_root' = root
        BY <2>4, <2>8, <3>2, <4>1, <4>2
      <4>3. CASE g_vfs_root' = g_vfs_root
        BY <2>1, <2>8, <3>2, <4>1, <4>3
      <4> QED  BY <1>5, <4>2, <4>3
    <3> QED  BY <2>5, <2>8, <3>1, <3>2
  <2>9. ASSUME NEW m \in Node, NEW n \in Node,
               IsChild(m)', mount'[m] # 0, IsChild(n)', mount'[n] # 0,
               g_mounts'[mount'[m]].root = g_mounts'[mount'[n]].root,
               g_mounts'[mount'[m]].root \in RamNode
        PROVE  m = n
    <3> DEFINE New(x) == x = at /\ g_mounts'[mount'[x]].root = root
               Old(x) == /\ IsChild(x) /\ mount[x] # 0 /\ mount[x] \in Slot
                         /\ g_mounts'[mount'[x]] = g_mounts[mount[x]]
    <3>1. (New(m) \/ Old(m)) /\ (New(n) \/ Old(n))
      BY <2>3, <2>5, <2>9
    <3>2. CASE New(m) /\ New(n)
      BY <3>2
    <3>3. CASE New(m) /\ Old(n)
      BY <2>4, <2>9, <3>3
    <3>4. CASE Old(m) /\ New(n)
      BY <2>4, <2>9, <3>4
    <3>5. CASE Old(m) /\ Old(n)
      <4>1. g_mounts[mount[m]].root = g_mounts[mount[n]].root /\ g_mounts[mount[m]].root \in RamNode
        BY <2>9, <3>5
      <4> QED  BY <2>1, <3>5, <4>1
    <3> QED  BY <3>1, <3>2, <3>3, <3>4, <3>5
  <2> QED  BY <2>5, <2>6, <2>7, <2>8, <2>9
<1>13. Grows
  BY <1>0, <1>2, <1>4 DEF Grows, Shapes
<1> QED  BY <1>4, <1>8, <1>9, <1>11, <1>12, <1>13 DEF TreeInv

(* Steps that leave nodes and directories alone keep most of the rest.     *)
LEMMA TablesKeep ==
  ASSUME TreeInv, UNCHANGED <<tree, mount, g_vfs_root>>,
         g_mounts' \in [Slot -> MountEntry], g_mount_count' \in 0 .. MAX_MOUNTS, unmounts' \in Nat,
         \A s \in Slot : g_mounts'[s].root = NULL \/ \E t \in Slot : g_mounts'[s].root = g_mounts[t].root,
         MountShape'
  PROVE  TreeInv' /\ Grows
<1>0. Shapes /\ UsedOnly /\ PoolInOrder /\ TreeShape
  BY DEF TreeInv
<1>1. /\ ramfs_node_count' = ramfs_node_count /\ kind' = kind /\ children' = children
      /\ mount' = mount /\ g_vfs_root' = g_vfs_root
  BY DEF tree
<1>2. Shapes'
  BY <1>0, <1>1 DEF Shapes
<1>3. Dirs' = Dirs /\ Used' = Used
  BY <1>1 DEF Dirs, Used
<1>4. UsedOnly'
  <2>1. \A s \in Slot : g_mounts'[s].root \in Dirs' \cup {NULL}
    BY <1>0, <1>3 DEF UsedOnly
  <2> QED  BY <1>0, <1>1, <1>3, <2>1 DEF UsedOnly
<1>5. PoolInOrder'
  BY <1>0, <1>1, Zenon DEF PoolInOrder
<1>6. \A m : IsChild(m)' <=> IsChild(m)
  BY <1>1 DEF IsChild
<1>7. ~IsChild(NULL)
  BY <1>0, NullIsNoNode, EntriesAre DEF IsChild
<1>8. TreeShape'
  <2>1. ~IsChild(g_vfs_root)'
    BY <1>0, <1>1 DEF TreeShape, IsChild
  <2>2. ASSUME NEW s \in Slot PROVE ~IsChild(g_mounts[s].root)'
    <3>1. PICK r : r = g_mounts'[s].root
      OBVIOUS
    <3>2. ~IsChild(r)
      BY <1>0, <1>7, <3>1 DEF TreeShape
    <3>3. ~IsChild(r)'
      BY <1>6, <3>2
    <3> QED  BY <3>1, <3>3 DEF IsChild
  <2> QED  BY <1>0, <1>1, <2>1, <2>2 DEF TreeShape
<1>9. Grows
  BY <1>0, <1>1, <1>3 DEF Grows, Shapes
<1> QED  BY <1>2, <1>4, <1>5, <1>8, <1>9 DEF TreeInv

LEMMA MountFailsKeeps ==
  ASSUME TreeInv, NEW p, IsPath(p), NEW fstype, vfs_mount_fails(p, fstype)
  PROVE  TreeInv' /\ Grows
<1> DEFINE s == g_mount_count + 1
           entry == [path |-> p, root |-> NULL]
<1>1. /\ g_mount_count < MAX_MOUNTS
      /\ g_mounts' = [g_mounts EXCEPT ![s] = entry]
      /\ UNCHANGED <<tree, mount, g_mount_count, g_vfs_root, unmounts>>
  BY DEF vfs_mount_fails
<1>2. /\ g_mounts \in [Slot -> MountEntry] /\ g_mount_count \in 0 .. MAX_MOUNTS /\ unmounts \in Nat
      /\ mount \in [Node -> Slot \cup {0}] /\ MountShape
  BY DEF TreeInv, Shapes
<1>3. s \in Slot /\ s > g_mount_count /\ MAX_MOUNTS \in Nat
  BY <1>1, <1>2, VfsConstants DEF Slot
<1>4. entry \in MountEntry /\ entry.root = NULL
  BY DEF MountEntry, IsPath
<1> HIDE DEF entry, s
<1>5. /\ g_mounts' \in [Slot -> MountEntry] /\ g_mounts'[s].root = NULL
      /\ \A t \in Slot : t # s => g_mounts'[t] = g_mounts[t]
  BY <1>1, <1>2, <1>3, <1>4
<1>6. MountShape'
  <2> SUFFICES ASSUME unmounts = 0 PROVE MountShape'
    BY <1>1 DEF MountShape
  <2>1. \A t \in 1 .. g_mount_count : t \in Slot /\ g_mounts'[t] = g_mounts[t]
    BY <1>2, <1>3, <1>5 DEF Slot
  <2>2. \A n \in Node : mount[n] # 0 => mount[n] \in 1 .. g_mount_count
    BY <1>2, <1>3 DEF MountShape, Slot
  <2>3. \A n : IsChild(n)' <=> IsChild(n)
    BY <1>1 DEF IsChild, tree
  <2>4. \A n \in Node : mount[n] # 0 => g_mounts'[mount[n]] = g_mounts[mount[n]]
    BY <2>1, <2>2
  <2> QED  BY <1>1, <1>2, <2>1, <2>3, <2>4 DEF MountShape
<1>7. \A t \in Slot : g_mounts'[t].root = NULL \/ \E u \in Slot : g_mounts'[t].root = g_mounts[u].root
  BY <1>5
<1> QED  BY <1>1, <1>2, <1>5, <1>6, <1>7, TablesKeep

LEMMA UnmountKeeps ==
  ASSUME TreeInv, NEW p, vfs_unmount(p)
  PROVE  TreeInv' /\ Grows
<1> DEFINE least == MountedAt(p)
<1>1. /\ SlotsAt(p) # {}
      /\ g_mounts' = [s \in Slot |-> IF s \in least .. g_mount_count - 1
                                       THEN g_mounts[s + 1] ELSE g_mounts[s]]
      /\ g_mount_count' = g_mount_count - 1 /\ unmounts' = unmounts + 1
      /\ UNCHANGED <<tree, mount, g_vfs_root>>
  BY DEF vfs_unmount
<1>2. /\ g_mounts \in [Slot -> MountEntry] /\ g_mount_count \in 0 .. MAX_MOUNTS /\ unmounts \in Nat
      /\ MAX_MOUNTS \in Nat
  BY VfsConstants DEF TreeInv, Shapes
<1>3. SlotsAt(p) \in SUBSET Nat /\ SlotsAt(p) \subseteq 1 .. g_mount_count
  BY DEF SlotsAt
<1>4. least \in SlotsAt(p)
  BY <1>1, <1>3, MinOfSet DEF MountedAt
<1> HIDE DEF least
<1>5. least \in 1 .. g_mount_count
  BY <1>3, <1>4
<1>6. \A s \in Slot : s \in least .. g_mount_count - 1 => s + 1 \in Slot
  BY <1>2, <1>5 DEF Slot
<1>7. g_mounts' \in [Slot -> MountEntry]
      /\ \A s \in Slot : \E t \in Slot : g_mounts'[s].root = g_mounts[t].root
  BY <1>1, <1>2, <1>6
<1>8. g_mount_count' \in 0 .. MAX_MOUNTS /\ unmounts' \in Nat /\ unmounts' # 0
  BY <1>1, <1>2, <1>5
<1>9. MountShape'
  BY <1>8 DEF MountShape
<1> QED  BY <1>1, <1>7, <1>8, <1>9, TablesKeep

-----------------------------------------------------------------------------
(* Descriptors and listings                                                *)

FileInv == Files /\ OffsetsInside /\ ListingIsPrefix

(* A path leads to a node in use.                                          *)
ResolvesUsed == \A path \in Seq(Names) : vfs_resolve_path(path) \in Used \cup {NULL}

LEMMA ResolveUsed == TreeInv => ResolvesUsed
<1> SUFFICES ASSUME TreeInv, NEW path \in Seq(Names)
             PROVE  vfs_resolve_path(path) \in Used \cup {NULL}
  BY DEF ResolvesUsed
<1> DEFINE w == Walk(g_mounts, path)
           n == Len(path)
           bad == {i \in 0 .. n : w[i] \notin Used \cup {NULL}}
<1>0. Shapes /\ UsedOnly
  BY DEF TreeInv
<1>1. WalkSteps(g_mounts, path)
  BY <1>0, ResolveAll DEF ResolvesAll
<1>2. /\ w[0] = g_vfs_root /\ n \in Nat
      /\ \A i \in 1 .. n : w[i] = Descend(g_mounts, path[i])[w[i - 1]]
      /\ w \in [0 .. n -> Node \cup {NULL}]
  BY <1>1 DEF WalkSteps
<1>3. Dirs \subseteq Used /\ Used \subseteq Node
  BY DEF Dirs, Used
<1>4. ASSUME bad # {} PROVE FALSE
  <2>1. bad \in SUBSET Nat
    BY <1>2
  <2> DEFINE i == Min(bad)
  <2>2. i \in bad /\ \A k \in bad : i <= k
    BY <1>4, <2>1, MinOfSet
  <2> HIDE DEF i, w, n
  <2>3. i \in 0 .. n /\ w[i] \notin Used \cup {NULL}
    BY <2>2
  <2>4. i # 0
    BY <1>0, <1>2, <1>3, <2>3 DEF UsedOnly
  <2>5. i \in 1 .. n /\ i - 1 \in 0 .. n /\ i - 1 \notin bad
    BY <1>2, <2>2, <2>3, <2>4
  <2>6. PICK d : d = w[i - 1]
    OBVIOUS
  <2>7. d \in Used \cup {NULL} /\ w[i] = Descend(g_mounts, path[i])[d]
    BY <1>2, <2>5, <2>6
  <2>8. CASE d = NULL \/ path[i] = EmptyName
    <3>1. w[i] = d
      BY <1>3, <2>7, <2>8 DEF Descend
    <3> QED  BY <2>3, <2>7, <3>1
  <2>9. CASE d # NULL /\ path[i] # EmptyName
    <3>1. d \in Node /\ w[i] = Hop(g_mounts, finddir(d, path[i]))
      BY <1>3, <2>7, <2>9 DEF Descend
    <3>2. PICK m : m = finddir(d, path[i])
      OBVIOUS
    <3>3. m \in Used \cup {NULL}
      BY <1>0, <3>1, <3>2, FindDir DEF UsedOnly
    <3>4. CASE m # NULL /\ mount[m] # 0
      <4>1. mount[m] \in Slot
        BY <1>0, <1>3, <3>3, <3>4 DEF Shapes
      <4>2. w[i] = g_mounts[mount[m]].root
        BY <3>1, <3>2, <3>4 DEF Hop
      <4>3. w[i] \in Dirs \cup {NULL}
        BY <1>0, <4>1, <4>2 DEF UsedOnly
      <4> QED  BY <1>3, <2>3, <4>3
    <3>5. CASE ~ (m # NULL /\ mount[m] # 0)
      BY <2>3, <3>1, <3>2, <3>3, <3>5 DEF Hop
    <3> QED  BY <3>4, <3>5
  <2> QED  BY <2>8, <2>9
<1>5. n \in 0 .. n
  BY <1>2
<1> QED  BY <1>4, <1>5 DEF vfs_resolve_path, ResolveIn

(* Descriptors that are left alone follow their directories.               *)
Follows(fd) ==
  /\ g_fds[fd] \in File /\ listed[fd] \in Seq(Node) /\ g_fds[fd].node \in Used \cup {NULL}
  /\ g_fds[fd].node # NULL =>
       /\ g_fds[fd].offset <= Len(children[g_fds[fd].node])
       /\ listed[fd] = [i \in 1 .. g_fds[fd].offset |-> children[g_fds[fd].node][i].node]

AllFollow ==
  /\ \A fd \in FDs : Follows(fd)
  /\ g_fds \in [FDs -> File] /\ listed \in [FDs -> Seq(Node)]

LEMMA FileInvIs == FileInv <=> AllFollow
<1>1. ASSUME FileInv PROVE \A fd \in FDs : Follows(fd)
  BY <1>1 DEF FileInv, Files, OffsetsInside, ListingIsPrefix, Follows
<1>2. FileInv => g_fds \in [FDs -> File] /\ listed \in [FDs -> Seq(Node)]
  BY DEF FileInv, Files
<1>3. ASSUME \A fd \in FDs : Follows(fd), g_fds \in [FDs -> File], listed \in [FDs -> Seq(Node)]
      PROVE  FileInv
  <2>1. Files
    BY <1>3 DEF Follows, Files
  <2>2. OffsetsInside
    BY <1>3 DEF Follows, OffsetsInside
  <2>3. ListingIsPrefix
    BY <1>3 DEF Follows, ListingIsPrefix
  <2> QED  BY <2>1, <2>2, <2>3 DEF FileInv
<1> QED  BY <1>1, <1>2, <1>3 DEF AllFollow

LEMMA StillFollows ==
  ASSUME Shapes, Shapes', Grows, NEW fd \in FDs, Follows(fd),
         g_fds'[fd] = g_fds[fd], listed'[fd] = listed[fd]
  PROVE  Follows(fd)'
<1> DEFINE node == g_fds[fd].node
           k == g_fds[fd].offset
<1>1. g_fds[fd] \in File /\ node \in Node \cup {NULL} /\ k \in Nat
  BY DEF Follows, File
<1>2. ASSUME node # NULL
      PROVE  k <= Len(children'[node]) /\ listed[fd] = [i \in 1 .. k |-> children'[node][i].node]
  <2>1. node \in Node
    BY <1>1, <1>2
  <2>2. children[node] \in Seq(Entry) /\ children'[node] \in Seq(Entry)
    BY <2>1 DEF Shapes
  <2>3. k <= Len(children[node]) /\ listed[fd] = [i \in 1 .. k |-> children[node][i].node]
    BY <1>2 DEF Follows
  <2>4. Len(children[node]) <= Len(children'[node])
    BY <2>1 DEF Grows
  <2>5. \A i \in 1 .. k : children'[node][i] = children[node][i]
    <3>1. 1 .. k \subseteq DOMAIN children[node]
      BY <1>1, <2>2, <2>3
    <3> QED  BY <2>1, <3>1 DEF Grows
  <2> HIDE DEF node, k
  <2>6. [i \in 1 .. k |-> children[node][i].node] = [i \in 1 .. k |-> children'[node][i].node]
    BY <2>5
  <2> QED  BY <1>1, <2>2, <2>3, <2>4, <2>6
<1>3. g_fds'[fd] \in File /\ listed'[fd] \in Seq(Node) /\ g_fds'[fd].node \in Used' \cup {NULL}
  BY DEF Follows, Grows
<1> QED  BY <1>2, <1>3 DEF Follows

LEMMA FilesKeep ==
  ASSUME Shapes, Shapes', Grows, FileInv, UNCHANGED <<g_fds, listed>>
  PROVE  FileInv'
<1>1. \A fd \in FDs : Follows(fd)
  BY FileInvIs DEF AllFollow
<1>2. g_fds' = g_fds /\ listed' = listed /\ g_fds \in [FDs -> File] /\ listed \in [FDs -> Seq(Node)]
  BY FileInvIs DEF AllFollow
<1>3. \A fd \in FDs : Follows(fd)'
  BY <1>1, <1>2, StillFollows
<1>4. FileInv' <=> AllFollow'
  BY FileInvIs, PTL
<1> QED  BY <1>2, <1>3, <1>4 DEF AllFollow

LEMMA OpenFd ==
  ASSUME Shapes, Shapes', Grows, FileInv, NEW fd \in FDs, NEW node \in Used' \cup {NULL},
         g_fds' = [g_fds EXCEPT ![fd] = [node |-> node, offset |-> 0]],
         listed' = [listed EXCEPT ![fd] = <<>>]
  PROVE  FileInv'
<1> DEFINE file == [node |-> node, offset |-> 0]
<1>1. (\A e \in FDs : Follows(e)) /\ g_fds \in [FDs -> File] /\ listed \in [FDs -> Seq(Node)]
  BY FileInvIs DEF AllFollow
<1>2. file \in File /\ file.node = node /\ file.offset = 0
  BY DEF File, Used
<1>3. node # NULL => node \in Node
  BY DEF Used
<1> HIDE DEF file
<1>4. /\ g_fds' = [g_fds EXCEPT ![fd] = file] /\ g_fds' \in [FDs -> File] /\ g_fds'[fd] = file
      /\ listed' \in [FDs -> Seq(Node)] /\ listed'[fd] = <<>>
      /\ \A e \in FDs : e # fd => g_fds'[e] = g_fds[e] /\ listed'[e] = listed[e]
  BY <1>1, <1>2 DEF file
<1>5. Follows(fd)'
  <2>1. ASSUME node # NULL
        PROVE  0 <= Len(children'[node]) /\ <<>> = [i \in 1 .. 0 |-> children'[node][i].node]
    <3>1. children'[node] \in Seq(Entry)
      BY <1>3, <2>1 DEF Shapes
    <3>2. 0 <= Len(children'[node])
      BY <3>1
    <3>3. <<>> = [i \in 1 .. 0 |-> children'[node][i].node]
      OBVIOUS
    <3> QED  BY <3>2, <3>3
  <2>2. <<>> \in Seq(Node)
    OBVIOUS
  <2> QED  BY <1>2, <1>4, <2>1, <2>2 DEF Follows
<1>6. ASSUME NEW e \in FDs, e # fd PROVE Follows(e)'
  BY <1>1, <1>4, <1>6, StillFollows
<1>7. FileInv' <=> AllFollow'
  BY FileInvIs, PTL
<1> QED  BY <1>4, <1>5, <1>6, <1>7 DEF AllFollow

LEMMA FreeFd ==
  ASSUME FreeFds # {}
  PROVE  Min(FreeFds) \in FDs
<1>1. FreeFds \in SUBSET Nat
  BY VfsConstants DEF FreeFds
<1>2. Min(FreeFds) \in FreeFds
  BY <1>1, MinOfSet
<1> QED  BY <1>2 DEF FreeFds

LEMMA OpenKeeps ==
  ASSUME TreeInv, FileInv, NEW p, IsPath(p), NEW creat, vfs_open(p, creat)
  PROVE  TreeInv' /\ Grows /\ FileInv'
<1>0. UNCHANGED <<mounts, unmounts>>
  BY DEF vfs_open
<1>1. TreeInv' /\ Grows
  <2>1. CASE CreateAt(p, "file")
    BY <1>0, <2>1, CreateAdds
  <2>2. CASE UNCHANGED tree
    <3>1. UNCHANGED <<tree, mount, g_vfs_root>> /\ g_mounts' = g_mounts
          /\ g_mount_count' = g_mount_count /\ unmounts' = unmounts
      BY <1>0, <2>2 DEF mounts
    <3>2. MountShape'
      BY <3>1 DEF TreeInv, MountShape, IsChild, tree
    <3> QED  BY <3>1, <3>2, TablesKeep DEF TreeInv, Shapes
  <2> QED  BY <2>1, <2>2 DEF vfs_open
<1>2. PICK node : node = vfs_resolve_path(p)'
  OBVIOUS
<1>3. node \in Used' \cup {NULL}
  <2>1. TreeInv' => ResolvesUsed'
    BY ResolveUsed, PTL
  <2> QED  BY <1>1, <1>2, <2>1 DEF ResolvesUsed, IsPath
<1>4. Shapes /\ Shapes'
  BY <1>1 DEF TreeInv
<1>5. CASE UNCHANGED <<g_fds, listed>>
  BY <1>1, <1>4, <1>5, FilesKeep
<1>6. CASE /\ FreeFds # {}
           /\ g_fds' = [g_fds EXCEPT ![Min(FreeFds)] = [node |-> node, offset |-> 0]]
           /\ listed' = [listed EXCEPT ![Min(FreeFds)] = <<>>]
  <2>1. PICK fd \in FDs : fd = Min(FreeFds)
    BY <1>6, FreeFd
  <2> QED  BY <1>1, <1>3, <1>4, <1>6, <2>1, OpenFd
<1> QED  BY <1>1, <1>2, <1>5, <1>6 DEF vfs_open

LEMMA CloseKeeps ==
  ASSUME Shapes, Shapes', Grows, FileInv, NEW fd \in FDs, vfs_close(fd)
  PROVE  FileInv'
BY OpenFd DEF vfs_close, ClosedFd

LEMMA ReaddirKeeps ==
  ASSUME Shapes, Shapes', Grows, FileInv, NEW fd \in FDs, vfs_readdir(fd)
  PROVE  FileInv'
<1> DEFINE node == g_fds[fd].node
           k == g_fds[fd].offset
           entries == children[node]
           next == entries[k + 1].node
<1>1. (\A e \in FDs : Follows(e)) /\ g_fds \in [FDs -> File] /\ listed \in [FDs -> Seq(Node)]
  BY FileInvIs DEF AllFollow
<1>2. /\ node # NULL /\ k < Len(entries)
      /\ listed' = [listed EXCEPT ![fd] = Append(listed[fd], next)]
      /\ g_fds' = [g_fds EXCEPT ![fd].offset = k + 1]
      /\ children' = children /\ kind' = kind
  BY DEF vfs_readdir, tree
<1>3. node \in Node /\ k \in Nat /\ node \in Used
  BY <1>1, <1>2 DEF File, Follows
<1>4. entries \in Seq(Entry) /\ Len(entries) \in Nat
  BY <1>3 DEF Shapes
<1>5. k + 1 \in DOMAIN entries /\ k + 1 \in 1 .. Len(entries)
  BY <1>2, <1>3, <1>4
<1>6. next \in Node
  BY <1>3, <1>5, EntriesAre
<1>7. /\ g_fds' \in [FDs -> File] /\ g_fds'[fd].node = node /\ g_fds'[fd].offset = k + 1
      /\ \A e \in FDs : e # fd => g_fds'[e] = g_fds[e]
  <2>1. DOMAIN g_fds = FDs /\ g_fds[fd] \in File
    BY <1>1
  <2>2. g_fds' = [g_fds EXCEPT ![fd] = [g_fds[fd] EXCEPT !.offset = k + 1]]
    BY <1>2
  <2>3. [g_fds[fd] EXCEPT !.offset = k + 1] \in File
        /\ [g_fds[fd] EXCEPT !.offset = k + 1].node = node
        /\ [g_fds[fd] EXCEPT !.offset = k + 1].offset = k + 1
    BY <1>3, <2>1 DEF File
  <2> DEFINE file == [g_fds[fd] EXCEPT !.offset = k + 1]
  <2> HIDE DEF file, k, node
  <2>4. g_fds' = [g_fds EXCEPT ![fd] = file]
    BY <2>2 DEF file
  <2>5. file \in File /\ file.node = node /\ file.offset = k + 1
    BY <2>3 DEF file
  <2> QED  BY <1>1, <2>4, <2>5
<1>8. listed[fd] \in Seq(Node) /\ listed[fd] = [i \in 1 .. k |-> entries[i].node]
  BY <1>1, <1>2 DEF Follows
<1> HIDE DEF node, k, entries, next
<1>9. Append(listed[fd], next) \in Seq(Node)
  BY <1>6, <1>8
<1>10. Len(listed[fd]) = k
  BY <1>3, <1>8
<1>11. Append(listed[fd], next) = [i \in 1 .. k + 1 |-> entries[i].node]
  <2> DEFINE old == listed[fd]
             new == Append(listed[fd], next)
  <2>1. old \in Seq(Node) /\ Len(old) = k /\ \A i \in 1 .. k : old[i] = entries[i].node
    BY <1>3, <1>8, <1>10
  <2>2. new = Append(old, next)
    OBVIOUS
  <2> HIDE DEF old, new
  <2>3. new = [i \in 1 .. k + 1 |-> new[i]]
    <3>1. new \in Seq(Node) /\ Len(new) = k + 1
      BY <1>3, <1>6, <2>1, <2>2
    <3> QED  BY <3>1
  <2>4. ASSUME NEW i \in 1 .. k + 1 PROVE new[i] = entries[i].node
    <3>1. new[k + 1] = next /\ \A j \in 1 .. k : new[j] = old[j]
      BY <1>3, <1>6, <2>1, <2>2
    <3>2. next = entries[k + 1].node
      BY DEF next
    <3> QED  BY <1>3, <2>1, <3>1, <3>2
  <2>5. new = [i \in 1 .. k + 1 |-> entries[i].node]
    BY <2>3, <2>4
  <2> QED  BY <2>5 DEF new
<1>12. /\ listed' \in [FDs -> Seq(Node)] /\ listed'[fd] = [i \in 1 .. k + 1 |-> entries[i].node]
       /\ \A e \in FDs : e # fd => listed'[e] = listed[e]
  BY <1>1, <1>2, <1>9, <1>11
<1>13. Follows(fd)'
  <2>1. g_fds'[fd] \in File /\ listed'[fd] \in Seq(Node) /\ g_fds'[fd].node \in Used'
    BY <1>3, <1>7, <1>12 DEF Grows
  <2>2. k + 1 <= Len(children'[node])
        /\ listed'[fd] = [i \in 1 .. k + 1 |-> children'[node][i].node]
    BY <1>2, <1>4, <1>5, <1>12 DEF entries
  <2> QED  BY <1>7, <2>1, <2>2 DEF Follows
<1>14. ASSUME NEW e \in FDs, e # fd PROVE Follows(e)'
  BY <1>1, <1>7, <1>12, <1>14, StillFollows
<1>15. FileInv' <=> AllFollow'
  BY FileInvIs, PTL
<1> QED  BY <1>7, <1>12, <1>13, <1>14, <1>15 DEF AllFollow

-----------------------------------------------------------------------------
(* The invariant                                                           *)

LEMMA InitInv == Init => Inv
<1> SUFFICES ASSUME Init PROVE Inv
  OBVIOUS
<1>1. TreeInv
  BY InitTree
<1>2. g_fds = [fd \in FDs |-> ClosedFd] /\ listed = [fd \in FDs |-> <<>>]
  BY DEF Init
<1>3. ClosedFd \in File /\ ClosedFd.node = NULL
  BY DEF ClosedFd, File
<1> QED  BY <1>1, <1>2, <1>3 DEF Inv, Files, OffsetsInside, ListingIsPrefix

(* Every step is one that leaves descriptors alone or a call on one.       *)
LEMMA StepInv ==
  ASSUME TreeInv, FileInv, Next
  PROVE  TreeInv' /\ Grows /\ FileInv'
<1>0. \A p \in Path : IsPath(p)
  BY VfsConstants DEF IsPath
<1>1. ASSUME TreeInv', Grows, UNCHANGED <<g_fds, listed>> PROVE FileInv'
  BY <1>1, FilesKeep DEF TreeInv
<1>2. ASSUME UNCHANGED <<tree, mounts, unmounts>> PROVE TreeInv' /\ Grows
  <2>1. UNCHANGED <<tree, mount, g_vfs_root>> /\ g_mounts' = g_mounts
        /\ g_mount_count' = g_mount_count /\ unmounts' = unmounts
    BY <1>2 DEF mounts
  <2>2. MountShape'
    BY <2>1 DEF TreeInv, MountShape, IsChild, tree
  <2> QED  BY <2>1, <2>2, TablesKeep DEF TreeInv, Shapes
<1>3. ASSUME NEW p \in Path, vfs_create(p) PROVE TreeInv' /\ Grows /\ FileInv'
  BY <1>0, <1>1, <1>3, CreateAdds DEF vfs_create
<1>4. ASSUME NEW p \in Path, vfs_mkdir(p) PROVE TreeInv' /\ Grows /\ FileInv'
  BY <1>0, <1>1, <1>4, CreateAdds DEF vfs_mkdir
<1>5. ASSUME NEW p \in Path, vfs_unmount(p) PROVE TreeInv' /\ Grows /\ FileInv'
  BY <1>1, <1>5, UnmountKeeps DEF vfs_unmount
<1>6. ASSUME NEW p \in Path, NEW creat \in BOOLEAN, vfs_open(p, creat)
      PROVE  TreeInv' /\ Grows /\ FileInv'
  BY <1>0, <1>6, OpenKeeps
<1>7. ASSUME NEW p \in Path, NEW fstype \in StaticFs \cup {"ramfs"}, vfs_mount(p, fstype)
      PROVE  TreeInv' /\ Grows /\ FileInv'
  BY <1>0, <1>1, <1>7, MountKeeps DEF vfs_mount
<1>8. ASSUME NEW p \in Path, NEW fstype \in StaticFs \cup {"ramfs"}, vfs_mount_fails(p, fstype)
      PROVE  TreeInv' /\ Grows /\ FileInv'
  BY <1>0, <1>1, <1>8, MountFailsKeeps DEF vfs_mount_fails
<1>9. ASSUME NEW fs \in StaticFs, NEW name \in Names, AddStaticEntry(fs, name)
      PROVE  TreeInv' /\ Grows /\ FileInv'
  BY <1>1, <1>9, AddStaticAdds DEF AddStaticEntry
<1>10. ASSUME NEW fd \in FDs, vfs_close(fd) PROVE TreeInv' /\ Grows /\ FileInv'
  <2>1. TreeInv' /\ Grows
    BY <1>2, <1>10 DEF vfs_close
  <2> QED  BY <1>10, <2>1, CloseKeeps DEF TreeInv
<1>11. ASSUME NEW fd \in FDs, vfs_readdir(fd) PROVE TreeInv' /\ Grows /\ FileInv'
  <2>1. TreeInv' /\ Grows
    BY <1>2, <1>11 DEF vfs_readdir
  <2> QED  BY <1>11, <2>1, ReaddirKeeps DEF TreeInv
<1> QED  BY <1>3, <1>4, <1>5, <1>6, <1>7, <1>8, <1>9, <1>10, <1>11 DEF Next

LEMMA NextInv ==
  ASSUME Inv, [Next]_vars
  PROVE  Inv' /\ Grows
<1>1. TreeInv /\ FileInv
  BY DEF Inv, FileInv
<1>2. CASE Next
  BY <1>1, <1>2, StepInv DEF Inv, FileInv
<1>3. CASE UNCHANGED vars
  <2>1. UNCHANGED <<tree, mount, g_vfs_root, g_fds, listed>> /\ g_mounts' = g_mounts
        /\ g_mount_count' = g_mount_count /\ unmounts' = unmounts
    BY <1>3 DEF vars, mounts
  <2>2. MountShape'
    BY <1>1, <2>1 DEF TreeInv, MountShape, IsChild, tree
  <2>3. TreeInv' /\ Grows
    BY <1>1, <2>1, <2>2, TablesKeep DEF TreeInv, Shapes
  <2>4. FileInv'
    BY <1>1, <2>1, <2>3, FilesKeep DEF TreeInv
  <2> QED  BY <2>3, <2>4 DEF Inv, FileInv
<1> QED  BY <1>2, <1>3

(* Every table keeps its shape under every sequence of calls of vfs.c, and *)
(* no entry, mount or descriptor refers to a node that was not allocated.  *)
THEOREM TypeCorrect == Spec => []TypeOK
<1>1. Inv => TypeOK
  <2> SUFFICES ASSUME Inv PROVE TypeOK
    OBVIOUS
  <2>1. Shapes /\ UsedOnly /\ Files
    BY DEF Inv, TreeInv
  <2>2. Dirs \subseteq Used
    BY DEF Dirs, Used
  <2>3. ASSUME NEW n \in Node, NEW i \in DOMAIN children[n]
        PROVE  children[n][i].name \in Names /\ children[n][i].node \in Used
    BY <2>1, EntriesAre DEF UsedOnly
  <2> QED  BY <2>1, <2>2, <2>3 DEF TypeOK, Shapes, UsedOnly, Files, Used
<1>2. Inv /\ [Next]_vars => Inv'
  BY NextInv
<1> QED  BY InitInv, <1>1, <1>2, PTL DEF Spec

(* What vfs_readdir has returned on a descriptor is a prefix of the        *)
(* directory, however creations, opens and mounts are interleaved with it. *)
THEOREM ListingsFollow == Spec => []ListingIsPrefix
<1>1. Inv => ListingIsPrefix
  BY DEF Inv
<1>2. Inv /\ [Next]_vars => Inv'
  BY NextInv
<1> QED  BY InitInv, <1>1, <1>2, PTL DEF Spec

-----------------------------------------------------------------------------
(* What a path means                                                       *)

(* The names met so far, one place of the path after the other.            *)
Taken(t, p) ==
  /\ t \in [0 .. Len(p) -> Seq(Names)]
  /\ t[0] = <<>>
  /\ \A i \in 1 .. Len(p) :
       t[i] = IF p[i] = EmptyName THEN t[i - 1] ELSE Append(t[i - 1], p[i])

LEMMA ComponentsTaken ==
  ASSUME NEW p \in Seq(Names)
  PROVE  \E t : Taken(t, p) /\ t[Len(p)] = Components(p)
<1> DEFINE n == Len(p)
           S == Seq(Names)
           go == [i \in 1 .. n |->
                      [x \in S |-> IF p[i] = EmptyName THEN x ELSE Append(x, p[i])]]
           D(f) == f = [i \in 0 .. Len(p) |->
                          IF i = 0 THEN <<>>
                          ELSE IF p[i] = EmptyName THEN f[i - 1] ELSE Append(f[i - 1], p[i])]
<1>1. n \in Nat /\ <<>> \in S
  OBVIOUS
<1>2. go \in [1 .. n -> [S -> S]]
  <2>1. ASSUME NEW i \in 1 .. n, NEW x \in S
        PROVE  (IF p[i] = EmptyName THEN x ELSE Append(x, p[i])) \in S
    <3>1. p[i] \in Names
      BY <2>1
    <3>2. Append(x, p[i]) \in S
      BY <2>1, <3>1
    <3> QED  BY <2>1, <3>2
  <2> HIDE DEF S, n
  <2> QED  BY <2>1
<1>3. \E f : D(f)
  <2>1. PICK f : Recursion(f, n, <<>>, go)
    <3> HIDE DEF S, go, n
    <3> QED  BY <1>1, <1>2, RecursionExists
  <2>2. f \in [0 .. n -> S]
    <3> HIDE DEF S, go, n
    <3> QED  BY <1>1, <1>2, <2>1, RecursionTypes
  <2>3. ASSUME NEW i \in 0 .. n, i # 0
        PROVE  go[i][f[i - 1]] = IF p[i] = EmptyName THEN f[i - 1] ELSE Append(f[i - 1], p[i])
    <3>1. i \in 1 .. n /\ i - 1 \in 0 .. n
      BY <1>1, <2>3
    <3>2. f[i - 1] \in S
      BY <2>2, <3>1
    <3> HIDE DEF S
    <3> QED  BY <3>1, <3>2
  <2>4. f = [i \in 0 .. n |-> IF i = 0 THEN <<>> ELSE go[i][f[i - 1]]]
    BY <2>1 DEF Recursion
  <2>5. [i \in 0 .. n |-> IF i = 0 THEN <<>> ELSE go[i][f[i - 1]]]
        = [i \in 0 .. n |-> IF i = 0 THEN <<>>
                             ELSE IF p[i] = EmptyName THEN f[i - 1] ELSE Append(f[i - 1], p[i])]
    <3> HIDE DEF go, n
    <3> QED  BY <2>3
  <2> HIDE DEF go
  <2> QED  BY <2>4, <2>5
<1> DEFINE t == CHOOSE f : D(f)
<1>4. D(t)
  <2> HIDE DEF D
  <2> QED  BY <1>3
<1>5. Components(p) = t[n]
  BY DEF Components
<1> HIDE DEF t
<1>6. /\ t = [i \in 0 .. n |-> t[i]] /\ t[0] = <<>>
      /\ \A i \in 1 .. n : t[i] = IF p[i] = EmptyName THEN t[i - 1] ELSE Append(t[i - 1], p[i])
  <2>1. t = [i \in 0 .. n |->
               IF i = 0 THEN <<>>
               ELSE IF p[i] = EmptyName THEN t[i - 1] ELSE Append(t[i - 1], p[i])]
    BY <1>4
  <2>2. 0 \in 0 .. n /\ \A i \in 1 .. n : i \in 0 .. n /\ i # 0
    BY <1>1
  <2> HIDE DEF n, D
  <2>3. t = [i \in 0 .. n |-> t[i]]
    BY <2>1
  <2>4. t[0] = <<>>
    BY <2>1, <2>2
  <2>5. ASSUME NEW i \in 1 .. n
        PROVE  t[i] = IF p[i] = EmptyName THEN t[i - 1] ELSE Append(t[i - 1], p[i])
    BY <2>1, <2>2
  <2> QED  BY <2>3, <2>4, <2>5
<1> DEFINE bad == {i \in 0 .. n : t[i] \notin S}
<1>7. ASSUME bad # {} PROVE FALSE
  <2>1. bad \in SUBSET Nat
    BY <1>1
  <2> DEFINE i == Min(bad)
  <2>2. i \in bad /\ \A k \in bad : i <= k
    BY <1>7, <2>1, MinOfSet
  <2> HIDE DEF i
  <2>3. i \in 0 .. n /\ t[i] \notin S
    BY <2>2
  <2>4. i # 0
    BY <1>1, <1>6, <2>3
  <2>5. i \in 1 .. n /\ i - 1 \in 0 .. n /\ i - 1 \notin bad
    BY <1>1, <2>2, <2>3, <2>4
  <2>6. t[i - 1] \in S
    BY <2>5
  <2>7. go[i][t[i - 1]] = t[i]
    <3> HIDE DEF S
    <3> QED  BY <1>6, <2>5, <2>6
  <2>8. go[i] \in [S -> S]
    BY <1>2, <2>5
  <2> HIDE DEF go, S
  <2> QED  BY <2>3, <2>6, <2>7, <2>8
<1>8. t \in [0 .. n -> S]
  BY <1>6, <1>7
<1>9. Taken(t, p)
  BY <1>6, <1>8 DEF Taken
<1> QED  BY <1>5, <1>9

(* What was taken earlier is a prefix of what is taken later.              *)
Starts(s, u) == Len(s) <= Len(u) /\ \A k \in 1 .. Len(s) : s[k] = u[k]

LEMMA StartsIsPrefix ==
  ASSUME NEW s \in Seq(Names), NEW u \in Seq(Names), Starts(s, u)
  PROVE  IsPrefix(s, u)
<1>1. Len(s) \in Nat /\ Len(u) \in Nat /\ Len(s) <= Len(u) /\ \A k \in 1 .. Len(s) : s[k] = u[k]
  BY DEF Starts
<1>2. SubSeq(s, 1, Len(s)) = [k \in 1 .. Len(s) |-> s[k]]
  BY <1>1
<1>3. SubSeq(u, 1, Len(s)) = [k \in 1 .. Len(s) |-> u[k]]
  BY <1>1
<1>4. [k \in 1 .. Len(s) |-> s[k]] = [k \in 1 .. Len(s) |-> u[k]]
  BY <1>1
<1> QED  BY <1>1, <1>2, <1>3, <1>4 DEF IsPrefix

LEMMA TakenStarts ==
  ASSUME NEW p \in Seq(Names), NEW t, Taken(t, p), NEW i \in 0 .. Len(p)
  PROVE  Starts(t[i], t[Len(p)])
<1> DEFINE n == Len(p)
           bad == {j \in 0 .. n : i <= j /\ ~Starts(t[i], t[j])}
<1>1. /\ n \in Nat /\ t \in [0 .. n -> Seq(Names)]
      /\ \A j \in 1 .. n : t[j] = IF p[j] = EmptyName THEN t[j - 1] ELSE Append(t[j - 1], p[j])
  BY DEF Taken
<1>2. ASSUME bad # {} PROVE FALSE
  <2>1. bad \in SUBSET Nat
    BY <1>1
  <2> DEFINE j == Min(bad)
  <2>2. j \in bad /\ \A k \in bad : j <= k
    BY <1>2, <2>1, MinOfSet
  <2> HIDE DEF j
  <2>3. j \in 0 .. n /\ i <= j /\ ~Starts(t[i], t[j])
    BY <2>2
  <2>4. t[i] \in Seq(Names) /\ t[j] \in Seq(Names)
    BY <1>1, <2>3
  <2>5. j # i
    BY <2>3, <2>4 DEF Starts
  <2>6. j \in 1 .. n /\ j - 1 \in 0 .. n /\ i <= j - 1 /\ j - 1 \notin bad
    BY <1>1, <2>2, <2>3, <2>5
  <2>7. Starts(t[i], t[j - 1]) /\ t[j - 1] \in Seq(Names)
    BY <1>1, <2>6
  <2>8. CASE p[j] = EmptyName
    <3>1. t[j] = t[j - 1]
      BY <1>1, <2>6, <2>8
    <3> QED  BY <2>3, <2>7, <3>1
  <2>9. CASE p[j] # EmptyName
    <3>6. p[j] \in Names
      BY <2>6
    <3>1. t[j] = Append(t[j - 1], p[j])
      BY <1>1, <2>6, <2>9
    <3>2. PICK old, new : old = t[j - 1] /\ new = t[j]
      OBVIOUS
    <3>3. Len(new) = Len(old) + 1 /\ \A k \in 1 .. Len(old) : new[k] = old[k]
      BY <2>7, <3>1, <3>2, <3>6
    <3>4. PICK s : s = t[i]
      OBVIOUS
    <3>5. Starts(s, new)
      BY <2>4, <2>7, <3>2, <3>3, <3>4 DEF Starts
    <3> QED  BY <2>3, <3>2, <3>4, <3>5
  <2> QED  BY <2>8, <2>9
<1>3. n \in 0 .. n /\ i <= n
  BY <1>1
<1> QED  BY <1>2, <1>3

(* A walk, and the last hop of one that ends on a ramfs node.              *)
Walks(w, p) ==
  /\ w \in [0 .. Len(p) -> Node \cup {NULL}]
  /\ w[0] = g_vfs_root
  /\ \A i \in 1 .. Len(p) : w[i] = Descend(g_mounts, p[i])[w[i - 1]]

LEMMA Arrives ==
  ASSUME Shapes, TreeShape, MountShape, unmounts = 0,
         NEW p \in Seq(Names), NEW w, Walks(w, p), NEW i \in 1 .. Len(p),
         p[i] # EmptyName, w[i] \in RamNode
  PROVE  \E d \in RamNode : \E k \in DOMAIN children[d] :
           /\ w[i - 1] = d /\ children[d][k].name = p[i]
           /\ w[i] = Hop(g_mounts, children[d][k].node)
           /\ children[d][k].node \in RamNode
<1>1. w[i] = Descend(g_mounts, p[i])[w[i - 1]] /\ w[i - 1] \in Node \cup {NULL}
  BY DEF Walks
<1>2. PICK d \in Node \cup {NULL} : d = w[i - 1]
  BY <1>1
<1>3. NULL \notin RamNode
  BY NullIsNoNode DEF Node
<1>4. d # NULL /\ w[i] = Hop(g_mounts, finddir(d, p[i]))
  BY <1>1, <1>2, <1>3 DEF Descend
<1>5. finddir(d, p[i]) # NULL
  BY <1>3, <1>4 DEF Hop
<1>6. PICK k \in DOMAIN children[d] : children[d][k].name = p[i] /\ finddir(d, p[i]) = children[d][k].node
  BY <1>4, <1>5, FindDir
<1>7. PICK c : c = children[d][k].node
  OBVIOUS
<1>8. IsChild(c) /\ c \in Node
  BY <1>4, <1>6, <1>7, EntriesAre DEF IsChild
<1>9. c \in RamNode
  <2>1. CASE mount[c] = 0
    <3>1. w[i] = c
      BY <1>4, <1>6, <1>7, <2>1 DEF Hop
    <3> QED  BY <3>1
  <2>2. CASE mount[c] # 0
    BY <1>8, <2>2 DEF MountShape
  <2> QED  BY <2>1, <2>2
<1>10. d \in RamNode
  <2> SUFFICES ASSUME d \notin RamNode PROVE FALSE
    OBVIOUS
  <2>1. PICK fs \in StaticFs, j \in 0 .. MAX_STATIC_NODES : d = <<fs, j>>
    BY <1>4 DEF Node
  <2>2. c = <<fs, k>>
    BY <1>6, <1>7, <2>1 DEF TreeShape
  <2> QED  BY <1>9, <2>2, VfsConstants DEF RamNode
<1> QED  BY <1>2, <1>4, <1>6, <1>7, <1>9, <1>10

(* A hop out of a directory that ends on a ramfs root or node tells where  *)
(* it came from.                                                           *)
LEMMA HopInjective ==
  ASSUME Shapes, TreeShape, MountShape, unmounts = 0,
         NEW b \in Node, NEW c \in Node, IsChild(b), IsChild(c),
         Hop(g_mounts, b) = Hop(g_mounts, c), Hop(g_mounts, b) \in RamNode
  PROVE  b = c
<1>1. b # NULL /\ c # NULL
  BY NullIsNoNode
<1>2. CASE mount[b] = 0 /\ mount[c] = 0
  BY <1>2 DEF Hop
<1>3. \A n \in Node : mount[n] # 0 => mount[n] \in Slot /\ ~IsChild(g_mounts[mount[n]].root)
  BY DEF Shapes, TreeShape
<1>4. CASE mount[b] = 0 /\ mount[c] # 0
  BY <1>1, <1>3, <1>4 DEF Hop
<1>5. CASE mount[b] # 0 /\ mount[c] = 0
  BY <1>1, <1>3, <1>5 DEF Hop
<1>6. CASE mount[b] # 0 /\ mount[c] # 0
  BY <1>1, <1>6 DEF Hop, MountShape
<1> QED  BY <1>2, <1>4, <1>5, <1>6

LEMMA RootIsNoHop ==
  ASSUME Shapes, TreeShape, MountShape, unmounts = 0, NEW c \in Node, IsChild(c),
         g_vfs_root \in RamNode
  PROVE  Hop(g_mounts, c) # g_vfs_root
<1>1. CASE mount[c] = 0
  BY <1>1 DEF Hop, TreeShape
<1>2. CASE mount[c] # 0
  BY <1>2, NullIsNoNode DEF Hop, MountShape
<1> QED  BY <1>1, <1>2

(* While nothing has been unmounted, a ramfs node has one name: two walks  *)
(* that meet on one have met the same components.                          *)
LEMMA OneName ==
  ASSUME Shapes, TreeShape, MountShape, unmounts = 0,
         NEW p \in Seq(Names), NEW q \in Seq(Names), NEW w, NEW v, Walks(w, p), Walks(v, q),
         NEW t, NEW u, Taken(t, p), Taken(u, q),
         NEW i0 \in 0 .. Len(p), NEW j0 \in 0 .. Len(q), w[i0] = v[j0], w[i0] \in RamNode
  PROVE  t[i0] = u[j0]
<1> DEFINE Meet(i, j) == w[i] = v[j] /\ w[i] \in RamNode /\ t[i] # u[j]
           bad == {s \in Nat : \E i \in 0 .. Len(p), j \in 0 .. Len(q) : Meet(i, j) /\ s = i + j}
<1>1. SUFFICES ASSUME Meet(i0, j0) PROVE FALSE
  OBVIOUS
<1>2. bad \in SUBSET Nat /\ i0 + j0 \in bad
  <2>1. i0 + j0 \in Nat
    OBVIOUS
  <2> HIDE DEF Meet
  <2> QED  BY <1>1, <2>1
<1> DEFINE s == Min(bad)
<1>3. s \in bad /\ \A k \in bad : s <= k
  BY <1>2, MinOfSet
<1> HIDE DEF s, Meet
<1>4. PICK i \in 0 .. Len(p), j \in 0 .. Len(q) : Meet(i, j) /\ s = i + j
  BY <1>3
(* No two shorter walks disagree.                                          *)
<1>5. \A k \in 0 .. Len(p), l \in 0 .. Len(q) : k + l < i + j => ~Meet(k, l)
  <2> SUFFICES ASSUME NEW k \in 0 .. Len(p), NEW l \in 0 .. Len(q), k + l < i + j, Meet(k, l)
               PROVE  FALSE
    OBVIOUS
  <2>1. k + l \in bad
    <3>1. k + l \in Nat
      OBVIOUS
    <3> QED  BY <3>1
  <2>2. s <= k + l
    BY <1>3, <2>1
  <2> QED  BY <1>4, <2>2
<1>6. w[i] = v[j] /\ w[i] \in RamNode /\ t[i] # u[j]
  BY <1>4 DEF Meet
<1>7. NULL \notin RamNode
  BY NullIsNoNode DEF Node
<1>8. i > 0 => i - 1 \in 0 .. Len(p) /\ i \in 1 .. Len(p)
  OBVIOUS
<1>9. j > 0 => j - 1 \in 0 .. Len(q) /\ j \in 1 .. Len(q)
  OBVIOUS
<1>10. CASE i > 0 /\ p[i] = EmptyName
  <2>1. w[i - 1] \in Node \cup {NULL} /\ w[i] = w[i - 1]
    BY <1>8, <1>10 DEF Walks, Descend
  <2>2. t[i] = t[i - 1]
    BY <1>8, <1>10 DEF Taken
  <2>3. Meet(i - 1, j)
    BY <1>6, <2>1, <2>2 DEF Meet
  <2> QED  BY <1>5, <1>8, <1>10, <2>3
<1>11. CASE j > 0 /\ q[j] = EmptyName
  <2>1. v[j - 1] \in Node \cup {NULL} /\ v[j] = v[j - 1]
    BY <1>9, <1>11 DEF Walks, Descend
  <2>2. u[j] = u[j - 1]
    BY <1>9, <1>11 DEF Taken
  <2>3. Meet(i, j - 1)
    BY <1>6, <2>1, <2>2 DEF Meet
  <2> QED  BY <1>5, <1>9, <1>11, <2>3
<1>12. CASE i = 0 /\ j = 0
  BY <1>6, <1>12 DEF Taken
<1>13. RamNode \subseteq Node
  BY DEF Node
<1>14. CASE i = 0 /\ j > 0 /\ q[j] # EmptyName
  <2>1. PICK d \in RamNode : \E k \in DOMAIN children[d] :
           /\ v[j] = Hop(g_mounts, children[d][k].node) /\ children[d][k].node \in RamNode
    BY <1>6, <1>9, <1>14, Arrives
  <2>2. PICK k \in DOMAIN children[d] :
           /\ v[j] = Hop(g_mounts, children[d][k].node) /\ children[d][k].node \in RamNode
    BY <2>1
  <2>3. IsChild(children[d][k].node)
    BY <1>13 DEF IsChild
  <2>4. v[j] = g_vfs_root
    BY <1>6, <1>14 DEF Walks
  <2> QED  BY <1>6, <1>13, <2>2, <2>3, <2>4, RootIsNoHop
<1>15. CASE j = 0 /\ i > 0 /\ p[i] # EmptyName
  <2>1. PICK d \in RamNode : \E k \in DOMAIN children[d] :
           /\ w[i] = Hop(g_mounts, children[d][k].node) /\ children[d][k].node \in RamNode
    BY <1>6, <1>8, <1>15, Arrives
  <2>2. PICK k \in DOMAIN children[d] :
           /\ w[i] = Hop(g_mounts, children[d][k].node) /\ children[d][k].node \in RamNode
    BY <2>1
  <2>3. IsChild(children[d][k].node)
    BY <1>13 DEF IsChild
  <2>4. w[i] = g_vfs_root
    BY <1>6, <1>15 DEF Walks
  <2> QED  BY <1>6, <1>13, <2>2, <2>3, <2>4, RootIsNoHop
<1>16. CASE i > 0 /\ j > 0 /\ p[i] # EmptyName /\ q[j] # EmptyName
  <2>1. \E d \in RamNode : \E k \in DOMAIN children[d] :
          /\ w[i - 1] = d /\ children[d][k].name = p[i]
          /\ w[i] = Hop(g_mounts, children[d][k].node)
          /\ children[d][k].node \in RamNode
    BY <1>6, <1>8, <1>16, Arrives
  <2>2. PICK d \in RamNode : \E k \in DOMAIN children[d] :
          /\ w[i - 1] = d /\ children[d][k].name = p[i]
          /\ w[i] = Hop(g_mounts, children[d][k].node)
          /\ children[d][k].node \in RamNode
    BY <2>1
  <2>3. PICK k \in DOMAIN children[d] :
          /\ w[i - 1] = d /\ children[d][k].name = p[i]
          /\ w[i] = Hop(g_mounts, children[d][k].node)
          /\ children[d][k].node \in RamNode
    BY <2>2
  <2>13. \E e \in RamNode : \E l \in DOMAIN children[e] :
          /\ v[j - 1] = e /\ children[e][l].name = q[j]
          /\ v[j] = Hop(g_mounts, children[e][l].node)
          /\ children[e][l].node \in RamNode
    BY <1>6, <1>9, <1>16, Arrives
  <2>14. PICK e \in RamNode : \E l \in DOMAIN children[e] :
          /\ v[j - 1] = e /\ children[e][l].name = q[j]
          /\ v[j] = Hop(g_mounts, children[e][l].node)
          /\ children[e][l].node \in RamNode
    BY <2>13
  <2>15. PICK l \in DOMAIN children[e] :
          /\ v[j - 1] = e /\ children[e][l].name = q[j]
          /\ v[j] = Hop(g_mounts, children[e][l].node)
          /\ children[e][l].node \in RamNode
    BY <2>14
  <2>4. PICK b, c : b = children[d][k].node /\ c = children[e][l].node
    OBVIOUS
  <2>5. IsChild(b) /\ IsChild(c) /\ b \in Node /\ c \in Node
    BY <1>13, <2>3, <2>4, <2>15 DEF IsChild
  <2>6. Hop(g_mounts, b) = Hop(g_mounts, c) /\ Hop(g_mounts, b) \in RamNode
    BY <1>6, <2>3, <2>4, <2>15
  <2>7. b = c
    BY <2>5, <2>6, HopInjective
  <2>8. d = e /\ k = l
    <3>1. d \in Node /\ e \in Node /\ children[d][k].node = children[e][l].node
      BY <1>13, <2>4, <2>7
    <3>2. \A m, n \in Node : \A x \in DOMAIN children[m], y \in DOMAIN children[n] :
            children[m][x].node = children[n][y].node => m = n /\ x = y
      BY DEF TreeShape
    <3> QED  BY <3>1, <3>2
  <2>9. p[i] = q[j] /\ w[i - 1] = v[j - 1]
    BY <2>3, <2>8, <2>15
  <2>10. t[i - 1] # u[j - 1]
    <3>1. t[i] = Append(t[i - 1], p[i]) /\ u[j] = Append(u[j - 1], q[j])
      BY <1>8, <1>9, <1>16 DEF Taken
    <3> QED  BY <1>6, <2>9, <3>1
  <2>11. Meet(i - 1, j - 1)
    BY <2>3, <2>9, <2>10 DEF Meet
  <2>12. (i - 1) + (j - 1) < i + j
    BY <1>16
  <2> QED  BY <1>5, <1>8, <1>9, <1>16, <2>11, <2>12
<1> QED  BY <1>10, <1>11, <1>12, <1>14, <1>15, <1>16

-----------------------------------------------------------------------------
(* Resolution                                                              *)

LEMMA WalkWalks ==
  ASSUME Shapes, NEW p \in Seq(Names), NEW slots \in [Slot -> MountEntry],
         \A n \in Node : Hop(slots, n) = Hop(g_mounts, n)
  PROVE  Walks(Walk(slots, p), p)
<1> DEFINE w == Walk(slots, p)
<1>1. /\ w \in [0 .. Len(p) -> Node \cup {NULL}] /\ w[0] = g_vfs_root
      /\ \A i \in 1 .. Len(p) : w[i] = Descend(slots, p[i])[w[i - 1]]
  BY WalkIs DEF WalkSteps
<1>2. ASSUME NEW name, NEW n \in Node \cup {NULL}
      PROVE  Descend(slots, name)[n] = Descend(g_mounts, name)[n]
  <2>1. CASE n = NULL \/ name = EmptyName
    BY <2>1 DEF Descend
  <2>2. CASE n # NULL /\ name # EmptyName
    <3>1. /\ Descend(slots, name)[n] = Hop(slots, finddir(n, name))
          /\ Descend(g_mounts, name)[n] = Hop(g_mounts, finddir(n, name))
      BY <2>2 DEF Descend
    <3>2. finddir(n, name) \in Node \cup {NULL}
      BY <2>2, FindDirType
    <3>3. Hop(slots, NULL) = NULL /\ Hop(g_mounts, NULL) = NULL
      BY DEF Hop
    <3> QED  BY <3>1, <3>2, <3>3
  <2> QED  BY <2>1, <2>2
<1> HIDE DEF w
<1>3. ASSUME NEW i \in 1 .. Len(p) PROVE w[i] = Descend(g_mounts, p[i])[w[i - 1]]
  <2>1. i - 1 \in 0 .. Len(p)
    OBVIOUS
  <2>2. w[i - 1] \in Node \cup {NULL}
    BY <1>1, <2>1
  <2> QED  BY <1>1, <1>2, <2>2
<1>4. Walks(w, p)
  BY <1>1, <1>3 DEF Walks
<1> QED  BY <1>4 DEF w

(* A step that changes where no entry leads changes no path.               *)
LEMMA NoHopChanges ==
  ASSUME Shapes, Shapes', Grows, g_vfs_root' = g_vfs_root, NEW p \in Seq(Names),
         vfs_resolve_path(p) # NULL,
         \A m \in Node : IsChild(m) => Hop(g_mounts, m)' = Hop(g_mounts, m)
  PROVE  vfs_resolve_path(p)' = vfs_resolve_path(p)
<1> SUFFICES ASSUME vfs_resolve_path(p)' # vfs_resolve_path(p) PROVE FALSE
  OBVIOUS
<1>1. PICK i, m : TurnsOff(p, i, m) /\ Hop(g_mounts, m)' # Hop(g_mounts, m)
  BY FirstChange
<1>2. m \in Node /\ IsChild(m)
  <2>1. PICK d \in Node : d = Walk(g_mounts, p)[i - 1] /\ m \in Node /\ finddir(d, p[i]) = m
    BY <1>1 DEF TurnsOff
  <2>2. PICK k \in DOMAIN children[d] : m = children[d][k].node
    BY <2>1, FindDir, NullIsNoNode
  <2> QED  BY <2>1, <2>2 DEF IsChild
<1> QED  BY <1>1, <1>2

(* A mount that succeeds changes only paths below the mounted one.         *)
LEMMA MountChanges ==
  ASSUME TreeInv, TreeInv', Grows, unmounts = 0,
         NEW p \in Seq(Names), NEW q, IsPath(q), NEW fstype \in StaticFs \cup {"ramfs"},
         vfs_mount(q, fstype), vfs_resolve_path(p) # NULL,
         vfs_resolve_path(p)' # vfs_resolve_path(p)
  PROVE  /\ g_mount_count' = g_mount_count + 1
         /\ IsPrefix(Components(g_mounts'[g_mount_count'].path), Components(p))
<1> DEFINE s == g_mount_count + 1
<1>0. /\ Shapes /\ UsedOnly /\ TreeShape /\ MountShape /\ Shapes'
      /\ \A n \in Node : mount[n] <= g_mount_count
  BY DEF TreeInv, MountShape
<1>1. PICK root \in Node : FsMount(fstype, root) /\ LinkMount(q, s, root)
  BY DEF vfs_mount
<1>2. g_mount_count < MAX_MOUNTS /\ children' = children
  BY DEF vfs_mount
<1>3. s \in Slot /\ g_mount_count \in Nat /\ s > g_mount_count
  <2>1. g_mount_count \in 0 .. MAX_MOUNTS /\ MAX_MOUNTS \in Nat
    BY <1>0, VfsConstants DEF Shapes
  <2> QED  BY <1>2, <2>1 DEF Slot
<1>4. ~IsChild(root) /\ root \in Dirs' /\ Dirs' = Dirs \cup {root}
  BY <1>1, NewRoot, Zenon
<1> DEFINE entry == [path |-> q, root |-> root]
           slots == [g_mounts EXCEPT ![s] = entry]
           at == ResolveIn(slots, q)
<1>5. g_mounts' = slots
  BY <1>1 DEF LinkMount
<1>6. entry \in MountEntry /\ entry.path = q /\ g_mounts \in [Slot -> MountEntry] /\ q \in Seq(Names)
  BY <1>0 DEF MountEntry, IsPath, Shapes
<1>7. \/ q = RootPath /\ Links(s, root, root)
      \/ q # RootPath /\ g_vfs_root' = g_vfs_root /\ Links(s, root, at)
  <2> HIDE DEF s
  <2> QED  BY <1>1, <1>3, <1>4, LinksAre, Zenon
<1> HIDE DEF s, entry
<1>8. /\ slots \in [Slot -> MountEntry] /\ slots[s].path = q
      /\ \A t \in Slot : t # s => slots[t] = g_mounts[t]
  BY <1>3, <1>6
<1>9. \A n \in Node : mount[n] # 0 => mount[n] \in Slot /\ mount[n] # s
  BY <1>0, <1>3 DEF Shapes, Slot
<1>10. \A n \in Node : Hop(slots, n) = Hop(g_mounts, n)
  <2> HIDE DEF slots
  <2> QED  BY <1>8, <1>9 DEF Hop
<1> HIDE DEF slots
<1>11. PICK t : Taken(t, p) /\ t[Len(p)] = Components(p)
  BY ComponentsTaken
<1>12. PICK u : Taken(u, q) /\ u[Len(q)] = Components(q)
  BY <1>6, ComponentsTaken
<1>13. Len(p) \in 0 .. Len(p) /\ Len(q) \in 0 .. Len(q)
  BY <1>6
<1>14. Components(p) \in Seq(Names) /\ Components(q) \in Seq(Names)
  BY <1>11, <1>12, <1>13 DEF Taken
<1>15. ASSUME g_mount_count' = s, \E i \in 0 .. Len(p) : t[i] = Components(q)
       PROVE  /\ g_mount_count' = g_mount_count + 1
              /\ IsPrefix(Components(g_mounts'[g_mount_count'].path), Components(p))
  <2>1. Starts(Components(q), Components(p))
    BY <1>11, <1>15, TakenStarts
  <2>2. IsPrefix(Components(q), Components(p))
    BY <1>14, <2>1, StartsIsPrefix
  <2>3. g_mounts'[g_mount_count'].path = q
    BY <1>5, <1>8, <1>15
  <2> QED  BY <1>15, <2>2, <2>3 DEF s
<1>16. CASE q = RootPath /\ Links(s, root, root)
  <2>1. Components(q) = <<>>
    <3>1. Len(q) = 1 /\ q[1] = EmptyName
      BY <1>16 DEF RootPath
    <3>2. u[1] = u[0] /\ u[0] = <<>>
      BY <1>12, <3>1 DEF Taken
    <3> QED  BY <1>12, <3>1, <3>2
  <2>2. t[0] = <<>> /\ 0 \in 0 .. Len(p)
    BY <1>11 DEF Taken
  <2>3. g_mount_count' = s
    BY <1>4, <1>16 DEF Links
  <2> QED  BY <1>15, <2>1, <2>2, <2>3
<1>17. CASE q # RootPath /\ g_vfs_root' = g_vfs_root /\ Links(s, root, at)
  <2>1. PICK i, m : TurnsOff(p, i, m) /\ Hop(g_mounts, m)' # Hop(g_mounts, m)
    BY <1>0, <1>17, FirstChange
  <2>2. /\ i \in 1 .. Len(p) /\ m \in Node /\ p[i] # EmptyName
        /\ Walk(g_mounts, p)[i - 1] \in Node
        /\ finddir(Walk(g_mounts, p)[i - 1], p[i]) = m
    BY <2>1 DEF TurnsOff
  <2>3. IsChild(m)
    <3>1. PICK d \in Node : d = Walk(g_mounts, p)[i - 1]
      BY <2>2
    <3>2. PICK k \in DOMAIN children[d] : m = children[d][k].node
      BY <1>0, <2>2, <3>1, FindDir, NullIsNoNode
    <3> QED  BY <3>2 DEF IsChild
  <2>4. m # root /\ m # NULL
    BY <1>4, <2>2, <2>3, NullIsNoNode
  <2>5. Hop(g_mounts, m)' = IF mount'[m] # 0 THEN g_mounts'[mount'[m]].root ELSE m
    BY <2>4 DEF Hop
  <2>6. Hop(g_mounts, m) = IF mount[m] # 0 THEN g_mounts[mount[m]].root ELSE m
    BY <2>4 DEF Hop
  <2>7. mount'[m] = mount[m] => Hop(g_mounts, m)' = Hop(g_mounts, m)
    BY <1>5, <1>8, <1>9, <2>2, <2>5, <2>6
  <2>8. m = at /\ at \in Dirs'
    BY <1>17, <2>1, <2>2, <2>4, <2>7 DEF Links
  <2>9. m \in Dirs /\ m \in RamNode
    BY <1>0, <1>4, <2>3, <2>4, <2>8, ChildDirs
  (* The walk to the mount point ends on a child that was none before.     *)
  <2>10. PICK v : v = Walk(slots, q) /\ Walks(v, q) /\ v[Len(q)] = m
    BY <1>0, <1>6, <1>8, <1>10, <2>8, WalkWalks DEF ResolveIn
  <2>11. mount[m] = 0
    <3> DEFINE bad == {j \in 0 .. Len(q) : v[j] = m}
    <3>1. bad \in SUBSET Nat /\ Len(q) \in bad
      BY <1>13, <2>10
    <3> DEFINE j == Min(bad)
    <3>2. j \in bad /\ \A k \in bad : j <= k
      BY <3>1, MinOfSet
    <3> HIDE DEF j
    <3>3. j # 0
      BY <1>0, <2>3, <2>10, <3>2 DEF Walks, TreeShape
    <3>4. j \in 1 .. Len(q) /\ j - 1 \in 0 .. Len(q) /\ j - 1 \notin bad
      BY <1>13, <3>2, <3>3
    <3>5. q[j] # EmptyName
      <4>1. v[j - 1] \in Node \cup {NULL} /\ v[j - 1] # m
        BY <2>10, <3>4 DEF Walks
      <4>2. v[j] = Descend(g_mounts, q[j])[v[j - 1]] /\ v[j] = m
        BY <2>10, <3>2, <3>4 DEF Walks
      <4> QED  BY <4>1, <4>2 DEF Descend
    <3>6. v[j] \in RamNode /\ v[j] = m
      BY <2>9, <3>2
    <3>7. PICK d \in RamNode : \E k \in DOMAIN children[d] :
             /\ v[j] = Hop(g_mounts, children[d][k].node) /\ children[d][k].node \in RamNode
      BY <1>0, <1>6, <2>10, <3>4, <3>5, <3>6, Arrives
    <3>8. PICK k \in DOMAIN children[d] :
             /\ v[j] = Hop(g_mounts, children[d][k].node) /\ children[d][k].node \in RamNode
      BY <3>7
    <3>9. PICK c : c = children[d][k].node
      OBVIOUS
    <3>10. c \in Node /\ c # NULL /\ m = Hop(g_mounts, c)
      BY <3>6, <3>8, <3>9, NullIsNoNode DEF Node
    <3>11. CASE mount[c] = 0
      BY <3>10, <3>11 DEF Hop
    <3>12. CASE mount[c] # 0
      <4>1. m = g_mounts[mount[c]].root /\ mount[c] \in Slot
        BY <1>9, <3>10, <3>12 DEF Hop
      <4> QED  BY <1>0, <2>3, <4>1 DEF TreeShape
    <3> QED  BY <3>11, <3>12
  <2>12. PICK w : w = Walk(g_mounts, p) /\ Walks(w, p)
    BY <1>0, <1>6, WalkWalks
  <2>13. w[i] = m
    <3>1. w[i] = Descend(g_mounts, p[i])[w[i - 1]] /\ w[i - 1] \in Node
      BY <2>2, <2>12 DEF Walks
    <3>2. w[i] = Hop(g_mounts, m)
      BY <2>2, <2>12, <3>1, NullIsNoNode DEF Descend
    <3> QED  BY <2>6, <2>11, <3>2
  <2>14. i \in 0 .. Len(p)
    BY <2>2
  <2>15. t[i] = u[Len(q)]
    BY <1>0, <1>6, <1>11, <1>12, <1>13, <2>9, <2>10, <2>12, <2>13, <2>14, OneName
  <2>16. g_mount_count' = s
    BY <1>17, <2>8 DEF Links
  <2> QED  BY <1>12, <1>15, <2>14, <2>15, <2>16
<1> QED  BY <1>7, <1>16, <1>17

(* A path that resolves keeps its meaning until the mount table changes,   *)
(* and until something is unmounted only a successful mount at one of its  *)
(* prefixes changes it.                                                    *)
THEOREM PathsKeepMeaning == Spec => ResolutionStable
<1> DEFINE Stable ==
      \A p \in Path : vfs_resolve_path(p) \notin {NULL, vfs_resolve_path(p)'} =>
        /\ ~UNCHANGED mounts
        /\ unmounts' = 0 =>
             /\ g_mount_count' = g_mount_count + 1
             /\ IsPrefix(Components(g_mounts'[g_mount_count'].path), Components(p))
<1>1. Inv /\ [Next]_vars => Inv'
  BY NextInv
<1>2. Inv /\ [Next]_vars => [Stable]_vars
  <2> SUFFICES ASSUME Inv, Next, NEW p \in Path,
                      vfs_resolve_path(p) # NULL, vfs_resolve_path(p)' # vfs_resolve_path(p)
               PROVE  /\ ~UNCHANGED mounts
                      /\ unmounts' = 0 =>
                           /\ g_mount_count' = g_mount_count + 1
                           /\ IsPrefix(Components(g_mounts'[g_mount_count'].path), Components(p))
    OBVIOUS
  <2>1. TreeInv /\ TreeInv' /\ Grows /\ Shapes /\ Shapes'
    BY NextInv DEF Inv, TreeInv
  <2>2. p \in Seq(Names) /\ \A q \in Path : IsPath(q)
    BY VfsConstants DEF IsPath
  <2>3. ~UNCHANGED mounts
    <3> SUFFICES ASSUME UNCHANGED mounts PROVE FALSE
      OBVIOUS
    <3>1. g_vfs_root' = g_vfs_root /\ mount' = mount /\ g_mounts' = g_mounts
      BY DEF mounts
    <3>2. \A m \in Node : Hop(g_mounts, m)' = Hop(g_mounts, m)
      BY <3>1 DEF Hop
    <3> QED  BY <2>1, <2>2, <3>1, <3>2, NoHopChanges
  <2>4. ASSUME NEW q \in Path, NEW fstype \in StaticFs \cup {"ramfs"},
               vfs_mount_fails(q, fstype), unmounts' = 0
        PROVE  FALSE
    <3>1. /\ unmounts = 0 /\ mount' = mount /\ g_vfs_root' = g_vfs_root
          /\ g_mounts' = [g_mounts EXCEPT ![g_mount_count + 1] = [path |-> q, root |-> NULL]]
      BY <2>4 DEF vfs_mount_fails
    <3>2. PICK s : s = g_mount_count + 1
      OBVIOUS
    <3>3. ASSUME NEW m \in Node PROVE Hop(g_mounts, m)' = Hop(g_mounts, m)
      <4>1. mount[m] \in Slot \cup {0} /\ mount[m] <= g_mount_count /\ g_mount_count \in Nat
        BY <2>1, <3>1, VfsConstants DEF TreeInv, Shapes, MountShape
      <4>2. mount[m] # s
        BY <3>2, <4>1 DEF Slot
      <4>3. mount[m] # 0 => g_mounts'[mount[m]] = g_mounts[mount[m]]
        BY <2>1, <3>1, <3>2, <4>1, <4>2 DEF Shapes
      <4> QED  BY <3>1, <4>3 DEF Hop
    <3> QED  BY <2>1, <2>2, <3>1, <3>3, NoHopChanges
  <2>5. ASSUME unmounts' = 0
        PROVE  /\ g_mount_count' = g_mount_count + 1
               /\ IsPrefix(Components(g_mounts'[g_mount_count'].path), Components(p))
    <3>1. unmounts \in Nat
      BY <2>1 DEF Shapes
    <3>2. \A q \in Path : ~vfs_unmount(q)
      BY <2>5, <3>1 DEF vfs_unmount
    <3>3. PICK q \in Path, fstype \in StaticFs \cup {"ramfs"} : vfs_mount(q, fstype)
      BY <2>3, <2>4, <2>5, <3>2
         DEF Next, vfs_create, vfs_mkdir, vfs_open, AddStaticEntry, vfs_close, vfs_readdir
    <3>4. unmounts = 0
      BY <2>5, <3>3 DEF vfs_mount
    <3> QED  BY <2>1, <2>2, <3>3, <3>4, MountChanges
  <2> QED  BY <2>3, <2>5
<1> QED  BY InitInv, <1>1, <1>2, PTL DEF Spec, ResolutionStable

-----------------------------------------------------------------------------
(* The boot                                                                *)

Walking == boot \in {"next", "open", "write"}
Roomy   == ramfs_node_count < MAX_RAMFS_NODES

(* Nothing of the archive is in the way of a path.                         *)
Free(p) == \A b \in Regular : ~IsPrefix(PathOf(b), p)

BlockHeader ==
  [type : {"file", "dir", "other"}, path : Seq(Names), size : Nat, body : BOOLEAN,
   elf : BOOLEAN]

BootShapes ==
  /\ archive \in Archives /\ archive \in Seq(BlockHeader)
  /\ offset \in Nat \ {0} /\ step \in 1 .. Len(Script) + 1
  /\ boot \in {"next", "open", "write", "script", "init", "done"}
  /\ content \in [Node -> Seq(Nat \X Nat)]
  /\ report \in [DOMAIN archive -> {"none", "ok", "error"}]
  /\ Walking => step = 1
  /\ boot \in {"init", "done"} => step = Len(Script) + 1

(* The walk is at a header, has seen no block of zeros, and has reported   *)
(* what lies behind it.                                                    *)
WalkPlace ==
  /\ Walking =>
       /\ \A c \in DOMAIN archive : c < offset => archive[c].body \/ NameOf(c) # <<>>
       /\ offset \in DOMAIN archive => ~archive[offset].body
  /\ boot \in {"open", "write"} => offset \in Regular
  /\ \A c \in DOMAIN archive : report[c] # "none" => c < offset
  /\ \A c \in Regular : c < offset \/ ~Walking => report[c] # "none"

(* One descriptor at most, that of the file which is written.              *)
OneFd ==
  IF boot = "write"
    THEN \E fd \in FDs : /\ g_fds[fd].node = vfs_resolve_path(PathOf(offset))
                         /\ g_fds[fd].node # NULL
                         /\ \A e \in FDs : e # fd => g_fds[e].node = NULL
    ELSE \A fd \in FDs : g_fds[fd].node = NULL

MountsSoFar ==
  /\ g_mount_count \in 1 .. 3 /\ (step <= 7 => g_mount_count = 1) /\ (step <= 12 => g_mount_count <= 2)
  /\ step <= 7 => Used \subseteq RamNode
  /\ g_mounts[1].root = g_vfs_root /\ g_vfs_root \in RamNode
  /\ \A s \in 2 .. g_mount_count : g_mounts[s].root \notin RamNode /\ g_mounts[s].path # RootPath

(* Every file was created for one of the archive.                          *)
CreatedFor(n, b, d) ==
  /\ d = vfs_resolve_path(Front(PathOf(b))) /\ d \in RamNode
  /\ \E i \in DOMAIN children[d] : /\ children[d][i].name = ChildName[Last(PathOf(b))]
                                   /\ children[d][i].node = n

FilesNamed ==
  step <= 7 => \A n \in RamNode : kind[n] = "file" => \E b \in Regular : \E d : CreatedFor(n, b, d)

Replaced(b) == \E c \in Regular : c > b /\ PathOf(c) = PathOf(b) /\ report[c] = "ok"
Hidden(b)   == \E s \in 2 .. g_mount_count : IsPrefix(g_mounts[s].path, PathOf(b))

(* The bytes of block b are what node n begins with.                       *)
Holds(n, b) ==
  /\ archive[b].size <= Len(content[n])
  /\ \A k \in 1 .. archive[b].size : content[n][k] = <<b, k>>

FilesKept ==
  \A b \in Regular : report[b] = "ok" /\ ~Replaced(b) /\ ~Hidden(b) =>
    vfs_resolve_path(PathOf(b)) # NULL /\ Holds(vfs_resolve_path(PathOf(b)), b)

ChildrenCounted == \A d \in RamNode : Len(children[d]) < ramfs_node_count

(* Directories are there from their line on, until one is mounted on.      *)
DirMade(q) == Roomy /\ Free(q) => vfs_resolve_path(q) \in Dirs \cap RamNode

DirsMade ==
  /\ step <= 7 => \A i \in 1 .. 6 : i < step => DirMade(Script[i].path)
  /\ step \in 7 .. 12 => DirMade(Process)

Arrived(q, fs) == Roomy /\ Free(q) => vfs_resolve_path(q) = <<fs, 0>> /\ Mounted(fs)

Listed(fs, name) == \E i \in DOMAIN children[<<fs, 0>>] : children[<<fs, 0>>][i].name = name

RuntimeMade ==
  /\ step > 7 => Arrived(Device, "DeviceFS")
  /\ step > 12 => Arrived(Process, "ProcessFS")
  /\ Len(children[<<"DeviceFS", 0>>]) <= IF step <= 8 THEN 0 ELSE IF step <= 12 THEN step - 8 ELSE 4
  /\ Len(children[<<"ProcessFS", 0>>]) <= IF step <= 13 THEN 0 ELSE step - 13
  /\ \A i \in 8 .. 11 : i < step /\ Roomy /\ Free(Device) => Listed("DeviceFS", Script[i].name)
  /\ \A i \in 13 .. 15 : i < step /\ Roomy /\ Free(Process) => Listed("ProcessFS", Script[i].name)

TreeSound == TreeInv /\ FileInv /\ unmounts = 0

BootInv ==
  /\ TreeSound /\ BootShapes /\ WalkPlace /\ OneFd /\ MountsSoFar /\ FilesNamed /\ FilesKept
  /\ ChildrenCounted /\ DirsMade /\ RuntimeMade

-----------------------------------------------------------------------------
(* Paths                                                                   *)

(* A path without empty names is a sequence of components.                 *)
Normal(p) == p \in Seq(Names) /\ \A i \in DOMAIN p : p[i] # EmptyName

LEMMA NormalComponents ==
  ASSUME NEW p, Normal(p)
  PROVE  Components(p) = p
<1>1. p \in Seq(Names) /\ Len(p) \in Nat /\ DOMAIN p = 1 .. Len(p)
  BY DEF Normal
<1>2. PICK t : Taken(t, p) /\ t[Len(p)] = Components(p)
  BY <1>1, ComponentsTaken
<1>3. /\ t \in [0 .. Len(p) -> Seq(Names)] /\ t[0] = <<>>
      /\ \A i \in 1 .. Len(p) : t[i] = Append(t[i - 1], p[i])
  BY <1>1, <1>2 DEF Taken, Normal
<1> DEFINE Good(i) == Len(t[i]) = i /\ \A k \in 1 .. i : t[i][k] = p[k]
           bad == {i \in 0 .. Len(p) : ~Good(i)}
<1>4. bad = {}
  <2> SUFFICES ASSUME bad # {} PROVE FALSE
    OBVIOUS
  <2>1. bad \in SUBSET Nat
    BY <1>1
  <2> DEFINE i == Min(bad)
  <2>2. i \in bad /\ \A k \in bad : i <= k
    BY <2>1, MinOfSet
  <2> HIDE DEF i
  <2>3. Good(0)
    BY <1>3
  <2>4. i \in 1 .. Len(p) /\ i - 1 \in 0 .. Len(p) /\ i - 1 \notin bad
    BY <1>1, <2>2, <2>3
  <2>5. Len(t[i - 1]) = i - 1 /\ \A k \in 1 .. i - 1 : t[i - 1][k] = p[k]
    BY <2>4
  <2>6. t[i - 1] \in Seq(Names) /\ p[i] \in Names /\ t[i] = Append(t[i - 1], p[i])
    <3>1. p[i] \in Names
      BY <1>1, <2>4
    <3>2. t[i - 1] \in Seq(Names)
      BY <1>3, <2>4
    <3>3. t[i] = Append(t[i - 1], p[i])
      BY <1>3, <2>4
    <3> QED  BY <3>1, <3>2, <3>3
  <2>7. Len(t[i]) = i
    BY <2>4, <2>5, <2>6
  <2>8. ASSUME NEW k \in 1 .. i PROVE t[i][k] = p[k]
    <3>1. CASE k = i
      BY <2>5, <2>6, <3>1
    <3>2. CASE k # i
      BY <2>4, <2>5, <2>6, <3>2
    <3> QED  BY <3>1, <3>2
  <2> QED  BY <2>2, <2>7, <2>8
<1>5. Good(Len(p)) /\ t[Len(p)] \in Seq(Names)
  <2>1. Len(p) \in 0 .. Len(p)
    BY <1>1
  <2>2. Good(Len(p))
    BY <1>4, <2>1
  <2>3. t[Len(p)] \in Seq(Names)
    BY <1>3, <2>1
  <2> QED  BY <2>2, <2>3
<1> QED  BY <1>1, <1>2, <1>5

(* Two of them that lead to one ramfs node are the same.                   *)
LEMMA SamePath ==
  ASSUME TreeInv, unmounts = 0, NEW p, NEW q, Normal(p), Normal(q),
         vfs_resolve_path(p) = vfs_resolve_path(q), vfs_resolve_path(p) \in RamNode
  PROVE  p = q
<1>1. Shapes /\ TreeShape /\ MountShape /\ p \in Seq(Names) /\ q \in Seq(Names)
  BY DEF TreeInv, Normal
<1>2. PICK t : Taken(t, p) /\ t[Len(p)] = Components(p)
  BY <1>1, ComponentsTaken
<1>3. PICK u : Taken(u, q) /\ u[Len(q)] = Components(q)
  BY <1>1, ComponentsTaken
<1>4. PICK w : w = Walk(g_mounts, p) /\ Walks(w, p)
  BY <1>1, WalkWalks DEF Shapes
<1>5. PICK v : v = Walk(g_mounts, q) /\ Walks(v, q)
  BY <1>1, WalkWalks DEF Shapes
<1>6. w[Len(p)] = v[Len(q)] /\ w[Len(p)] \in RamNode
  BY <1>4, <1>5 DEF vfs_resolve_path, ResolveIn
<1>7. Len(p) \in 0 .. Len(p) /\ Len(q) \in 0 .. Len(q)
  BY <1>1
<1>8. t[Len(p)] = u[Len(q)]
  <2>1. PICK i \in 0 .. Len(p), j \in 0 .. Len(q) : i = Len(p) /\ j = Len(q)
    BY <1>7
  <2>2. w[i] = v[j] /\ w[i] \in RamNode
    BY <1>6, <2>1
  <2>3. Taken(t, p) /\ Taken(u, q) /\ Walks(w, p) /\ Walks(v, q)
    BY <1>2, <1>3, <1>4, <1>5
  <2>4. t[i] = u[j]
    BY <1>1, <2>2, <2>3, OneName
  <2> QED  BY <2>1, <2>4
<1>9. Components(p) = Components(q)
  BY <1>2, <1>3, <1>8
<1> QED  BY <1>9, NormalComponents

LEMMA PrefixIs ==
  ASSUME NEW s \in Seq(Names), NEW u \in Seq(Names), IsPrefix(s, u)
  PROVE  Len(s) <= Len(u) /\ \A k \in 1 .. Len(s) : s[k] = u[k]
<1>1. Len(s) <= Len(u) /\ SubSeq(s, 1, Len(s)) = SubSeq(u, 1, Len(s)) /\ Len(s) \in Nat
      /\ Len(u) \in Nat
  BY DEF IsPrefix
<1>2. ASSUME NEW k \in 1 .. Len(s) PROVE s[k] = u[k]
  <2>1. SubSeq(s, 1, Len(s))[k] = s[k] /\ SubSeq(u, 1, Len(s))[k] = u[k]
    BY <1>1, <1>2
  <2> QED  BY <1>1, <2>1
<1> QED  BY <1>1, <1>2

LEMMA FrontIs ==
  ASSUME NEW p, IsPath(p)
  PROVE  /\ Front(p) \in Seq(Names) /\ Len(Front(p)) = Len(p) - 1 /\ Len(p) \in Nat \ {0}
         /\ \A i \in 1 .. Len(p) - 1 : Front(p)[i] = p[i]
         /\ Last(p) = p[Len(p)] /\ Last(p) \in Names
         /\ (Normal(p) => Normal(Front(p)) /\ Last(p) # EmptyName)
<1>1. p \in Seq(Names) /\ Len(p) \in Nat \ {0}
  BY DEF IsPath
<1>2. Front(p) \in Seq(Names) /\ Last(p) \in Names
  BY LastName
<1>3. Front(p) = SubSeq(p, 1, Len(p) - 1)
  BY DEF Front
<1>4. Len(Front(p)) = Len(p) - 1 /\ \A i \in 1 .. Len(p) - 1 : Front(p)[i] = p[i]
  <2>1. PICK m \in Nat : m = Len(p) - 1
    BY <1>1
  <2>2. m <= Len(p)
    BY <1>1, <2>1
  <2>3. \A i \in 1 .. m : p[i] \in Names
    BY <1>1, <2>1
  <2>4. Len(SubSeq(p, 1, m)) = m /\ \A i \in 1 .. m : SubSeq(p, 1, m)[i] = p[i]
    BY <1>1, <2>2
  <2> QED  BY <1>3, <2>1, <2>4
<1>5. Last(p) = p[Len(p)]
  BY DEF Last
<1>6. Normal(p) => Normal(Front(p)) /\ Last(p) # EmptyName
  BY <1>1, <1>2, <1>4, <1>5 DEF Normal
<1> QED  BY <1>1, <1>2, <1>4, <1>5, <1>6

(* The walk to a path goes through its parent.                             *)
LEMMA ThroughParent ==
  ASSUME Shapes, NEW p, IsPath(p)
  PROVE  /\ vfs_resolve_path(Front(p)) \in Node \cup {NULL}
         /\ vfs_resolve_path(p) \in Node \cup {NULL}
         /\ vfs_resolve_path(p) = Descend(g_mounts, Last(p))[vfs_resolve_path(Front(p))]
<1> DEFINE f == Front(p)
           w == Walk(g_mounts, p)
           v == Walk(g_mounts, f)
<1>1. /\ f \in Seq(Names) /\ Len(f) = Len(p) - 1 /\ Len(p) \in Nat \ {0} /\ p \in Seq(Names)
      /\ \A i \in 1 .. Len(f) : f[i] = p[i]
      /\ Last(p) = p[Len(p)]
  BY FrontIs DEF IsPath
<1>2. WalkSteps(g_mounts, p) /\ WalkSteps(g_mounts, f)
  BY <1>1, ResolveAll DEF ResolvesAll
<1> HIDE DEF f, w, v
<1>3. /\ w \in [0 .. Len(p) -> Node \cup {NULL}] /\ v \in [0 .. Len(f) -> Node \cup {NULL}]
      /\ w[0] = v[0]
      /\ \A i \in 1 .. Len(p) : w[i] = Descend(g_mounts, p[i])[w[i - 1]]
      /\ \A i \in 1 .. Len(f) : v[i] = Descend(g_mounts, f[i])[v[i - 1]]
  BY <1>2 DEF WalkSteps, w, v
<1> DEFINE bad == {i \in 0 .. Len(f) : w[i] # v[i]}
<1>4. bad = {}
  <2> SUFFICES ASSUME bad # {} PROVE FALSE
    OBVIOUS
  <2>1. bad \in SUBSET Nat
    BY <1>1
  <2> DEFINE i == Min(bad)
  <2>2. i \in bad /\ \A k \in bad : i <= k
    BY <2>1, MinOfSet
  <2> HIDE DEF i
  <2>3. i \in 1 .. Len(f) /\ i \in 1 .. Len(p) /\ i - 1 \in 0 .. Len(f) /\ i - 1 \notin bad
    BY <1>1, <1>3, <2>2
  <2>4. w[i - 1] = v[i - 1] /\ f[i] = p[i]
    BY <1>1, <2>3
  <2> QED  BY <1>3, <2>2, <2>3, <2>4
<1>5. Len(f) \in 0 .. Len(f) /\ Len(p) \in 1 .. Len(p) /\ Len(p) - 1 = Len(f) /\ Len(p) \in 0 .. Len(p)
  BY <1>1
<1>6. w[Len(f)] = v[Len(f)]
  BY <1>4, <1>5
<1>7. w[Len(p)] = Descend(g_mounts, Last(p))[v[Len(f)]]
  BY <1>1, <1>3, <1>5, <1>6
<1>8. vfs_resolve_path(p) = w[Len(p)] /\ vfs_resolve_path(f) = v[Len(f)]
  BY DEF vfs_resolve_path, ResolveIn, w, v
<1>9. w[Len(p)] \in Node \cup {NULL} /\ v[Len(f)] \in Node \cup {NULL}
  BY <1>3, <1>5
<1> QED  BY <1>7, <1>8, <1>9 DEF f

LEMMA RootIs ==
  ASSUME Shapes
  PROVE  vfs_resolve_path(<<>>) = g_vfs_root
<1>1. <<>> \in Seq(Names) /\ Len(<<>>) = 0
  OBVIOUS
<1>2. WalkSteps(g_mounts, <<>>)
  BY <1>1, ResolveAll DEF ResolvesAll
<1> QED  BY <1>1, <1>2 DEF WalkSteps, vfs_resolve_path, ResolveIn

-----------------------------------------------------------------------------
(* What the calls of the boot do to the tree                               *)

PathKept(p) == vfs_resolve_path(p) # NULL => vfs_resolve_path(p)' = vfs_resolve_path(p)

KeepsPaths == \A p \in Seq(Names) : PathKept(p)

LEMMA SameMountsKeepPaths ==
  ASSUME Shapes, Shapes', Grows, UNCHANGED mounts
  PROVE  KeepsPaths
<1>1. g_vfs_root' = g_vfs_root /\ mount' = mount /\ g_mounts' = g_mounts
  BY DEF mounts
<1>2. \A m \in Node : Hop(g_mounts, m)' = Hop(g_mounts, m)
  BY <1>1 DEF Hop
<1>3. ASSUME NEW p \in Seq(Names), vfs_resolve_path(p) # NULL
      PROVE  vfs_resolve_path(p)' = vfs_resolve_path(p)
  BY <1>1, <1>2, <1>3, NoHopChanges
<1> QED  BY <1>3 DEF KeepsPaths, PathKept

NextNode == <<"ramfs", ramfs_node_count + 1>>

(* A node with its entry at the end of its parent.                         *)
Creates(p, as) ==
  /\ vfs_resolve_path(Front(p)) \in RamNode \cap Dirs
  /\ NextNode \in RamNode /\ kind[NextNode] = "unused" /\ ~IsChild(NextNode) /\ mount[NextNode] = 0
  /\ ramfs_node_count' = ramfs_node_count + 1
  /\ kind' = [kind EXCEPT ![NextNode] = as]
  /\ children' = [children EXCEPT ![vfs_resolve_path(Front(p))] =
                    Append(@, [name |-> ChildName[Last(p)], node |-> NextNode])]

LEMMA CreateIs ==
  ASSUME TreeInv, NEW p, IsPath(p), NEW as \in {"file", "dir"}, CreateAt(p, as)
  PROVE  Creates(p, as)
<1>1. PICK d : d = vfs_resolve_path(Front(p))
  OBVIOUS
<1>2. ramfs_create(d, Last(p), as)
  BY <1>1 DEF CreateAt
<1>3. /\ d \in RamNode \cap Dirs /\ ramfs_alloc_node(as)
      /\ children' = [children EXCEPT ![d] = Append(@, [name |-> ChildName[Last(p)], node |-> NextNode])]
  BY <1>2, Zenon DEF ramfs_create, NextNode
<1>4. /\ ramfs_node_count < MAX_RAMFS_NODES /\ ramfs_node_count' = ramfs_node_count + 1
      /\ kind' = [kind EXCEPT ![NextNode] = as]
  BY <1>3 DEF ramfs_alloc_node, NextNode
<1>5. NextNode \in RamNode /\ kind[NextNode] = "unused" /\ ~IsChild(NextNode) /\ mount[NextNode] = 0
  BY <1>4, FreshNode DEF NextNode
<1> QED  BY <1>1, <1>3, <1>4, <1>5 DEF Creates

(* A call that changes the tree at most by one new node.                   *)
Quiet == TreeSound' /\ Grows /\ KeepsPaths /\ UNCHANGED <<mounts, unmounts>>

LEMMA SameTreeIsQuiet ==
  ASSUME TreeSound, UNCHANGED <<tree, mounts, unmounts>>, FileInv'
  PROVE  Quiet
<1>1. UNCHANGED <<tree, mount, g_vfs_root>> /\ g_mounts' = g_mounts
      /\ g_mount_count' = g_mount_count /\ unmounts' = unmounts
  BY DEF mounts
<1>2. MountShape'
  BY <1>1 DEF TreeSound, TreeInv, MountShape, IsChild, tree
<1>3. TreeInv' /\ Grows
  BY <1>1, <1>2, TablesKeep DEF TreeSound, TreeInv, Shapes
<1>4. KeepsPaths
  BY <1>3, SameMountsKeepPaths DEF TreeSound, TreeInv
<1> QED  BY <1>1, <1>3, <1>4 DEF Quiet, TreeSound

LEMMA NothingIsQuiet ==
  ASSUME TreeSound, UNCHANGED fsVars
  PROVE  Quiet /\ UNCHANGED <<tree, g_fds, listed>>
<1>1. UNCHANGED <<tree, mounts, unmounts, g_fds, listed>>
  BY DEF fsVars, vars
<1>2. FileInv'
  <2>1. Shapes /\ Shapes' /\ Grows
    <3>1. UNCHANGED <<tree, mount, g_vfs_root>> /\ g_mounts' = g_mounts
          /\ g_mount_count' = g_mount_count /\ unmounts' = unmounts
      BY <1>1 DEF mounts
    <3>2. MountShape'
      BY <3>1 DEF TreeSound, TreeInv, MountShape, IsChild, tree
    <3>3. TreeInv' /\ Grows
      BY <3>1, <3>2, TablesKeep DEF TreeSound, TreeInv, Shapes
    <3> QED  BY <3>3 DEF TreeInv, TreeSound
  <2> QED  BY <1>1, <2>1, FilesKeep DEF TreeSound
<1> QED  BY <1>1, <1>2, SameTreeIsQuiet

LEMMA MkdirIs ==
  ASSUME TreeSound, NEW p, IsPath(p), TryMkdir(p)
  PROVE  /\ Quiet /\ UNCHANGED <<g_fds, listed>>
         /\ IF CanCreate(p) THEN Creates(p, "dir") ELSE UNCHANGED tree
<1>1. CASE CanCreate(p)
  <2>1. CreateAt(p, "dir") /\ UNCHANGED <<mounts, g_fds, listed, unmounts>>
    BY <1>1 DEF TryMkdir, vfs_mkdir
  <2>2. TreeInv' /\ Grows /\ Creates(p, "dir")
    BY <2>1, CreateAdds, CreateIs DEF TreeSound
  <2>3. FileInv'
    BY <2>1, <2>2, FilesKeep DEF TreeInv, TreeSound
  <2>4. KeepsPaths
    BY <2>1, <2>2, SameMountsKeepPaths DEF TreeInv, TreeSound
  <2> QED  BY <1>1, <2>1, <2>2, <2>3, <2>4 DEF Quiet, TreeSound
<1>2. CASE ~CanCreate(p)
  <2>1. UNCHANGED fsVars
    BY <1>2 DEF TryMkdir
  <2> QED  BY <1>2, <2>1, NothingIsQuiet
<1> QED  BY <1>1, <1>2

LEMMA OpenIs ==
  ASSUME TreeSound, NEW p, IsPath(p), vfs_open(p, TRUE)
  PROVE  /\ Quiet
         /\ IF vfs_resolve_path(p) = NULL THEN Creates(p, "file") ELSE UNCHANGED tree
         /\ \/ UNCHANGED <<g_fds, listed>>
            \/ /\ vfs_resolve_path(p)' # NULL /\ FreeFds # {}
               /\ g_fds' = [g_fds EXCEPT ![Min(FreeFds)] = [node |-> vfs_resolve_path(p)', offset |-> 0]]
<1>1. TreeInv' /\ Grows /\ FileInv'
  BY OpenKeeps DEF TreeSound
<1>2. UNCHANGED <<mounts, unmounts>>
  BY DEF vfs_open
<1>3. KeepsPaths
  BY <1>1, <1>2, SameMountsKeepPaths DEF TreeInv, TreeSound
<1>4. IF vfs_resolve_path(p) = NULL THEN CreateAt(p, "file") ELSE UNCHANGED tree
  BY DEF vfs_open
<1>5. vfs_resolve_path(p) = NULL => Creates(p, "file")
  BY <1>4, CreateIs DEF TreeSound
<1>6. \/ UNCHANGED <<g_fds, listed>>
      \/ /\ vfs_resolve_path(p)' # NULL /\ FreeFds # {}
         /\ g_fds' = [g_fds EXCEPT ![Min(FreeFds)] = [node |-> vfs_resolve_path(p)', offset |-> 0]]
  BY DEF vfs_open
<1> QED  BY <1>1, <1>2, <1>3, <1>4, <1>5, <1>6 DEF Quiet, TreeSound

LEMMA CloseIs ==
  ASSUME TreeSound, NEW fd \in FDs, vfs_close(fd)
  PROVE  Quiet /\ UNCHANGED tree /\ g_fds' = [g_fds EXCEPT ![fd] = ClosedFd]
<1>1. UNCHANGED <<tree, mounts, unmounts>> /\ g_fds' = [g_fds EXCEPT ![fd] = ClosedFd]
  BY DEF vfs_close
<1>2. TreeInv' /\ Grows
  <2>1. UNCHANGED <<tree, mount, g_vfs_root>> /\ g_mounts' = g_mounts
        /\ g_mount_count' = g_mount_count /\ unmounts' = unmounts
    BY <1>1 DEF mounts
  <2>2. MountShape'
    BY <2>1 DEF TreeSound, TreeInv, MountShape, IsChild, tree
  <2> QED  BY <2>1, <2>2, TablesKeep DEF TreeSound, TreeInv, Shapes
<1>3. FileInv'
  BY <1>2, CloseKeeps DEF TreeInv, TreeSound
<1> QED  BY <1>1, <1>3, SameTreeIsQuiet

LEMMA StaticIs ==
  ASSUME TreeSound, NEW fs \in StaticFs, NEW name \in Names, AddStaticEntry(fs, name)
  PROVE  Quiet /\ UNCHANGED <<g_fds, listed, ramfs_node_count>>
<1>1. TreeInv' /\ Grows
  BY AddStaticAdds DEF TreeSound
<1>2. UNCHANGED <<mounts, unmounts, g_fds, listed, ramfs_node_count>>
  BY DEF AddStaticEntry
<1>3. FileInv'
  BY <1>1, <1>2, FilesKeep DEF TreeInv, TreeSound
<1>4. KeepsPaths
  BY <1>1, <1>2, SameMountsKeepPaths DEF TreeInv, TreeSound
<1> QED  BY <1>1, <1>2, <1>3, <1>4 DEF Quiet, TreeSound

-----------------------------------------------------------------------------
(* What a mount of DeviceFS or ProcessFS does                              *)

WalksThrough ==
  \A p \in Seq(Names) : p # <<>> =>
    /\ vfs_resolve_path(Front(p)) \in Node \cup {NULL}
    /\ vfs_resolve_path(p) \in Node \cup {NULL}
    /\ vfs_resolve_path(p) = Descend(g_mounts, Last(p))[vfs_resolve_path(Front(p))]

LEMMA ParentsFirst == Shapes => WalksThrough
BY ThroughParent DEF WalksThrough, IsPath

LEMMA WalksAgree ==
  ASSUME NEW p \in Seq(Names), NEW w, NEW v, Walks(w, p), Walks(v, p)
  PROVE  w[Len(p)] = v[Len(p)]
<1>1. /\ w[0] = v[0] /\ Len(p) \in Nat
      /\ \A i \in 1 .. Len(p) : w[i] = Descend(g_mounts, p[i])[w[i - 1]]
      /\ \A i \in 1 .. Len(p) : v[i] = Descend(g_mounts, p[i])[v[i - 1]]
  BY DEF Walks
<1> DEFINE bad == {i \in 0 .. Len(p) : w[i] # v[i]}
<1>2. bad = {}
  <2> SUFFICES ASSUME bad # {} PROVE FALSE
    OBVIOUS
  <2>1. bad \in SUBSET Nat
    BY <1>1
  <2> DEFINE i == Min(bad)
  <2>2. i \in bad /\ \A k \in bad : i <= k
    BY <2>1, MinOfSet
  <2> HIDE DEF i
  <2>3. i \in 1 .. Len(p) /\ i - 1 \in 0 .. Len(p) /\ i - 1 \notin bad
    BY <1>1, <2>2
  <2>4. w[i - 1] = v[i - 1]
    BY <2>3
  <2> QED  BY <1>1, <2>2, <2>3, <2>4
<1>3. Len(p) \in 0 .. Len(p)
  BY <1>1
<1> QED  BY <1>2, <1>3

StaticMount(q, fs, s) ==
  /\ s = g_mount_count + 1 /\ s \in Slot
  /\ FsMount(fs, <<fs, 0>>) /\ LinkMount(q, s, <<fs, 0>>)
  /\ UNCHANGED <<children, g_fds, listed, unmounts, ramfs_node_count>>

LEMMA StaticMountIs ==
  ASSUME TreeInv, NEW q, NEW fs \in StaticFs, vfs_mount(q, fs)
  PROVE  \E s : StaticMount(q, fs, s)
<1>1. PICK root \in Node : FsMount(fs, root) /\ LinkMount(q, g_mount_count + 1, root)
  BY DEF vfs_mount
<1>2. fs # "ramfs"
  BY VfsConstants
<1>3. root = <<fs, 0>> /\ UNCHANGED ramfs_node_count
  BY <1>1, <1>2 DEF FsMount
<1>4. g_mount_count + 1 \in Slot
  <2>1. g_mount_count \in 0 .. MAX_MOUNTS /\ MAX_MOUNTS \in Nat
    BY VfsConstants DEF TreeInv, Shapes
  <2> QED  BY <2>1 DEF Slot, vfs_mount
<1>5. UNCHANGED <<children, g_fds, listed, unmounts>>
  BY DEF vfs_mount
<1>6. StaticMount(q, fs, g_mount_count + 1)
  BY <1>1, <1>3, <1>4, <1>5 DEF StaticMount
<1> QED  BY <1>6

Grown(q, fs) ==
  /\ TreeSound' /\ Grows /\ UNCHANGED <<children, g_fds, listed, unmounts, ramfs_node_count, g_vfs_root>>
  /\ g_mount_count' \in {g_mount_count, g_mount_count + 1}
  /\ \A t \in Slot : t # g_mount_count + 1 => g_mounts'[t] = g_mounts[t]
  /\ g_mounts'[g_mount_count + 1].path = q
  /\ g_mounts'[g_mount_count + 1].root = <<fs, 0>>
  /\ Dirs' = Dirs \cup {<<fs, 0>>}
  /\ \A n \in Node : n # <<fs, 0>> => kind'[n] = kind[n]
  /\ \A p \in Seq(Names) : PathKept(p) \/ (/\ g_mount_count' = g_mount_count + 1
                                           /\ IsPrefix(q, Components(p)))

LEMMA MountIs ==
  ASSUME TreeSound, NEW q, IsPath(q), Normal(q), NEW fs \in StaticFs, vfs_mount(q, fs)
  PROVE  Grown(q, fs)
<1>0. TreeInv /\ FileInv /\ unmounts = 0 /\ Shapes
  BY DEF TreeSound, TreeInv
<1>1. PICK s : StaticMount(q, fs, s)
  BY <1>0, StaticMountIs
<1>2. TreeInv' /\ Grows
  BY <1>0, MountKeeps
<1>3. UNCHANGED <<children, g_fds, listed, unmounts, ramfs_node_count>>
      /\ s = g_mount_count + 1 /\ s \in Slot
  BY <1>1 DEF StaticMount
<1>4. FileInv'
  BY <1>0, <1>2, <1>3, FilesKeep DEF TreeInv
<1>5. <<fs, 0>> \in Node
  BY VfsConstants DEF Node
<1>6. PICK root \in Node : root = <<fs, 0>>
  BY <1>5
<1>7. FsMount(fs, root) /\ LinkMount(q, s, root)
  BY <1>1, <1>6 DEF StaticMount
<1>8. root \in Dirs' /\ Dirs' = Dirs \cup {root} /\ kind' = [kind EXCEPT ![root] = "dir"]
  BY <1>0, <1>7, NewRoot, Zenon
<1>9. q # RootPath
  BY DEF Normal, RootPath
<1>10. g_mounts' = [g_mounts EXCEPT ![s] = [path |-> q, root |-> root]]
  BY <1>7 DEF LinkMount
<1>11. g_vfs_root' = g_vfs_root /\ g_mount_count' \in {g_mount_count, s}
  BY <1>7, <1>9 DEF LinkMount
<1>12. /\ \A t \in Slot : t # s => g_mounts'[t] = g_mounts[t]
       /\ g_mounts'[s].path = q /\ g_mounts'[s].root = root
  BY <1>0, <1>3, <1>10 DEF Shapes
<1>13. \A n \in Node : n # root => kind'[n] = kind[n]
  BY <1>0, <1>8 DEF Shapes
<1>14. ASSUME NEW p \in Seq(Names), ~PathKept(p)
       PROVE  g_mount_count' = g_mount_count + 1 /\ IsPrefix(q, Components(p))
  <2>1. vfs_resolve_path(p) # NULL /\ vfs_resolve_path(p)' # vfs_resolve_path(p)
    BY <1>14 DEF PathKept
  <2>2. /\ g_mount_count' = g_mount_count + 1
        /\ IsPrefix(Components(g_mounts'[g_mount_count'].path), Components(p))
    BY <1>0, <1>2, <2>1, MountChanges
  <2>3. g_mounts'[g_mount_count'].path = q
    BY <1>3, <1>12, <2>2
  <2>4. Components(q) = q
    BY NormalComponents
  <2> QED  BY <2>2, <2>3, <2>4
<1> QED  BY <1>0, <1>2, <1>3, <1>4, <1>6, <1>8, <1>11, <1>12, <1>13, <1>14 DEF Grown, TreeSound

(* A directory of the first ramfs becomes what is mounted on it.           *)
LEMMA MountLands ==
  ASSUME TreeSound, NEW q, IsPath(q), Normal(q), NEW fs \in StaticFs, vfs_mount(q, fs),
         vfs_resolve_path(q) \in Dirs \cap RamNode, g_mount_count >= 1,
         g_mounts[1].root = g_vfs_root, g_vfs_root \in RamNode,
         \A t \in 2 .. g_mount_count : g_mounts[t].root \notin RamNode
  PROVE  g_mount_count' = g_mount_count + 1 /\ vfs_resolve_path(q)' = <<fs, 0>>
<1>0. TreeInv /\ FileInv /\ unmounts = 0 /\ Shapes /\ UsedOnly /\ TreeShape /\ MountShape
  BY DEF TreeSound, TreeInv
<1>1. Grown(q, fs)
  BY MountIs
<1>2. PICK s : StaticMount(q, fs, s)
  BY <1>0, StaticMountIs
<1>3. s = g_mount_count + 1 /\ s \in Slot /\ g_mount_count \in Nat
  <2>1. g_mount_count \in 0 .. MAX_MOUNTS /\ MAX_MOUNTS \in Nat
    BY <1>0, VfsConstants DEF Shapes
  <2> QED  BY <1>2, <2>1 DEF StaticMount
<1>4. PICK root \in Node : root = <<fs, 0>>
  <2>1. <<fs, 0>> \in Node
    BY VfsConstants DEF Node
  <2> QED  BY <2>1
<1>5. FsMount(fs, root) /\ LinkMount(q, s, root)
  BY <1>2, <1>4 DEF StaticMount
<1>6. root \in Dirs' /\ ~IsChild(root)
  BY <1>0, <1>5, NewRoot, Zenon
<1>7. q \in Seq(Names) /\ q # RootPath /\ q # <<>> /\ Last(q) # EmptyName /\ Last(q) \in Names
      /\ Front(q) \in Seq(Names) /\ Normal(Front(q)) /\ Len(Front(q)) = Len(q) - 1 /\ Len(q) \in Nat
  BY FrontIs DEF IsPath, Normal, RootPath
<1> DEFINE slots == [g_mounts EXCEPT ![s] = [path |-> q, root |-> root]]
<1>8. [path |-> q, root |-> root] \in MountEntry
  BY <1>4, <1>7 DEF MountEntry
<1>9. /\ slots \in [Slot -> MountEntry] /\ g_mounts \in [Slot -> MountEntry]
      /\ \A t \in Slot : t # s => slots[t] = g_mounts[t]
      /\ slots[s].root = root
  <2>1. g_mounts \in [Slot -> MountEntry]
    BY <1>0 DEF Shapes
  <2> QED  BY <1>3, <1>8, <2>1
<1>10. g_mounts' = slots
  BY <1>5 DEF LinkMount
<1>11. Links(s, root, ResolveIn(slots, q))
  BY <1>0, <1>3, <1>5, <1>6, <1>7, LinksAre, Zenon
<1> HIDE DEF slots
<1>12. \A n \in Node : mount[n] \in Slot \cup {0} /\ mount[n] <= g_mount_count
  BY <1>0 DEF Shapes, MountShape
<1>13. \A n \in Node : Hop(slots, n) = Hop(g_mounts, n)
  <2> SUFFICES ASSUME NEW n \in Node PROVE Hop(slots, n) = Hop(g_mounts, n)
    OBVIOUS
  <2>1. mount[n] # s /\ (mount[n] # 0 => mount[n] \in Slot)
    BY <1>3, <1>12 DEF Slot
  <2> QED  BY <1>9, <2>1 DEF Hop
(* The node the path leads to is the entry itself, no mounted root.        *)
<1> DEFINE at == vfs_resolve_path(q)
           d == vfs_resolve_path(Front(q))
           c == finddir(d, Last(q))
<1>14. ResolveIn(slots, q) = at
  <2>1. PICK w : w = Walk(slots, q) /\ Walks(w, q)
    BY <1>0, <1>7, <1>9, <1>13, WalkWalks
  <2>2. PICK v : v = Walk(g_mounts, q) /\ Walks(v, q)
    BY <1>0, <1>7, <1>9, WalkWalks
  <2>3. w[Len(q)] = v[Len(q)]
    BY <1>7, <2>1, <2>2, WalksAgree
  <2> QED  BY <2>1, <2>2, <2>3 DEF ResolveIn, vfs_resolve_path
<1>15. d \in Node \cup {NULL} /\ at = Descend(g_mounts, Last(q))[d] /\ at \in Node /\ at # NULL
  BY <1>0, <1>7, ThroughParent, NullIsNoNode DEF Node
<1> HIDE DEF at, d
<1>16. d \in Node /\ d # NULL
  BY <1>15 DEF Descend
<1>17. at = Hop(g_mounts, c)
  BY <1>7, <1>15, <1>16 DEF Descend
<1>18. c \in Node \cup {NULL}
  BY <1>0, <1>16, FindDirType
<1>19. c # NULL /\ c \in Node
  BY <1>15, <1>17, <1>18 DEF Hop
<1>20. IsChild(c)
  <2>1. PICK k \in DOMAIN children[d] : c = children[d][k].node
    BY <1>0, <1>16, <1>19, FindDir
  <2> QED  BY <1>16, <2>1 DEF IsChild
<1> HIDE DEF c
<1>21. mount[c] = 0
  <2> SUFFICES ASSUME mount[c] # 0 PROVE FALSE
    OBVIOUS
  <2>1. at = g_mounts[mount[c]].root /\ mount[c] \in 1 .. g_mount_count
    BY <1>3, <1>12, <1>17, <1>19 DEF Hop, Slot
  <2>2. at \in RamNode
    BY DEF at
  <2>3. mount[c] = 1
    BY <1>3, <2>1, <2>2
  <2> QED  BY <1>0, <1>19, <1>20, <2>1, <2>3 DEF MountShape
<1>22. c = at
  BY <1>17, <1>21 DEF Hop
<1>23. at \in Dirs'
  <2>1. at \in Dirs
    BY DEF at
  <2> QED  BY <1>1, <2>1 DEF Grown
<1>24. mount'[c] = s /\ g_mount_count' = s
  BY <1>11, <1>14, <1>22, <1>23 DEF Links
(* So the walk gets to the entry as before, and then to what was mounted.  *)
<1>25. vfs_resolve_path(Front(q))' = d
  <2>1. ~IsPrefix(q, Components(Front(q)))
    <3>1. Components(Front(q)) = Front(q)
      BY <1>7, NormalComponents
    <3> QED  BY <1>7, <3>1 DEF IsPrefix
  <2>2. PathKept(Front(q))
    BY <1>1, <1>7, <2>1 DEF Grown
  <2> QED  BY <1>16, <2>2 DEF PathKept, d
<1>26. Shapes' /\ Grows
  BY <1>1 DEF Grown, TreeSound, TreeInv
<1>27. PICK e \in Node, name \in Names, child \in Node, there \in Node :
         e = d /\ name = Last(q) /\ child = c /\ there = <<fs, 0>>
  BY <1>4, <1>7, <1>16, <1>19
<1>28. finddir(e, name) = child
  BY <1>27 DEF c
<1>29. finddir(e, name)' = child
  <2>1. child # NULL
    BY <1>19, <1>27
  <2>2. finddir(e, name)' = finddir(e, name)
    BY <1>0, <1>26, <1>28, <2>1, FoundAgain
  <2> QED  BY <1>28, <2>2
<1>30. Hop(g_mounts, child)' = there
  <2>1. child # NULL /\ mount'[child] = s /\ s # 0
    BY <1>3, <1>19, <1>24, <1>27 DEF Slot
  <2>2. g_mounts'[s].root = there
    BY <1>4, <1>9, <1>10, <1>27
  <2> QED  BY <2>1, <2>2 DEF Hop
<1>31. Descend(g_mounts, name)'[e] = there
  <2>1. e # NULL /\ name # EmptyName /\ e \in Node \cup {NULL}
    BY <1>7, <1>16, <1>27
  <2> QED  BY <1>29, <1>30, <2>1 DEF Descend
<1>32. WalksThrough'
  <2>1. Shapes' => WalksThrough'
    BY ParentsFirst, PTL
  <2> QED  BY <1>26, <2>1
<1>33. vfs_resolve_path(q)' = Descend(g_mounts, Last(q))'[vfs_resolve_path(Front(q))']
  BY <1>7, <1>32 DEF WalksThrough
<1>34. vfs_resolve_path(q)' = there
  <2>1. Last(q) = name /\ vfs_resolve_path(Front(q))' = e
    BY <1>25, <1>27
  <2> QED  BY <1>31, <1>33, <2>1
<1> QED  BY <1>3, <1>24, <1>27, <1>34

-----------------------------------------------------------------------------
(* The archive                                                             *)

(* A header as the code reads it: of the path, what the name field holds.  *)
HdrIs ==
  hdr.type = archive[offset].type /\ hdr.size = archive[offset].size /\ hdr.name = NameOf(offset)

BlockTyped(b) ==
  /\ b \in 1 .. Len(archive) /\ archive[b].type \in {"file", "dir", "other"}
  /\ NameOf(b) \in Seq(Names) /\ archive[b].size \in Nat /\ archive[b].body \in BOOLEAN

LEMMA BlockIs ==
  ASSUME BootShapes, NEW b \in DOMAIN archive
  PROVE  BlockTyped(b)
<1>1. archive \in Seq(BlockHeader)
  BY DEF BootShapes
<1>2. b \in 1 .. Len(archive) /\ archive[b] \in BlockHeader
  BY <1>1
<1>3. archive[b].path \in Seq(Names)
  BY <1>2 DEF BlockHeader
<1>4. NameOf(b) \in Seq(Names)
  BY <1>3, ArchivesOfTar DEF NameOf, NameField
<1> QED  BY <1>2, <1>4 DEF BlockTyped, BlockHeader

LEMMA RegularIs ==
  ASSUME BootShapes, NEW b \in Regular
  PROVE  /\ b \in DOMAIN archive /\ BlockTyped(b) /\ archive[b].type = "file"
         /\ ~archive[b].body /\ NameOf(b) # <<>>
<1>1. /\ b \in DOMAIN archive /\ archive[b].type = "file" /\ ~archive[b].body
      /\ \A c \in 1 .. b : archive[c].body \/ NameOf(c) # <<>>
  BY DEF Regular, NameOf
<1>2. BlockTyped(b)
  BY <1>1, BlockIs
<1>3. b \in 1 .. b
  BY <1>2 DEF BlockTyped
<1> QED  BY <1>1, <1>2, <1>3

LEMMA TailIs ==
  ASSUME NEW S, NEW s \in Seq(S), s # <<>>
  PROVE  /\ Tail(s) \in Seq(S) /\ Len(Tail(s)) = Len(s) - 1
         /\ \A i \in 1 .. Len(s) - 1 : Tail(s)[i] = s[i + 1]
BY HeadTailProperties

LEMMA AbsPathIs ==
  ASSUME NEW name \in Seq(Names), name # <<>>
  PROVE  /\ IsPath(AbsPath(name))
         /\ (\A i \in DOMAIN name : name[i] # EmptyName) => Normal(AbsPath(name))
<1>1. CASE Len(name) > 1 /\ name[1] = Dot
  <2>1. AbsPath(name) = Tail(name)
    BY <1>1 DEF AbsPath
  <2>2. Tail(name) \in Seq(Names) /\ Len(Tail(name)) = Len(name) - 1
        /\ \A i \in 1 .. Len(name) - 1 : Tail(name)[i] = name[i + 1]
    BY TailIs
  <2>3. Tail(name) # <<>> /\ DOMAIN Tail(name) = 1 .. Len(name) - 1 /\ Len(name) \in Nat
        /\ DOMAIN name = 1 .. Len(name)
    <3>1. DOMAIN name = 1 .. Len(name) /\ Len(name) \in Nat
      OBVIOUS
    <3>2. DOMAIN Tail(name) = 1 .. Len(name) - 1
      BY <2>2
    <3>3. Len(Tail(name)) # 0
      BY <1>1, <2>2, <3>1
    <3>4. Tail(name) # <<>>
      BY <2>2, <3>3, EmptySeq
    <3> QED  BY <2>2, <3>1, <3>2, <3>4
  <2>4. ASSUME \A i \in DOMAIN name : name[i] # EmptyName, NEW i \in DOMAIN Tail(name)
        PROVE  Tail(name)[i] # EmptyName
    <3>1. i \in 1 .. Len(name) - 1 /\ i + 1 \in DOMAIN name
      BY <2>3
    <3>2. Tail(name)[i] = name[i + 1]
      BY <2>2, <3>1
    <3> QED  BY <2>4, <3>1, <3>2
  <2> QED  BY <2>1, <2>2, <2>3, <2>4 DEF IsPath, Normal
<1>2. CASE ~(Len(name) > 1 /\ name[1] = Dot)
  BY <1>2 DEF AbsPath, IsPath, Normal
<1> QED  BY <1>1, <1>2

LEMMA PathOfIs ==
  ASSUME BootShapes, NEW b \in Regular
  PROVE  IsPath(PathOf(b)) /\ Normal(PathOf(b))
<1>1. /\ b \in DOMAIN archive /\ BlockTyped(b) /\ archive[b].type = "file"
      /\ ~archive[b].body /\ NameOf(b) # <<>>
  BY RegularIs
<1>2. archive \in Archives
  BY DEF BootShapes
<1>3. \A i \in DOMAIN NameOf(b) : NameOf(b)[i] # EmptyName
  BY <1>1, <1>2, ArchivesOfTar DEF NameOf
<1>4. NameOf(b) \in Seq(Names)
  BY <1>1 DEF BlockTyped
<1> QED  BY <1>1, <1>3, <1>4, AbsPathIs DEF PathOf, NameOf

LEMMA DirPathIs ==
  ASSUME NEW name \in Seq(Names), name # <<>>
  PROVE  IsPath(DirPath(name))
<1>1. IsPath(AbsPath(name))
  BY AbsPathIs
<1>2. Front(AbsPath(name)) \in Seq(Names) /\ Len(Front(AbsPath(name))) = Len(AbsPath(name)) - 1
  BY <1>1, FrontIs
<1>3. Len(AbsPath(name)) > 1 => Front(AbsPath(name)) # <<>>
  BY <1>2
<1> QED  BY <1>1, <1>2, <1>3 DEF DirPath, IsPath

LEMMA PaddedIs ==
  ASSUME NEW size \in Nat
  PROVE  Padded(size) \in Nat
<1>1. BLOCK \in Nat \ {0}
  BY BootConstants
<1>2. PICK x \in Nat : x = size + BLOCK - 1
  BY <1>1
<1>3. x \div BLOCK \in Int /\ x \div BLOCK >= 0
  BY <1>1, <1>2
<1> QED  BY <1>2, <1>3 DEF Padded

(* Behind a header lies what belongs to it, and then the next header.      *)
Behind(b) ==
  LET next == b + 1 + Padded(archive[b].size)
  IN  /\ next \in Nat \ {0} /\ next > b
      /\ \A c \in DOMAIN archive : b < c /\ c < next => archive[c].body
      /\ next \in DOMAIN archive => ~archive[next].body

LEMMA BehindHeader ==
  ASSUME BootShapes, NEW b \in DOMAIN archive, ~archive[b].body, NameOf(b) # <<>>
  PROVE  Behind(b)
<1>1. BlockTyped(b) /\ archive \in Archives
  BY BlockIs DEF BootShapes
<1>2. archive[b].size \in Nat /\ b \in Nat \ {0}
  BY <1>1 DEF BlockTyped
<1> DEFINE end == b + Padded(archive[b].size)
<1>3. /\ \A c \in DOMAIN archive : b < c /\ c <= end => archive[c].body
      /\ end + 1 \in DOMAIN archive => ~archive[end + 1].body
  BY <1>1, ArchivesOfTar DEF Padded, NameOf
<1>4. PICK k \in Nat : k = Padded(archive[b].size)
  BY <1>2, PaddedIs
<1>5. \A c \in DOMAIN archive : c \in Nat
  BY <1>1, BlockIs DEF BlockTyped
<1>6. b + 1 + k = end + 1 /\ b + 1 + k \in Nat \ {0} /\ b + 1 + k > b
  BY <1>2, <1>4
<1>7. ASSUME NEW c \in DOMAIN archive, b < c, c < b + 1 + k PROVE archive[c].body
  <2>1. c <= end
    BY <1>2, <1>4, <1>5, <1>7
  <2> QED  BY <1>3, <1>7, <2>1
<1> QED  BY <1>3, <1>4, <1>6, <1>7 DEF Behind

-----------------------------------------------------------------------------
(* The script                                                              *)

LEMMA Pairs ==
  ASSUME NEW S, NEW a \in S, NEW b \in S, NEW c \in S, NEW d \in S
  PROVE  <<a, b>> \o <<c, d>> = <<a, b, c, d>>
<1> DEFINE u == <<a, b>> \o <<c, d>>
           v == <<a, b, c, d>>
<1>1. <<a, b>> \in Seq(S) /\ <<c, d>> \in Seq(S) /\ v \in Seq(S) /\ Len(v) = 4
  OBVIOUS
<1>2. u \in Seq(S) /\ Len(u) = 4
  BY <1>1, ConcatProperties
<1>3. \A i \in 1 .. 4 : u[i] = v[i]
  <2>1. \A i \in 1 .. 4 : u[i] = IF i <= 2 THEN <<a, b>>[i] ELSE <<c, d>>[i - 2]
    BY <1>1, ConcatProperties
  <2>2. u[1] = a /\ u[2] = b /\ u[3] = c /\ u[4] = d
    BY <2>1
  <2>3. v[1] = a /\ v[2] = b /\ v[3] = c /\ v[4] = d
    OBVIOUS
  <2>4. 1 .. 4 = {1, 2, 3, 4}
    OBVIOUS
  <2> QED  BY <2>2, <2>3, <2>4
<1> HIDE DEF u, v
<1>4. u = v
  BY <1>1, <1>2, <1>3, SeqEqual
<1> QED  BY <1>4 DEF u, v

LEMMA FrontSame ==
  ASSUME NEW S, NEW p \in Seq(S), NEW q \in Seq(S), Len(p) = Len(q) + 1,
         \A i \in 1 .. Len(q) : p[i] = q[i]
  PROVE  Front(p) = q
<1>1. Len(p) \in Nat /\ Len(q) \in Nat /\ Len(p) - 1 = Len(q) /\ Len(q) <= Len(p)
  OBVIOUS
<1>2. Front(p) = SubSeq(p, 1, Len(q))
  BY <1>1 DEF Front
<1>3. /\ SubSeq(p, 1, Len(q)) \in Seq(S) /\ Len(SubSeq(p, 1, Len(q))) = Len(q)
      /\ \A i \in 1 .. Len(q) : SubSeq(p, 1, Len(q))[i] = p[i]
  <2>1. PICK n \in Nat : n = Len(q) /\ n <= Len(p)
    BY <1>1
  <2>2. Len(SubSeq(p, 1, n)) = n /\ \A i \in 1 .. n : SubSeq(p, 1, n)[i] = p[i]
    BY <2>1
  <2>3. SubSeq(p, 1, n) \in Seq(S)
    BY <2>1
  <2> QED  BY <2>1, <2>2, <2>3
<1>4. SubSeq(p, 1, Len(q)) = q
  BY <1>3, SeqEqual
<1> QED  BY <1>2, <1>4

LEMMA FrontOfTwo ==
  ASSUME NEW S, NEW a \in S, NEW b \in S
  PROVE  Front(<<a, b>>) = <<a>> /\ Last(<<a, b>>) = b
<1>1. <<a, b>> \in Seq(S) /\ <<a>> \in Seq(S) /\ Len(<<a, b>>) = 2 /\ Len(<<a>>) = 1
      /\ <<a, b>>[1] = <<a>>[1]
  OBVIOUS
<1>2. \A i \in 1 .. Len(<<a>>) : <<a, b>>[i] = <<a>>[i]
  BY <1>1
<1>3. PICK p \in Seq(S), q \in Seq(S) : p = <<a, b>> /\ q = <<a>>
  BY <1>1
<1>4. Len(p) = Len(q) + 1 /\ \A i \in 1 .. Len(q) : p[i] = q[i]
  BY <1>1, <1>2, <1>3
<1>5. Front(p) = q
  BY <1>4, FrontSame
<1>6. Last(p) = p[2]
  BY <1>1, <1>3 DEF Last
<1> QED  BY <1>3, <1>5, <1>6

LEMMA FrontOfThree ==
  ASSUME NEW S, NEW a \in S, NEW b \in S, NEW c \in S
  PROVE  Front(<<a, b, c>>) = <<a, b>> /\ Last(<<a, b, c>>) = c
<1>1. <<a, b, c>> \in Seq(S) /\ <<a, b>> \in Seq(S) /\ Len(<<a, b, c>>) = 3 /\ Len(<<a, b>>) = 2
  OBVIOUS
<1>2. \A i \in 1 .. Len(<<a, b>>) : <<a, b, c>>[i] = <<a, b>>[i]
  <2>1. <<a, b, c>>[1] = <<a, b>>[1] /\ <<a, b, c>>[2] = <<a, b>>[2] /\ 1 .. 2 = {1, 2}
    OBVIOUS
  <2> QED  BY <1>1, <2>1
<1>3. PICK p \in Seq(S), q \in Seq(S) : p = <<a, b, c>> /\ q = <<a, b>>
  BY <1>1
<1>4. Len(p) = Len(q) + 1 /\ \A i \in 1 .. Len(q) : p[i] = q[i]
  BY <1>1, <1>2, <1>3
<1>5. Front(p) = q
  BY <1>4, FrontSame
<1>6. Last(p) = p[3]
  BY <1>1, <1>3 DEF Last
<1> QED  BY <1>3, <1>5, <1>6

LEMMA FrontOfFour ==
  ASSUME NEW S, NEW a \in S, NEW b \in S, NEW c \in S, NEW d \in S
  PROVE  Front(<<a, b, c, d>>) = <<a, b, c>> /\ Last(<<a, b, c, d>>) = d
<1>1. /\ <<a, b, c, d>> \in Seq(S) /\ <<a, b, c>> \in Seq(S)
      /\ Len(<<a, b, c, d>>) = 4 /\ Len(<<a, b, c>>) = 3
  OBVIOUS
<1>2. \A i \in 1 .. Len(<<a, b, c>>) : <<a, b, c, d>>[i] = <<a, b, c>>[i]
  <2>1. /\ <<a, b, c, d>>[1] = <<a, b, c>>[1] /\ <<a, b, c, d>>[2] = <<a, b, c>>[2]
        /\ <<a, b, c, d>>[3] = <<a, b, c>>[3] /\ 1 .. 3 = {1, 2, 3}
    OBVIOUS
  <2> QED  BY <1>1, <2>1
<1>3. PICK p \in Seq(S), q \in Seq(S) : p = <<a, b, c, d>> /\ q = <<a, b, c>>
  BY <1>1
<1>4. Len(p) = Len(q) + 1 /\ \A i \in 1 .. Len(q) : p[i] = q[i]
  BY <1>1, <1>2, <1>3
<1>5. Front(p) = q
  BY <1>4, FrontSame
<1>6. Last(p) = p[4]
  BY <1>1, <1>3 DEF Last
<1> QED  BY <1>3, <1>5, <1>6

Places ==
  /\ Rhoudveine = <<"System", "Rhoudveine">>
  /\ Device = <<"System", "Rhoudveine", "Runtime", "Device">>
  /\ Process = <<"System", "Rhoudveine", "Runtime", "Process">>
  /\ Front(InitPath) = <<"System", "Rhoudveine", "Booter">>
  /\ Front(Device) = <<"System", "Rhoudveine", "Runtime">>

LEMMA PlacesAre == Places
<1> DEFINE S == {"System", "Rhoudveine", "Runtime", "Device", "Process", "Booter", "init"}
<1>0. /\ "System" \in S /\ "Rhoudveine" \in S /\ "Runtime" \in S /\ "Device" \in S
      /\ "Process" \in S /\ "Booter" \in S /\ "init" \in S
  OBVIOUS
<1> HIDE DEF S
<1>1. Rhoudveine = <<"System", "Rhoudveine">>
  BY DEF Rhoudveine
<1>2. Device = <<"System", "Rhoudveine", "Runtime", "Device">>
  BY <1>0, <1>1, Pairs DEF Device
<1>3. Process = <<"System", "Rhoudveine", "Runtime", "Process">>
  BY <1>0, <1>1, Pairs DEF Process
<1>4. InitPath = <<"System", "Rhoudveine", "Booter", "init">>
  BY <1>0, <1>1, Pairs DEF InitPath
<1>5. Front(InitPath) = <<"System", "Rhoudveine", "Booter">>
  BY <1>0, <1>4, FrontOfFour
<1>6. Front(Device) = <<"System", "Rhoudveine", "Runtime">>
  BY <1>0, <1>2, FrontOfFour
<1> QED  BY <1>1, <1>2, <1>3, <1>5, <1>6 DEF Places

MkdirLines ==
  /\ Script[1] = Mkdir(<<"System">>) /\ Script[2] = Mkdir(<<"System", "Rhoudveine">>)
  /\ Script[3] = Mkdir(<<"System", "Rhoudveine", "Booter">>)
  /\ Script[4] = Mkdir(<<"System", "Rhoudveine", "Runtime">>)
  /\ Script[5] = Mkdir(Device) /\ Script[6] = Mkdir(Process)

MountLines ==
  /\ Script[7] = Mount(Device, "DeviceFS") /\ Script[12] = Mount(Process, "ProcessFS")
  /\ Script[8] = Add("DeviceFS", "ahci0") /\ Script[9] = Add("DeviceFS", "vga0")
  /\ Script[10] = Add("DeviceFS", "eth0") /\ Script[11] = Add("DeviceFS", "cpu0")
  /\ Script[13] = Add("ProcessFS", "init") /\ Script[14] = Add("ProcessFS", "meminfo")
  /\ Script[15] = Add("ProcessFS", "cpuinfo")

LEMMA ScriptIs == Len(Script) = 15 /\ DOMAIN Script = 1 .. 15 /\ MkdirLines /\ MountLines
<1> DEFINE S == {Mkdirs[i] : i \in 1 .. 6} \cup {Mounts[i] : i \in 1 .. 9}
<1>1. Len(Mkdirs) = 6 /\ DOMAIN Mkdirs = 1 .. 6 /\ Mkdirs \in Seq(S)
  BY DEF Mkdirs
<1>2. Len(Mounts) = 9 /\ DOMAIN Mounts = 1 .. 9 /\ Mounts \in Seq(S)
  BY DEF Mounts
<1> HIDE DEF S
<1>3. /\ Script \in Seq(S) /\ Len(Script) = 15
      /\ \A i \in 1 .. 15 : Script[i] = IF i <= 6 THEN Mkdirs[i] ELSE Mounts[i - 6]
  <2>1. PICK m, n : m = Mkdirs /\ n = Mounts
    OBVIOUS
  <2>2. m \in Seq(S) /\ n \in Seq(S) /\ Len(m) = 6 /\ Len(n) = 9
    BY <1>1, <1>2, <2>1
  <2>3. m \o n \in Seq(S) /\ Len(m \o n) = Len(m) + Len(n)
        /\ \A i \in 1 .. Len(m) + Len(n) : (m \o n)[i] = IF i <= Len(m) THEN m[i] ELSE n[i - Len(m)]
    BY <2>2, ConcatProperties
  <2>4. /\ m \o n \in Seq(S) /\ Len(m \o n) = 15
        /\ \A i \in 1 .. 15 : (m \o n)[i] = IF i <= 6 THEN m[i] ELSE n[i - 6]
    <3>1. PICK k, l : k = Len(m) /\ l = Len(n) /\ k = 6 /\ l = 9
      BY <2>2
    <3>2. \A i \in 1 .. k + l : (m \o n)[i] = IF i <= k THEN m[i] ELSE n[i - k]
      BY <2>3, <3>1
    <3>3. Len(m \o n) = k + l
      BY <2>3, <3>1
    <3>4. PICK u : u = m \o n
      OBVIOUS
    <3>5. u \in Seq(S)
      BY <2>3, <3>4
    <3>6. Len(u) = k + l
      BY <3>3, <3>4
    <3>7. \A i \in 1 .. k + l : u[i] = IF i <= k THEN m[i] ELSE n[i - k]
      BY <3>2, <3>4
    <3>8. Len(u) = 15 /\ \A i \in 1 .. 15 : u[i] = IF i <= 6 THEN m[i] ELSE n[i - 6]
      BY <3>1, <3>6, <3>7
    <3> QED  BY <3>4, <3>5, <3>8
  <2> QED  BY <2>1, <2>4 DEF Script
<1>4. DOMAIN Script = 1 .. 15
  BY <1>3
<1>5. \A i \in 1 .. 6 : Script[i] = Mkdirs[i]
  BY <1>3
<1>6. MkdirLines
  <2>1. /\ Mkdirs[1] = Mkdir(<<"System">>) /\ Mkdirs[2] = Mkdir(Rhoudveine)
        /\ Mkdirs[3] = Mkdir(Front(InitPath)) /\ Mkdirs[4] = Mkdir(Front(Device))
        /\ Mkdirs[5] = Mkdir(Device) /\ Mkdirs[6] = Mkdir(Process)
    BY DEF Mkdirs
  <2> QED  BY <1>5, <2>1, PlacesAre DEF MkdirLines, Places
<1>7. \A i \in 7 .. 15 : Script[i] = Mounts[i - 6]
  BY <1>3
<1>8. MountLines
  <2>1. /\ Mounts[1] = Mount(Device, "DeviceFS") /\ Mounts[6] = Mount(Process, "ProcessFS")
        /\ Mounts[2] = Add("DeviceFS", "ahci0") /\ Mounts[3] = Add("DeviceFS", "vga0")
        /\ Mounts[4] = Add("DeviceFS", "eth0") /\ Mounts[5] = Add("DeviceFS", "cpu0")
        /\ Mounts[7] = Add("ProcessFS", "init") /\ Mounts[8] = Add("ProcessFS", "meminfo")
        /\ Mounts[9] = Add("ProcessFS", "cpuinfo")
    BY DEF Mounts
  <2>2. /\ Script[7] = Mounts[1] /\ Script[8] = Mounts[2] /\ Script[9] = Mounts[3]
        /\ Script[10] = Mounts[4] /\ Script[11] = Mounts[5] /\ Script[12] = Mounts[6]
        /\ Script[13] = Mounts[7] /\ Script[14] = Mounts[8] /\ Script[15] = Mounts[9]
    BY <1>7
  <2> QED  BY <2>1, <2>2 DEF MountLines
<1> QED  BY <1>3, <1>4, <1>6, <1>8

(* What a line of the script is.                                           *)
LEMMA LinesAre ==
  ASSUME BootShapes
  PROVE  /\ Line("mkdir") => step \in 1 .. 6
         /\ Line("mount") => step \in {7, 12}
         /\ Line("add") => step \in 8 .. 11 \cup 13 .. 15
<1>1. step \in 1 .. 16
  BY ScriptIs DEF BootShapes
<1>2. \A i \in 1 .. 6 : Script[i].call = "mkdir"
  BY ScriptIs DEF MkdirLines, Mkdir
<1>3. Script[7].call = "mount" /\ Script[12].call = "mount"
  BY ScriptIs DEF MountLines, Mount
<1>4. \A i \in 8 .. 11 \cup 13 .. 15 : Script[i].call = "add"
  BY ScriptIs DEF MountLines, Add
<1>5. Line("mkdir") \/ Line("mount") \/ Line("add") => step \in 1 .. 15
  BY <1>1, ScriptIs DEF Line
<1>6. step \in 1 .. 15 => step \in 1 .. 6 \/ step = 7 \/ step = 12 \/ step \in 8 .. 11 \cup 13 .. 15
  OBVIOUS
<1> QED  BY <1>2, <1>3, <1>4, <1>5, <1>6 DEF Line

StdName == {"System", "Rhoudveine", "Booter", "Runtime", "Device", "Process"}

(* The standard directories: their names are not cut, and the one above    *)
(* each is the root or an earlier one.                                     *)
StdDir(i, q) ==
  /\ q = Script[i].path /\ IsPath(q) /\ Normal(q) /\ Last(q) \in StdName
  /\ \/ i = 1 /\ Front(q) = <<>>
     \/ \E j \in 1 .. i - 1 : Front(q) = Script[j].path

LEMMA StdDirs == \A i \in 1 .. 6 : StdDir(i, Script[i].path)
<1>1. StdName \subseteq Names \ {EmptyName}
  BY StandardNames DEF StdName
<1> DEFINE Whole(q) == q \in Seq(Names) /\ q # <<>> /\ \A k \in DOMAIN q : q[k] # EmptyName
<1>2. /\ Whole(<<"System">>) /\ Whole(<<"System", "Rhoudveine">>)
      /\ Whole(<<"System", "Rhoudveine", "Booter">>) /\ Whole(<<"System", "Rhoudveine", "Runtime">>)
      /\ Whole(Device) /\ Whole(Process)
  BY <1>1, PlacesAre DEF StdName, Places
<1>3. \A q : Whole(q) => IsPath(q) /\ Normal(q)
  BY DEF IsPath, Normal
<1> HIDE DEF Whole
<1>4. /\ Script[1].path = <<"System">> /\ Script[2].path = <<"System", "Rhoudveine">>
      /\ Script[3].path = <<"System", "Rhoudveine", "Booter">>
      /\ Script[4].path = <<"System", "Rhoudveine", "Runtime">>
      /\ Script[5].path = Device /\ Script[6].path = Process
  BY ScriptIs DEF MkdirLines, Mkdir
<1>5. \A i \in 1 .. 6 : IsPath(Script[i].path) /\ Normal(Script[i].path)
  <2>1. \A i \in 1 .. 6 : Whole(Script[i].path)
    BY <1>2, <1>4
  <2> QED  BY <1>3, <2>1
<1>0. /\ "System" \in StdName /\ "Rhoudveine" \in StdName
      /\ "Runtime" \in StdName /\ "Booter" \in StdName /\ "Device" \in StdName /\ "Process" \in StdName
  BY DEF StdName
<1>6. /\ Last(Script[1].path) \in StdName /\ Last(Script[2].path) \in StdName
      /\ Last(Script[3].path) \in StdName /\ Last(Script[4].path) \in StdName
      /\ Last(Script[5].path) \in StdName /\ Last(Script[6].path) \in StdName
  <2>1. Last(<<"System">>) = "System"
    BY DEF Last
  <2>2. Last(<<"System", "Rhoudveine">>) = "Rhoudveine"
    BY <1>0, FrontOfTwo
  <2>3. /\ Last(<<"System", "Rhoudveine", "Booter">>) = "Booter"
        /\ Last(<<"System", "Rhoudveine", "Runtime">>) = "Runtime"
    BY <1>0, FrontOfThree
  <2>4. Last(Device) = "Device" /\ Last(Process) = "Process"
    BY <1>0, PlacesAre, FrontOfFour DEF Places
  <2> QED  BY <1>0, <1>4, <2>1, <2>2, <2>3, <2>4
<1>7. Front(Script[1].path) = <<>>
  BY <1>4 DEF Front
<1>8. Front(Script[2].path) = Script[1].path
  BY <1>0, <1>4, FrontOfTwo
<1>9. Front(Script[3].path) = Script[2].path /\ Front(Script[4].path) = Script[2].path
  BY <1>0, <1>4, FrontOfThree
<1>10. Front(Script[5].path) = Script[4].path /\ Front(Script[6].path) = Script[4].path
  BY <1>0, <1>4, PlacesAre, FrontOfFour DEF Places
<1>11. \A i \in 1 .. 6 :
         \/ i = 1 /\ Front(Script[i].path) = <<>>
         \/ \E j \in 1 .. i - 1 : Front(Script[i].path) = Script[j].path
  <2> SUFFICES ASSUME NEW i \in 1 .. 6, i # 1
               PROVE  \E j \in 1 .. i - 1 : Front(Script[i].path) = Script[j].path
    BY <1>7
  <2>1. i \in {2, 3, 4, 5, 6}
    OBVIOUS
  <2>2. CASE i = 2
    BY <1>8, <2>2
  <2>3. CASE i \in {3, 4}
    BY <1>9, <2>3
  <2>4. CASE i \in {5, 6}
    BY <1>10, <2>4
  <2> QED  BY <2>1, <2>2, <2>3, <2>4
<1>12. \A i \in 1 .. 6 : Last(Script[i].path) \in StdName
  BY <1>6
<1> QED  BY <1>5, <1>11, <1>12 DEF StdDir

-----------------------------------------------------------------------------
(* What a new node leaves as it was                                        *)

Made(d, n, name, as) ==
  /\ d \in RamNode \cap Dirs /\ n \in RamNode /\ kind[n] = "unused" /\ ~IsChild(n) /\ mount[n] = 0
  /\ ramfs_node_count' = ramfs_node_count + 1
  /\ kind'[n] = as /\ \A m \in Node : m # n => kind'[m] = kind[m]
  /\ \A e \in Node : e # d => children'[e] = children[e]
  /\ Len(children'[d]) = Len(children[d]) + 1
  /\ \A i \in 1 .. Len(children[d]) : children'[d][i] = children[d][i]
  /\ children'[d][Len(children[d]) + 1].name = name
  /\ children'[d][Len(children[d]) + 1].node = n

LEMMA MadeIs ==
  ASSUME Shapes, NEW p, IsPath(p), NEW as \in {"file", "dir"}, Creates(p, as)
  PROVE  Made(vfs_resolve_path(Front(p)), NextNode, ChildName[Last(p)], as)
<1>1. PICK d, n, name :
        d = vfs_resolve_path(Front(p)) /\ n = NextNode /\ name = ChildName[Last(p)]
  OBVIOUS
<1>2. /\ d \in RamNode \cap Dirs /\ n \in RamNode /\ kind[n] = "unused" /\ ~IsChild(n) /\ mount[n] = 0
      /\ ramfs_node_count' = ramfs_node_count + 1
      /\ kind' = [kind EXCEPT ![n] = as]
      /\ children' = [children EXCEPT ![d] = Append(@, [name |-> name, node |-> n])]
  BY <1>1 DEF Creates
<1>3. d \in Node /\ n \in Node
  BY <1>2 DEF Node
<1>4. name \in Names
  <2>1. Last(p) \in Names
    BY LastName
  <2> QED  BY <1>1, <2>1, VfsConstants
<1>5. kind'[n] = as /\ \A m \in Node : m # n => kind'[m] = kind[m]
  BY <1>2, <1>3 DEF Shapes
<1>6. children \in [Node -> Seq(Entry)]
  BY DEF Shapes
<1>7. /\ \A e \in Node : e # d => children'[e] = children[e]
      /\ children'[d] = Append(children[d], [name |-> name, node |-> n])
  BY <1>2, <1>3, <1>6
<1>8. children[d] \in Seq(Entry) /\ [name |-> name, node |-> n] \in Entry
  BY <1>3, <1>4, <1>6 DEF Entry
<1>9. /\ Len(children'[d]) = Len(children[d]) + 1
      /\ \A i \in 1 .. Len(children[d]) : children'[d][i] = children[d][i]
      /\ children'[d][Len(children[d]) + 1] = [name |-> name, node |-> n]
  BY <1>7, <1>8, AppendProperties
<1>10. /\ children'[d][Len(children[d]) + 1].name = name
       /\ children'[d][Len(children[d]) + 1].node = n
  BY <1>9
<1>11. Made(d, n, name, as)
  BY <1>2, <1>5, <1>7, <1>9, <1>10 DEF Made
<1> QED  BY <1>1, <1>11

(* A call that changes the tree at most by one new node of the first ramfs. *)
Move == Quiet /\ (UNCHANGED tree \/ \E d, n, name, as : as \in {"file", "dir"} /\ Made(d, n, name, as))

KindsKept == \A n \in RamNode : kind[n] # "unused" => kind'[n] = kind[n]

LEMMA MoveKinds ==
  ASSUME Move PROVE KindsKept
<1>1. CASE UNCHANGED tree
  BY <1>1 DEF tree, KindsKept
<1>2. ASSUME NEW d, NEW n, NEW name, NEW as, Made(d, n, name, as) PROVE KindsKept
  BY <1>2 DEF Made, KindsKept, Node
<1> QED  BY <1>1, <1>2 DEF Move

LEMMA MoveCounts ==
  ASSUME Move, Shapes, ChildrenCounted
  PROVE  ChildrenCounted' /\ ramfs_node_count' >= ramfs_node_count
<1>1. CASE UNCHANGED tree
  BY <1>1 DEF tree, ChildrenCounted, Shapes
<1>2. ASSUME NEW d, NEW n, NEW name, NEW as, Made(d, n, name, as)
      PROVE  ChildrenCounted' /\ ramfs_node_count' >= ramfs_node_count
  <2>1. /\ ramfs_node_count' = ramfs_node_count + 1 /\ d \in RamNode
        /\ \A e \in RamNode : e # d => children'[e] = children[e]
        /\ Len(children'[d]) = Len(children[d]) + 1
    BY <1>2 DEF Made, Node
  <2>2. ramfs_node_count \in Nat /\ \A e \in RamNode : Len(children[e]) \in Nat
    BY VfsConstants DEF Shapes, Node
  <2>3. \A e \in RamNode : Len(children[e]) < ramfs_node_count
    BY DEF ChildrenCounted
  <2>4. \A e \in RamNode : Len(children'[e]) < ramfs_node_count'
    BY <2>1, <2>2, <2>3
  <2> QED  BY <2>1, <2>2, <2>4 DEF ChildrenCounted
<1> QED  BY <1>1, <1>2 DEF Move

LEMMA MoveMounts ==
  ASSUME Move, MountsSoFar, step' = step \/ (step \in 1 .. 6 /\ step' = step + 1)
  PROVE  MountsSoFar'
<1>1. g_mount_count' = g_mount_count /\ g_mounts' = g_mounts /\ g_vfs_root' = g_vfs_root
  BY DEF Move, Quiet, mounts
<1>2. /\ step' <= 7 => g_mount_count' = 1
      /\ step' <= 12 => g_mount_count' <= 2
  BY <1>1 DEF MountsSoFar
<1>3. step' <= 7 => Used' \subseteq RamNode
  <2> SUFFICES ASSUME step' <= 7 PROVE Used' \subseteq RamNode
    OBVIOUS
  <2>1. Used \subseteq RamNode
    BY DEF MountsSoFar
  <2>2. CASE UNCHANGED tree
    BY <2>1, <2>2 DEF tree, Used
  <2>3. ASSUME NEW d, NEW n, NEW name, NEW as, Made(d, n, name, as) PROVE Used' \subseteq RamNode
    BY <2>1, <2>3 DEF Made, Used
  <2> QED  BY <2>2, <2>3 DEF Move
<1> QED  BY <1>1, <1>2, <1>3 DEF MountsSoFar

(* A file that was created for a block stays so.                           *)
LEMMA CreatedStays ==
  ASSUME Shapes, Shapes', Quiet, BootShapes, archive' = archive,
         NEW n \in Node, NEW b \in Regular, NEW d, CreatedFor(n, b, d)
  PROVE  CreatedFor(n, b, d)'
<1>1. /\ d = vfs_resolve_path(Front(PathOf(b))) /\ d \in RamNode
  BY DEF CreatedFor
<1>2. PICK i \in DOMAIN children[d] :
        children[d][i].name = ChildName[Last(PathOf(b))] /\ children[d][i].node = n
  BY DEF CreatedFor
<1>3. PathOf(b)' = PathOf(b)
  BY DEF PathOf, NameOf
<1>4. IsPath(PathOf(b))
  BY PathOfIs
<1>5. PICK p \in Seq(Names) : p = Front(PathOf(b))
  BY <1>4, FrontIs
<1>6. d # NULL /\ d \in Node
  BY <1>1, NullIsNoNode DEF Node
<1>7. vfs_resolve_path(p)' = d
  BY <1>1, <1>5, <1>6 DEF Quiet, KeepsPaths, PathKept
<1>8. i \in DOMAIN children'[d] /\ children'[d][i] = children[d][i]
  <2>1. children[d] \in Seq(Entry) /\ children'[d] \in Seq(Entry)
    BY <1>6 DEF Shapes
  <2>2. Len(children[d]) <= Len(children'[d]) /\ children'[d][i] = children[d][i]
    BY <1>6 DEF Quiet, Grows
  <2> QED  BY <2>1, <2>2
<1>9. Front(PathOf(b))' = p /\ Last(PathOf(b))' = Last(PathOf(b))
  BY <1>3, <1>5
<1>10. vfs_resolve_path(Front(PathOf(b)))' = d
  BY <1>3, <1>5, <1>7
<1> QED  BY <1>1, <1>2, <1>8, <1>9, <1>10 DEF CreatedFor

LEMMA MoveFiles ==
  ASSUME TreeSound, BootShapes, archive' = archive, FilesNamed, Move,
         step' = step \/ (step \in 1 .. 6 /\ step' = step + 1),
         \A d, n, name : Made(d, n, name, "file") =>
           \E b \in Regular : name = ChildName[Last(PathOf(b))] /\ d = vfs_resolve_path(Front(PathOf(b)))
  PROVE  FilesNamed'
<1>1. Shapes /\ Shapes' /\ Quiet
  BY DEF TreeSound, TreeInv, Move, Quiet
<1>2. Regular' = Regular
  BY DEF Regular, NameOf
<1> SUFFICES ASSUME step' <= 7, NEW n \in RamNode, kind'[n] = "file"
             PROVE  \E b \in Regular : \E d : CreatedFor(n, b, d)'
  BY <1>2 DEF FilesNamed
<1>3. step <= 7 /\ n \in Node
  BY DEF BootShapes, Node
<1>4. CASE kind[n] = "file"
  <2>0. PICK b \in Regular : \E d : CreatedFor(n, b, d)
    BY <1>3, <1>4 DEF FilesNamed
  <2>1. PICK d : CreatedFor(n, b, d)
    BY <2>0
  <2> QED  BY <1>1, <1>3, <2>1, CreatedStays
<1>5. CASE kind[n] # "file"
  <2>1. PICK d, m, name, as : as \in {"file", "dir"} /\ Made(d, m, name, as)
    BY <1>5 DEF Move, tree
  <2>2. n = m /\ as = "file"
    BY <1>3, <1>5, <2>1 DEF Made
  <2>3. PICK b \in Regular : name = ChildName[Last(PathOf(b))] /\ d = vfs_resolve_path(Front(PathOf(b)))
    BY <2>1, <2>2
  <2>4. PathOf(b)' = PathOf(b)
    BY DEF PathOf, NameOf
  <2>5. PICK p \in Seq(Names) : p = Front(PathOf(b))
    BY PathOfIs, FrontIs
  <2>6. d \in RamNode /\ d # NULL /\ d \in Node
    BY <2>1, NullIsNoNode DEF Made, Node
  <2>7. vfs_resolve_path(p)' = d
    BY <1>1, <2>3, <2>5, <2>6 DEF Quiet, KeepsPaths, PathKept
  <2>8. PICK i : i = Len(children[d]) + 1
    OBVIOUS
  <2>9. i \in DOMAIN children'[d] /\ children'[d][i].name = name /\ children'[d][i].node = n
    <3>1. children[d] \in Seq(Entry) /\ children'[d] \in Seq(Entry)
      BY <1>1, <2>6 DEF Shapes
    <3>2. Len(children'[d]) = i /\ children'[d][i].name = name /\ children'[d][i].node = n
      BY <2>1, <2>2, <2>8 DEF Made
    <3>3. i \in 1 .. Len(children'[d])
      BY <2>8, <3>1, <3>2
    <3> QED  BY <3>1, <3>2, <3>3
  <2>10. vfs_resolve_path(Front(PathOf(b)))' = d
    BY <2>4, <2>5, <2>7
  <2>11. ChildName[Last(PathOf(b))]' = name
    BY <2>3, <2>4
  <2>12. CreatedFor(n, b, d)'
    BY <2>6, <2>9, <2>10, <2>11 DEF CreatedFor
  <2> QED  BY <2>12
<1> QED  BY <1>4, <1>5

-----------------------------------------------------------------------------
(* The files                                                               *)

LEMMA KeptOn ==
  ASSUME BootShapes, FilesKept, archive' = archive, content' = content,
         \A b \in Regular : report'[b] = "ok" <=> report[b] = "ok",
         \A b \in Regular : ~Hidden(b)' => ~Hidden(b) /\ PathKept(PathOf(b))
  PROVE  FilesKept'
<1>1. Regular' = Regular
  BY DEF Regular, NameOf
<1> SUFFICES ASSUME NEW b \in Regular, report'[b] = "ok", ~Replaced(b)', ~Hidden(b)'
             PROVE  (vfs_resolve_path(PathOf(b)) # NULL /\ Holds(vfs_resolve_path(PathOf(b)), b))'
  BY <1>1 DEF FilesKept
<1>2. report[b] = "ok" /\ ~Hidden(b) /\ PathKept(PathOf(b))
  OBVIOUS
<1>3. ~Replaced(b)
  BY <1>1 DEF Replaced, PathOf, NameOf
<1>4. vfs_resolve_path(PathOf(b)) # NULL /\ Holds(vfs_resolve_path(PathOf(b)), b)
  BY <1>2, <1>3 DEF FilesKept
<1>5. vfs_resolve_path(PathOf(b))' = vfs_resolve_path(PathOf(b))
  BY <1>2, <1>4 DEF PathKept
<1>6. Holds(vfs_resolve_path(PathOf(b)), b)'
  <2>1. PICK n : n = vfs_resolve_path(PathOf(b))
    OBVIOUS
  <2>2. Holds(n, b)'
    BY <1>4, <2>1 DEF Holds
  <2> QED  BY <1>5, <2>1, <2>2 DEF Holds
<1> QED  BY <1>4, <1>5, <1>6

BeginsWith(S, s, new) == s \in Seq(S) /\ Len(new) <= Len(s) /\ \A k \in 1 .. Len(new) : s[k] = new[k]

LEMMA OverwriteIs ==
  ASSUME NEW S, NEW old \in Seq(S), NEW new \in Seq(S)
  PROVE  BeginsWith(S, Overwrite(old, new), new)
<1> SUFFICES ASSUME new # <<>> PROVE BeginsWith(S, Overwrite(old, new), new)
  <2>1. new = <<>> => Overwrite(old, new) = new
    BY DEF Overwrite
  <2> QED  BY <2>1 DEF BeginsWith
<1> DEFINE rest == SubSeq(old, Len(new) + 1, Len(old))
<1>1. rest \in Seq(S)
  <2>1. PICK m \in Nat, n \in Nat : m = Len(new) /\ n = Len(old)
    OBVIOUS
  <2>2. SubSeq(old, m + 1, n) \in Seq(S)
    <3>1. CASE m + 1 <= n
      <4>1. \A i \in m + 1 .. n : old[i] \in S
        BY <2>1, <3>1
      <4> QED  BY <2>1, <3>1, <4>1, SubSeqProperties
    <3>2. CASE m + 1 > n
      <4>1. SubSeq(old, m + 1, n) = <<>>
        BY <2>1, <3>2
      <4>2. <<>> \in Seq(S)
        OBVIOUS
      <4> QED  BY <4>1, <4>2, Zenon
    <3> QED  BY <2>1, <3>1, <3>2
  <2> QED  BY <2>1, <2>2
<1> HIDE DEF rest
<1>2. /\ new \o rest \in Seq(S) /\ Len(new \o rest) = Len(new) + Len(rest)
      /\ \A k \in 1 .. Len(new) + Len(rest) : (new \o rest)[k] = IF k <= Len(new) THEN new[k] ELSE rest[k - Len(new)]
  BY <1>1, ConcatProperties
<1>3. Len(new) \in Nat /\ Len(rest) \in Nat
  BY <1>1
<1>4. PICK u : u = new \o rest
  OBVIOUS
<1>5. u \in Seq(S) /\ Len(u) = Len(new) + Len(rest)
  BY <1>2, <1>4
<1>6. \A k \in 1 .. Len(new) : u[k] = new[k]
  BY <1>2, <1>3, <1>4
<1>7. Len(new) <= Len(u)
  BY <1>3, <1>5
<1> QED  BY <1>4, <1>5, <1>6, <1>7 DEF Overwrite, rest, BeginsWith

LEMMA BytesAre ==
  ASSUME NEW b \in Nat, NEW size \in Nat
  PROVE  /\ Bytes(b, size) \in Seq(Nat \X Nat) /\ Len(Bytes(b, size)) = size
         /\ \A k \in 1 .. size : Bytes(b, size)[k] = <<b, k>>
BY DEF Bytes

(* The bytes of a block go over what the file held.                        *)
LEMMA KeptWritten ==
  ASSUME TreeInv, unmounts = 0, BootShapes, WalkPlace, FilesKept, archive' = archive, NEW node \in RamNode,
         offset \in Regular, node = vfs_resolve_path(PathOf(offset)), KeepsPaths,
         content' = [content EXCEPT ![node] = Overwrite(@, Bytes(offset, hdr.size))],
         report' = [report EXCEPT ![offset] = "ok"],
         \A b \in Regular : ~Hidden(b)
  PROVE  FilesKept'
<1>1. Regular' = Regular
  BY DEF Regular, NameOf
<1>2. /\ offset \in DOMAIN archive /\ offset \in Nat /\ archive[offset].size \in Nat
      /\ report \in [DOMAIN archive -> {"none", "ok", "error"}]
      /\ content \in [Node -> Seq(Nat \X Nat)]
      /\ node \in Node /\ node # NULL
  BY RegularIs, NullIsNoNode DEF BootShapes, BlockTyped, Node
<1>3. PICK o \in Regular, size \in Nat : o = offset /\ size = archive[o].size
  BY <1>2
<1> SUFFICES ASSUME NEW b \in Regular, report'[b] = "ok", ~Replaced(b)'
             PROVE  (vfs_resolve_path(PathOf(b)) # NULL /\ Holds(vfs_resolve_path(PathOf(b)), b))'
  BY <1>1 DEF FilesKept
<1>4. PathOf(b)' = PathOf(b) /\ PathOf(b) \in Seq(Names) /\ Normal(PathOf(b)) /\ Normal(PathOf(o))
      /\ b \in Nat
  BY PathOfIs, RegularIs DEF PathOf, IsPath, BlockTyped, NameOf
<1>5. PICK p \in Seq(Names) : p = PathOf(b)
  BY <1>4
<1>6. PICK new : new = Bytes(o, size)
  OBVIOUS
<1>7. new \in Seq(Nat \X Nat) /\ Len(new) = size /\ \A k \in 1 .. size : new[k] = <<o, k>>
  BY <1>2, <1>3, <1>6, BytesAre
<1>8. PICK old \in Seq(Nat \X Nat) : old = content[node]
  BY <1>2
<1>9. PICK c : c = Overwrite(old, new)
  OBVIOUS
<1>10. c \in Seq(Nat \X Nat) /\ Len(new) <= Len(c) /\ \A k \in 1 .. Len(new) : c[k] = new[k]
  <2>1. PICK S : S = Nat \X Nat
    OBVIOUS
  <2>2. old \in Seq(S) /\ new \in Seq(S)
    BY <1>7, <2>1
  <2>3. BeginsWith(S, Overwrite(old, new), new)
    BY <2>2, OverwriteIs, Zenon
  <2> QED  BY <1>9, <2>1, <2>3 DEF BeginsWith
<1>11. content'[node] = c /\ \A n \in Node : n # node => content'[n] = content[n]
  <2>1. new = Bytes(offset, hdr.size)
    BY <1>3, <1>6 DEF hdr, NameOf
  <2> QED  BY <1>2, <1>8, <1>9, <2>1
<1>12. CASE b = o
  <2>1. vfs_resolve_path(p)' = node
    BY <1>2, <1>3, <1>5, <1>12 DEF KeepsPaths, PathKept
  <2>2. Holds(node, b)'
    <3>1. size <= Len(c) /\ \A k \in 1 .. size : c[k] = <<b, k>>
      BY <1>7, <1>10, <1>12
    <3> QED  BY <1>3, <1>11, <1>12, <3>1 DEF Holds
  <2>3. vfs_resolve_path(PathOf(b))' = node
    BY <1>4, <1>5, <2>1
  <2> QED  BY <1>2, <2>2, <2>3 DEF Holds
<1>13. CASE b # o
  <2>1. report[b] = "ok"
    BY <1>2, <1>3, <1>13
  <2>2. b < offset
    BY <2>1, RegularIs DEF WalkPlace
  <2>3. ~Replaced(b)
    <3> SUFFICES ASSUME NEW d \in Regular, d > b, PathOf(d) = PathOf(b), report[d] = "ok" PROVE FALSE
      BY DEF Replaced
    <3>1. report'[d] = "ok"
      <4>1. d \in DOMAIN archive
        BY RegularIs
      <4> QED  BY <1>2, <4>1
    <3>2. PathOf(d)' = PathOf(b)'
      BY DEF PathOf, NameOf
    <3> QED  BY <1>1, <3>1, <3>2 DEF Replaced
  <2>4. PICK n : n = vfs_resolve_path(p)
    OBVIOUS
  <2>5. n # NULL /\ Holds(n, b)
    BY <1>5, <2>1, <2>3, <2>4 DEF FilesKept
  <2>6. vfs_resolve_path(p)' = n
    BY <2>4, <2>5 DEF KeepsPaths, PathKept
  <2>7. n # node
    <3> SUFFICES ASSUME n = node PROVE FALSE
      OBVIOUS
    <3>1. p = PathOf(o)
      <4>1. PICK q : q = PathOf(o)
        OBVIOUS
      <4>2. Normal(q) /\ Normal(p) /\ vfs_resolve_path(q) = vfs_resolve_path(p)
            /\ vfs_resolve_path(p) \in RamNode
        BY <1>3, <1>4, <1>5, <2>4, <4>1
      <4>3. p = q
        BY <4>2, SamePath
      <4> QED  BY <4>1, <4>3
    <3>2. report'[o] = "ok" /\ o > b
      BY <1>2, <1>3, <1>4, <2>2
    <3>3. PathOf(o)' = PathOf(b)'
      BY <1>5, <3>1 DEF PathOf, NameOf
    <3> QED  BY <1>1, <3>2, <3>3 DEF Replaced
  <2>8. n \in Node
    <3>1. vfs_resolve_path(p) \in Used \cup {NULL}
      BY ResolveUsed DEF ResolvesUsed
    <3> QED  BY <2>4, <2>5, <3>1 DEF Used
  <2>9. Holds(n, b)'
    <3>1. content'[n] = content[n]
      BY <1>11, <2>7, <2>8
    <3> QED  BY <2>5, <3>1 DEF Holds
  <2>10. vfs_resolve_path(PathOf(b))' = n
    BY <1>4, <1>5, <2>6
  <2> QED  BY <2>5, <2>9, <2>10 DEF Holds
<1> QED  BY <1>12, <1>13

-----------------------------------------------------------------------------
(* The directories                                                         *)

(* Where the last name of a path was found.                                *)
FoundIn(e, c, name, n) ==
  /\ e \in Node /\ c \in Node /\ n = Hop(g_mounts, c)
  /\ \E k \in DOMAIN children[e] : children[e][k].name = name /\ children[e][k].node = c

LEMMA ResolvedIn ==
  ASSUME Shapes, NEW p, IsPath(p), Last(p) # EmptyName, vfs_resolve_path(p) # NULL
  PROVE  \E c : FoundIn(vfs_resolve_path(Front(p)), c, Last(p), vfs_resolve_path(p))
<1>1. /\ vfs_resolve_path(Front(p)) \in Node \cup {NULL}
      /\ vfs_resolve_path(p) = Descend(g_mounts, Last(p))[vfs_resolve_path(Front(p))]
  BY ThroughParent
<1>2. PICK e, name, n : /\ e = vfs_resolve_path(Front(p)) /\ name = Last(p)
                        /\ n = vfs_resolve_path(p)
  OBVIOUS
<1>3. e \in Node \cup {NULL} /\ n = Descend(g_mounts, name)[e] /\ n # NULL /\ name # EmptyName
  BY <1>1, <1>2
<1>4. e \in Node /\ e # NULL
  BY <1>3 DEF Descend
<1>5. n = Hop(g_mounts, finddir(e, name))
  BY <1>3, <1>4 DEF Descend
<1>6. PICK c : c = finddir(e, name)
  OBVIOUS
<1>7. c # NULL
  BY <1>3, <1>5, <1>6 DEF Hop
<1>8. PICK k \in DOMAIN children[e] : children[e][k].name = name /\ children[e][k].node = c
  BY <1>4, <1>6, <1>7, FindDir
<1>9. c \in Node
  BY <1>4, <1>8, EntriesAre
<1>10. FoundIn(e, c, name, n)
  BY <1>4, <1>5, <1>6, <1>8, <1>9 DEF FoundIn
<1> QED  BY <1>2, <1>10

(* With nothing mounted yet but the root, a file in the place of a standard *)
(* directory would be one of the archive.                                  *)
LEMMA PlaceIsDir ==
  ASSUME TreeSound, BootShapes, MountsSoFar, FilesNamed, step <= 7,
         NEW q, IsPath(q), Normal(q), Last(q) \in StdName, Free(q), vfs_resolve_path(q) # NULL
  PROVE  vfs_resolve_path(q) \in Dirs \cap RamNode
<1>1. TreeInv /\ Shapes /\ TreeShape /\ MountShape /\ unmounts = 0
  BY DEF TreeSound, TreeInv
<1>2. /\ g_mount_count = 1 /\ Used \subseteq RamNode
      /\ g_mounts[1].root = g_vfs_root /\ g_vfs_root \in RamNode
  BY DEF MountsSoFar
<1>3. q \in Seq(Names) /\ Front(q) \in Seq(Names) /\ Normal(Front(q)) /\ Last(q) # EmptyName
  BY FrontIs DEF IsPath
<1>4. PICK n, e, name, f : /\ n = vfs_resolve_path(q) /\ e = vfs_resolve_path(Front(q))
                           /\ name = Last(q) /\ f = Front(q)
  OBVIOUS
<1>5. n \in Used \cup {NULL} /\ e \in Used \cup {NULL} /\ n # NULL
  BY <1>1, <1>3, <1>4, ResolveUsed DEF ResolvesUsed
<1>6. PICK c : FoundIn(e, c, name, n)
  BY <1>1, <1>3, <1>4, ResolvedIn
<1>7. e \in Node /\ c \in Node /\ n = Hop(g_mounts, c)
  BY <1>6 DEF FoundIn
<1>8. PICK k \in DOMAIN children[e] : children[e][k].name = name /\ children[e][k].node = c
  BY <1>6 DEF FoundIn
<1>9. n \in RamNode /\ e \in RamNode
  BY <1>2, <1>5, <1>7, NullIsNoNode
<1>10. IsChild(c)
  BY <1>7, <1>8 DEF IsChild
<1>11. mount[c] = 0
  <2> SUFFICES ASSUME mount[c] # 0 PROVE FALSE
    OBVIOUS
  <2>1. mount[c] \in Slot /\ mount[c] <= 1
    BY <1>1, <1>2, <1>7 DEF Shapes, MountShape
  <2>2. mount[c] = 1
    BY <2>1, VfsConstants DEF Slot
  <2> QED  BY <1>1, <1>2, <1>7, <1>10, <2>2 DEF MountShape
<1>12. n = c
  BY <1>7, <1>11 DEF Hop
<1>13. kind[n] # "file"
  <2> SUFFICES ASSUME kind[n] = "file" PROVE FALSE
    OBVIOUS
  <2>1. PICK b \in Regular : \E d : CreatedFor(n, b, d)
    BY <1>9 DEF FilesNamed
  <2>2. PICK d : CreatedFor(n, b, d)
    BY <2>1
  <2>3. PICK p : p = PathOf(b)
    OBVIOUS
  <2>4. IsPath(p) /\ Normal(p)
    BY <2>3, PathOfIs
  <2>5. Front(p) \in Seq(Names) /\ Normal(Front(p)) /\ Last(p) \in Names
    BY <2>4, FrontIs
  <2>6. d = vfs_resolve_path(Front(p)) /\ d \in RamNode
    BY <2>2, <2>3 DEF CreatedFor
  <2>7. PICK i \in DOMAIN children[d] :
          children[d][i].name = ChildName[Last(p)] /\ children[d][i].node = n
    BY <2>2, <2>3 DEF CreatedFor
  <2>8. d = e /\ i = k
    <3>1. d \in Node
      BY <2>6 DEF Node
    <3>2. children[d][i].node = children[e][k].node
      BY <1>8, <1>12, <2>7
    <3> QED  BY <1>1, <1>7, <1>8, <2>7, <3>1, <3>2 DEF TreeShape
  <2>9. Last(p) = name
    <3>1. ChildName[Last(p)] = name /\ name \in StdName
      BY <1>4, <1>8, <2>7, <2>8
    <3> QED  BY <2>5, <3>1, StandardNames DEF StdName
  <2>10. Front(p) = f
    <3>1. PICK g : g = Front(p)
      OBVIOUS
    <3>2. Normal(f) /\ Normal(g) /\ vfs_resolve_path(g) = vfs_resolve_path(f)
          /\ vfs_resolve_path(g) \in RamNode
      BY <1>3, <1>4, <2>5, <2>6, <2>8, <3>1
    <3>3. g = f
      BY <1>1, <3>2, SamePath
    <3> QED  BY <3>1, <3>3
  <2>11. p = q
    <3>1. /\ p \in Seq(Names) /\ Len(p) \in Nat \ {0} /\ Len(Front(p)) = Len(p) - 1
          /\ \A j \in 1 .. Len(p) - 1 : Front(p)[j] = p[j]
          /\ Last(p) = p[Len(p)]
      BY <2>4, FrontIs DEF IsPath
    <3>2. /\ q \in Seq(Names) /\ Len(q) \in Nat \ {0} /\ Len(Front(q)) = Len(q) - 1
          /\ \A j \in 1 .. Len(q) - 1 : Front(q)[j] = q[j]
          /\ Last(q) = q[Len(q)]
      BY FrontIs DEF IsPath
    <3>3. Front(p) = Front(q) /\ Last(p) = Last(q)
      BY <1>4, <2>9, <2>10
    <3>4. Len(p) = Len(q)
      BY <3>1, <3>2, <3>3
    <3>5. \A j \in 1 .. Len(p) : p[j] = q[j]
      <4> SUFFICES ASSUME NEW j \in 1 .. Len(p) PROVE p[j] = q[j]
        OBVIOUS
      <4>1. CASE j = Len(p)
        BY <3>1, <3>2, <3>3, <3>4, <4>1
      <4>2. CASE j # Len(p)
        <5>1. j \in 1 .. Len(p) - 1 /\ j \in 1 .. Len(q) - 1
          BY <3>1, <3>4, <4>2
        <5>2. Front(p)[j] = p[j] /\ Front(q)[j] = q[j]
          BY <3>1, <3>2, <5>1
        <5> QED  BY <3>3, <5>2
      <4> QED  BY <4>1, <4>2
    <3> QED  BY <3>1, <3>2, <3>4, <3>5, SeqEqual
  <2>12. IsPrefix(p, q)
    <3>1. Starts(p, q)
      BY <2>4, <2>11 DEF Starts, IsPath
    <3> QED  BY <1>3, <2>11, <3>1, StartsIsPrefix
  <2> QED  BY <2>3, <2>12 DEF Free
<1>14. kind[n] = "dir"
  <2>1. n \in Node /\ kind[n] # "unused"
    BY <1>5 DEF Used
  <2>2. kind[n] \in {"unused", "file", "dir"}
    BY <1>1, <2>1 DEF Shapes
  <2> QED  BY <1>13, <2>1, <2>2
<1> QED  BY <1>4, <1>7, <1>9, <1>12, <1>14 DEF Dirs

(* A new node is found under its name, if that is not cut.                 *)
LEMMA NewFound ==
  ASSUME TreeSound, Quiet, NEW p, IsPath(p), Last(p) # EmptyName, vfs_resolve_path(p) = NULL,
         NEW n, NEW as, Made(vfs_resolve_path(Front(p)), n, Last(p), as)
  PROVE  vfs_resolve_path(p)' = n
<1>1. Shapes /\ Shapes' /\ MountShape /\ unmounts = 0
  BY DEF TreeSound, TreeInv, Quiet
<1>2. p \in Seq(Names) /\ p # <<>> /\ Front(p) \in Seq(Names) /\ Last(p) \in Names
  BY FrontIs DEF IsPath
<1>3. PICK d, name, f : d = vfs_resolve_path(Front(p)) /\ name = Last(p) /\ f = Front(p)
  OBVIOUS
<1>4. Made(d, n, name, as)
  BY <1>3
<1>5. /\ d \in RamNode /\ n \in RamNode /\ mount[n] = 0
      /\ Len(children'[d]) = Len(children[d]) + 1
      /\ \A i \in 1 .. Len(children[d]) : children'[d][i] = children[d][i]
      /\ children'[d][Len(children[d]) + 1].name = name
      /\ children'[d][Len(children[d]) + 1].node = n
  BY <1>4 DEF Made
<1>6. d \in Node /\ n \in Node /\ d # NULL /\ n # NULL /\ name \in Names /\ name # EmptyName
  BY <1>2, <1>3, <1>5, NullIsNoNode DEF Node
<1>7. PICK c : c = finddir(d, name)
  OBVIOUS
<1>8. c = NULL
  <2> SUFFICES ASSUME c # NULL PROVE FALSE
    OBVIOUS
  <2>1. c \in Node
    BY <1>1, <1>6, <1>7, FindDirType
  <2>2. Hop(g_mounts, c) = NULL
    <3>1. vfs_resolve_path(p) = Descend(g_mounts, name)[d]
      BY <1>1, <1>3, ThroughParent
    <3> QED  BY <1>6, <1>7, <3>1 DEF Descend
  <2>3. mount[c] # 0 /\ g_mounts[mount[c]].root = NULL
    BY <2>2 DEF Hop
  <2>4. mount[c] \in 1 .. g_mount_count
    <3>1. mount[c] \in Slot /\ mount[c] <= g_mount_count
      BY <1>1, <2>1, <2>3 DEF Shapes, MountShape
    <3> QED  BY <1>1, <3>1, VfsConstants DEF Slot, Shapes
  <2> QED  BY <1>1, <2>3, <2>4 DEF MountShape
<1>9. children[d] \in Seq(Entry) /\ children'[d] \in Seq(Entry)
  BY <1>1, <1>6 DEF Shapes
<1>10. PICK l \in Nat : l = Len(children[d])
  BY <1>9
<1>11. \A j \in 1 .. l : children[d][j].name # name
  <2>1. \A j \in DOMAIN children[d] : children[d][j].name # name
    <3> SUFFICES ASSUME NEW j \in DOMAIN children[d], children[d][j].name = name PROVE FALSE
      OBVIOUS
    <3>1. PICK i \in DOMAIN children[d] : finddir(d, name) = children[d][i].node
      BY <1>1, <1>6, FindDir
    <3>2. finddir(d, name) \in Node
      BY <1>1, <1>6, <3>1, EntriesAre
    <3> QED  BY <1>7, <1>8, <3>2, NullIsNoNode
  <2> QED  BY <1>9, <1>10, <2>1
<1>12. FindsAll'
  <2>1. Shapes' => FindsAll'
    BY FindDirAll, PTL
  <2> QED  BY <1>1, <2>1
<1>13. FindsFirst(d, name)'
  BY <1>6, <1>12 DEF FindsAll
<1>14. finddir(d, name)' = n
  <2>1. l + 1 \in DOMAIN children'[d] /\ children'[d][l + 1].name = name /\ children'[d][l + 1].node = n
    BY <1>5, <1>9, <1>10
  <2>2. PICK i \in DOMAIN children'[d] :
          /\ children'[d][i].name = name
          /\ \A j \in DOMAIN children'[d] : children'[d][j].name = name => i <= j
          /\ finddir(d, name)' = children'[d][i].node
    BY <1>13, <2>1 DEF FindsFirst
  <2>3. i \in 1 .. l + 1
    BY <1>5, <1>9, <1>10
  <2>4. i \notin 1 .. l
    BY <1>5, <1>10, <1>11, <2>2
  <2>5. i = l + 1
    BY <2>3, <2>4
  <2> QED  BY <2>1, <2>2, <2>5
<1>15. Hop(g_mounts, n)' = n
  BY <1>5, <1>6 DEF Hop, Quiet, mounts
<1>16. Descend(g_mounts, name)'[d] = n
  <2>1. d \in Node \cup {NULL}
    BY <1>6
  <2> QED  BY <1>6, <1>14, <1>15, <2>1 DEF Descend
<1>17. vfs_resolve_path(f)' = d
  BY <1>2, <1>3, <1>6 DEF Quiet, KeepsPaths, PathKept
<1>18. WalksThrough'
  <2>1. Shapes' => WalksThrough'
    BY ParentsFirst, PTL
  <2> QED  BY <1>1, <2>1
<1>19. vfs_resolve_path(p)' = Descend(g_mounts, Last(p))'[vfs_resolve_path(Front(p))']
  BY <1>2, <1>18 DEF WalksThrough
<1>20. Last(p) = name /\ vfs_resolve_path(Front(p))' = d
  BY <1>3, <1>17
<1> QED  BY <1>16, <1>19, <1>20

LEMMA PrefixLonger ==
  ASSUME NEW s \in Seq(Names), NEW q, IsPath(q), IsPrefix(s, Front(q))
  PROVE  IsPrefix(s, q)
<1>1. q \in Seq(Names) /\ Front(q) \in Seq(Names) /\ Len(Front(q)) = Len(q) - 1
      /\ Len(q) \in Nat /\ \A j \in 1 .. Len(q) - 1 : Front(q)[j] = q[j]
  BY FrontIs DEF IsPath
<1>2. Len(s) <= Len(Front(q)) /\ \A k \in 1 .. Len(s) : s[k] = Front(q)[k]
  BY <1>1, PrefixIs
<1>3. Starts(s, q)
  BY <1>1, <1>2 DEF Starts
<1> QED  BY <1>1, <1>3, StartsIsPrefix

LEMMA FreeAbove ==
  ASSUME BootShapes, NEW q, IsPath(q), Free(q)
  PROVE  Free(Front(q))
<1> SUFFICES ASSUME NEW b \in Regular, IsPrefix(PathOf(b), Front(q)) PROVE FALSE
  BY DEF Free
<1>1. PathOf(b) \in Seq(Names)
  BY PathOfIs DEF IsPath
<1>2. IsPrefix(PathOf(b), q)
  BY <1>1, PrefixLonger
<1> QED  BY <1>2 DEF Free

LEMMA DirStays ==
  ASSUME Shapes, Shapes', archive' = archive, ramfs_node_count' >= ramfs_node_count,
         NEW q, PathKept(q), KindsKept, DirMade(q)
  PROVE  DirMade(q)'
<1> SUFFICES ASSUME Roomy', Free(q)' PROVE (vfs_resolve_path(q) \in Dirs \cap RamNode)'
  BY DEF DirMade
<1>1. Roomy
  BY VfsConstants DEF Roomy, Shapes
<1>2. Free(q)
  BY DEF Free, Regular, PathOf, NameOf
<1>3. PICK n : n = vfs_resolve_path(q)
  OBVIOUS
<1>4. n \in RamNode /\ n \in Node /\ kind[n] = "dir" /\ n # NULL
  BY <1>1, <1>2, <1>3, NullIsNoNode DEF DirMade, Dirs
<1>5. vfs_resolve_path(q)' = n
  BY <1>3, <1>4 DEF PathKept
<1>6. kind'[n] = "dir"
  BY <1>4 DEF KindsKept
<1> QED  BY <1>4, <1>5, <1>6 DEF Dirs

(* Each line makes its directory, if the pool has room and no file is in   *)
(* its place.                                                              *)
LEMMA MkdirMakes ==
  ASSUME TreeSound, BootShapes, MountsSoFar, FilesNamed, ChildrenCounted, DirsMade,
         archive' = archive, step \in 1 .. 6, NEW q, q = Script[step].path, TryMkdir(q)
  PROVE  DirMade(q)'
<1> SUFFICES ASSUME Roomy', Free(q)' PROVE (vfs_resolve_path(q) \in Dirs \cap RamNode)'
  BY DEF DirMade
<1>1. IsPath(q) /\ Normal(q) /\ Last(q) \in StdName /\ StdDir(step, q)
  BY StdDirs DEF StdDir
<1>2. TreeInv /\ Shapes /\ UsedOnly /\ unmounts = 0
  BY DEF TreeSound, TreeInv
<1>3. /\ Quiet /\ UNCHANGED <<g_fds, listed>>
      /\ IF CanCreate(q) THEN Creates(q, "dir") ELSE UNCHANGED tree
  BY <1>1, MkdirIs
<1>4. CanCreate(q) => Made(vfs_resolve_path(Front(q)), NextNode, ChildName[Last(q)], "dir")
  BY <1>1, <1>2, <1>3, MadeIs
<1>5. Move
  <2>1. CASE CanCreate(q)
    <3>1. PICK d, n, name : d = vfs_resolve_path(Front(q)) /\ n = NextNode /\ name = ChildName[Last(q)]
      OBVIOUS
    <3>2. Made(d, n, name, "dir")
      BY <1>4, <2>1, <3>1
    <3> QED  BY <1>3, <3>2 DEF Move
  <2>2. CASE ~CanCreate(q)
    BY <1>3, <2>2 DEF Move
  <2> QED  BY <2>1, <2>2
<1>6. KindsKept /\ ramfs_node_count' >= ramfs_node_count /\ Shapes'
  BY <1>2, <1>3, <1>5, MoveKinds, MoveCounts DEF Quiet, TreeSound, TreeInv
<1>7. Roomy /\ Free(q)
  <2>1. Roomy
    BY <1>2, <1>6, VfsConstants DEF Roomy, Shapes
  <2>2. Free(q)
    BY DEF Free, Regular, PathOf, NameOf
  <2> QED  BY <2>1, <2>2
<1>8. q \in Seq(Names) /\ Front(q) \in Seq(Names)
  BY <1>1, FrontIs DEF IsPath
<1>9. CASE vfs_resolve_path(q) # NULL
  <2>1. vfs_resolve_path(q) \in Dirs \cap RamNode
    BY <1>1, <1>7, <1>9, PlaceIsDir
  <2>2. DirMade(q)
    BY <2>1 DEF DirMade
  <2>3. PathKept(q)
    BY <1>3, <1>8 DEF Quiet, KeepsPaths
  <2>4. DirMade(q)'
    BY <1>2, <1>6, <2>2, <2>3, DirStays
  <2> QED  BY <2>4 DEF DirMade
<1>10. CASE vfs_resolve_path(q) = NULL
  <2>1. vfs_resolve_path(Front(q)) \in Dirs \cap RamNode
    <3>1. CASE step = 1 /\ Front(q) = <<>>
      BY <1>2, <3>1, RootIs DEF MountsSoFar, UsedOnly
    <3>2. CASE \E j \in 1 .. step - 1 : Front(q) = Script[j].path
      <4>1. PICK j \in 1 .. step - 1 : Front(q) = Script[j].path
        BY <3>2
      <4>2. DirMade(Front(q))
        BY <4>1 DEF DirsMade
      <4>3. Free(Front(q))
        BY <1>1, <1>7, FreeAbove
      <4> QED  BY <1>7, <4>2, <4>3 DEF DirMade
    <3> QED  BY <1>1, <3>1, <3>2 DEF StdDir
  <2>2. CanCreate(q)
    <3>1. PICK d \in RamNode : d = vfs_resolve_path(Front(q))
      BY <2>1
    <3>2. Len(children[d]) < ramfs_node_count /\ ramfs_node_count < MAX_RAMFS_NODES
      BY <1>7, <3>1 DEF ChildrenCounted, Roomy
    <3>3. Len(children[d]) < RAMFS_MAX_CHILDREN
      <4>1. d \in Node
        BY DEF Node
      <4>2. Len(children[d]) \in Nat /\ ramfs_node_count \in Nat
        BY <1>2, <4>1, VfsConstants DEF Shapes
      <4> QED  BY <3>2, <4>2, BootConstants, VfsConstants
    <3> QED  BY <2>1, <3>1, <3>2, <3>3 DEF CanCreate
  <2>3. ChildName[Last(q)] = Last(q) /\ Last(q) # EmptyName
    <3>1. Last(q) \in StdName
      BY <1>1
    <3> QED  BY <3>1, StandardNames DEF StdName
  <2>4. PICK n : n = NextNode
    OBVIOUS
  <2>5. Made(vfs_resolve_path(Front(q)), n, Last(q), "dir")
    BY <1>4, <2>2, <2>3, <2>4
  <2>6. vfs_resolve_path(q)' = n
    BY <1>1, <1>3, <1>10, <2>3, <2>5, NewFound
  <2>7. n \in RamNode /\ kind'[n] = "dir"
    BY <2>5 DEF Made
  <2> QED  BY <2>6, <2>7 DEF Dirs, Node
<1> QED  BY <1>9, <1>10

LEMMA FilePathKept ==
  ASSUME BootShapes, archive' = archive, NEW b \in Regular,
         \A p \in Seq(Names) : p = PathOf(b) => PathKept(p)
  PROVE  PathKept(PathOf(b))
<1>1. PathOf(b)' = PathOf(b)
  BY DEF PathOf, NameOf
<1>2. PICK p \in Seq(Names) : p = PathOf(b)
  BY PathOfIs DEF IsPath
<1>3. PathKept(p)
  BY <1>2
<1> QED  BY <1>1, <1>2, <1>3 DEF PathKept

LEMMA QuietKept ==
  ASSUME BootShapes, FilesKept, archive' = archive, content' = content,
         \A b \in Regular : report'[b] = "ok" <=> report[b] = "ok",
         KeepsPaths, UNCHANGED mounts
  PROVE  FilesKept'
<1>1. ASSUME NEW b \in Regular, ~Hidden(b)' PROVE ~Hidden(b) /\ PathKept(PathOf(b))
  <2>1. ~Hidden(b)
    BY <1>1 DEF Hidden, mounts, PathOf, NameOf
  <2>2. PathKept(PathOf(b))
    BY FilePathKept DEF KeepsPaths
  <2> QED  BY <2>1, <2>2
<1> QED  BY <1>1, KeptOn

-----------------------------------------------------------------------------
(* The script                                                              *)

LEMMA LineControl ==
  ASSUME BootShapes, WalkPlace, OneFd, boot = "script", boot' = "script",
         step \in 1 .. 15, step' = step + 1,
         UNCHANGED <<archive, offset, content, report, g_fds>>
  PROVE  BootShapes' /\ WalkPlace' /\ OneFd'
<1>1. BootShapes'
  BY ScriptIs DEF BootShapes, Walking
<1>2. Regular' = Regular
  BY DEF Regular, NameOf
<1>3. WalkPlace'
  BY <1>2 DEF WalkPlace, Walking
<1>4. OneFd'
  BY DEF OneFd
<1> QED  BY <1>1, <1>3, <1>4

LEMMA AddLines ==
  /\ \A i \in 8 .. 11 : Script[i].fs = "DeviceFS" /\ Script[i].name \in Names
                        /\ ChildName[Script[i].name] = Script[i].name
  /\ \A i \in 13 .. 15 : Script[i].fs = "ProcessFS" /\ Script[i].name \in Names
                         /\ ChildName[Script[i].name] = Script[i].name
<1>1. /\ \A i \in 8 .. 11 : Script[i].fs = "DeviceFS"
                            /\ Script[i].name \in {"ahci0", "vga0", "eth0", "cpu0"}
      /\ \A i \in 13 .. 15 : Script[i].fs = "ProcessFS"
                             /\ Script[i].name \in {"init", "meminfo", "cpuinfo"}
  BY ScriptIs DEF MountLines, Add
<1> QED  BY <1>1, StandardNames

(* An entry at the end of a static root.                                   *)
Extends(fs, name) ==
  /\ \A m \in RamNode : kind'[m] = kind[m]
  /\ \A m \in Node : m # <<fs, 0>> => children'[m] = children[m]
  /\ Len(children'[<<fs, 0>>]) = Len(children[<<fs, 0>>]) + 1
  /\ \A i \in 1 .. Len(children[<<fs, 0>>]) : children'[<<fs, 0>>][i] = children[<<fs, 0>>][i]
  /\ children'[<<fs, 0>>][Len(children[<<fs, 0>>]) + 1].name = ChildName[name]

LEMMA RootNode ==
  ASSUME NEW fs \in StaticFs
  PROVE  <<fs, 0>> \in Node /\ <<fs, 0>> \notin RamNode
BY VfsConstants DEF Node, RamNode

LEMMA ExtendsIs ==
  ASSUME Shapes, NEW fs \in StaticFs, NEW name \in Names, AddStaticEntry(fs, name)
  PROVE  Extends(fs, name)
<1>1. PICK r, n, e : r = <<fs, 0>> /\ n = Len(children[r]) + 1
                     /\ e = [name |-> ChildName[name], node |-> <<fs, n>>]
  OBVIOUS
<1>2. /\ n <= MAX_STATIC_NODES /\ kind' = [kind EXCEPT ![<<fs, n>>] = "file"]
      /\ children' = [children EXCEPT ![r] = Append(@, e)]
  BY <1>1 DEF AddStaticEntry
<1>3. children \in [Node -> Seq(Entry)] /\ r \in Node
  BY <1>1, RootNode DEF Shapes
<1>4. children[r] \in Seq(Entry)
  BY <1>3
<1>5. n \in 0 .. MAX_STATIC_NODES
  BY <1>1, <1>2, <1>4, VfsConstants
<1>6. e \in Entry
  <2>1. ChildName[name] \in Names
    BY VfsConstants
  <2>2. <<fs, n>> \in Node
    BY <1>5 DEF Node
  <2> QED  BY <1>1, <2>1, <2>2 DEF Entry
<1>7. \A m \in RamNode : kind'[m] = kind[m]
  <2>1. <<fs, n>> \notin RamNode
    BY VfsConstants DEF RamNode
  <2>2. kind \in [Node -> {"unused", "file", "dir"}]
    BY DEF Shapes
  <2> QED  BY <1>2, <2>1, <2>2 DEF Node
<1>8. \A m \in Node : m # r => children'[m] = children[m]
  BY <1>2, <1>3
<1>9. children'[r] = Append(children[r], e)
  BY <1>2, <1>3
<1>10. /\ Len(children'[r]) = Len(children[r]) + 1
       /\ \A i \in 1 .. Len(children[r]) : children'[r][i] = children[r][i]
       /\ children'[r][Len(children[r]) + 1] = e
  BY <1>4, <1>6, <1>9, AppendProperties
<1>11. e.name = ChildName[name]
  BY <1>1
<1> QED  BY <1>1, <1>7, <1>8, <1>10, <1>11 DEF Extends

(* What script_add does: an entry, when there is a mount to add it to.     *)
AddMove(fs, name) ==
  /\ Quiet /\ UNCHANGED <<g_fds, ramfs_node_count>>
  /\ (~Mounted(fs) /\ UNCHANGED tree) \/ Extends(fs, name)

LEMMA AddMoveIs ==
  ASSUME TreeSound, NEW fs \in StaticFs, NEW name \in Names,
         IF Mounted(fs) THEN AddStaticEntry(fs, name) ELSE UNCHANGED fsVars
  PROVE  AddMove(fs, name)
<1>1. CASE Mounted(fs)
  <2>1. AddStaticEntry(fs, name)
    BY <1>1
  <2>2. Shapes
    BY DEF TreeSound, TreeInv
  <2> QED  BY <2>1, <2>2, StaticIs, ExtendsIs DEF AddMove
<1>2. CASE ~Mounted(fs)
  <2>1. UNCHANGED fsVars
    BY <1>2
  <2>2. UNCHANGED ramfs_node_count
    BY <2>1 DEF fsVars, vars, tree
  <2> QED  BY <1>2, <2>1, <2>2, NothingIsQuiet DEF AddMove
<1> QED  BY <1>1, <1>2

LEMMA AddMoveRam ==
  ASSUME NEW fs \in StaticFs, NEW name, AddMove(fs, name)
  PROVE  /\ KindsKept /\ \A d \in RamNode : children'[d] = children[d]
         /\ \A f \in StaticFs : f # fs => children'[<<f, 0>>] = children[<<f, 0>>]
<1>1. CASE UNCHANGED tree
  BY <1>1 DEF tree, KindsKept
<1>2. CASE Extends(fs, name)
  <2>1. \A d \in RamNode : children'[d] = children[d]
    BY <1>2, RootNode DEF Extends, Node
  <2>2. \A f \in StaticFs : f # fs => children'[<<f, 0>>] = children[<<f, 0>>]
    BY <1>2, RootNode DEF Extends
  <2>3. KindsKept
    BY <1>2 DEF Extends, KindsKept
  <2> QED  BY <2>1, <2>2, <2>3
<1> QED  BY <1>1, <1>2 DEF AddMove

LEMMA ListedStays ==
  ASSUME Shapes, Shapes', Grows, NEW fs \in StaticFs, NEW name, Listed(fs, name)
  PROVE  Listed(fs, name)'
<1>1. PICK r \in Node : r = <<fs, 0>>
  BY RootNode
<1>2. PICK i \in DOMAIN children[r] : children[r][i].name = name
  BY <1>1 DEF Listed
<1>3. children[r] \in Seq(Entry) /\ children'[r] \in Seq(Entry)
  BY DEF Shapes
<1>4. Len(children[r]) <= Len(children'[r]) /\ children'[r][i] = children[r][i]
  BY DEF Grows
<1>5. i \in DOMAIN children'[r]
  BY <1>3, <1>4
<1> QED  BY <1>1, <1>2, <1>4, <1>5 DEF Listed

LEMMA ListedNew ==
  ASSUME Shapes, Shapes', NEW fs \in StaticFs, NEW name, Extends(fs, name), ChildName[name] = name
  PROVE  Listed(fs, name)'
<1>1. PICK r \in Node : r = <<fs, 0>>
  BY RootNode
<1>2. children[r] \in Seq(Entry) /\ children'[r] \in Seq(Entry)
  BY DEF Shapes
<1>3. PICK i : i = Len(children[r]) + 1
  OBVIOUS
<1>4. Len(children'[r]) = i /\ children'[r][i].name = name
  BY <1>1, <1>3 DEF Extends
<1>5. i \in DOMAIN children'[r]
  BY <1>2, <1>3, <1>4
<1> QED  BY <1>1, <1>4, <1>5 DEF Listed

LEMMA ArrivedStays ==
  ASSUME Shapes, Shapes', archive' = archive, ramfs_node_count' >= ramfs_node_count,
         NEW q, PathKept(q), NEW fs \in StaticFs, Mounted(fs) => Mounted(fs)', Arrived(q, fs)
  PROVE  Arrived(q, fs)'
<1> SUFFICES ASSUME Roomy', Free(q)' PROVE (vfs_resolve_path(q) = <<fs, 0>> /\ Mounted(fs))'
  BY DEF Arrived
<1>1. Roomy
  BY VfsConstants DEF Roomy, Shapes
<1>2. Free(q)
  BY DEF Free, Regular, PathOf, NameOf
<1>3. vfs_resolve_path(q) = <<fs, 0>> /\ Mounted(fs)'
  BY <1>1, <1>2 DEF Arrived
<1>4. <<fs, 0>> # NULL
  BY RootNode, NullIsNoNode
<1> QED  BY <1>3, <1>4 DEF PathKept

LEMMA DevicesAre ==
  /\ "DeviceFS" \in StaticFs /\ "ProcessFS" \in StaticFs /\ "DeviceFS" # "ProcessFS"
  /\ IsPath(Device) /\ Normal(Device) /\ IsPath(Process) /\ Normal(Process)
  /\ Script[5].path = Device /\ Script[6].path = Process
  /\ Script[7].path = Device /\ Script[7].fs = "DeviceFS"
  /\ Script[12].path = Process /\ Script[12].fs = "ProcessFS"
  /\ ~IsPrefix(Device, Process) /\ ~IsPrefix(Process, Device)
<1>1. Script[5].path = Device /\ Script[6].path = Process
  BY ScriptIs DEF MkdirLines, Mkdir
<1>2. /\ Script[7].path = Device /\ Script[7].fs = "DeviceFS"
      /\ Script[12].path = Process /\ Script[12].fs = "ProcessFS"
  BY ScriptIs DEF MountLines, Mount
<1>3. IsPath(Device) /\ Normal(Device) /\ IsPath(Process) /\ Normal(Process)
  <2>1. StdDir(5, Script[5].path) /\ StdDir(6, Script[6].path)
    BY StdDirs
  <2> QED  BY <1>1, <2>1 DEF StdDir
<1>4. Device \in Seq(Names) /\ Process \in Seq(Names)
  BY <1>3 DEF IsPath
<1>5. Len(Device) = 4 /\ Len(Process) = 4 /\ Device[4] = "Device" /\ Process[4] = "Process"
  BY PlacesAre DEF Places
<1>6. ~IsPrefix(Device, Process)
  <2> SUFFICES ASSUME IsPrefix(Device, Process) PROVE FALSE
    OBVIOUS
  <2>1. \A k \in 1 .. Len(Device) : Device[k] = Process[k]
    BY <1>4, PrefixIs
  <2>2. 4 \in 1 .. Len(Device)
    BY <1>5
  <2> QED  BY <1>5, <2>1, <2>2
<1>7. ~IsPrefix(Process, Device)
  <2> SUFFICES ASSUME IsPrefix(Process, Device) PROVE FALSE
    OBVIOUS
  <2>1. \A k \in 1 .. Len(Process) : Process[k] = Device[k]
    BY <1>4, PrefixIs
  <2>2. 4 \in 1 .. Len(Process)
    BY <1>5
  <2> QED  BY <1>5, <2>1, <2>2
<1>8. "DeviceFS" \in StaticFs /\ "ProcessFS" \in StaticFs /\ "DeviceFS" # "ProcessFS"
  BY BootConstants
<1> QED  BY <1>1, <1>2, <1>3, <1>6, <1>7, <1>8

LEMMA AddControl ==
  ASSUME BootInv, script_add
  PROVE  /\ boot = "script" /\ step \in 8 .. 11 \cup 13 .. 15 /\ step' = step + 1 /\ archive' = archive
         /\ AddMove(Script[step].fs, Script[step].name)
         /\ TreeSound' /\ BootShapes' /\ WalkPlace' /\ OneFd'
<1>1. Line("add") /\ step' = step + 1 /\ UNCHANGED <<archive, boot, offset, content, report, init>>
  BY DEF script_add
<1>2. boot = "script" /\ boot' = "script" /\ step \in 8 .. 11 \cup 13 .. 15
  BY <1>1, LinesAre DEF BootInv, Line
<1>3. PICK fs \in StaticFs, name \in Names : fs = Script[step].fs /\ name = Script[step].name
  BY <1>2, AddLines, DevicesAre
<1>4. IF Mounted(fs) THEN AddStaticEntry(fs, name) ELSE UNCHANGED fsVars
  BY <1>3 DEF script_add
<1>5. AddMove(fs, name)
  BY <1>4, AddMoveIs DEF BootInv
<1>6. TreeSound' /\ g_fds' = g_fds
  BY <1>5 DEF AddMove, Quiet
<1>7. BootShapes' /\ WalkPlace' /\ OneFd'
  BY <1>1, <1>2, <1>6, LineControl DEF BootInv
<1> QED  BY <1>1, <1>2, <1>3, <1>5, <1>6, <1>7

LEMMA AddRuntime ==
  ASSUME BootInv, script_add
  PROVE  RuntimeMade'
<1> DEFINE dev == <<"DeviceFS", 0>>
           proc == <<"ProcessFS", 0>>
<1>1. /\ step \in 8 .. 11 \cup 13 .. 15 /\ step' = step + 1 /\ archive' = archive
      /\ AddMove(Script[step].fs, Script[step].name) /\ TreeSound'
  BY AddControl
<1>2. PICK fs \in StaticFs, name \in Names :
        /\ fs = Script[step].fs /\ name = Script[step].name /\ ChildName[name] = name
        /\ fs = IF step <= 11 THEN "DeviceFS" ELSE "ProcessFS"
  BY <1>1, AddLines, DevicesAre
<1>3. Quiet /\ AddMove(fs, name) /\ ramfs_node_count' = ramfs_node_count
  BY <1>1, <1>2 DEF AddMove
<1>4. Shapes /\ Shapes' /\ Grows /\ KeepsPaths
  BY <1>3 DEF BootInv, TreeSound, TreeInv, Quiet
<1>5. \A f \in StaticFs : Mounted(f)' <=> Mounted(f)
  BY <1>3 DEF Quiet, mounts, Mounted
<1>6. ramfs_node_count' >= ramfs_node_count
  BY <1>3, <1>4, VfsConstants DEF Shapes
<1>7. ASSUME NEW f \in StaticFs
      PROVE  children[<<f, 0>>] \in Seq(Entry) /\ children'[<<f, 0>>] \in Seq(Entry)
  <2>1. PICK r \in Node : r = <<f, 0>>
    BY RootNode
  <2>2. children[r] \in Seq(Entry) /\ children'[r] \in Seq(Entry)
    BY <1>4 DEF Shapes
  <2> QED  BY <2>1, <2>2
<1>8. /\ Len(children'[<<fs, 0>>]) <= Len(children[<<fs, 0>>]) + 1
      /\ \A f \in StaticFs : f # fs => children'[<<f, 0>>] = children[<<f, 0>>]
  <2>1. \A f \in StaticFs : f # fs => children'[<<f, 0>>] = children[<<f, 0>>]
    BY <1>3, AddMoveRam
  <2>2. Len(children'[<<fs, 0>>]) <= Len(children[<<fs, 0>>]) + 1
    <3>1. CASE UNCHANGED tree
      BY <1>7, <3>1 DEF tree
    <3>2. CASE Extends(fs, name)
      BY <1>7, <3>2 DEF Extends
    <3> QED  BY <1>3, <3>1, <3>2 DEF AddMove
  <2> QED  BY <2>1, <2>2
<1>9. /\ step > 7 => Arrived(Device, "DeviceFS")
      /\ step > 12 => Arrived(Process, "ProcessFS")
      /\ Len(children[dev]) <= IF step <= 8 THEN 0 ELSE IF step <= 12 THEN step - 8 ELSE 4
      /\ Len(children[proc]) <= IF step <= 13 THEN 0 ELSE step - 13
      /\ \A i \in 8 .. 11 : i < step /\ Roomy /\ Free(Device) => Listed("DeviceFS", Script[i].name)
      /\ \A i \in 13 .. 15 : i < step /\ Roomy /\ Free(Process) => Listed("ProcessFS", Script[i].name)
  BY DEF BootInv, RuntimeMade
<1>10. PathKept(Device) /\ PathKept(Process)
  BY <1>4, DevicesAre DEF KeepsPaths, IsPath
<1>11. Arrived(Device, "DeviceFS")'
  BY <1>1, <1>4, <1>5, <1>6, <1>9, <1>10, DevicesAre, ArrivedStays
<1>12. step > 12 => Arrived(Process, "ProcessFS")'
  BY <1>1, <1>4, <1>5, <1>6, <1>9, <1>10, DevicesAre, ArrivedStays
<1>13. Len(children'[dev]) <= IF step' <= 8 THEN 0 ELSE IF step' <= 12 THEN step' - 8 ELSE 4
  <2>1. Len(children[dev]) \in Nat /\ Len(children'[dev]) \in Nat
    BY <1>7, DevicesAre
  <2>2. CASE step <= 11
    <3>1. Len(children'[dev]) <= Len(children[dev]) + 1
      BY <1>2, <1>8, <2>2
    <3>2. step \in 8 .. 11
      BY <1>1, <2>2
    <3> HIDE DEF dev
    <3> QED  BY <1>1, <1>9, <2>1, <3>1, <3>2
  <2>3. CASE step > 11
    <3>1. Len(children'[dev]) = Len(children[dev])
      BY <1>1, <1>2, <1>8, <2>3, DevicesAre
    <3>2. step \in 13 .. 15
      BY <1>1, <2>3
    <3> HIDE DEF dev
    <3> QED  BY <1>1, <1>9, <2>1, <3>1, <3>2
  <2> QED  BY <1>1, <2>2, <2>3
<1>14. Len(children'[proc]) <= IF step' <= 13 THEN 0 ELSE step' - 13
  <2>1. Len(children[proc]) \in Nat /\ Len(children'[proc]) \in Nat
    BY <1>7, DevicesAre
  <2>2. CASE step <= 11
    <3>1. Len(children'[proc]) = Len(children[proc])
      BY <1>2, <1>8, <2>2, DevicesAre
    <3>2. step \in 8 .. 11
      BY <1>1, <2>2
    <3> HIDE DEF proc
    <3> QED  BY <1>1, <1>9, <2>1, <3>1, <3>2
  <2>3. CASE step > 11
    <3>1. Len(children'[proc]) <= Len(children[proc]) + 1
      BY <1>1, <1>2, <1>8, <2>3
    <3>2. step \in 13 .. 15
      BY <1>1, <2>3
    <3> HIDE DEF proc
    <3> QED  BY <1>1, <1>9, <2>1, <3>1, <3>2
  <2> QED  BY <1>1, <2>2, <2>3
<1>15. (Roomy' <=> Roomy) /\ (Free(Device)' <=> Free(Device)) /\ (Free(Process)' <=> Free(Process))
  BY <1>1, <1>3 DEF Roomy, Free, Regular, PathOf, NameOf
<1>16. Mounted(fs) => Listed(fs, name)'
  <2> SUFFICES ASSUME Mounted(fs) PROVE Listed(fs, name)'
    OBVIOUS
  <2>1. Extends(fs, name)
    BY <1>3 DEF AddMove
  <2> QED  BY <1>2, <1>4, <2>1, ListedNew
<1>17. ASSUME NEW i \in 8 .. 11, i < step', Roomy, Free(Device)
       PROVE  Listed("DeviceFS", Script[i].name)'
  <2>1. PICK nm : nm = Script[i].name
    OBVIOUS
  <2>2. CASE i < step
    <3>1. Listed("DeviceFS", nm)
      BY <1>9, <1>17, <2>1, <2>2
    <3>2. Listed("DeviceFS", nm)'
      BY <1>4, <3>1, DevicesAre, ListedStays
    <3> QED  BY <2>1, <3>2
  <2>3. CASE i = step
    <3>1. fs = "DeviceFS" /\ name = nm
      BY <1>2, <1>17, <2>1, <2>3
    <3>2. Mounted(fs)
      BY <1>1, <1>9, <1>17, <3>1 DEF Arrived
    <3>3. Listed(fs, name)'
      BY <1>16, <3>2
    <3> QED  BY <2>1, <3>1, <3>3
  <2> QED  BY <1>1, <1>17, <2>2, <2>3
<1>18. ASSUME NEW i \in 13 .. 15, i < step', Roomy, Free(Process)
       PROVE  Listed("ProcessFS", Script[i].name)'
  <2>1. PICK nm : nm = Script[i].name
    OBVIOUS
  <2>2. CASE i < step
    <3>1. Listed("ProcessFS", nm)
      BY <1>9, <1>18, <2>1, <2>2
    <3>2. Listed("ProcessFS", nm)'
      BY <1>4, <3>1, DevicesAre, ListedStays
    <3> QED  BY <2>1, <3>2
  <2>3. CASE i = step
    <3>1. fs = "ProcessFS" /\ name = nm
      BY <1>2, <1>18, <2>1, <2>3
    <3>2. Mounted(fs)
      BY <1>1, <1>9, <1>18, <2>3, <3>1 DEF Arrived
    <3>3. Listed(fs, name)'
      BY <1>16, <3>2
    <3> QED  BY <2>1, <3>1, <3>3
  <2> QED  BY <1>1, <1>18, <2>2, <2>3
<1>19. step' > 12 => step > 12
  BY <1>1
<1> QED  BY <1>11, <1>12, <1>13, <1>14, <1>15, <1>17, <1>18, <1>19 DEF RuntimeMade

LEMMA AddKeeps ==
  ASSUME BootInv, script_add
  PROVE  BootInv'
<1>1. /\ boot = "script" /\ step \in 8 .. 11 \cup 13 .. 15 /\ step' = step + 1 /\ archive' = archive
      /\ AddMove(Script[step].fs, Script[step].name)
      /\ TreeSound' /\ BootShapes' /\ WalkPlace' /\ OneFd'
  BY AddControl
<1>2. PICK fs \in StaticFs, name \in Names : fs = Script[step].fs /\ name = Script[step].name
  BY <1>1, AddLines, DevicesAre
<1>3. Quiet /\ AddMove(fs, name) /\ ramfs_node_count' = ramfs_node_count
  BY <1>1, <1>2 DEF AddMove
<1>4. /\ KindsKept /\ \A d \in RamNode : children'[d] = children[d]
  BY <1>3, AddMoveRam
<1>5. Shapes /\ Shapes' /\ KeepsPaths /\ UNCHANGED mounts
  BY <1>3 DEF BootInv, TreeSound, TreeInv, Quiet
<1>6. MountsSoFar'
  <2>1. g_mount_count' = g_mount_count /\ g_mounts' = g_mounts /\ g_vfs_root' = g_vfs_root
    BY <1>5 DEF mounts
  <2>2. ~(step' <= 7) /\ (step' <= 12 => step <= 12)
    BY <1>1
  <2>3. /\ g_mount_count \in 1 .. 3 /\ (step <= 12 => g_mount_count <= 2)
        /\ g_mounts[1].root = g_vfs_root /\ g_vfs_root \in RamNode
        /\ \A s \in 2 .. g_mount_count : g_mounts[s].root \notin RamNode /\ g_mounts[s].path # RootPath
    BY DEF BootInv, MountsSoFar
  <2> QED  BY <2>1, <2>2, <2>3 DEF MountsSoFar
<1>7. FilesNamed'
  BY <1>1 DEF FilesNamed
<1>8. FilesKept'
  <2>1. content' = content /\ report' = report
    BY DEF script_add
  <2> QED  BY <1>1, <1>5, <2>1, QuietKept DEF BootInv
<1>9. ChildrenCounted'
  BY <1>3, <1>4 DEF BootInv, ChildrenCounted
<1>10. DirsMade'
  <2>1. ramfs_node_count' >= ramfs_node_count
    BY <1>3, <1>5, VfsConstants DEF Shapes
  <2>2. step' \in 7 .. 12 => DirMade(Process)'
    <3> SUFFICES ASSUME step' \in 7 .. 12 PROVE DirMade(Process)'
      OBVIOUS
    <3>1. step \in 7 .. 12
      BY <1>1
    <3>2. DirMade(Process)
      BY <3>1 DEF BootInv, DirsMade
    <3>3. PathKept(Process)
      BY <1>5, DevicesAre DEF KeepsPaths, IsPath
    <3> QED  BY <1>1, <1>4, <1>5, <2>1, <3>2, <3>3, DirStays
  <2>3. ~(step' <= 7)
    BY <1>1
  <2> QED  BY <2>2, <2>3 DEF DirsMade
<1> QED  BY <1>1, <1>6, <1>7, <1>8, <1>9, <1>10, AddRuntime DEF BootInv

LEMMA MkdirMoves ==
  ASSUME TreeSound, NEW p, IsPath(p), TryMkdir(p)
  PROVE  Move /\ UNCHANGED <<g_fds, listed>> /\ \A d, n, name : ~Made(d, n, name, "file")
<1>1. /\ Quiet /\ UNCHANGED <<g_fds, listed>>
      /\ IF CanCreate(p) THEN Creates(p, "dir") ELSE UNCHANGED tree
  BY MkdirIs
<1>2. Shapes
  BY DEF TreeSound, TreeInv
<1>3. CASE CanCreate(p)
  <2>1. PICK e, m, nm : e = vfs_resolve_path(Front(p)) /\ m = NextNode /\ nm = ChildName[Last(p)]
    OBVIOUS
  <2>2. Made(e, m, nm, "dir")
    BY <1>1, <1>2, <1>3, <2>1, MadeIs
  <2>3. Move
    BY <1>1, <2>2 DEF Move
  <2>4. \A d, n, name : ~Made(d, n, name, "file")
    BY <2>2 DEF Made, Node
  <2> QED  BY <1>1, <2>3, <2>4
<1>4. CASE ~CanCreate(p)
  <2>1. UNCHANGED tree
    BY <1>1, <1>4
  <2>2. \A d, n, name : ~Made(d, n, name, "file")
    BY <2>1 DEF Made, tree
  <2> QED  BY <1>1, <2>1, <2>2 DEF Move
<1> QED  BY <1>3, <1>4

LEMMA MoveStatic ==
  ASSUME Move, NEW fs \in StaticFs
  PROVE  children'[<<fs, 0>>] = children[<<fs, 0>>]
<1>1. CASE UNCHANGED tree
  BY <1>1 DEF tree
<1>2. ASSUME NEW d, NEW n, NEW name, NEW as, Made(d, n, name, as)
      PROVE  children'[<<fs, 0>>] = children[<<fs, 0>>]
  BY <1>2, RootNode DEF Made
<1> QED  BY <1>1, <1>2 DEF Move

(* Before anything is mounted, the roots to come have no entries.          *)
LEMMA MoveRuntime ==
  ASSUME Move, RuntimeMade, step \in 1 .. 7, step' \in 1 .. 7
  PROVE  RuntimeMade'
<1>1. children'[<<"DeviceFS", 0>>] = children[<<"DeviceFS", 0>>]
      /\ children'[<<"ProcessFS", 0>>] = children[<<"ProcessFS", 0>>]
  BY DevicesAre, MoveStatic
<1>2. Len(children[<<"DeviceFS", 0>>]) <= 0 /\ Len(children[<<"ProcessFS", 0>>]) <= 0
  <2>1. step <= 8 /\ step <= 13
    OBVIOUS
  <2> QED  BY <2>1 DEF RuntimeMade
<1>3. step' <= 8 /\ step' <= 13 /\ ~(step' > 7) /\ ~(step' > 12)
      /\ (\A i \in 8 .. 11 : ~(i < step')) /\ (\A i \in 13 .. 15 : ~(i < step'))
  OBVIOUS
<1> QED  BY <1>1, <1>2, <1>3 DEF RuntimeMade

LEMMA ScriptMkdirKeeps ==
  ASSUME BootInv, script_mkdir
  PROVE  BootInv'
<1>1. Line("mkdir") /\ step' = step + 1 /\ UNCHANGED <<archive, boot, offset, content, report, init>>
  BY DEF script_mkdir
<1>2. boot = "script" /\ boot' = "script" /\ step \in 1 .. 6
  BY <1>1, LinesAre DEF BootInv, Line
<1>3. PICK q : q = Script[step].path
  OBVIOUS
<1>4. TryMkdir(q) /\ IsPath(q)
  BY <1>2, <1>3, StdDirs DEF script_mkdir, StdDir
<1>5. Move /\ UNCHANGED <<g_fds, listed>> /\ \A d, n, name : ~Made(d, n, name, "file")
  BY <1>4, MkdirMoves DEF BootInv
<1>6. Quiet /\ TreeSound' /\ Shapes /\ Shapes' /\ KeepsPaths /\ UNCHANGED mounts
  BY <1>5 DEF BootInv, TreeSound, TreeInv, Quiet, Move
<1>7. BootShapes' /\ WalkPlace' /\ OneFd'
  BY <1>1, <1>2, <1>5, LineControl DEF BootInv
<1>8. MountsSoFar'
  BY <1>1, <1>2, <1>5, MoveMounts DEF BootInv
<1>9. FilesNamed'
  BY <1>1, <1>2, <1>5, MoveFiles DEF BootInv
<1>10. FilesKept'
  BY <1>1, <1>6, QuietKept DEF BootInv
<1>11. ChildrenCounted' /\ ramfs_node_count' >= ramfs_node_count /\ KindsKept
  BY <1>5, <1>6, MoveCounts, MoveKinds DEF BootInv
<1>12. DirsMade'
  <2>1. DirMade(q)'
    BY <1>1, <1>2, <1>3, <1>4, MkdirMakes DEF BootInv
  <2>2. ASSUME NEW i \in 1 .. 6, i < step' PROVE DirMade(Script[i].path)'
    <3>1. CASE i = step
      BY <1>3, <2>1, <3>1
    <3>2. CASE i # step
      <4>1. i < step
        BY <1>1, <1>2, <2>2, <3>2
      <4>2. PICK p : p = Script[i].path
        OBVIOUS
      <4>3. DirMade(p)
        BY <1>2, <4>1, <4>2 DEF BootInv, DirsMade
      <4>4. p \in Seq(Names)
        BY <4>2, StdDirs DEF StdDir, IsPath
      <4>5. DirMade(p)'
        BY <1>1, <1>6, <1>11, <4>3, <4>4, DirStays DEF KeepsPaths
      <4> QED  BY <4>2, <4>5
    <3> QED  BY <3>1, <3>2
  <2>3. step' \in 7 .. 12 => DirMade(Process)'
    <3> SUFFICES ASSUME step' \in 7 .. 12 PROVE DirMade(Process)'
      OBVIOUS
    <3>1. 6 < step'
      OBVIOUS
    <3> QED  BY <2>2, <3>1, DevicesAre
  <2> QED  BY <2>2, <2>3 DEF DirsMade
<1>13. RuntimeMade'
  BY <1>1, <1>2, <1>5, MoveRuntime DEF BootInv
<1> QED  BY <1>6, <1>7, <1>8, <1>9, <1>10, <1>11, <1>12, <1>13 DEF BootInv

(* Line 7 or 12, and what is mounted where.                                *)
MountLine(q, fs) == \/ step = 7 /\ q = Device /\ fs = "DeviceFS"
                    \/ step = 12 /\ q = Process /\ fs = "ProcessFS"

LEMMA MountControl ==
  ASSUME BootInv, script_mount
  PROVE  /\ \E q, fs : MountLine(q, fs) /\ fs \in StaticFs /\ vfs_mount(q, fs) /\ Grown(q, fs)
         /\ step' = step + 1 /\ UNCHANGED <<archive, content, report>>
         /\ BootShapes' /\ WalkPlace' /\ OneFd'
<1>1. Line("mount") /\ step' = step + 1 /\ UNCHANGED <<archive, boot, offset, content, report, init>>
  BY DEF script_mount
<1>2. boot = "script" /\ boot' = "script" /\ step \in {7, 12}
  BY <1>1, LinesAre DEF BootInv, Line
<1>3. PICK q, fs : q = Script[step].path /\ fs = Script[step].fs
  OBVIOUS
<1>4. MountLine(q, fs) /\ fs \in StaticFs /\ IsPath(q) /\ Normal(q)
  BY <1>2, <1>3, DevicesAre DEF MountLine
<1>5. g_mount_count < MAX_MOUNTS
  <2>1. step <= 12 /\ g_mount_count \in 1 .. 3
    BY <1>2 DEF BootInv, MountsSoFar
  <2>2. g_mount_count <= 2
    BY <2>1 DEF BootInv, MountsSoFar
  <2> QED  BY <2>1, <2>2, BootConstants, VfsConstants
<1>6. vfs_mount(q, fs)
  BY <1>3, <1>5 DEF script_mount
<1>7. Grown(q, fs)
  BY <1>4, <1>6, MountIs DEF BootInv
<1>8. g_fds' = g_fds
  BY <1>7 DEF Grown
<1>9. BootShapes' /\ WalkPlace' /\ OneFd'
  BY <1>1, <1>2, <1>8, LineControl DEF BootInv
<1> QED  BY <1>1, <1>4, <1>6, <1>7, <1>9

LEMMA MountTables ==
  ASSUME BootInv, NEW q, NEW fs \in StaticFs, MountLine(q, fs), Grown(q, fs), step' = step + 1
  PROVE  /\ MountsSoFar' /\ \A s \in 1 .. g_mount_count : s \in 1 .. g_mount_count' /\ g_mounts'[s] = g_mounts[s]
         /\ g_mount_count \in 1 .. 2
<1>1. /\ g_mount_count \in 1 .. 3 /\ (step <= 7 => g_mount_count = 1) /\ (step <= 12 => g_mount_count <= 2)
      /\ g_mounts[1].root = g_vfs_root /\ g_vfs_root \in RamNode
      /\ \A s \in 2 .. g_mount_count : g_mounts[s].root \notin RamNode /\ g_mounts[s].path # RootPath
  BY DEF BootInv, MountsSoFar
<1>2. /\ g_mount_count' \in {g_mount_count, g_mount_count + 1} /\ g_vfs_root' = g_vfs_root
      /\ \A t \in Slot : t # g_mount_count + 1 => g_mounts'[t] = g_mounts[t]
      /\ g_mounts'[g_mount_count + 1].path = q
      /\ g_mounts'[g_mount_count + 1].root = <<fs, 0>>
  BY DEF Grown
<1>3. step \in {7, 12} /\ g_mount_count \in 1 .. 2
  BY <1>1 DEF MountLine
<1>4. \A s \in 1 .. g_mount_count : s \in 1 .. g_mount_count' /\ g_mounts'[s] = g_mounts[s]
  <2> SUFFICES ASSUME NEW s \in 1 .. g_mount_count
               PROVE  s \in 1 .. g_mount_count' /\ g_mounts'[s] = g_mounts[s]
    OBVIOUS
  <2>1. s \in Slot
    BY <1>3, BootConstants, VfsConstants DEF Slot
  <2>2. s # g_mount_count + 1 /\ s \in 1 .. g_mount_count'
    BY <1>2, <1>3
  <2> QED  BY <1>2, <2>1, <2>2
<1>5. g_mount_count' \in 1 .. 3 /\ (step' <= 7 => g_mount_count' = 1)
      /\ (step' <= 12 => g_mount_count' <= 2) /\ ~(step' <= 7)
  BY <1>1, <1>2, <1>3
<1>6. g_mounts'[1].root = g_vfs_root' /\ g_vfs_root' \in RamNode
  BY <1>1, <1>2, <1>3, <1>4
<1>7. ASSUME NEW s \in 2 .. g_mount_count'
      PROVE  g_mounts'[s].root \notin RamNode /\ g_mounts'[s].path # RootPath
  <2>1. CASE s = g_mount_count + 1
    <3>1. <<fs, 0>> \notin RamNode
      BY RootNode
    <3>2. q # RootPath
      <4>1. Normal(q)
        BY DevicesAre DEF MountLine
      <4> QED  BY <4>1 DEF Normal, RootPath
    <3> QED  BY <1>2, <2>1, <3>1, <3>2
  <2>2. CASE s # g_mount_count + 1
    <3>1. s \in 2 .. g_mount_count /\ s \in 1 .. g_mount_count
      BY <1>2, <1>3, <2>2
    <3> QED  BY <1>1, <1>4, <3>1
  <2> QED  BY <2>1, <2>2
<1> QED  BY <1>3, <1>4, <1>5, <1>6, <1>7 DEF MountsSoFar

(* A mount changes no path but those below it.                             *)
LEMMA MountPaths ==
  ASSUME NEW q, NEW fs, Grown(q, fs), NEW p \in Seq(Names), Normal(p), ~IsPrefix(q, p)
  PROVE  PathKept(p)
<1>1. Components(p) = p
  BY NormalComponents
<1> QED  BY <1>1 DEF Grown

LEMMA MountFiles ==
  ASSUME BootInv, NEW q, NEW fs \in StaticFs, MountLine(q, fs), Grown(q, fs), step' = step + 1,
         UNCHANGED <<archive, content, report>>
  PROVE  FilesKept'
<1>1. /\ \A s \in 1 .. g_mount_count : s \in 1 .. g_mount_count' /\ g_mounts'[s] = g_mounts[s]
      /\ g_mount_count \in 1 .. 2
  BY MountTables
<1>2. ASSUME NEW b \in Regular, ~Hidden(b)' PROVE ~Hidden(b) /\ PathKept(PathOf(b))
  <2>1. PathOf(b)' = PathOf(b)
    BY DEF PathOf, NameOf
  <2>2. ~Hidden(b)
    <3> SUFFICES ASSUME NEW s \in 2 .. g_mount_count, IsPrefix(g_mounts[s].path, PathOf(b)) PROVE FALSE
      BY DEF Hidden
    <3>1. s \in 2 .. g_mount_count' /\ g_mounts'[s] = g_mounts[s]
      BY <1>1
    <3> QED  BY <1>2, <2>1, <3>1 DEF Hidden
  <2>3. ASSUME NEW p \in Seq(Names), p = PathOf(b) PROVE PathKept(p)
    <3> SUFFICES ASSUME ~PathKept(p) PROVE FALSE
      OBVIOUS
    <3>1. Normal(p)
      BY <2>3, PathOfIs DEF BootInv
    <3>2. g_mount_count' = g_mount_count + 1 /\ IsPrefix(q, Components(p))
      BY DEF Grown
    <3>3. IsPrefix(q, p)
      BY <3>1, <3>2, NormalComponents
    <3>4. g_mount_count' \in 2 .. g_mount_count' /\ g_mounts'[g_mount_count'].path = q
      BY <1>1, <3>2 DEF Grown
    <3> QED  BY <1>2, <2>1, <2>3, <3>3, <3>4 DEF Hidden
  <2>4. PathKept(PathOf(b))
    BY <2>3, FilePathKept DEF BootInv
  <2> QED  BY <2>2, <2>4
<1> QED  BY <1>2, KeptOn DEF BootInv

LEMMA MountArrives ==
  ASSUME BootInv, NEW q, NEW fs \in StaticFs, MountLine(q, fs), vfs_mount(q, fs), Grown(q, fs),
         archive' = archive
  PROVE  Arrived(q, fs)'
<1> SUFFICES ASSUME Roomy', Free(q)' PROVE (vfs_resolve_path(q) = <<fs, 0>> /\ Mounted(fs))'
  BY DEF Arrived
<1>1. Roomy
  BY DEF Roomy, Grown
<1>2. Free(q)
  BY DEF Free, Regular, PathOf, NameOf
<1>3. DirMade(q)
  <2>1. CASE step = 7
    <3>1. q = Script[5].path /\ 5 \in 1 .. 6 /\ 5 < step /\ step <= 7
      BY <2>1, DevicesAre DEF MountLine
    <3> QED  BY <3>1 DEF BootInv, DirsMade
  <2>2. CASE step = 12
    <3>1. q = Process /\ step \in 7 .. 12
      BY <2>2 DEF MountLine
    <3> QED  BY <3>1 DEF BootInv, DirsMade
  <2> QED  BY <2>1, <2>2 DEF MountLine
<1>4. vfs_resolve_path(q) \in Dirs \cap RamNode
  BY <1>1, <1>2, <1>3 DEF DirMade
<1>5. IsPath(q) /\ Normal(q)
  BY DevicesAre DEF MountLine
<1>6. /\ g_mount_count >= 1 /\ g_mounts[1].root = g_vfs_root /\ g_vfs_root \in RamNode
      /\ \A t \in 2 .. g_mount_count : g_mounts[t].root \notin RamNode
      /\ g_mount_count \in Nat
  BY DEF BootInv, MountsSoFar
<1>7. g_mount_count' = g_mount_count + 1 /\ vfs_resolve_path(q)' = <<fs, 0>>
  BY <1>4, <1>5, <1>6, MountLands DEF BootInv
<1>8. Mounted(fs)'
  <2>1. g_mount_count + 1 \in 1 .. g_mount_count'
    BY <1>6, <1>7
  <2>2. g_mounts'[g_mount_count + 1].root = <<fs, 0>>
    BY DEF Grown
  <2> QED  BY <2>1, <2>2 DEF Mounted
<1> QED  BY <1>7, <1>8

LEMMA MountRuntime ==
  ASSUME BootInv, NEW q, NEW fs \in StaticFs, MountLine(q, fs), vfs_mount(q, fs), Grown(q, fs),
         archive' = archive, step' = step + 1
  PROVE  RuntimeMade'
<1>1. Arrived(q, fs)'
  BY MountArrives
<1>2. children' = children /\ ramfs_node_count' = ramfs_node_count /\ Shapes /\ Shapes'
  BY DEF Grown, BootInv, TreeSound, TreeInv
<1>3. (Roomy' <=> Roomy) /\ (Free(Device)' <=> Free(Device)) /\ (Free(Process)' <=> Free(Process))
  BY <1>2 DEF Roomy, Free, Regular, PathOf, NameOf
<1>4. /\ Len(children[<<"DeviceFS", 0>>]) <= IF step <= 8 THEN 0 ELSE IF step <= 12 THEN step - 8 ELSE 4
      /\ Len(children[<<"ProcessFS", 0>>]) <= IF step <= 13 THEN 0 ELSE step - 13
      /\ \A i \in 8 .. 11 : i < step /\ Roomy /\ Free(Device) => Listed("DeviceFS", Script[i].name)
      /\ step > 7 => Arrived(Device, "DeviceFS")
  BY DEF BootInv, RuntimeMade
<1>5. \A f, name : Listed(f, name)' <=> Listed(f, name)
  BY <1>2 DEF Listed
<1>6. \A i \in 13 .. 15 : ~(i < step')
  BY DEF MountLine
<1>7. CASE step = 7
  <2>1. step' = 8 /\ q = Device /\ fs = "DeviceFS"
    BY <1>7 DEF MountLine
  <2>2. Len(children'[<<"DeviceFS", 0>>]) <= 0 /\ Len(children'[<<"ProcessFS", 0>>]) <= 0
    BY <1>2, <1>4, <1>7
  <2>3. \A i \in 8 .. 11 : ~(i < step')
    BY <2>1
  <2> QED  BY <1>1, <1>6, <2>1, <2>2, <2>3 DEF RuntimeMade
<1>8. CASE step = 12
  <2>1. step' = 13 /\ q = Process /\ fs = "ProcessFS"
    BY <1>8 DEF MountLine
  <2>2. Len(children'[<<"DeviceFS", 0>>]) <= 4 /\ Len(children'[<<"ProcessFS", 0>>]) <= 0
    BY <1>2, <1>4, <1>8
  <2>3. Arrived(Device, "DeviceFS")'
    <3>1. PathKept(Device)
      BY <2>1, DevicesAre, MountPaths DEF IsPath
    <3>2. Mounted("DeviceFS") => Mounted("DeviceFS")'
      <4>1. \A s \in 1 .. g_mount_count : s \in 1 .. g_mount_count' /\ g_mounts'[s] = g_mounts[s]
        BY MountTables
      <4> QED  BY <4>1 DEF Mounted
    <3>3. Arrived(Device, "DeviceFS")
      BY <1>4, <1>8
    <3>4. ramfs_node_count' >= ramfs_node_count
      BY <1>2, VfsConstants DEF Shapes
    <3> QED  BY <1>2, <3>1, <3>2, <3>3, <3>4, DevicesAre, ArrivedStays
  <2>4. ASSUME NEW i \in 8 .. 11, Roomy', Free(Device)' PROVE Listed("DeviceFS", Script[i].name)'
    <3>1. PICK nm : nm = Script[i].name
      OBVIOUS
    <3>2. Listed("DeviceFS", nm)
      BY <1>3, <1>4, <1>8, <2>4, <3>1
    <3>3. Listed("DeviceFS", nm)'
      BY <1>5, <3>2
    <3> QED  BY <3>1, <3>3
  <2> QED  BY <1>1, <1>6, <2>1, <2>2, <2>3, <2>4 DEF RuntimeMade
<1> QED  BY <1>7, <1>8 DEF MountLine

LEMMA ScriptMountKeeps ==
  ASSUME BootInv, script_mount
  PROVE  BootInv'
<1>1. /\ \E q, fs : MountLine(q, fs) /\ fs \in StaticFs /\ vfs_mount(q, fs) /\ Grown(q, fs)
      /\ step' = step + 1 /\ UNCHANGED <<archive, content, report>>
      /\ BootShapes' /\ WalkPlace' /\ OneFd'
  BY MountControl
<1>2. PICK q, fs : MountLine(q, fs) /\ fs \in StaticFs /\ vfs_mount(q, fs) /\ Grown(q, fs)
  BY <1>1
<1>3. TreeSound' /\ children' = children /\ ramfs_node_count' = ramfs_node_count /\ Shapes /\ Shapes'
  BY <1>2 DEF Grown, BootInv, TreeSound, TreeInv
<1>4. MountsSoFar'
  BY <1>1, <1>2, MountTables
<1>5. FilesNamed'
  BY <1>1, <1>2 DEF FilesNamed, MountLine
<1>6. FilesKept'
  BY <1>1, <1>2, MountFiles
<1>7. ChildrenCounted'
  BY <1>3 DEF BootInv, ChildrenCounted
<1>8. KindsKept
  BY <1>2, RootNode DEF Grown, KindsKept, Node
<1>9. DirsMade'
  <2>1. CASE step = 7
    <3>1. DirMade(Process)
      <4>1. 6 < step /\ step <= 7 /\ 6 \in 1 .. 6
        BY <2>1
      <4> QED  BY <4>1, DevicesAre DEF BootInv, DirsMade
    <3>2. PathKept(Process)
      <4>1. q = Device
        BY <1>2, <2>1 DEF MountLine
      <4> QED  BY <1>2, <4>1, DevicesAre, MountPaths DEF IsPath
    <3>3. ramfs_node_count' >= ramfs_node_count
      BY <1>3, VfsConstants DEF Shapes
    <3>4. DirMade(Process)'
      BY <1>1, <1>3, <1>8, <3>1, <3>2, <3>3, DirStays
    <3>5. ~(step' <= 7)
      BY <1>1, <2>1
    <3> QED  BY <3>4, <3>5 DEF DirsMade
  <2>2. CASE step = 12
    BY <1>1, <2>2 DEF DirsMade
  <2> QED  BY <1>2, <2>1, <2>2 DEF MountLine
<1>10. RuntimeMade'
  BY <1>1, <1>2, MountRuntime
<1> QED  BY <1>1, <1>3, <1>4, <1>5, <1>6, <1>7, <1>9, <1>10 DEF BootInv

-----------------------------------------------------------------------------
(* The walk                                                                *)

LEMMA NothingMoves ==
  ASSUME TreeSound, UNCHANGED fsVars
  PROVE  Move /\ UNCHANGED <<g_fds, tree>> /\ \A d, n, name : ~Made(d, n, name, "file")
<1>1. Quiet /\ UNCHANGED <<g_fds, tree>>
  BY NothingIsQuiet
<1>2. \A d, n, name : ~Made(d, n, name, "file")
  BY <1>1 DEF Made, tree
<1> QED  BY <1>1, <1>2 DEF Move

LEMMA SameTreeKeeps ==
  ASSUME BootInv, UNCHANGED <<fsVars, archive, offset, content, report, step>>,
         BootShapes', WalkPlace', boot' = "write" <=> boot = "write"
  PROVE  BootInv'
<1>1. Move /\ UNCHANGED <<g_fds, tree>> /\ \A d, n, name : ~Made(d, n, name, "file")
  BY NothingMoves DEF BootInv
<1>2. TreeSound' /\ Shapes /\ Shapes' /\ KeepsPaths /\ UNCHANGED mounts /\ Grows
  BY <1>1 DEF BootInv, TreeSound, TreeInv, Move, Quiet
<1>3. MountsSoFar'
  BY <1>1, MoveMounts DEF BootInv
<1>4. FilesNamed'
  BY <1>1, MoveFiles DEF BootInv
<1>5. FilesKept'
  BY <1>2, QuietKept DEF BootInv
<1>6. ChildrenCounted' /\ ramfs_node_count' >= ramfs_node_count /\ KindsKept
  BY <1>1, <1>2, MoveCounts, MoveKinds DEF BootInv
<1>7. OneFd'
  <2>1. CASE boot # "write"
    BY <1>1, <2>1 DEF BootInv, OneFd
  <2>2. CASE boot = "write"
    <3>1. offset \in Regular
      BY <2>2 DEF BootInv, WalkPlace
    <3>2. PathOf(offset)' = PathOf(offset)
      BY DEF PathOf, NameOf
    <3>3. PICK p \in Seq(Names) : p = PathOf(offset)
      BY <3>1, PathOfIs DEF BootInv, IsPath
    <3>4. PICK fd \in FDs : /\ g_fds[fd].node = vfs_resolve_path(p) /\ g_fds[fd].node # NULL
                            /\ \A e \in FDs : e # fd => g_fds[e].node = NULL
      BY <2>2, <3>3 DEF BootInv, OneFd
    <3>5. vfs_resolve_path(p)' = vfs_resolve_path(p)
      BY <1>2, <3>4 DEF KeepsPaths, PathKept
    <3>6. vfs_resolve_path(PathOf(offset))' = vfs_resolve_path(p)
      BY <3>2, <3>3, <3>5
    <3> QED  BY <1>1, <2>2, <3>4, <3>6 DEF OneFd
  <2> QED  BY <2>1, <2>2
<1>8. DirsMade'
  <2>1. ASSUME NEW p \in Seq(Names), DirMade(p) PROVE DirMade(p)'
    BY <1>2, <1>6, <2>1, DirStays DEF KeepsPaths
  <2>2. ASSUME step' <= 7, NEW i \in 1 .. 6, i < step' PROVE DirMade(Script[i].path)'
    <3>1. PICK p \in Seq(Names) : p = Script[i].path
      BY StdDirs DEF StdDir, IsPath
    <3>2. DirMade(p)
      BY <2>2, <3>1 DEF BootInv, DirsMade
    <3>3. DirMade(p)'
      BY <2>1, <3>2
    <3> QED  BY <3>1, <3>3
  <2>3. step' \in 7 .. 12 => DirMade(Process)'
    <3>1. step' \in 7 .. 12 => DirMade(Process)
      BY DEF BootInv, DirsMade
    <3>2. Process \in Seq(Names)
      BY DevicesAre DEF IsPath
    <3> QED  BY <2>1, <3>1, <3>2
  <2> QED  BY <2>2, <2>3 DEF DirsMade
<1>9. RuntimeMade'
  <2>1. \A fs : Mounted(fs)' <=> Mounted(fs)
    BY <1>2 DEF mounts, Mounted
  <2>2. PathKept(Device) /\ PathKept(Process)
    BY <1>2, DevicesAre DEF KeepsPaths, IsPath
  <2>3. step' > 7 => Arrived(Device, "DeviceFS")'
    <3>1. step' > 7 => Arrived(Device, "DeviceFS")
      BY DEF BootInv, RuntimeMade
    <3> QED  BY <1>2, <1>6, <2>1, <2>2, <3>1, DevicesAre, ArrivedStays
  <2>4. step' > 12 => Arrived(Process, "ProcessFS")'
    <3>1. step' > 12 => Arrived(Process, "ProcessFS")
      BY DEF BootInv, RuntimeMade
    <3> QED  BY <1>2, <1>6, <2>1, <2>2, <3>1, DevicesAre, ArrivedStays
  <2>5. children' = children /\ ramfs_node_count' = ramfs_node_count
    BY <1>1 DEF tree
  <2>6. (Roomy' <=> Roomy) /\ (Free(Device)' <=> Free(Device)) /\ (Free(Process)' <=> Free(Process))
    BY <2>5 DEF Roomy, Free, Regular, PathOf, NameOf
  <2>7. \A f, name : Listed(f, name)' <=> Listed(f, name)
    BY <2>5 DEF Listed
  <2>8. /\ Len(children'[<<"DeviceFS", 0>>]) <= IF step' <= 8 THEN 0 ELSE IF step' <= 12 THEN step' - 8 ELSE 4
        /\ Len(children'[<<"ProcessFS", 0>>]) <= IF step' <= 13 THEN 0 ELSE step' - 13
    BY <2>5 DEF BootInv, RuntimeMade
  <2>9. ASSUME NEW i \in 8 .. 11, i < step', Roomy', Free(Device)' PROVE Listed("DeviceFS", Script[i].name)'
    <3>1. PICK nm : nm = Script[i].name
      OBVIOUS
    <3>2. Listed("DeviceFS", nm)
      BY <2>6, <2>9, <3>1 DEF BootInv, RuntimeMade
    <3> QED  BY <2>7, <3>1, <3>2
  <2>10. ASSUME NEW i \in 13 .. 15, i < step', Roomy', Free(Process)' PROVE Listed("ProcessFS", Script[i].name)'
    <3>1. PICK nm : nm = Script[i].name
      OBVIOUS
    <3>2. Listed("ProcessFS", nm)
      BY <2>6, <2>10, <3>1 DEF BootInv, RuntimeMade
    <3> QED  BY <2>7, <3>1, <3>2
  <2> QED  BY <2>3, <2>4, <2>8, <2>9, <2>10 DEF RuntimeMade
<1> QED  BY <1>2, <1>3, <1>4, <1>5, <1>6, <1>7, <1>8, <1>9 DEF BootInv

(* During the walk only files and directories of the first ramfs are made. *)
LEMMA WalkMoves ==
  ASSUME BootInv, Walking, Move, step' = step, archive' = archive,
         \A d, n, name : Made(d, n, name, "file") =>
           \E b \in Regular : name = ChildName[Last(PathOf(b))] /\ d = vfs_resolve_path(Front(PathOf(b)))
  PROVE  TreeSound' /\ MountsSoFar' /\ FilesNamed' /\ ChildrenCounted' /\ DirsMade' /\ RuntimeMade'
<1>1. step = 1 /\ step' = 1
  BY DEF BootInv, BootShapes
<1>2. TreeSound' /\ Shapes
  BY DEF BootInv, TreeSound, TreeInv, Move, Quiet
<1>3. MountsSoFar'
  BY MoveMounts DEF BootInv
<1>4. FilesNamed'
  BY MoveFiles DEF BootInv
<1>5. ChildrenCounted'
  BY <1>2, MoveCounts DEF BootInv
<1>6. DirsMade'
  BY <1>1 DEF DirsMade
<1>7. RuntimeMade'
  BY <1>1, MoveRuntime DEF BootInv
<1> QED  BY <1>2, <1>3, <1>4, <1>5, <1>6, <1>7

LEMMA EntryIs ==
  ASSUME BootInv, AtEntry
  PROVE  offset \in DOMAIN archive /\ BlockTyped(offset) /\ HdrIs /\ hdr.name # <<>>
<1>1. offset \in Nat \ {0} /\ archive \in Seq(BlockHeader) /\ BootShapes
  BY DEF BootInv, BootShapes
<1>2. offset \in DOMAIN archive /\ hdr.name # <<>>
  BY <1>1 DEF AtEntry
<1> QED  BY <1>1, <1>2, BlockIs DEF hdr, HdrIs

(* The next entry is at a header again.                                    *)
LEMMA EntryPassed ==
  ASSUME BootInv, Walking, offset \in DOMAIN archive, hdr.name # <<>>, NextEntry,
         archive' = archive, step' = step,
         content' \in [Node -> Seq(Nat \X Nat)],
         report' \in [DOMAIN archive -> {"none", "ok", "error"}],
         \A c \in DOMAIN archive : c # offset => report'[c] = report[c],
         report'[offset] = "none" => offset \notin Regular
  PROVE  BootShapes' /\ WalkPlace'
<1>1. BootShapes /\ WalkPlace
  BY DEF BootInv
<1>2. BlockTyped(offset) /\ ~archive[offset].body /\ NameOf(offset) # <<>>
  BY <1>1, BlockIs DEF WalkPlace, hdr, NameOf
<1>3. Behind(offset)
  BY <1>1, <1>2, BehindHeader
<1>4. PICK o, next : o = offset /\ next = offset'
  OBVIOUS
<1>5. next = o + 1 + Padded(archive[o].size)
  BY <1>4 DEF NextEntry, hdr, NameOf
<1>6. /\ next \in Nat \ {0} /\ next > o
      /\ \A c \in DOMAIN archive : o < c /\ c < next => archive[c].body
      /\ next \in DOMAIN archive => ~archive[next].body
  BY <1>3, <1>4, <1>5 DEF Behind
<1>7. \A c \in DOMAIN archive : c \in Nat
  BY <1>1, BlockIs DEF BlockTyped
<1>8. o \in Nat /\ o \in DOMAIN archive
  BY <1>4, <1>7
<1>9. boot' = "next"
  BY DEF NextEntry
<1>10. BootShapes'
  <2>1. step' = 1 /\ step' \in 1 .. Len(Script) + 1
    BY <1>1 DEF BootShapes
  <2> QED  BY <1>1, <1>4, <1>6, <1>9, <2>1 DEF BootShapes, Walking
<1>11. ASSUME NEW c \in DOMAIN archive, c < next PROVE archive[c].body \/ NameOf(c) # <<>>
  <2>1. CASE c < o
    BY <1>1, <1>4, <2>1 DEF WalkPlace
  <2>2. CASE c = o
    BY <1>2, <1>4, <2>2
  <2>3. CASE o < c
    BY <1>6, <1>11, <2>3
  <2> QED  BY <1>7, <1>8, <2>1, <2>2, <2>3
<1>12. Regular' = Regular
  BY DEF Regular, NameOf
<1>13. ASSUME NEW c \in DOMAIN archive, report'[c] # "none" PROVE c < next
  <2>1. CASE c = o
    BY <1>6, <2>1
  <2>2. CASE c # o
    <3>1. c < o
      BY <1>1, <1>4, <1>13, <2>2 DEF WalkPlace
    <3> QED  BY <1>6, <1>7, <1>8, <3>1
  <2> QED  BY <2>1, <2>2
<1>14. ASSUME NEW c \in Regular, c < next PROVE report'[c] # "none"
  <2>1. c \in DOMAIN archive /\ ~archive[c].body
    BY <1>1, RegularIs
  <2>2. CASE c < o
    <3>1. report[c] # "none"
      BY <1>1, <1>4, <2>2 DEF WalkPlace
    <3>2. c # o
      BY <1>7, <1>8, <2>1, <2>2
    <3> QED  BY <1>4, <2>1, <3>1, <3>2
  <2>3. CASE c = o
    BY <1>4, <2>3
  <2>4. CASE o < c
    BY <1>6, <1>14, <2>1, <2>4
  <2> QED  BY <1>7, <1>8, <2>1, <2>2, <2>3, <2>4
<1>15. WalkPlace'
  BY <1>4, <1>6, <1>9, <1>11, <1>12, <1>13, <1>14 DEF WalkPlace, Walking, NameOf
<1> QED  BY <1>10, <1>15

LEMMA EndKeeps ==
  ASSUME BootInv, tar_end
  PROVE  BootInv'
<1>1. /\ boot = "next" /\ ~AtEntry /\ boot' = "script"
      /\ UNCHANGED <<fsVars, archive, offset, content, report, step>>
  BY DEF tar_end
<1>2. BootShapes /\ WalkPlace /\ offset \in Nat \ {0} /\ archive \in Seq(BlockHeader)
  BY DEF BootInv, BootShapes
<1>3. BootShapes'
  BY <1>1, <1>2 DEF BootShapes, Walking
<1>4. Regular' = Regular
  BY <1>1 DEF Regular, NameOf
<1>5. ASSUME NEW c \in Regular PROVE report[c] # "none"
  <2>1. BlockTyped(c) /\ \A e \in 1 .. c : archive[e].body \/ NameOf(e) # <<>>
    BY <1>2, RegularIs DEF Regular, NameOf
  <2>2. c \in 1 .. Len(archive)
    BY <2>1 DEF BlockTyped
  <2>3. CASE offset > Len(archive)
    <3>1. c < offset
      BY <1>2, <2>2, <2>3
    <3> QED  BY <1>2, <3>1 DEF WalkPlace
  <2>4. CASE offset <= Len(archive)
    <3>1. offset \in DOMAIN archive /\ NameOf(offset) = <<>>
      BY <1>1, <1>2, <2>4 DEF AtEntry, hdr, NameOf
    <3>2. ~archive[offset].body
      BY <1>1, <1>2, <3>1 DEF WalkPlace, Walking
    <3>3. offset \notin 1 .. c
      BY <2>1, <3>1, <3>2
    <3>4. c < offset
      BY <1>2, <2>2, <3>3
    <3> QED  BY <1>2, <3>4 DEF WalkPlace
  <2> QED  BY <1>2, <2>2, <2>3, <2>4
<1>6. WalkPlace'
  BY <1>1, <1>2, <1>4, <1>5 DEF WalkPlace, Walking
<1> QED  BY <1>1, <1>3, <1>6, SameTreeKeeps

LEMMA SkipKeeps ==
  ASSUME BootInv, tar_skip
  PROVE  BootInv'
<1>1. /\ boot = "next" /\ AtEntry /\ NextEntry
      /\ UNCHANGED <<fsVars, archive, content, report, step>>
      /\ hdr.type = "other" \/ Skipped(hdr.name)
  BY DEF tar_skip
<1>2. offset \in DOMAIN archive /\ HdrIs /\ hdr.name # <<>>
  BY <1>1, EntryIs
<1>3. offset \notin Regular
  BY <1>1, <1>2 DEF Regular, NameOf, HdrIs
<1>4. Walking /\ BootShapes
  BY <1>1 DEF Walking, BootInv
<1>5. BootShapes' /\ WalkPlace'
  BY <1>1, <1>2, <1>3, <1>4, EntryPassed DEF BootShapes
<1>6. Move /\ UNCHANGED g_fds /\ \A d, n, name : ~Made(d, n, name, "file")
  BY <1>1, NothingMoves DEF BootInv
<1>7. TreeSound' /\ MountsSoFar' /\ FilesNamed' /\ ChildrenCounted' /\ DirsMade' /\ RuntimeMade'
  BY <1>1, <1>4, <1>6, WalkMoves
<1>8. OneFd'
  BY <1>1, <1>6 DEF BootInv, OneFd, NextEntry
<1>9. FilesKept'
  BY <1>1, <1>6, QuietKept DEF BootInv, Move, Quiet
<1> QED  BY <1>5, <1>7, <1>8, <1>9 DEF BootInv

LEMMA DirectoryKeeps ==
  ASSUME BootInv, tar_directory
  PROVE  BootInv'
<1>1. /\ boot = "next" /\ AtEntry /\ NextEntry /\ hdr.type = "dir"
      /\ UNCHANGED <<archive, content, report, step>>
  BY DEF tar_directory
<1>2. offset \in DOMAIN archive /\ HdrIs /\ hdr.name # <<>> /\ BlockTyped(offset)
  BY <1>1, EntryIs
<1>3. offset \notin Regular
  BY <1>1, <1>2 DEF Regular, NameOf, HdrIs
<1>4. Walking /\ BootShapes
  BY <1>1 DEF Walking, BootInv
<1>5. BootShapes' /\ WalkPlace'
  BY <1>1, <1>2, <1>3, <1>4, EntryPassed DEF BootShapes
<1>6. Move /\ UNCHANGED <<g_fds, listed>> /\ \A d, n, name : ~Made(d, n, name, "file")
  <2>1. PICK p : p = DirPath(hdr.name)
    OBVIOUS
  <2>2. IsPath(p)
    BY <1>2, <2>1, DirPathIs DEF BlockTyped, HdrIs
  <2>3. TryMkdir(p)
    BY <2>1 DEF tar_directory
  <2> QED  BY <2>2, <2>3, MkdirMoves DEF BootInv
<1>7. TreeSound' /\ MountsSoFar' /\ FilesNamed' /\ ChildrenCounted' /\ DirsMade' /\ RuntimeMade'
  BY <1>1, <1>4, <1>6, WalkMoves
<1>8. OneFd'
  BY <1>1, <1>6 DEF BootInv, OneFd, NextEntry
<1>9. FilesKept'
  BY <1>1, <1>6, QuietKept DEF BootInv, Move, Quiet
<1> QED  BY <1>5, <1>7, <1>8, <1>9 DEF BootInv

LEMMA FileKeeps ==
  ASSUME BootInv, tar_file
  PROVE  BootInv'
<1>1. /\ boot = "next" /\ AtEntry /\ boot' = "open" /\ hdr.type = "file" /\ ~Skipped(hdr.name)
      /\ UNCHANGED <<archive, offset, content, report, step>>
  BY DEF tar_file
<1>2. offset \in DOMAIN archive /\ HdrIs /\ hdr.name # <<>> /\ BlockTyped(offset)
  BY <1>1, EntryIs
<1>3. Walking /\ BootShapes /\ WalkPlace
  BY <1>1 DEF Walking, BootInv
<1>4. offset \in Regular
  <2>1. ~archive[offset].body
    BY <1>2, <1>3 DEF WalkPlace
  <2>2. ASSUME NEW c \in 1 .. offset PROVE archive[c].body \/ NameOf(c) # <<>>
    <3>1. offset \in 1 .. Len(archive) /\ archive \in Seq(BlockHeader)
      BY <1>2, <1>3 DEF BlockTyped, BootShapes
    <3>2. c \in DOMAIN archive
      BY <3>1
    <3>3. CASE c < offset
      BY <1>3, <3>2, <3>3 DEF WalkPlace
    <3>4. CASE c = offset
      BY <1>2, <3>4 DEF HdrIs
    <3> QED  BY <3>1, <3>3, <3>4
  <2> QED  BY <1>1, <1>2, <2>1, <2>2 DEF Regular, NameOf, HdrIs
<1>5. BootShapes'
  BY <1>1, <1>3 DEF BootShapes, Walking
<1>6. Regular' = Regular
  BY <1>1 DEF Regular, NameOf
<1>7. WalkPlace'
  BY <1>1, <1>3, <1>4, <1>6 DEF WalkPlace, Walking, NameOf
<1>8. Move /\ UNCHANGED g_fds /\ \A d, n, name : ~Made(d, n, name, "file")
  <2>1. PICK p : p = AbsPath(hdr.name)
    OBVIOUS
  <2>2. IsPath(p)
    BY <1>2, <2>1, AbsPathIs DEF BlockTyped, HdrIs
  <2>3. CASE Len(p) > 1
    <3>1. PICK q : q = Front(p)
      OBVIOUS
    <3>2. q \in Seq(Names) /\ Len(q) = Len(p) - 1 /\ Len(p) \in Nat
      BY <2>2, <3>1, FrontIs
    <3>3. IsPath(q)
      BY <2>3, <3>2 DEF IsPath
    <3>4. TryMkdir(q)
      BY <2>1, <2>3, <3>1 DEF tar_file
    <3> QED  BY <3>3, <3>4, MkdirMoves DEF BootInv
  <2>4. CASE ~(Len(p) > 1)
    <3>1. UNCHANGED fsVars
      BY <2>1, <2>4 DEF tar_file
    <3> QED  BY <3>1, NothingMoves DEF BootInv
  <2> QED  BY <2>3, <2>4
<1>9. TreeSound' /\ MountsSoFar' /\ FilesNamed' /\ ChildrenCounted' /\ DirsMade' /\ RuntimeMade'
  BY <1>1, <1>3, <1>8, WalkMoves
<1>10. OneFd'
  BY <1>1, <1>8 DEF BootInv, OneFd
<1>11. FilesKept'
  BY <1>1, <1>8, QuietKept DEF BootInv, Move, Quiet
<1> QED  BY <1>5, <1>7, <1>9, <1>10, <1>11 DEF BootInv

(* A file that is opened is created where it was missing.                  *)
LEMMA OpenMoves ==
  ASSUME TreeSound, NEW p, IsPath(p),
         IF vfs_resolve_path(p) # NULL \/ CanCreate(p) THEN vfs_open(p, TRUE) ELSE UNCHANGED fsVars
  PROVE  /\ Move
         /\ \A d, n, name : Made(d, n, name, "file") =>
              d = vfs_resolve_path(Front(p)) /\ name = ChildName[Last(p)]
         /\ \/ UNCHANGED g_fds
            \/ /\ vfs_resolve_path(p)' # NULL /\ FreeFds # {}
               /\ g_fds' = [g_fds EXCEPT ![Min(FreeFds)] = [node |-> vfs_resolve_path(p)', offset |-> 0]]
<1>1. Shapes
  BY DEF TreeSound, TreeInv
<1>2. CASE vfs_resolve_path(p) # NULL \/ CanCreate(p)
  <2>1. vfs_open(p, TRUE)
    BY <1>2, Zenon
  <2>2. /\ Quiet
        /\ IF vfs_resolve_path(p) = NULL THEN Creates(p, "file") ELSE UNCHANGED tree
        /\ \/ UNCHANGED <<g_fds, listed>>
           \/ /\ vfs_resolve_path(p)' # NULL /\ FreeFds # {}
              /\ g_fds' = [g_fds EXCEPT ![Min(FreeFds)] = [node |-> vfs_resolve_path(p)', offset |-> 0]]
    BY <2>1, OpenIs
  <2>3. CASE vfs_resolve_path(p) = NULL
    <3>1. PICK e, m, nm : e = vfs_resolve_path(Front(p)) /\ m = NextNode /\ nm = ChildName[Last(p)]
      OBVIOUS
    <3>2. Made(e, m, nm, "file")
      BY <1>1, <2>2, <2>3, <3>1, MadeIs
    <3>3. Move
      BY <2>2, <3>2 DEF Move
    <3>4. ASSUME NEW d, NEW n, NEW name, Made(d, n, name, "file") PROVE d = e /\ name = nm
      <4>1. d \in Node /\ e \in Node /\ Len(children[e]) \in Nat /\ Len(children[d]) \in Nat
        BY <1>1, <3>2, <3>4 DEF Made, Node, Shapes
      <4>2. d = e
        BY <3>2, <3>4, <4>1 DEF Made
      <4>3. name = nm
        BY <3>2, <3>4, <4>2 DEF Made
      <4> QED  BY <4>2, <4>3
    <3> QED  BY <2>2, <3>1, <3>3, <3>4
  <2>4. CASE vfs_resolve_path(p) # NULL
    <3>1. UNCHANGED tree
      BY <2>2, <2>4
    <3>2. \A d, n, name : ~Made(d, n, name, "file")
      BY <3>1 DEF Made, tree
    <3> QED  BY <2>2, <3>1, <3>2 DEF Move
  <2> QED  BY <2>3, <2>4
<1>3. CASE ~(vfs_resolve_path(p) # NULL \/ CanCreate(p))
  BY <1>3, NothingMoves
<1> QED  BY <1>2, <1>3

LEMMA ReportIs ==
  ASSUME BootInv, boot \in {"open", "write"}, NEW r \in {"ok", "error"}, Report(r)
  PROVE  /\ offset \in Regular /\ offset \in DOMAIN archive /\ report[offset] = "none"
         /\ report' \in [DOMAIN archive -> {"none", "ok", "error"}]
         /\ report'[offset] = r /\ \A c \in DOMAIN archive : c # offset => report'[c] = report[c]
         /\ hdr.name # <<>> /\ HdrIs /\ hdr.size \in Nat /\ offset \in Nat
<1>1. WalkPlace /\ BootShapes
  BY DEF BootInv
<1>2. offset \in Regular
  BY <1>1 DEF WalkPlace
<1>3. offset \in DOMAIN archive /\ BlockTyped(offset) /\ NameOf(offset) # <<>>
  BY <1>1, <1>2, RegularIs
<1>4. offset \in Nat /\ archive[offset].size \in Nat
  BY <1>3 DEF BlockTyped
<1>5. report[offset] = "none"
  BY <1>1, <1>3, <1>4 DEF WalkPlace
<1>6. report \in [DOMAIN archive -> {"none", "ok", "error"}]
  BY <1>1 DEF BootShapes
<1>7. report' = [report EXCEPT ![offset] = r]
  BY DEF Report
<1> QED  BY <1>2, <1>3, <1>4, <1>5, <1>6, <1>7 DEF hdr, NameOf, HdrIs

LEMMA OpenKeepsBoot ==
  ASSUME BootInv, tar_open
  PROVE  BootInv'
<1>1. boot = "open" /\ UNCHANGED <<archive, content, step>> /\ Walking
      /\ offset \in Regular /\ BootShapes /\ WalkPlace
  BY DEF tar_open, Walking, BootInv, WalkPlace
<1>2. PICK p : p = PathOf(offset)
  OBVIOUS
<1>3. IsPath(p) /\ p \in Seq(Names)
  BY <1>1, <1>2, PathOfIs DEF IsPath
<1>4. IF vfs_resolve_path(p) # NULL \/ CanCreate(p) THEN vfs_open(p, TRUE) ELSE UNCHANGED fsVars
  <2>1. p = AbsPath(hdr.name)
    BY <1>2 DEF PathOf, hdr, NameOf
  <2>2. \E path \in {AbsPath(hdr.name)} :
          IF vfs_resolve_path(path) # NULL \/ CanCreate(path)
            THEN vfs_open(path, TRUE) ELSE UNCHANGED fsVars
    BY DEF tar_open
  <2>3. PICK path : /\ path = p
                    /\ IF vfs_resolve_path(path) # NULL \/ CanCreate(path)
                         THEN vfs_open(path, TRUE) ELSE UNCHANGED fsVars
    BY <2>1, <2>2
  <2> QED  BY <2>3, Zenon
<1>5. /\ Move
      /\ \A d, n, name : Made(d, n, name, "file") =>
           d = vfs_resolve_path(Front(p)) /\ name = ChildName[Last(p)]
      /\ \/ UNCHANGED g_fds
         \/ /\ vfs_resolve_path(p)' # NULL /\ FreeFds # {}
            /\ g_fds' = [g_fds EXCEPT ![Min(FreeFds)] = [node |-> vfs_resolve_path(p)', offset |-> 0]]
  BY <1>3, <1>4, OpenMoves DEF BootInv
<1>6. TreeSound' /\ MountsSoFar' /\ FilesNamed' /\ ChildrenCounted' /\ DirsMade' /\ RuntimeMade'
  BY <1>1, <1>2, <1>5, WalkMoves
<1>7. KeepsPaths /\ UNCHANGED mounts
  BY <1>5 DEF Move, Quiet
<1>8. \A fd \in FDs : g_fds[fd].node = NULL
  BY <1>1 DEF BootInv, OneFd
<1>9. CASE g_fds' # g_fds
  <2>1. boot' = "write" /\ UNCHANGED <<offset, report>>
    BY <1>9 DEF tar_open
  <2>2. BootShapes'
    BY <1>1, <2>1 DEF BootShapes, Walking
  <2>3. Regular' = Regular
    BY <1>1 DEF Regular, NameOf
  <2>4. WalkPlace'
    BY <1>1, <2>1, <2>3 DEF WalkPlace, Walking, NameOf
  <2>5. FilesKept'
    BY <1>1, <1>7, <2>1, QuietKept DEF BootInv
  <2>6. OneFd'
    <3>1. PICK fd \in FDs : fd = Min(FreeFds)
      BY <1>5, <1>9, FreeFd
    <3>2. PICK n : n = vfs_resolve_path(p)'
      OBVIOUS
    <3>3. g_fds' = [g_fds EXCEPT ![fd] = [node |-> n, offset |-> 0]] /\ n # NULL
      BY <1>5, <1>9, <3>1, <3>2
    <3>4. g_fds \in [FDs -> File]
      BY DEF BootInv, TreeSound, FileInv, Files
    <3>5. g_fds'[fd].node = n /\ \A e \in FDs : e # fd => g_fds'[e].node = NULL
      BY <1>8, <3>3, <3>4
    <3>6. vfs_resolve_path(PathOf(offset))' = n
      <4>1. PathOf(offset)' = p
        BY <1>1, <1>2, <2>1 DEF PathOf, NameOf
      <4> QED  BY <3>2, <4>1
    <3> QED  BY <2>1, <3>3, <3>5, <3>6 DEF OneFd
  <2> QED  BY <1>6, <2>2, <2>4, <2>5, <2>6 DEF BootInv
<1>10. CASE g_fds' = g_fds
  <2>1. Report("error") /\ NextEntry
    BY <1>10 DEF tar_open, OpenFailed
  <2>2. /\ offset \in DOMAIN archive /\ report[offset] = "none"
        /\ report' \in [DOMAIN archive -> {"none", "ok", "error"}]
        /\ report'[offset] = "error" /\ \A c \in DOMAIN archive : c # offset => report'[c] = report[c]
        /\ hdr.name # <<>>
    BY <1>1, <2>1, ReportIs
  <2>3. BootShapes' /\ WalkPlace'
    BY <1>1, <2>1, <2>2, EntryPassed DEF BootShapes
  <2>4. FilesKept'
    <3>1. \A b \in Regular : report'[b] = "ok" <=> report[b] = "ok"
      BY <1>1, <2>2, RegularIs
    <3> QED  BY <1>1, <1>7, <3>1, QuietKept DEF BootInv
  <2>5. OneFd'
    BY <1>8, <1>10, <2>1 DEF OneFd, NextEntry
  <2> QED  BY <1>6, <2>3, <2>4, <2>5 DEF BootInv
<1> QED  BY <1>9, <1>10

LEMMA WriteKeeps ==
  ASSUME BootInv, tar_write
  PROVE  BootInv'
<1>1. boot = "write" /\ UNCHANGED <<archive, step>> /\ NextEntry /\ Walking
      /\ offset \in Regular /\ BootShapes /\ WalkPlace
  BY DEF tar_write, Walking, BootInv, WalkPlace
<1>2. PICK fd \in FDs : /\ g_fds[fd].node = vfs_resolve_path(PathOf(offset)) /\ g_fds[fd].node # NULL
                        /\ \A e \in FDs : e # fd => g_fds[e].node = NULL
  BY <1>1 DEF BootInv, OneFd
<1>3. TheFd = fd
  BY <1>2 DEF TheFd
<1>4. vfs_close(fd)
  BY <1>3 DEF tar_write
<1>5. Quiet /\ UNCHANGED tree /\ g_fds' = [g_fds EXCEPT ![fd] = ClosedFd]
  BY <1>4, CloseIs DEF BootInv
<1>6. Move /\ \A d, n, name : ~Made(d, n, name, "file")
  BY <1>5 DEF Move, Made, tree
<1>7. TreeSound' /\ MountsSoFar' /\ FilesNamed' /\ ChildrenCounted' /\ DirsMade' /\ RuntimeMade'
  BY <1>1, <1>6, WalkMoves
<1>8. KeepsPaths /\ UNCHANGED mounts
  BY <1>5 DEF Quiet
<1>9. OneFd'
  <2>1. g_fds \in [FDs -> File]
    BY DEF BootInv, TreeSound, FileInv, Files
  <2>2. \A e \in FDs : g_fds'[e].node = NULL
    BY <1>2, <1>5, <2>1 DEF ClosedFd
  <2> QED  BY <1>1, <2>2 DEF OneFd, NextEntry
<1>10. PICK node : node = g_fds[fd].node
  OBVIOUS
<1>11. \/ /\ content' = [content EXCEPT ![node] = Overwrite(@, Bytes(offset, hdr.size))]
          /\ Report("ok")
       \/ Report("error") /\ UNCHANGED content
  BY <1>3, <1>10 DEF tar_write
<1>12. content \in [Node -> Seq(Nat \X Nat)]
  BY <1>1 DEF BootShapes
<1>13. CASE content' = [content EXCEPT ![node] = Overwrite(@, Bytes(offset, hdr.size))] /\ Report("ok")
  <2>1. /\ offset \in DOMAIN archive /\ report' \in [DOMAIN archive -> {"none", "ok", "error"}]
        /\ report'[offset] = "ok" /\ \A c \in DOMAIN archive : c # offset => report'[c] = report[c]
        /\ hdr.name # <<>> /\ hdr.size \in Nat /\ offset \in Nat
    BY <1>1, <1>13, ReportIs
  <2>2. node \in RamNode /\ node \in Node
    <3>1. node \in Used \cup {NULL}
      BY <1>10 DEF BootInv, TreeSound, FileInv, Files
    <3>2. Used \subseteq RamNode
      <4>1. step <= 7
        BY <1>1 DEF BootShapes
      <4> QED  BY <4>1 DEF BootInv, MountsSoFar
    <3> QED  BY <1>2, <1>10, <3>1, <3>2 DEF Used
  <2>3. content' \in [Node -> Seq(Nat \X Nat)]
    <3>1. PICK S, new, old : S = Nat \X Nat /\ new = Bytes(offset, hdr.size) /\ old = content[node]
      OBVIOUS
    <3>2. new \in Seq(S) /\ old \in Seq(S)
      BY <1>12, <2>1, <2>2, <3>1, BytesAre
    <3>3. BeginsWith(S, Overwrite(old, new), new)
      BY <3>2, OverwriteIs, Zenon
    <3>4. Overwrite(old, new) \in Seq(S)
      BY <3>3 DEF BeginsWith
    <3>5. content' = [content EXCEPT ![node] = Overwrite(old, new)]
      BY <1>13, <3>1
    <3> QED  BY <1>12, <3>1, <3>4, <3>5
  <2>4. BootShapes' /\ WalkPlace'
    BY <1>1, <2>1, <2>3, EntryPassed
  <2>5. FilesKept'
    <3>1. \A b \in Regular : ~Hidden(b)
      <4>1. g_mount_count = 1
        BY <1>1 DEF BootInv, BootShapes, MountsSoFar
      <4> QED  BY <4>1 DEF Hidden
    <3>2. TreeInv /\ unmounts = 0 /\ node = vfs_resolve_path(PathOf(offset))
      BY <1>2, <1>10 DEF BootInv, TreeSound
    <3>3. report' = [report EXCEPT ![offset] = "ok"]
      BY <1>13 DEF Report
    <3> QED  BY <1>1, <1>8, <1>13, <2>2, <3>1, <3>2, <3>3, KeptWritten DEF BootInv
  <2> QED  BY <1>7, <1>9, <2>4, <2>5 DEF BootInv
<1>14. CASE Report("error") /\ UNCHANGED content
  <2>1. /\ offset \in DOMAIN archive /\ report[offset] = "none"
        /\ report' \in [DOMAIN archive -> {"none", "ok", "error"}]
        /\ report'[offset] = "error" /\ \A c \in DOMAIN archive : c # offset => report'[c] = report[c]
        /\ hdr.name # <<>>
    BY <1>1, <1>14, ReportIs
  <2>2. BootShapes' /\ WalkPlace'
    BY <1>1, <1>12, <1>14, <2>1, EntryPassed
  <2>3. FilesKept'
    <3>1. \A b \in Regular : report'[b] = "ok" <=> report[b] = "ok"
      BY <1>1, <2>1, RegularIs
    <3> QED  BY <1>1, <1>8, <1>14, <3>1, QuietKept DEF BootInv
  <2> QED  BY <1>7, <1>9, <2>2, <2>3 DEF BootInv
<1> QED  BY <1>11, <1>13, <1>14

-----------------------------------------------------------------------------
(* The theorems                                                            *)

LEMMA BootStarts ==
  ASSUME BootInit
  PROVE  BootInv
<1>1. /\ Init /\ archive \in Archives
      /\ boot = "next" /\ offset = 1 /\ step = 1
      /\ content = [n \in Node |-> <<>>]
      /\ report = [b \in DOMAIN archive |-> "none"]
  BY DEF BootInit
<1>2. PICK root : root = <<"ramfs", 1>>
  OBVIOUS
<1>3. /\ ramfs_node_count = 1
      /\ kind = [n \in Node |-> IF n = root THEN "dir" ELSE "unused"]
      /\ children = [n \in Node |-> <<>>]
      /\ g_mounts = [s \in Slot |-> IF s = 1 THEN [path |-> RootPath, root |-> root]
                                    ELSE [path |-> <<>>, root |-> NULL]]
      /\ g_mount_count = 1 /\ g_vfs_root = root
      /\ g_fds = [fd \in FDs |-> ClosedFd] /\ unmounts = 0
  BY <1>1, <1>2 DEF Init
<1>4. TreeSound
  BY <1>1, <1>3, InitInv DEF Inv, TreeSound, FileInv
<1>5. root \in RamNode /\ root \in Node /\ 1 \in Slot
  BY <1>2, VfsConstants DEF RamNode, Node, Slot
<1>6. archive \in Seq(BlockHeader)
  BY <1>1, ArchivesOfTar DEF BlockHeader
<1>7. BootShapes
  <2>1. step \in 1 .. Len(Script) + 1
    BY <1>1, ScriptIs
  <2>2. content \in [Node -> Seq(Nat \X Nat)]
    BY <1>1
  <2> QED  BY <1>1, <1>6, <2>1, <2>2 DEF BootShapes
<1>8. WalkPlace
  <2>1. \A c \in DOMAIN archive : ~(c < offset)
    BY <1>1, <1>6
  <2>2. offset \in DOMAIN archive => ~archive[offset].body
    <3>1. offset \in DOMAIN archive => archive # <<>>
      BY <1>6
    <3> QED  BY <1>1, <3>1, ArchivesOfTar
  <2>3. Regular \subseteq DOMAIN archive
    BY DEF Regular, NameOf
  <2> QED  BY <1>1, <2>1, <2>2, <2>3 DEF WalkPlace, Walking
<1>9. OneFd
  BY <1>1, <1>3 DEF OneFd, ClosedFd
<1>10. MountsSoFar
  BY <1>1, <1>3, <1>5 DEF MountsSoFar, Used
<1>11. FilesNamed
  BY <1>3 DEF FilesNamed, Node
<1>12. FilesKept
  BY <1>1 DEF FilesKept, Regular, NameOf
<1>13. ChildrenCounted
  BY <1>3 DEF ChildrenCounted, Node
<1>14. DirsMade
  BY <1>1 DEF DirsMade
<1>15. RuntimeMade
  <2>1. Len(children[<<"DeviceFS", 0>>]) <= 0 /\ Len(children[<<"ProcessFS", 0>>]) <= 0
    BY <1>3, DevicesAre, RootNode
  <2> QED  BY <1>1, <2>1 DEF RuntimeMade
<1> QED  BY <1>4, <1>7, <1>8, <1>9, <1>10, <1>11, <1>12, <1>13, <1>14, <1>15 DEF BootInv

LEMMA BootStep ==
  ASSUME BootInv, [BootNext]_<<fsVars, bootVars>>
  PROVE  BootInv'
<1>1. CASE script_end
  <2>1. boot = "script" /\ boot' = "init" /\ step > Len(Script)
        /\ UNCHANGED <<fsVars, archive, offset, content, report, step>>
    BY <1>1 DEF script_end
  <2>2. Regular' = Regular
    BY <2>1 DEF Regular, NameOf
  <2>3. BootShapes' /\ WalkPlace'
    BY <2>1, <2>2, ScriptIs DEF BootInv, BootShapes, WalkPlace, Walking
  <2> QED  BY <2>1, <2>3, SameTreeKeeps
<1>2. CASE start_init
  <2>1. boot = "init" /\ boot' = "done"
        /\ UNCHANGED <<fsVars, archive, offset, content, report, step>>
    BY <1>2 DEF start_init
  <2>2. Regular' = Regular
    BY <2>1 DEF Regular, NameOf
  <2>3. BootShapes' /\ WalkPlace'
    BY <2>1, <2>2 DEF BootInv, BootShapes, WalkPlace, Walking
  <2> QED  BY <2>1, <2>3, SameTreeKeeps
<1>3. CASE UNCHANGED <<fsVars, bootVars>>
  <2>1. UNCHANGED <<fsVars, archive, boot, offset, content, report, step>>
    BY <1>3 DEF bootVars
  <2>2. Regular' = Regular
    BY <2>1 DEF Regular, NameOf
  <2>3. BootShapes' /\ WalkPlace'
    BY <2>1, <2>2 DEF BootInv, BootShapes, WalkPlace, Walking, NameOf
  <2> QED  BY <2>1, <2>3, SameTreeKeeps
<1> QED  BY <1>1, <1>2, <1>3, EndKeeps, SkipKeeps, DirectoryKeeps, FileKeeps, OpenKeepsBoot,
            WriteKeeps, ScriptMkdirKeeps, ScriptMountKeeps, AddKeeps DEF BootNext

LEMMA BootAlways == BootSpec => []BootInv
<1>1. BootInit => BootInv
  BY BootStarts
<1>2. BootInv /\ [BootNext]_<<fsVars, bootVars>> => BootInv'
  BY BootStep
<1> QED  BY <1>1, <1>2, PTL DEF BootSpec

(* Every file of the archive that was not reported as an error is read     *)
(* back whole under the name its header spells, which is its path below    *)
(* 100 characters, unless a later one of that name or a mount replaced it. *)
THEOREM ArchiveExtracted == BootSpec => []ExtractionExact
<1>1. BootInv => ExtractionExact
  <2> SUFFICES ASSUME BootInv, boot \in {"script", "init"}, NEW b \in Regular
               PROVE  /\ report[b] # "none"
                      /\ report[b] = "ok" /\ ~Replaced(b) /\ ~Hidden(b) =>
                           /\ vfs_resolve_path(PathOf(b)) # NULL
                           /\ SubSeq(content[vfs_resolve_path(PathOf(b))], 1, archive[b].size)
                                = Bytes(b, archive[b].size)
    BY DEF ExtractionExact, Replaced, Hidden
  <2>1. report[b] # "none"
    BY DEF BootInv, WalkPlace, Walking
  <2>2. ASSUME report[b] = "ok", ~Replaced(b), ~Hidden(b)
        PROVE  /\ vfs_resolve_path(PathOf(b)) # NULL
               /\ SubSeq(content[vfs_resolve_path(PathOf(b))], 1, archive[b].size)
                    = Bytes(b, archive[b].size)
    <3>1. PICK n : n = vfs_resolve_path(PathOf(b))
      OBVIOUS
    <3>2. n # NULL /\ Holds(n, b)
      BY <2>2, <3>1 DEF BootInv, FilesKept
    <3>3. n \in Node
      <4>1. PathOf(b) \in Seq(Names)
        BY PathOfIs DEF BootInv, IsPath
      <4>2. vfs_resolve_path(PathOf(b)) \in Used \cup {NULL}
        BY <4>1, ResolveUsed DEF BootInv, TreeSound, ResolvesUsed
      <4> QED  BY <3>1, <3>2, <4>2 DEF Used
    <3>4. PICK s \in Seq(Nat \X Nat), size \in Nat, c \in Nat :
            s = content[n] /\ size = archive[b].size /\ c = b
      <4>1. content[n] \in Seq(Nat \X Nat)
        BY <3>3 DEF BootInv, BootShapes
      <4>2. BlockTyped(b)
        BY RegularIs DEF BootInv
      <4>3. archive[b].size \in Nat /\ b \in Nat
        BY <4>2 DEF BlockTyped
      <4> QED  BY <4>1, <4>3
    <3>5. size <= Len(s) /\ \A k \in 1 .. size : s[k] = <<c, k>>
      BY <3>2, <3>4 DEF Holds
    <3>6. PICK t, u : t = SubSeq(s, 1, size) /\ u = Bytes(c, size)
      OBVIOUS
    <3>7. t \in Seq(Nat \X Nat) /\ Len(t) = size /\ \A k \in 1 .. size : t[k] = s[k]
      <4>1. \A k \in 1 .. size : s[k] \in Nat \X Nat
        BY <3>5
      <4> QED  BY <3>5, <3>6, <4>1
    <3>8. u \in Seq(Nat \X Nat) /\ Len(u) = size /\ \A k \in 1 .. size : u[k] = <<c, k>>
      BY <3>6, BytesAre
    <3>9. \A k \in 1 .. Len(t) : t[k] = u[k]
      BY <3>5, <3>7, <3>8
    <3>10. t = u
      BY <3>7, <3>8, <3>9, SeqEqual
    <3> QED  BY <3>1, <3>2, <3>4, <3>6, <3>10
  <2> QED  BY <2>1, <2>2
<1> QED  BY <1>1, BootAlways, PTL

(* However many nodes there are and whatever the archive holds, DeviceFS   *)
(* and ProcessFS are in place with all their entries before init starts,   *)
(* unless the pool is used up or a file is in the way.                     *)
THEOREM RuntimeComplete == BootSpec => []RuntimeReachable
<1>1. BootInv => RuntimeReachable
  <2> SUFFICES ASSUME BootInv, boot = "init", Roomy
               PROVE  \A i \in DOMAIN Script :
                        /\ Script[i].call = "mount" /\ Free(Script[i].path) =>
                             vfs_resolve_path(Script[i].path) = <<Script[i].fs, 0>>
                        /\ Script[i].call = "add" /\ Free(Device) /\ Free(Process) =>
                             Script[i].name \in {children[<<Script[i].fs, 0>>][k].name :
                                                   k \in DOMAIN children[<<Script[i].fs, 0>>]}
    BY DEF RuntimeReachable, Roomy, Free
  <2>1. step = 16
    BY ScriptIs DEF BootInv, BootShapes
  <2>2. /\ Free(Device) => vfs_resolve_path(Device) = <<"DeviceFS", 0>>
        /\ Free(Process) => vfs_resolve_path(Process) = <<"ProcessFS", 0>>
    BY <2>1 DEF BootInv, RuntimeMade, Arrived
  <2>3. /\ \A i \in 8 .. 11 : Free(Device) => Listed("DeviceFS", Script[i].name)
        /\ \A i \in 13 .. 15 : Free(Process) => Listed("ProcessFS", Script[i].name)
    BY <2>1 DEF BootInv, RuntimeMade
  <2> SUFFICES ASSUME NEW i \in 1 .. 15
               PROVE  /\ Script[i].call = "mount" /\ Free(Script[i].path) =>
                           vfs_resolve_path(Script[i].path) = <<Script[i].fs, 0>>
                      /\ Script[i].call = "add" /\ Free(Device) /\ Free(Process) =>
                           Script[i].name \in {children[<<Script[i].fs, 0>>][k].name :
                                                 k \in DOMAIN children[<<Script[i].fs, 0>>]}
    BY ScriptIs
  <2>4. Script[i].call = "mount" => i \in {7, 12}
    <3>1. \A j \in 1 .. 6 : Script[j].call = "mkdir"
      BY ScriptIs DEF MkdirLines, Mkdir
    <3>2. \A j \in 8 .. 11 \cup 13 .. 15 : Script[j].call = "add"
      BY ScriptIs DEF MountLines, Add
    <3>3. i \in 1 .. 6 \/ i = 7 \/ i = 12 \/ i \in 8 .. 11 \cup 13 .. 15
      OBVIOUS
    <3> QED  BY <3>1, <3>2, <3>3
  <2>5. Script[i].call = "add" => i \in 8 .. 11 \cup 13 .. 15
    <3>1. \A j \in 1 .. 6 : Script[j].call = "mkdir"
      BY ScriptIs DEF MkdirLines, Mkdir
    <3>2. Script[7].call = "mount" /\ Script[12].call = "mount"
      BY ScriptIs DEF MountLines, Mount
    <3>3. i \in 1 .. 6 \/ i = 7 \/ i = 12 \/ i \in 8 .. 11 \cup 13 .. 15
      OBVIOUS
    <3> QED  BY <3>1, <3>2, <3>3
  <2>6. Script[i].call = "mount" /\ Free(Script[i].path) =>
          vfs_resolve_path(Script[i].path) = <<Script[i].fs, 0>>
    <3>1. CASE i = 7
      BY <2>2, <3>1, DevicesAre
    <3>2. CASE i = 12
      BY <2>2, <3>2, DevicesAre
    <3> QED  BY <2>4, <3>1, <3>2
  <2>7. ASSUME Script[i].call = "add", Free(Device), Free(Process)
        PROVE  Listed(Script[i].fs, Script[i].name)
    <3>1. CASE i \in 8 .. 11
      BY <2>3, <2>7, <3>1, AddLines
    <3>2. CASE i \in 13 .. 15
      BY <2>3, <2>7, <3>2, AddLines
    <3> QED  BY <2>5, <2>7, <3>1, <3>2
  <2> QED  BY <2>6, <2>7 DEF Listed
<1> QED  BY <1>1, BootAlways, PTL
=============================================================================
