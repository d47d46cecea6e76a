------------------------------- MODULE Fat32 -------------------------------
(***************************************************************************)
(* The FAT32 file system of fs/fat32_vfs.c: the cached FAT and its copy on *)
(* disk, directories, and files written through vfs nodes.                 *)
(*                                                                         *)
(* A cluster holds UNITS units; a unit is a directory slot or that many    *)
(* bytes of a file.  An operation advances by one disk write at a time.    *)
(* Each disk command may fail after any part of its data has moved, and    *)
(* the machine may stop between any two of them; the next mount then       *)
(* starts from what the disk holds.  No command outlives its call (Disk    *)
(* until one expires).  Reads change nothing and are part of the step that *)
(* needs them.                                                             *)
(*                                                                         *)
(* fat32_mount reads no more of the FAT than one page holds, and every     *)
(* write of the FAT is of all its sectors from that page on: what follows  *)
(* the page in memory is written over the other entries, which the driver  *)
(* never reads.  An allocation that finds no free cluster in the page      *)
(* reads on behind it; the model ends there ("overrun").                   *)
(*                                                                         *)
(* The disk is external.  It was formatted with zeroed clusters.  Only     *)
(* file nodes are written, no name is "." or "..", and an entry with its   *)
(* long name parts fits a cluster.                                         *)
(***************************************************************************)
EXTENDS Integers, Sequences, FiniteSets, FiniteSetsExt

CONSTANTS
  TotalClusters,   \* total_sectors_32 / sectors_per_cluster
  CACHED,          \* entries fat32_mount reads: of fat_size_32 sectors, at most 8
  Root,            \* root_cluster
  UNITS,           \* entries_per_cluster
  PAGE_UNITS,      \* those that fit the one page of a cluster_buf
  Name,
  Slots,           \* name -> directory slots: 1, and 1 per 13 characters if long
  ShortName,       \* name -> the 8.3 name make_short_name gives it
  FirstDisk,       \* what mkfs and others left: the clusters
  FirstFat,        \*   and their FAT
  Handle,          \* vfs nodes, of which fat32_finddir makes a new one each time
  Byte,
  WriteSizes,      \* counts passed to fat32_write
  MaxEnd           \* bound on where a write ends

FREE    == 0
EOC     == 1

(* The clusters whose FAT entries are in fat_cache.                        *)
Covered == IF TotalClusters <= CACHED THEN TotalClusters ELSE CACHED
Cluster == 2 .. Covered - 1

ASSUME Fat32Constants ==
  /\ {TotalClusters, CACHED, MaxEnd} \subseteq Nat /\ WriteSizes \subseteq Nat \ {0}
  /\ UNITS \in Nat /\ UNITS >= 2
  /\ Slots \in [Name -> 1 .. UNITS] /\ DOMAIN ShortName = Name

(* fat32_mount accepts clusters of up to 128 sectors, but reads and writes *)
(* them in buffers of one page.                                            *)
ASSUME ClustersFitPage == UNITS <= PAGE_UNITS

(* However large the volume, what is on it lies in clusters whose entries  *)
(* fat32_mount reads; a link beyond them would be followed behind the page.*)
ASSUME FilesAreCached ==
  /\ Root \in Cluster
  /\ FirstFat \in [Cluster -> Cluster \cup {FREE, EOC}]

VARIABLES
  fat,         \* fat_cache
  disk_fat,    \* the FAT on disk
  disk,        \* cluster -> its units on disk
  node,        \* handle -> the vfs node and its fat32_node_data
  op,          \* the operation under way and where it is
  written      \* first cluster -> position -> the bytes it may hold

vars == <<fat, disk_fat, disk, node, op, written>>

Idle    == [pc |-> "idle"]
Overrun == [pc |-> "overrun"]
NoNode  == [kind |-> "none", first |-> 0, size |-> 0]

Zero           == [t |-> "zero"]
Junk           == [t |-> "junk"]
LongPart(name) == [t |-> "lfn", name |-> name]
Entry(name, kind, first, size) ==
  [t |-> "entry", name |-> name, kind |-> kind, first |-> first, size |-> size]
Data(byte)     == [t |-> "byte", byte |-> byte]
Dot            == "."
DotDot         == ".."

(* What reading these clusters as directories finds.                       *)
EntriesOn(units) == {u \in UNION {{units[c][i] : i \in 0 .. UNITS - 1} : c \in Cluster} :
                       u.t = "entry" /\ u.name \in Name}

(* The volume was sound when it was first mounted: files and directories   *)
(* start with clusters of their own, and no two links lead to one cluster. *)
ASSUME FormattedDisk ==
  LET found       == EntriesOn(FirstDisk)
      At(kind)    == {e.first : e \in {d \in found : d.kind = kind}}
      linked      == {c \in Cluster : FirstFat[c] \in Cluster}
  IN  /\ {Dot, DotDot} \cap Name = {}
      /\ FirstDisk = [c \in Cluster |-> FirstDisk[c]]
      /\ \A e \in found : e.kind \in {"file", "dir"} /\ e.size \in Nat
      /\ \A e \in found : e.first = 0 => e.kind = "file" /\ e.size = 0
      /\ At("file") \cap (At("dir") \cup {Root}) = {}
      /\ \A f \in {Root} \cup At("dir") \cup (At("file") \ {0}) :
           f \in Cluster /\ FirstFat[f] # FREE /\ \A c \in linked : FirstFat[c] # f
      /\ \A c \in linked : FirstFat[FirstFat[c]] # FREE
      /\ \A c, d \in linked : FirstFat[c] = FirstFat[d] => c = d

-----------------------------------------------------------------------------
(* Walking the FAT                                                         *)

(* The clusters from first on, as fat32_get_fat_entry leads through them.  *)
Chain(table, first) ==
  LET next(p) == IF p = <<>> THEN first ELSE table[p[Len(p)]]
      path[n \in 0 .. Covered] ==
        IF n = 0 THEN <<>>
        ELSE LET p == path[n - 1]
             IN  IF Len(p) = n - 1 /\ next(p) \in Cluster THEN Append(p, next(p)) ELSE p
  IN  path[Covered]

ChainSet(table, first) ==
  LET c == Chain(table, first) IN {c[n] : n \in DOMAIN c}

(* The units of a directory up to the first that was never used.           *)
Visible(dir) ==
  LET chain == Chain(fat, dir)
      unit(k) == disk[chain[k \div UNITS + 1]][k % UNITS]
      all   == 0 .. Len(chain) * UNITS - 1
      ends  == {k \in all : unit(k) = Zero}
      last  == IF ends = {} THEN Len(chain) * UNITS ELSE Min(ends)
  IN  [k \in 1 .. last |-> unit(k - 1)]

(* The k-th unit is an entry that goes by this name: its 8.3 name, or a    *)
(* long one whose parts are all in front of it.                            *)
Matches(name, seen, k) ==
  /\ seen[k].t = "entry" /\ seen[k].name \in Name
  /\ \/ name = ShortName[seen[k].name]
     \/ /\ Slots[name] > 1 /\ ShortName[name] = ShortName[seen[k].name]
        /\ \A j \in 1 .. Slots[name] - 1 : k - j > 0 /\ seen[k - j] = LongPart(name)

(* The place of the entry fat32_finddir stops at; 0 if it finds none.      *)
Lookup(dir, name) ==
  LET seen == Visible(dir)
      hits == {k \in DOMAIN seen : Matches(name, seen, k)}
  IN  IF hits = {} THEN 0 ELSE Min(hits)

-----------------------------------------------------------------------------
(* Allocation                                                              *)

Free == {c \in Cluster : fat[c] = FREE}

(* A write of the FAT that failed: some entries have moved to the disk.    *)
FatPartlyWritten ==
  \E K \in SUBSET Cluster :
    disk_fat' = [c \in Cluster |-> IF c \in K THEN fat'[c] ELSE disk_fat[c]]

(* The search of fat32_alloc_cluster and its mark in the cache.            *)
Mark(c) ==
  /\ Free # {} /\ c = Min(Free)
  /\ fat' = [fat EXCEPT ![c] = EOC]

(* Mutant: the caller marks the cluster when it links it.                  *)
AllocOk_unmarked(c) ==
  /\ Free # {} /\ c = Min(Free)
  /\ UNCHANGED <<fat, disk_fat>>

(* Mutant: the result of writing the FAT is ignored.                       *)
AllocOk_unchecked(c) == Mark(c) /\ FatPartlyWritten

(* fat32_alloc_cluster: the mark is in the cache, then on disk.            *)
AllocOk(c) == Mark(c) /\ disk_fat' = fat'

(* No cluster is free, or the FAT cannot be written; the mark then stays   *)
(* in the cache.                                                           *)
AllocFails ==
  \/ Free = {} /\ UNCHANGED <<fat, disk_fat>>
  \/ \E c \in Cluster : Mark(c) /\ FatPartlyWritten

(* Behind the page the search takes whatever memory holds for entries.     *)
alloc_behind_cache ==
  /\ op.pc \in {"extend", "dir_alloc", "first"}
  /\ Free = {} /\ Covered < TotalClusters
  /\ op' = Overrun
  /\ UNCHANGED <<fat, disk_fat, disk, node, written>>

(* fat32_extend_chain: a cluster, then its link, whose write is unchecked. *)
extend_alloc ==
  /\ op.pc = "extend"
  /\ \/ \E c \in Cluster : AllocOk(c) /\ op' = [op EXCEPT !.pc = "link", !.at = c]
     \/ AllocFails /\ op' = Idle
  /\ UNCHANGED <<disk, node, written>>

extend_link ==
  /\ op.pc = "link"
  /\ fat' = [fat EXCEPT ![op.last] = op.at]
  /\ FatPartlyWritten
  /\ op' = [op EXCEPT !.pc = op.then]
  /\ UNCHANGED <<disk, node, written>>

-----------------------------------------------------------------------------
(* Creating an entry                                                       *)

(* Places <<index in the chain, slot>> with enough free slots in a row.    *)
Fits(dir, need) ==
  {p \in (1 .. Len(Chain(fat, dir))) \X (0 .. UNITS - need) :
     \A j \in p[2] .. p[2] + need - 1 : disk[Chain(fat, dir)[p[1]]][j] = Zero}

Before(p, q) == p[1] < q[1] \/ (p[1] = q[1] /\ p[2] <= q[2])

AfterRoom(kind) == IF kind = "dir" THEN "dir_alloc" ELSE "entry"

(* A directory of this file system: its root, or one that a node is for.   *)
Dirs == {Root} \cup {node[h].first : h \in {g \in Handle : node[g].kind = "dir"}}

(* fat32_create up to its first write.  It refuses a name that is found,   *)
(* unless a read failed: that looks like a name that is not.               *)
fat32_create(dir, name, kind) ==
  /\ op = Idle
  /\ LET room  == Fits(dir, Slots[name])
         first == CHOOSE p \in room : \A q \in room : Before(p, q)
         chain == Chain(fat, dir)
         found == room # {}
     IN  op' = [pc |-> IF found THEN AfterRoom(kind) ELSE "extend",
                dir |-> dir, name |-> name, kind |-> kind, first |-> 0,
                at |-> IF found THEN chain[first[1]] ELSE 0,
                slot |-> IF found THEN first[2] ELSE 0,
                last |-> chain[Len(chain)], then |-> "clear"]
  /\ UNCHANGED <<fat, disk_fat, disk, node, written>>

(* What a cluster holds when the units in K of a write have moved.         *)
Moved(old, new, K) == [i \in 0 .. UNITS - 1 |-> IF i \in K THEN new[i] ELSE old[i]]

(* The writes below are not checked: each may fail unnoticed, after some   *)
(* units.                                                                  *)
WriteCluster(c, units) ==
  \E K \in SUBSET (0 .. UNITS - 1) : disk' = [disk EXCEPT ![c] = Moved(@, units, K)]

create_clear ==
  /\ op.pc = "clear"
  /\ WriteCluster(op.at, [i \in 0 .. UNITS - 1 |-> Zero])
  /\ op' = [op EXCEPT !.pc = AfterRoom(op.kind)]
  /\ UNCHANGED <<fat, disk_fat, node, written>>

create_dir_alloc ==
  /\ op.pc = "dir_alloc"
  /\ \/ \E c \in Cluster : AllocOk(c) /\ op' = [op EXCEPT !.pc = "dir_init", !.first = c]
     \/ AllocFails /\ op' = Idle
  /\ UNCHANGED <<disk, node, written>>

create_dir_init ==
  /\ op.pc = "dir_init"
  /\ WriteCluster(op.first, [i \in 0 .. UNITS - 1 |->
       IF i = 0 THEN Entry(Dot, "dir", op.first, 0)
       ELSE IF i = 1 THEN Entry(DotDot, "dir", IF op.dir = Root THEN 0 ELSE op.dir, 0)
       ELSE Zero])
  /\ op' = [op EXCEPT !.pc = "entry"]
  /\ UNCHANGED <<fat, disk_fat, node, written>>

create_entry ==
  LET last == op.slot + Slots[op.name] - 1
  IN  /\ op.pc = "entry"
      /\ WriteCluster(op.at, [i \in 0 .. UNITS - 1 |->
           IF i = last THEN Entry(op.name, op.kind, op.first, 0)
           ELSE IF i \in op.slot .. last THEN LongPart(op.name)
           ELSE disk[op.at][i]])
      /\ op' = Idle
      /\ UNCHANGED <<fat, disk_fat, node, written>>

-----------------------------------------------------------------------------
(* Nodes                                                                   *)

(* fat32_finddir: a new node with what the directory entry says.           *)
fat32_finddir(h, dir, name) ==
  /\ op = Idle /\ node[h] = NoNode
  /\ Lookup(dir, name) # 0
  /\ LET entry == Visible(dir)[Lookup(dir, name)]
     IN  node' = [node EXCEPT ![h] =
                    [kind |-> entry.kind, first |-> entry.first, size |-> entry.size]]
  /\ UNCHANGED <<fat, disk_fat, disk, op, written>>

(* fat32_close does nothing; the node is forgotten.                        *)
fat32_close(h) ==
  /\ op = Idle /\ node[h] # NoNode
  /\ node' = [node EXCEPT ![h] = NoNode]
  /\ UNCHANGED <<fat, disk_fat, disk, op, written>>

(* The unit fat32_read copies for one position.                            *)
fat32_read(h, pos) ==
  LET chain == Chain(fat, node[h].first)
  IN  disk[chain[pos \div UNITS + 1]][pos % UNITS]

-----------------------------------------------------------------------------
(* fat32_write                                                             *)

fat32_write(h, offset, count, byte) ==
  /\ op = Idle /\ node[h].kind = "file"
  /\ offset + count <= MaxEnd
  /\ op' = [pc |-> IF node[h].first = 0 THEN "first" ELSE "walk",
            h |-> h, cur |-> node[h].first, skip |-> offset \div UNITS,
            pos |-> offset, left |-> count, byte |-> byte,
            last |-> 0, at |-> 0, then |-> "extended"]
  /\ UNCHANGED <<fat, disk_fat, disk, node, written>>

(* The new first cluster is recorded in this node and nowhere else.        *)
write_first ==
  /\ op.pc = "first"
  /\ \/ \E c \in Cluster : /\ AllocOk(c)
                           /\ op' = [op EXCEPT !.pc = "walk", !.cur = c]
                           /\ node' = [node EXCEPT ![op.h].first = c]
     \/ AllocFails /\ op' = Idle /\ UNCHANGED node
  /\ UNCHANGED <<disk, written>>

(* One cluster on, or a longer chain.                                      *)
write_walk ==
  /\ op.pc = "walk"
  /\ op' = IF op.skip = 0 THEN [op EXCEPT !.pc = "data"]
           ELSE IF fat[op.cur] \in Cluster
             THEN [op EXCEPT !.cur = fat[op.cur], !.skip = op.skip - 1]
           ELSE [op EXCEPT !.pc = "extend", !.last = op.cur]
  /\ UNCHANGED <<fat, disk_fat, disk, node, written>>

write_extended ==
  /\ op.pc = "extended"
  /\ op' = [op EXCEPT !.pc = "walk", !.cur = op.at, !.skip = op.skip - 1]
  /\ UNCHANGED <<fat, disk_fat, disk, node, written>>

(* Mutant: only a write that ends and starts inside a cluster reads it.    *)
NeedsRead_both(pos, left) == pos % UNITS # 0 /\ left < UNITS

NeedsRead(pos, left) == pos % UNITS # 0 \/ left < UNITS

(* One cluster is read if only part of it changes, changed and written     *)
(* back.  The read is unchecked: after it failed the buffer may hold       *)
(* anything, and so may the rest of the cluster.  After a write that       *)
(* failed the new bytes may be there or not, and the return in the middle  *)
(* leaves the node's size as it was.                                       *)
write_data ==
  LET off   == op.pos % UNITS
      n     == Min({UNITS - off, op.left})
      end   == op.pos + n
      new   == op.pos .. end - 1
      f     == node[op.h].first
      Rest  == {p \in DOMAIN written[f] : p \div UNITS = op.pos \div UNITS} \ new
      buf(old) == [i \in 0 .. UNITS - 1 |->
                     IF i \in off .. off + n - 1 THEN Data(op.byte) ELSE old[i]]
      junk  == [i \in 0 .. UNITS - 1 |-> Junk]
      Write(old, lost) ==
        \/ /\ disk' = [disk EXCEPT ![op.cur] = buf(old)]
           /\ written' = [written EXCEPT ![f] =
                [p \in (DOMAIN @ \ lost) \cup new |-> IF p \in new THEN {op.byte} ELSE @[p]]]
           /\ IF n < op.left
                THEN /\ op' = [op EXCEPT !.pc = "walk", !.skip = 1, !.pos = end,
                                         !.left = op.left - n]
                     /\ UNCHANGED node
                ELSE /\ op' = Idle
                     /\ node' = [node EXCEPT ![op.h].size = Max({@, end})]
        \/ /\ \E K \in SUBSET (0 .. UNITS - 1) :            \* the write fails
                disk' = [disk EXCEPT ![op.cur] = Moved(@, buf(old), K)]
           /\ written' = [written EXCEPT ![f] =
                [p \in DOMAIN @ \ lost |-> IF p \in new THEN @[p] \cup {op.byte} ELSE @[p]]]
           /\ op' = Idle
           /\ UNCHANGED node
  IN  /\ op.pc = "data"
      /\ IF NeedsRead(op.pos, op.left)
           THEN Write(disk[op.cur], {}) \/ Write(junk, Rest)  \* the read fails
           ELSE Write(junk, {})
      /\ UNCHANGED <<fat, disk_fat>>

-----------------------------------------------------------------------------
(* The machine stops and fat32_mount reads the FAT again.  The part of a   *)
(* file beyond a link that never reached the disk is gone.                 *)
crash_and_mount ==
  /\ op # Overrun
  /\ fat' = disk_fat
  /\ node' = [h \in Handle |-> NoNode]
  /\ op' = Idle
  /\ written' = [f \in Cluster |->
                   [p \in {q \in DOMAIN written[f] :
                             q < Len(Chain(disk_fat, f)) * UNITS} |-> written[f][p]]]
  /\ UNCHANGED <<disk_fat, disk>>

Init ==
  /\ fat = FirstFat /\ disk_fat = FirstFat
  /\ disk = FirstDisk
  /\ node = [h \in Handle |-> NoNode]
  /\ op = Idle
  /\ written = [f \in Cluster |-> <<>>]

Next ==
  \/ \E dir \in Dirs, name \in Name :
       \/ \E kind \in {"file", "dir"} : fat32_create(dir, name, kind)
       \/ \E h \in Handle : fat32_finddir(h, dir, name)
  \/ \E h \in Handle :
       \/ fat32_close(h)
       \/ \E offset \in 0 .. MaxEnd, count \in WriteSizes, byte \in Byte :
            fat32_write(h, offset, count, byte)
  \/ extend_alloc \/ extend_link \/ alloc_behind_cache
  \/ create_clear \/ create_dir_alloc \/ create_dir_init \/ create_entry
  \/ write_first \/ write_walk \/ write_extended \/ write_data
  \/ crash_and_mount

Spec == Init /\ [][Next]_vars

-----------------------------------------------------------------------------
(* Properties                                                              *)

Entries == EntriesOn(disk)

(* Every chain ends, holds only allocated clusters, and two chains share   *)
(* none.                                                                   *)
SoundChains(table, firsts) ==
  \A f \in firsts :
    LET chain == ChainSet(table, f)
    IN  /\ \A c \in chain : table[c] # FREE
        /\ \E c \in chain : table[c] = EOC
        /\ \A g \in firsts \ {f} : chain \cap ChainSet(table, g) = {}

Firsts(records) == {r.first : r \in records} \ {0}

(* While the system runs, no cluster belongs to two of the directories and *)
(* open files, whatever fails: a write into one never changes another.     *)
ChainsDisjoint ==
  SoundChains(fat, {Root} \cup Firsts(Entries) \cup Firsts({node[h] : h \in Handle}))

(* At every moment the disk alone is a sound file system, as far as the    *)
(* cached part of the FAT reaches: the machine may stop between any two    *)
(* writes, and what failed or was never reported may be half done.         *)
CrashConsistent == SoundChains(disk_fat, {Root} \cup Firsts(Entries))

(* Below the size of a node a read returns the byte last written there by  *)
(* a write that succeeded or, if one has failed since, that byte or the    *)
(* failed one's: through every node, whatever else was written, failed or  *)
(* was lost in a stop.  Only the rest of a cluster whose read before a     *)
(* rewrite failed is excepted.                                             *)
ReadsReturnWrites ==
  \A h \in Handle : node[h].kind = "file" =>
    \A pos \in 0 .. node[h].size - 1 :
      pos \in DOMAIN written[node[h].first] =>
        \E byte \in written[node[h].first][pos] : fat32_read(h, pos) = Data(byte)
=============================================================================
