------------------------------ MODULE MCFat32 ------------------------------
(* A volume larger than the cached part of its FAT, on which another       *)
(* system left a file with a long name.  The root directory has two        *)
(* clusters and one slot left; one cluster is free.                        *)
EXTENDS Fat32, TLC

MCName == {"NEW", "LONG"}

MCSlots == [name \in MCName |-> IF name = "LONG" THEN 2 ELSE 1]

MCShortName == [name \in MCName |-> IF name = "LONG" THEN "LONG~1" ELSE name]

MCDisk == [c \in Cluster |->
   IF c = Root THEN (0 :> LongPart("LONG") @@ 1 :> Entry("LONG", "file", 3, 1))
   ELSE IF c = 3 THEN (0 :> Data("x") @@ 1 :> Zero)
   ELSE IF c = 4 THEN (0 :> [t |-> "label"] @@ 1 :> Zero)
   ELSE [i \in 0 .. UNITS - 1 |-> Zero]]

(* Nodes are interchangeable, and so are bytes.                            *)
Symmetry == Permutations(Handle) \cup Permutations(Byte)

MCFat == [c \in Cluster |-> IF c = Root THEN 4 ELSE IF c \in {3, 4} THEN EOC ELSE FREE]
=============================================================================
