----------------------------- MODULE MCRamFile -----------------------------
(* Files, descriptors and byte values are interchangeable; frames are not, *)
(* they are handed out in order.                                           *)
EXTENDS RamFile, TLC

Symmetry == Permutations(File) \cup Permutations(FD) \cup Permutations(Byte)
=============================================================================
