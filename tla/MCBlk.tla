------------------------------- MODULE MCBlk -------------------------------
(* Three reads, two of them due at the same time, and two such writes.     *)
EXTENDS Blk

MCRequest == {"r1", "r2", "r3", "w1", "w2"}

MCReads == {"r1", "r2", "r3"}

MCDeadline == [req \in MCRequest |-> IF req = "r3" THEN 1 ELSE 2]
=============================================================================
