------------------------------- MODULE MCExec -------------------------------
(* A shell of one page; a tool whose second segment starts in the middle   *)
(* of a page, spans two and ends in zeros; a program whose second segment  *)
(* was cut off; a file that is no program and a path without a file.       *)
EXTENDS Exec

MCProgram == {"init", "rash", "tool", "cut", "text", "none"}

Seg(vaddr, filesz, memsz, inside) ==
  [vaddr |-> vaddr, filesz |-> filesz, memsz |-> memsz, inside |-> inside]

Elf(segments) == [kind |-> "elf", segments |-> segments]

MCFile ==
  [p \in MCProgram |->
     CASE p \in {"init", "rash"} -> Elf(<<Seg(0, 2, 2, TRUE)>>)
       [] p = "tool" -> Elf(<<Seg(0, 1, 1, TRUE), Seg(3, 1, 2, TRUE)>>)
       [] p = "cut"  -> Elf(<<Seg(0, 1, 2, TRUE), Seg(2, 1, 1, FALSE)>>)
       [] p = "text" -> [kind |-> "malformed"]
       [] p = "none" -> [kind |-> "absent"]]

MCTable == {"p4", "p3", "p2", "s4", "s3", "s2", "k4", "k3", "k2", "i2"}

MCWalk ==
  [v \in VPage \cup KPage |->
     CASE v < 3            -> <<"p4", "p3", "p2">>
       [] v \in 3 .. STACK_TOP -> <<"s4", "s3", "s2">>
       [] v \in KPage \ {KernelImage} -> <<"k4", "k3", "k2">>
       [] v = KernelImage  -> <<"k4", "k3", "i2">>]
=============================================================================
