------------------------------- MODULE MCBoot -------------------------------
(* Archives as tar writes them, with and without entries for directories,  *)
(* and ones that meet a limit: long names and paths, a file in a file,     *)
(* empty files, files twice, a file where a directory should be, more      *)
(* entries than nodes, an init that is no program.                         *)
EXTENDS Boot

LongName == "a..."   \* 32 characters or more of which the first 31 are a

MCNames ==
  {"", ".", "a", "x", "y", "init", LongName, "System", "Rhoudveine", "Booter", "Runtime", "Device",
   "Process", "ahci0", "vga0", "eth0", "cpu0", "meminfo", "cpuinfo"}

MCChildName == [name \in MCNames |-> IF name = LongName THEN "a" ELSE name]

(* Two paths of 100 characters or more with the same beginning, and one    *)
(* that ustar divides into prefix and name.                                *)
MCNameRead ==
  [path \in {<<".", "a", "x">>, <<".", "a", "y">>, <<".", "x", "init">>} |->
     IF path[3] = "init" THEN <<"init">> ELSE <<".", "a", "cpu0">>]

Block(type, path, size) ==
  [type |-> type, path |-> path, size |-> size, body |-> FALSE, elf |-> FALSE]
Dir(path)        == <<Block("dir", <<".">> \o path \o <<"">>, 0)>>
Body(block)      == [block EXCEPT !.body = TRUE]
Junk             == Body(Block("other", <<"a">>, 0))
Zero             == <<Block("file", <<>>, 0)>>

(* A file of up to two blocks of data.                                     *)
File(path, size) == <<Block("file", <<".">> \o path, size)>>
                      \o [i \in 1 .. (size + BLOCK - 1) \div BLOCK |-> Junk]
Program(path, size) == [File(path, size) EXCEPT ![1].elf = TRUE]

(* GNU tar spells a long path in a record of its own in front.             *)
Gnu(path, size)  == <<Block("other", <<".", ".", "a">>, 1), Junk>> \o File(path, size)

Booter   == Front(InitPath)
DirsOf(path) == Dir(SubSeq(path, 1, 1)) \o Dir(SubSeq(path, 1, 2)) \o Dir(SubSeq(path, 1, 3))
Tree     == Dir(<<>>) \o DirsOf(Booter)

(* A file whose last block looks like the header of another.               *)
Nested == <<Block("file", <<"a">>, BLOCK + 1), Junk, Body(Block("file", InitPath, 1))>>

MCArchives ==
  {<<>>, Zero \o Program(InitPath, 1),
   Tree \o Program(InitPath, BLOCK) \o Zero,
   Tree \o Program(InitPath, BLOCK + 1) \o Zero,
   Tree \o File(InitPath, 0) \o File(<<"a">>, 1),
   File(<<LongName>>, 1) \o File(<<"a">>, 1),
   Tree \o Program(InitPath, BLOCK + 1) \o File(InitPath, 1),
   Tree \o File(InitPath, BLOCK + 1) \o Program(InitPath, 1),
   Tree \o Program(InitPath, BLOCK + 1) \o File(InitPath, 0),
   File(<<"a">>, 1) \o File(<<"a", "init">>, 1),
   File(<<"a", "init">>, 1) \o Dir(<<"a">>) \o File(<<"a", "a">>, 2),
   Gnu(<<"a", "x">>, 1) \o File(<<"a", "init">>, 2) \o Gnu(<<"a", "y">>, BLOCK + 1),
   File(<<"x", "init">>, 1) \o Dir(<<"a">>) \o Gnu(<<"a", "y">>, 2) \o Gnu(<<"a", "x">>, 1),
   File(InitPath, 1), File(<<"System">>, 1), File(Process, 1), File(Device \o <<"a">>, 1),
   DirsOf(Device) \o Dir(Device) \o File(Device \o <<"a">>, 1),
   Nested \o File(<<"init">>, 1), Tree \o Nested,
   <<Block("other", <<"a">>, 1), Junk>> \o File(<<"init">>, 1),
   Tree \o Tree \o File(<<"a">>, 1), File(<<"a">>, 2 * BLOCK) \o File(<<"init">>, BLOCK)}
=============================================================================
