------------------------------- MODULE MCVfs -------------------------------
(* Two short names and a long one whose first 31 characters are one of     *)
(* them; "DeviceFS" stands for both static file systems.                   *)
EXTENDS Vfs

MCNames == {"", "a", "b", "a..."}

MCChildName == [name \in MCNames |-> IF name = "a..." THEN "a" ELSE name]

(* "/", "/a", "/a/", "/a/b", "/a..."                                       *)
MCPaths == {<<"">>, <<"a">>, <<"a", "">>, <<"a", "b">>, <<"a...">>}
=============================================================================
