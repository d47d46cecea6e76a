------------------------------- MODULE MCPfa -------------------------------
(* A machine of 9-page bitmaps, 3 bits to a page, 6 pages below "4 GB".    *)
EXTENDS Pfa

Entry(base, length, type) == [base |-> base, length |-> length, type |-> type]

(* RAM at address 0, which cannot take the bitmaps; two regions with ends  *)
(* that are not page aligned, one of them across the 4 GB line.            *)
MCMemMap ==
  << Entry(0, 4, "usable"),
     Entry(4, 11, "bootloader_reclaimable") >>

(* What a holder leaves: every bit says "free".                            *)
MCPatterns == {0 .. BitsPerPage - 1}
=============================================================================
