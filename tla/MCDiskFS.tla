------------------------------ MODULE MCDiskFS ------------------------------
(***************************************************************************)
(* DiskFS for TLC: two directory entries and four sectors besides the      *)
(* system's, so that one file of two data sectors leaves room for an empty *)
(* one, sectors are used again as header and as data, and the disk and the *)
(* directory become full.  The first entry lies across the border of the   *)
(* directory's two sectors, the second behind it.                          *)
(***************************************************************************)
EXTENDS DiskFS, TLC

CONSTANTS a, b, c, x, y

MCBuffers == {<<x, y, x>>}

MCHeadAt == <<1, 2>>
MCNameAt == <<2, 2>>
MCGarbage == {<<n, NULL>> : n \in Names \cup {NULL}}

Symmetry == Permutations(Names)
=============================================================================
