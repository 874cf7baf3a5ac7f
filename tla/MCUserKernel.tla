---------------------------- MODULE MCUserKernel ----------------------------
(***************************************************************************)
(* UserKernel for TLC: three processes on six frames.  A small program     *)
(* takes two.  The large one has read-only data and data; its space of     *)
(* three pages is shorter than its file, so that its last page is copied   *)
(* beyond the space, and its frames are not consecutive when it starts     *)
(* between two others.  Three programs do not fit if one is large.         *)
(***************************************************************************)
EXTENDS UserKernel, TLC

CONSTANTS p1, p2, p3, s1, s2, s3

Small == [code |-> 1, rdata |-> 0, data |-> 0, rest |-> 1]
Large == [code |-> 1, rdata |-> 2, data |-> 1, rest |-> 1]
MCStarts == {<<Small, FALSE>>, <<Small, TRUE>>, <<Large, FALSE>>}

MCSymmetry == Permutations(Procs) \cup Permutations(SemNames)
=============================================================================
