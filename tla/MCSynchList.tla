---------------------------- MODULE MCSynchList ----------------------------
(***************************************************************************)
(* SynchList for TLC: two threads can wait for an item while the third     *)
(* appends one and comes back to take it before they do.                   *)
(***************************************************************************)
EXTENDS SynchList

CONSTANTS t1, t2, t3, a, b, c
=============================================================================
