---------------------------- MODULE MCFileTable ----------------------------
(***************************************************************************)
(* FileTable for TLC: two files, and two slots besides the console's.      *)
(***************************************************************************)
EXTENDS FileTable

CONSTANTS a, b
=============================================================================
