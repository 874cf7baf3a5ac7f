-------------------------- MODULE MCKernelThreads --------------------------
(***************************************************************************)
(* KernelThreads for TLC: a semaphore that starts free (like a lock) and a *)
(* device semaphore that starts at 0.                                      *)
(***************************************************************************)
EXTENDS KernelThreads

CONSTANTS main, t1, t2, t3, mutex, dev

MCInitValue == [s \in Sems |-> IF s = mutex THEN 1 ELSE 0]
=============================================================================
