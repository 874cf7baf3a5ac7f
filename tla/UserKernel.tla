----------------------------- MODULE UserKernel -----------------------------
(***************************************************************************)
(* What user programs share in the kernel: physical memory and the machine *)
(* (AddrSpace), and named semaphores (SemTable).  The running program      *)
(* makes the calls; one that waits for a semaphore stays out of Run until  *)
(* its P returns.                                                          *)
(***************************************************************************)
EXTENDS AddrSpace, SemTable

\* The calls on semaphores are made by processes.
ASSUME UserKernelAssumption == Procs \subseteq Callers

vars == <<asVars, semVars>>

Init == ASInit /\ STInit

\* A program that sleeps in the P of a semaphore.
Asleep(p) == waiting[p] # -1 /\ semTab[waiting[p]].value = 0

\* Processes are created, and the processor goes from one to another.
Switch ==
  /\ ~overrun
  /\ \/ Run(NULL)
     \/ \E p \in Procs : \/ ~Asleep(p) /\ Run(p)
                         \/ \E s \in Starts : Fork(p, s[1], s[2])
  /\ UNCHANGED semVars

\* The running process takes a step that is not a call on a semaphore.
Own ==
  /\ ~overrun
  /\ \E p \in Procs : waiting[p] = -1 /\ Step(p)
  /\ UNCHANGED semVars

\* The running program calls CreateSemaphore, Wait or Signal, or its P returns.
SemCall ==
  /\ \E p \in Procs :
       /\ ~broken
       /\ current = p /\ loc[p] = "user"
       /\ \/ WaitReturns(p)
          \/ \E n \in SemNames : \/ Wait(p, n) \/ Signal(p, n)
                                 \/ \E i \in Values : Create(p, n, i)
  /\ UNCHANGED asVars

Next == Switch \/ Own \/ SemCall

Spec == Init /\ [][Next]_vars
-----------------------------------------------------------------------------
\* Each variable has its type.
TypeOK ==
  /\ gPhysPageBitMap \subseteq Frames /\ addrLock \in {0, 1}
  /\ loc \in [Procs -> {"none", "new", "lock", "alloc", "exec", "user", "done"}]
  /\ \A p \in Procs : FramesOf(p) \subseteq Frames
  /\ space \in [Procs -> BOOLEAN] /\ victims \subseteq Procs
  /\ current \in Procs \cup {NULL} /\ ptReg \in Procs \cup {NULL}
  /\ bm \subseteq SemSlots /\ waiting \in [Callers -> SemSlots \cup {-1}]

\* The bitmap of frames is exact, over variables that have their types
\* (FramesExact and TypeOK; AddrSpace's constructor and destructor).
MemoryExact == TypeOK /\ FramesExact
=============================================================================
