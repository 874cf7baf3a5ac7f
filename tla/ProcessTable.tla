---------------------------- MODULE ProcessTable ----------------------------
(***************************************************************************)
(* The process table: threads/ptable.cc, threads/pcb.cc and the syscalls   *)
(* Exec, ExecV, Join, Exit and Halt of userprog/exception.cc.              *)
(*                                                                         *)
(* A process is the thread with that processID.  Each process is either in *)
(* user code or at a location inside a system call; the code between two   *)
(* points where it can be preempted or can block is one action.  The       *)
(* semaphores are those of SemaphoreSpec, which KernelThreads implements:  *)
(* being at a location "...P" is having called P, and the action that      *)
(* leaves it is enabled when the value is positive.                        *)
(*                                                                         *)
(* Locations:                                                              *)
(*   "none"   no such process          "user"      running user code       *)
(*   "start"  forked, has not yet begun StartProcess_1 or StartProcess_2   *)
(*   "execP"  in bmsem.P               "execCheck" after it                *)
(*   "execFork"  holds multex of the new PCB, about to fork                *)
(*   "execRel"   about to V multex     "execRet"   about to V bmsem        *)
(*   "incP"   in multex.P of its own PCB (IncNumWait)                      *)
(*   "joinCall"  about to call JoinWait                                    *)
(*   "joinP"  in joinsem.P of the child   "joinRead"  after it             *)
(*   "decP"   in multex.P of the parent's PCB (DecNumWait)                 *)
(*   "exitRel"   about to V its own joinsem                                *)
(*   "exitP"  in its own exitsem.P                                         *)
(*   "gone"   its thread has finished without ExitUpdate                   *)
(*   "lost"   in P of a semaphore that has been deleted                    *)
(***************************************************************************)
EXTENDS Integers, FiniteSets

CONSTANTS
  MAX_PROCESS,   \* the size of the table
  ExitCodes,     \* the values user programs pass to Exit
  NoPCB,         \* the null pointer to a PCB
  JoinAny,       \* programs may Join any pid, not only those Exec returned to them
                 \* and that they have not joined yet
  LeaveChildren, \* programs may Exit without having joined their children
  MaxNumWait     \* bound on numwait, which the code does not bring back to 0

Pids == 0..(MAX_PROCESS - 1)
PCB == [parentID : Pids \cup {-1}, numwait : Nat, exitcode : ExitCodes \cup {0},
        joinsem : Nat, exitsem : Nat, multex : Nat]

ASSUME PTableAssumption ==
  /\ MAX_PROCESS \in Nat \ {0}
  /\ MaxNumWait \in Nat
  /\ JoinAny \in BOOLEAN /\ LeaveChildren \in BOOLEAN
  /\ NoPCB \notin PCB

VARIABLES
  bm,       \* PTable::bm, the set of marked slots
  pcb,      \* PTable::pcb, the PCBs or NULL
  bmsem,    \* the value of PTable::bmsem
  pc,       \* the location of each process
  arg,      \* the pid a process executes a system call about
  handle,   \* what each program has done with the pids it got from Exec
  machine   \* "running", "halted", or "crashed" (the kernel used a PCB that is gone)

vars == <<bm, pcb, bmsem, pc, arg, handle, machine>>

Location == {"none", "start", "user", "execP", "execCheck", "execFork", "execRel",
             "execRet", "incP", "joinCall", "joinP", "joinRead", "decP", "exitRel",
             "exitP", "gone", "lost"}

\* Each variable has its type.
TypeOK ==
  /\ bm \in SUBSET Pids
  /\ pcb \in [Pids -> PCB \cup {NoPCB}]
  /\ bmsem \in Nat
  /\ pc \in [Pids -> Location]
  /\ arg \in [Pids -> Pids]
  /\ handle \in [Pids -> [Pids -> {"none", "open", "joined"}]]
  /\ machine \in {"running", "halted", "crashed"}

\* PCB::PCB, with multex at m.
NewPCB(parent, m) ==
  [parentID |-> parent, numwait |-> 0, exitcode |-> 0,
   joinsem |-> 0, exitsem |-> 0, multex |-> m]

\* PTable::PTable; process 0 is the program named on the command line.
Init ==
  /\ bm = {0}
  /\ pcb = [p \in Pids |-> IF p = 0 THEN NewPCB(-1, 1) ELSE NoPCB]
  /\ bmsem = 1
  /\ pc = [p \in Pids |-> IF p = 0 THEN "user" ELSE "none"]
  /\ arg = [p \in Pids |-> 0]
  /\ handle = [p \in Pids |-> [c \in Pids |-> "none"]]
  /\ machine = "running"

-----------------------------------------------------------------------------
At(p, loc) == machine = "running" /\ pc[p] = loc
Goto(p, loc) == pc' = [pc EXCEPT ![p] = loc]

\* The kernel uses a PCB that is NULL or deleted.
Crash == machine' = "crashed" /\ UNCHANGED <<bm, pcb, bmsem, pc, arg, handle>>

-----------------------------------------------------------------------------
(* Exec and ExecV.                                                         *)

\* PTable::ExecUpdate or PTable::ExecV is called.
ExecCall(p) ==
  /\ At(p, "user")
  /\ Goto(p, "execP")
  /\ UNCHANGED <<bm, pcb, bmsem, arg, handle, machine>>

ExecEnter(p) ==
  /\ At(p, "execP")
  /\ bmsem > 0
  /\ bmsem' = bmsem - 1
  /\ Goto(p, "execCheck")
  /\ UNCHANGED <<bm, pcb, arg, handle, machine>>

\* Mutant of ExecFail: bmsem->V() is missing from an early return.
ExecFailNoV(p, nameOK) ==
  /\ At(p, "execCheck")
  /\ nameOK => bm = Pids
  /\ Goto(p, "user")
  /\ UNCHANGED <<bm, pcb, bmsem, arg, handle, machine>>

\* The name is NULL, names no file or is the caller's own name, or the table
\* is full: -1.
ExecFail(p, nameOK) ==
  /\ At(p, "execCheck")
  /\ nameOK => bm = Pids
  /\ bmsem' = bmsem + 1
  /\ Goto(p, "user")
  /\ UNCHANGED <<bm, pcb, arg, handle, machine>>

\* Bitmap::FindAndSet: the first clear bit.
FreeSlot == CHOOSE i \in Pids \ bm : \A j \in Pids \ bm : i <= j

\* The slot is taken and the PCB made; PCB::Exec locks its multex.
ExecAlloc(p) ==
  /\ At(p, "execCheck")
  /\ bm # Pids
  /\ bm' = bm \cup {FreeSlot}
  /\ pcb' = [pcb EXCEPT ![FreeSlot] = NewPCB(p, 0)]
  /\ arg' = [arg EXCEPT ![p] = FreeSlot]
  /\ Goto(p, "execFork")
  /\ UNCHANGED <<bmsem, handle, machine>>

\* new Thread and Thread::Fork.
ExecFork(p) ==
  /\ At(p, "execFork")
  /\ pc' = [pc EXCEPT ![p] = "execRel", ![arg[p]] = "start"]
  /\ handle' = [handle EXCEPT ![arg[p]] = [c \in Pids |-> "none"]]
  /\ UNCHANGED <<bm, pcb, bmsem, arg, machine>>

ExecRelease(p) ==
  /\ At(p, "execRel")
  /\ IF pcb[arg[p]] = NoPCB THEN Crash
     ELSE /\ pcb' = [pcb EXCEPT ![arg[p]].multex = @ + 1]
          /\ Goto(p, "execRet")
          /\ UNCHANGED <<bm, bmsem, arg, handle, machine>>

\* bmsem->V(), and the new pid is returned.
ExecReturn(p) ==
  /\ At(p, "execRet")
  /\ bmsem' = bmsem + 1
  /\ handle' = [handle EXCEPT ![p][arg[p]] = "open"]
  /\ Goto(p, "user")
  /\ UNCHANGED <<bm, pcb, arg, machine>>

\* StartProcess_1 or StartProcess_2: load the program and run it.  A program
\* that cannot be loaded raises an exception at once, which calls ExitUpdate.
StartProcess(p) ==
  /\ At(p, "start")
  /\ Goto(p, "user")
  /\ UNCHANGED <<bm, pcb, bmsem, arg, handle, machine>>

(***************************************************************************)
(* StartProcess_2 returns: the file is gone since ExecV looked for it, or  *)
(* an argument is the empty string (WriteStrToMem gives -1).  ThreadRoot   *)
(* then calls Thread::Finish; the PCB stays in the table.                  *)
(***************************************************************************)
StartReturns(p) ==
  /\ At(p, "start")
  /\ Goto(p, "gone")
  /\ UNCHANGED <<bm, pcb, bmsem, arg, handle, machine>>

-----------------------------------------------------------------------------
(* Join.                                                                   *)

\* What the checks at the head of JoinUpdate accept.
Joinable(p, c) == pcb[c] # NoPCB /\ pcb[c].parentID = p

\* JoinUpdate is called; a refused pid returns -1 with no effect.
JoinCall(p, c) ==
  /\ At(p, "user")
  /\ JoinAny \/ handle[p][c] = "open"
  /\ Joinable(p, c)
  /\ pcb[p].numwait < MaxNumWait
  /\ arg' = [arg EXCEPT ![p] = c]
  /\ handle' = [handle EXCEPT ![p][c] = "joined"]
  /\ Goto(p, "incP")
  /\ UNCHANGED <<bm, pcb, bmsem, machine>>

\* PCB::IncNumWait on the parent, which is the caller: P, numwait++, V.
JoinIncNumWait(p) ==
  /\ At(p, "incP")
  /\ pcb[p].multex > 0
  /\ pcb' = [pcb EXCEPT ![p].numwait = @ + 1]
  /\ Goto(p, "joinCall")
  /\ UNCHANGED <<bm, bmsem, arg, handle, machine>>

\* this->pcb[pid]->JoinWait().
JoinWaitCall(p) ==
  /\ At(p, "joinCall")
  /\ IF pcb[arg[p]] = NoPCB THEN Crash
     ELSE Goto(p, "joinP") /\ UNCHANGED <<bm, pcb, bmsem, arg, handle, machine>>

JoinWait(p) ==
  /\ At(p, "joinP")
  /\ pcb[arg[p]].joinsem > 0
  /\ pcb' = [pcb EXCEPT ![arg[p]].joinsem = @ - 1]
  /\ Goto(p, "joinRead")
  /\ UNCHANGED <<bm, bmsem, arg, handle, machine>>

\* The exit code is read, ExitRelease lets the child go, and Join returns.
JoinReturn(p) ==
  /\ At(p, "joinRead")
  /\ IF pcb[arg[p]] = NoPCB THEN Crash
     ELSE /\ pcb' = [pcb EXCEPT ![arg[p]].exitsem = @ + 1]
          /\ Goto(p, "user")
          /\ UNCHANGED <<bm, bmsem, arg, handle, machine>>

-----------------------------------------------------------------------------
(* Exit.                                                                   *)

\* SC_Halt, and ExitUpdate of process 0: the machine stops.
Halt(p) ==
  /\ At(p, "user")
  /\ machine' = "halted"
  /\ UNCHANGED <<bm, pcb, bmsem, pc, arg, handle>>

\* ExitUpdate of another process: SetExitCode, and DecNumWait is called on
\* the PCB in the parent's slot.
ExitUpdate(p, code) ==
  IF pcb[pcb[p].parentID] = NoPCB THEN Crash
  ELSE /\ pcb' = [pcb EXCEPT ![p].exitcode = code]
       /\ arg' = [arg EXCEPT ![p] = pcb[p].parentID]
       /\ Goto(p, "decP")
       /\ UNCHANGED <<bm, bmsem, handle, machine>>

\* SC_Exit, of a process that is not the first.
ExitCall(p, code) ==
  /\ At(p, "user")
  /\ p # 0
  /\ LeaveChildren \/ \A c \in Pids : handle[p][c] # "open"
  /\ ExitUpdate(p, code)

\* PCB::DecNumWait: P, numwait-- unless it is 0, V.
ExitDecNumWait(p) ==
  /\ At(p, "decP")
  /\ pcb[arg[p]].multex > 0
  /\ pcb' = [pcb EXCEPT ![arg[p]].numwait = IF @ > 0 THEN @ - 1 ELSE @]
  /\ Goto(p, "exitRel")
  /\ UNCHANGED <<bm, bmsem, arg, handle, machine>>

\* Mutant of ExitJoinRelease: the parent is not released.
ExitNoJoinRelease(p) ==
  /\ At(p, "exitRel")
  /\ Goto(p, "exitP")
  /\ UNCHANGED <<bm, pcb, bmsem, arg, handle, machine>>

\* PCB::JoinRelease, and ExitWait is called.
ExitJoinRelease(p) ==
  /\ At(p, "exitRel")
  /\ pcb' = [pcb EXCEPT ![p].joinsem = @ + 1]
  /\ Goto(p, "exitP")
  /\ UNCHANGED <<bm, bmsem, arg, handle, machine>>

\* The processes inside a P of a semaphore of p's PCB.
WaitersOn(p) ==
  {q \in Pids : arg[q] = p /\ pc[q] \in {"joinP", "decP"}}

\* The slot is freed and the PCB deleted: bm', pcb' and pc' of ExitRemove.
Remove(p) ==
  /\ bm' = bm \ {p}
  /\ pcb' = [pcb EXCEPT ![p] = NoPCB]
  /\ pc' = [q \in Pids |-> IF q = p THEN "none"
                           ELSE IF q \in WaitersOn(p) THEN "lost" ELSE pc[q]]

\* Mutant of ExitRemove: ExitWait is missing.
ExitRemoveNoWait(p) ==
  /\ At(p, "exitP")
  /\ Remove(p)
  /\ UNCHANGED <<bmsem, arg, handle, machine>>

\* Mutant of ExitRemove: it waits for the wrong semaphore.
ExitRemoveWrongSem(p) ==
  /\ At(p, "exitP")
  /\ pcb[p].joinsem > 0
  /\ Remove(p)
  /\ UNCHANGED <<bmsem, arg, handle, machine>>

\* Mutant of ExitRemove: bm->Clear is missing from PTable::Remove.
ExitRemoveKeepBit(p) ==
  /\ At(p, "exitP")
  /\ pcb[p].exitsem > 0
  /\ pcb' = [pcb EXCEPT ![p] = NoPCB]
  /\ Goto(p, "none")
  /\ UNCHANGED <<bm, bmsem, arg, handle, machine>>

(***************************************************************************)
(* ExitWait returns and PTable::Remove deletes the PCB with its            *)
(* semaphores; ~PCB frees the address space and calls Thread::Finish.      *)
(* Whoever is still in a P of these semaphores is lost.                    *)
(***************************************************************************)
ExitRemove(p) ==
  /\ At(p, "exitP")
  /\ pcb[p].exitsem > 0
  /\ Remove(p)
  /\ UNCHANGED <<bmsem, arg, handle, machine>>

\* The machine has stopped.
Stopped == machine # "running" /\ UNCHANGED vars

-----------------------------------------------------------------------------
\* The steps of a process that has called the kernel.
KernelStep(p) ==
  \/ ExecEnter(p) \/ ExecFail(p, TRUE) \/ ExecAlloc(p) \/ ExecFork(p)
  \/ ExecRelease(p) \/ ExecReturn(p) \/ StartProcess(p)
  \/ JoinIncNumWait(p) \/ JoinWaitCall(p) \/ JoinWait(p) \/ JoinReturn(p)
  \/ ExitDecNumWait(p) \/ ExitJoinRelease(p) \/ ExitRemove(p)

\* What depends on a program: what it does next, and how it was started.
ProgramStep(p) ==
  \/ ExecCall(p) \/ ExecFail(p, FALSE) \/ StartReturns(p)
  \/ \E c \in Pids : JoinCall(p, c)
  \/ \E code \in ExitCodes : ExitCall(p, code)
  \/ Halt(p)

Next == Stopped \/ \E p \in Pids : KernelStep(p) \/ ProgramStep(p)

Spec == Init /\ [][Next]_vars

(***************************************************************************)
(* Every thread that can run is scheduled (KernelThreads!ReadyRuns), so a  *)
(* process that has called the kernel goes on while it can: joinsem and    *)
(* exitsem have a single waiter, and multex is free for good once the Exec *)
(* that made the PCB has released it.  bmsem has several waiters, and one  *)
(* of them may be overtaken again and again: weak fairness does not        *)
(* exclude it, and the code does not either.  Programs may compute for     *)
(* ever.                                                                   *)
(***************************************************************************)
FairSpec == Spec /\ \A p \in Pids : WF_vars(KernelStep(p))

-----------------------------------------------------------------------------
Exited(p) == pc[p] \in {"decP", "exitRel", "exitP"}

\* The kernel never uses the PCB of a process that is gone (JoinUpdate's
\* pcb[pid], ExitUpdate's pcb[parentID], "this" in PCB::Exec).
NoCrash == machine # "crashed"

(***************************************************************************)
(* Nobody is waiting on a semaphore when it is deleted: "Assume no one is  *)
(* still waiting on the semaphore!" (synch.cc, ~Semaphore).                *)
(***************************************************************************)
NoWaiterLost == \A p \in Pids : pc[p] # "lost"

(***************************************************************************)
(* The joinsem/exitsem handshake of one exit happens at most once: the two *)
(* semaphores are never positive together, never above 1, and a unit is    *)
(* there only while the child is waiting in ExitWait.                      *)
(***************************************************************************)
HandshakeOnce ==
  \A p \in Pids : pcb[p] # NoPCB =>
    /\ pcb[p].joinsem + pcb[p].exitsem <= 1
    /\ pcb[p].joinsem + pcb[p].exitsem = 1 => pc[p] = "exitP"

\* bmsem lets one Exec at a time look for a slot and fork into it ("used to
\* prevent the case of loading 2 processes at the same time", ptable.h:17).
OneExec ==
  Cardinality({p \in Pids : pc[p] \in {"execCheck", "execFork", "execRel", "execRet"}})
    = 1 - bmsem

(***************************************************************************)
(* As long as a process has not told its parent that it exits, the slot    *)
(* its parentID names still holds the process that Exec'd it: the parent's *)
(* program knows the child, or is still in the Exec.                       *)
(***************************************************************************)
ParentStays ==
  \A c \in Pids \ {0} :
    (pcb[c] # NoPCB /\ (pc[c] # "exitP" \/ pcb[c].exitsem = 0)) =>
      LET p == pcb[c].parentID IN
      /\ pcb[p] # NoPCB
      /\ ~Exited(p)
      /\ \/ handle[p][c] = "open"
         \/ handle[p][c] = "joined" /\ arg[p] = c
              /\ pc[p] \in {"incP", "joinCall", "joinP", "joinRead"}
         \/ arg[p] = c /\ pc[p] \in {"execFork", "execRel", "execRet"}

(***************************************************************************)
(* The bitmap, the table and the threads agree: a slot is marked exactly   *)
(* when it has a PCB, and it has one exactly when it has a process or is   *)
(* being filled by an Exec, of which there is one at a time (OneExec); and *)
(* parentID names the process that made the Exec (ParentStays).            *)
(***************************************************************************)
TableExact ==
  /\ TypeOK /\ OneExec /\ ParentStays
  /\ \A p \in Pids :
    /\ p \in bm <=> pcb[p] # NoPCB
    /\ pcb[p] # NoPCB <=>
         pc[p] # "none" \/ \E q \in Pids : pc[q] = "execFork" /\ arg[q] = p

(***************************************************************************)
(* A joiner that has been let through by joinsem reads the exit code of    *)
(* its own child, which has set it and cannot go away before ExitRelease;  *)
(* the two semaphores pass one unit each way (HandshakeOnce).              *)
(***************************************************************************)
JoinReadsOwnChild ==
  /\ HandshakeOnce
  /\ \A p \in Pids : pc[p] = "joinRead" =>
    LET c == arg[p] IN
    /\ pcb[c] # NoPCB
    /\ pcb[c].parentID = p
    /\ pc[c] = "exitP"
    /\ pcb[c].exitsem = 0
    /\ pcb[c].exitcode \in ExitCodes

\* A Join whose child has called Exit returns, unless the machine stops.
JoinReturns ==
  \A p, c \in Pids :
    (pc[p] \in {"incP", "joinCall", "joinP"} /\ arg[p] = c /\ Exited(c))
      ~> (pc[p] = "user" \/ machine # "running")

\* A process that has been joined leaves the table, and its slot is free.
JoinedIsRemoved ==
  \A c \in Pids : (pcb[c] # NoPCB /\ pcb[c].exitsem > 0)
                    ~> (pc[c] = "none" \/ machine # "running")

\* An Exec gives bmsem back: it cannot block for ever on the multex of the
\* new PCB, nor on anything else, while it holds it.
BmsemGivenBack == bmsem = 0 ~> (bmsem > 0 \/ machine # "running")

\* Slots and bmsem come back: JoinedIsRemoved and BmsemGivenBack, of PTable::
\* Remove and of the early returns of ExecUpdate and ExecV.
ResourcesGivenBack == JoinedIsRemoved /\ BmsemGivenBack
=============================================================================
