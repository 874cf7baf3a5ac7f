----------------------------- MODULE Scheduler -----------------------------
(***************************************************************************)
(* The thread scheduler of the NachOS kernel: threads/scheduler.cc and the *)
(* part of threads/thread.cc that creates, yields, suspends and finishes a *)
(* thread.  This module holds the state and the pieces an operation is     *)
(* made of; KernelThreads puts them together with semaphores and device    *)
(* interrupts into a specification.                                        *)
(*                                                                         *)
(* NachOS is a uniprocessor kernel, so exactly one thread executes, and    *)
(* while it has interrupts disabled nothing else happens.  "phase" says    *)
(* where the executing thread is:                                          *)
(*   "run"       interrupts enabled (user code, or kernel code between two *)
(*               operations): a device or the timer may interrupt it       *)
(*   "inP"       interrupts off, at the head of Semaphore::P's while loop  *)
(*   "blocking"  in the while loop of Thread::Sleep(FALSE)                 *)
(*   "finishing" in the while loop of Thread::Sleep(TRUE)                  *)
(*   "switched"  it has just been given the CPU by SWITCH, and has not yet *)
(*               run CheckToBeDestroyed                                    *)
(***************************************************************************)
EXTENDS Naturals, Sequences

CONSTANTS
  Threads,      \* the Thread objects that can exist at the same time
  MainThread,   \* the thread Kernel::Initialize runs in
  NULL          \* the null pointer

ASSUME ThreadsAssumption == MainThread \in Threads /\ NULL \notin Threads

VARIABLES
  currentThread,  \* kernel->currentThread
  readyList,      \* Scheduler::readyList, a FIFO list
  status,         \* Thread::status; "UNUSED" is an object that does not exist
  toBeDestroyed,  \* Scheduler::toBeDestroyed
  phase           \* see above

schedVars == <<currentThread, readyList, status, toBeDestroyed, phase>>

ThreadStatus == {"UNUSED", "RUNNING", "READY", "BLOCKED"}
Phase == {"run", "inP", "blocking", "finishing", "switched"}

SchedTypeOK ==
  /\ currentThread \in Threads
  /\ readyList \in Seq(Threads)
  /\ status \in [Threads -> ThreadStatus]
  /\ toBeDestroyed \in Threads \cup {NULL}
  /\ phase \in Phase

\* Kernel::Initialize: the main thread runs, the ready list is empty.
SchedInit ==
  /\ currentThread = MainThread
  /\ readyList = <<>>
  /\ status = [t \in Threads |-> IF t = MainThread THEN "RUNNING" ELSE "UNUSED"]
  /\ toBeDestroyed = NULL
  /\ phase = "run"

-----------------------------------------------------------------------------
\* Scheduler::ReadyToRun.
ReadyToRun(t) ==
  /\ status' = [status EXCEPT ![t] = "READY"]
  /\ readyList' = Append(readyList, t)

\* Scheduler::FindNextToRun, when it does not return NULL: the thread it returns.
NextThread == Head(readyList)

(***************************************************************************)
(* Scheduler::Run(nextThread, finishing), up to SWITCH.  "before" is the   *)
(* status of the threads when Run is called.  The ASSERT of line 111 is    *)
(* the invariant CarcassCollected of KernelThreads.                        *)
(***************************************************************************)
Run(nextThread, finishing, before) ==
  /\ toBeDestroyed' = IF finishing THEN currentThread ELSE toBeDestroyed
  /\ currentThread' = nextThread
  /\ status' = [before EXCEPT ![nextThread] = "RUNNING"]
  /\ phase' = "switched"

\* Thread::Thread followed by Thread::Fork, called by the executing thread.
Fork(t) ==
  /\ phase = "run"
  /\ status[t] = "UNUSED"
  /\ ReadyToRun(t)
  /\ UNCHANGED <<currentThread, toBeDestroyed, phase>>

\* Mutant of Yield: the caller is put at the front of the ready list.
YieldToFront ==
  /\ phase = "run"
  /\ readyList # <<>>
  /\ readyList' = <<currentThread>> \o Tail(readyList)
  /\ Run(NextThread, FALSE, [status EXCEPT ![currentThread] = "READY"])

(***************************************************************************)
(* Thread::Yield when another thread is ready: it is the first of the      *)
(* ready list that runs, and the caller goes to the end of it.  With an    *)
(* empty ready list Yield does nothing.                                    *)
(***************************************************************************)
Yield ==
  /\ phase = "run"
  /\ readyList # <<>>
  /\ readyList' = Append(Tail(readyList), currentThread)
  /\ Run(NextThread, FALSE, [status EXCEPT ![currentThread] = "READY"])

\* Thread::Finish: the first step of Sleep(TRUE).
Finish ==
  /\ phase = "run"
  /\ status' = [status EXCEPT ![currentThread] = "BLOCKED"]
  /\ phase' = "finishing"
  /\ UNCHANGED <<currentThread, readyList, toBeDestroyed>>

\* The Sleep loop is left: FindNextToRun returned a thread.  It may be the
\* sleeping thread itself, made ready by an interrupt while the CPU was idle.
Dispatch ==
  /\ phase \in {"blocking", "finishing"}
  /\ readyList # <<>>
  /\ readyList' = Tail(readyList)
  /\ Run(NextThread, phase = "finishing", status)

\* The CPU is idle: Sleep is calling Interrupt::Idle.
Idling == phase \in {"blocking", "finishing"} /\ readyList = <<>>

\* Mutant of CheckToBeDestroyed: toBeDestroyed is not reset.
CheckToBeDestroyedNoReset(resume) ==
  /\ phase = "switched"
  /\ status' = IF toBeDestroyed = NULL THEN status
               ELSE [status EXCEPT ![toBeDestroyed] = "UNUSED"]
  /\ phase' = resume
  /\ UNCHANGED <<currentThread, readyList, toBeDestroyed>>

(***************************************************************************)
(* Back from SWITCH (or, for a new thread, Thread::Begin): Scheduler::     *)
(* CheckToBeDestroyed deletes the thread that finished.  "resume" is where *)
(* the thread goes on.                                                     *)
(***************************************************************************)
CheckToBeDestroyed(resume) ==
  /\ phase = "switched"
  /\ status' = IF toBeDestroyed = NULL THEN status
               ELSE [status EXCEPT ![toBeDestroyed] = "UNUSED"]
  /\ toBeDestroyed' = NULL
  /\ phase' = resume
  /\ UNCHANGED <<currentThread, readyList>>
=============================================================================
