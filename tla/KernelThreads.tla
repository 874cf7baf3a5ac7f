--------------------------- MODULE KernelThreads ---------------------------
(***************************************************************************)
(* Kernel threads, counting semaphores and interrupts: threads/synch.cc    *)
(* (Semaphore) and machine/interrupt.cc over the scheduler.                *)
(*                                                                         *)
(* A context switch can happen only where interrupts are re-enabled        *)
(* (Interrupt::SetLevel -> OneTick), after a user instruction, and in      *)
(* Thread::Sleep.  Every action below is the code between two such points. *)
(* Threads call the operations in any order, and a device handler may V    *)
(* one of the semaphores in DeviceSems at any tick and while the CPU is    *)
(* idle.                                                                   *)
(***************************************************************************)
EXTENDS Scheduler, FiniteSets

CONSTANTS
  Sems,        \* the Semaphore objects
  DeviceSems,  \* the ones that interrupt handlers V
  InitValue,   \* the initial value of each semaphore
  MaxValue     \* bound: a V that would exceed it is not explored

ASSUME SemsAssumption ==
  /\ DeviceSems \subseteq Sems
  /\ NULL \notin Sems
  /\ MaxValue \in Nat
  /\ InitValue \in [Sems -> 0..MaxValue]

ASSUME FiniteThreads == IsFiniteSet(Threads)

VARIABLES
  value,    \* Semaphore::value
  queue,    \* Semaphore::queue
  waiting   \* the semaphore whose P a thread is executing, or NULL

semVars == <<value, queue, waiting>>
vars == <<schedVars, semVars>>

\* Each variable has its type; a semaphore's value is never negative (synch.h:53).
TypeOK ==
  /\ SchedTypeOK
  /\ value \in [Sems -> Nat]
  /\ queue \in [Sems -> Seq(Threads)]
  /\ waiting \in [Threads -> Sems \cup {NULL}]

Init ==
  /\ SchedInit
  /\ value = InitValue
  /\ queue = [s \in Sems |-> <<>>]
  /\ waiting = [t \in Threads |-> NULL]

-----------------------------------------------------------------------------
\* Semaphore::P is called: interrupts go off.
PCall(s) ==
  /\ phase = "run"
  /\ waiting' = [waiting EXCEPT ![currentThread] = s]
  /\ phase' = "inP"
  /\ UNCHANGED <<currentThread, readyList, status, toBeDestroyed, value, queue>>

\* Mutant of PSleep: value is not tested again with interrupts off.
PSleepStaleTest ==
  LET s == waiting[currentThread] IN
  /\ phase = "inP"
  /\ queue' = [queue EXCEPT ![s] = Append(@, currentThread)]
  /\ status' = [status EXCEPT ![currentThread] = "BLOCKED"]
  /\ phase' = "blocking"
  /\ UNCHANGED <<currentThread, readyList, toBeDestroyed, value, waiting>>

\* Mutant of PSleep: the thread sleeps without queueing itself.
PSleepUnqueued ==
  /\ phase = "inP"
  /\ value[waiting[currentThread]] = 0
  /\ status' = [status EXCEPT ![currentThread] = "BLOCKED"]
  /\ phase' = "blocking"
  /\ UNCHANGED <<currentThread, readyList, toBeDestroyed, value, queue, waiting>>

\* Mutant of PSleep: Prepend for Append.
PSleepPrepend ==
  LET s == waiting[currentThread] IN
  /\ phase = "inP"
  /\ value[s] = 0
  /\ queue' = [queue EXCEPT ![s] = <<currentThread>> \o @]
  /\ status' = [status EXCEPT ![currentThread] = "BLOCKED"]
  /\ phase' = "blocking"
  /\ UNCHANGED <<currentThread, readyList, toBeDestroyed, value, waiting>>

\* The loop's body: value is 0, so the thread queues itself and sleeps.
PSleep ==
  LET s == waiting[currentThread] IN
  /\ phase = "inP"
  /\ value[s] = 0
  /\ queue' = [queue EXCEPT ![s] = Append(@, currentThread)]
  /\ status' = [status EXCEPT ![currentThread] = "BLOCKED"]
  /\ phase' = "blocking"
  /\ UNCHANGED <<currentThread, readyList, toBeDestroyed, value, waiting>>

\* Mutant of PTake: "if" for "while", a woken thread does not test value again.
PTakeUntested ==
  /\ phase = "inP"
  /\ value' = [value EXCEPT ![waiting[currentThread]] = @ - 1]
  /\ waiting' = [waiting EXCEPT ![currentThread] = NULL]
  /\ phase' = "run"
  /\ UNCHANGED <<currentThread, readyList, status, toBeDestroyed, queue>>

\* The loop is left: value-- and interrupts go on again.
PTake ==
  LET s == waiting[currentThread] IN
  /\ phase = "inP"
  /\ value[s] # 0
  /\ value' = [value EXCEPT ![s] = @ - 1]
  /\ waiting' = [waiting EXCEPT ![currentThread] = NULL]
  /\ phase' = "run"
  /\ UNCHANGED <<currentThread, readyList, status, toBeDestroyed, queue>>

\* Mutant of VBody: a waiter is woken only when value was 0.
VBodyWakeIfZero(s) ==
  /\ value[s] < MaxValue
  /\ value' = [value EXCEPT ![s] = @ + 1]
  /\ IF queue[s] # <<>> /\ value[s] = 0
     THEN /\ ReadyToRun(Head(queue[s]))
          /\ queue' = [queue EXCEPT ![s] = Tail(@)]
     ELSE UNCHANGED <<readyList, status, queue>>
  /\ UNCHANGED <<currentThread, toBeDestroyed, phase, waiting>>

\* Mutant of VBody: Front for RemoveFront.
VBodyKeepFront(s) ==
  /\ value[s] < MaxValue
  /\ value' = [value EXCEPT ![s] = @ + 1]
  /\ IF queue[s] # <<>> THEN ReadyToRun(Head(queue[s])) ELSE UNCHANGED <<readyList, status>>
  /\ UNCHANGED <<currentThread, toBeDestroyed, phase, waiting, queue>>

\* The body of Semaphore::V.
VBody(s) ==
  /\ value[s] < MaxValue
  /\ value' = [value EXCEPT ![s] = @ + 1]
  /\ IF queue[s] # <<>>
     THEN /\ ReadyToRun(Head(queue[s]))
          /\ queue' = [queue EXCEPT ![s] = Tail(@)]
     ELSE UNCHANGED <<readyList, status, queue>>
  /\ UNCHANGED <<currentThread, toBeDestroyed, phase, waiting>>

\* Semaphore::V called by the executing thread.
V(s) == phase = "run" /\ VBody(s)

(***************************************************************************)
(* A device's interrupt handler runs: CheckIfDue calls it from OneTick, or *)
(* from Idle when no thread is ready.  The handlers of the console, disk   *)
(* and network V a semaphore.  Several handlers due at one tick are        *)
(* several steps; a V and the timer's YieldOnReturn commute.               *)
(***************************************************************************)
DeviceInterrupt(s) == (phase = "run" \/ Idling) /\ VBody(s)

(***************************************************************************)
(* The timer goes off at a tick (Alarm::CallBack, YieldOnReturn) and       *)
(* OneTick yields.                                                         *)
(***************************************************************************)
TimerInterrupt == Yield /\ UNCHANGED semVars

\* The timer goes off in IdleMode, where Alarm::CallBack does not ask for a
\* context switch.  Idle returns and Sleep calls it again.
IdleTimer == Idling /\ UNCHANGED vars

ForkThread(t) == Fork(t) /\ UNCHANGED semVars
FinishThread == Finish /\ UNCHANGED semVars
DispatchNext == Dispatch /\ UNCHANGED semVars

\* Back from SWITCH: either in P's while loop, which tests value again, or in
\* Yield or Begin, which enable interrupts.
AfterSwitch ==
  /\ CheckToBeDestroyed(IF waiting[currentThread] # NULL THEN "inP" ELSE "run")
  /\ UNCHANGED semVars

Next ==
  \/ \E s \in Sems : PCall(s) \/ V(s)
  \/ \E s \in DeviceSems : DeviceInterrupt(s)
  \/ \E t \in Threads : ForkThread(t)
  \/ PSleep
  \/ PTake
  \/ TimerInterrupt
  \/ IdleTimer
  \/ FinishThread
  \/ DispatchNext
  \/ AfterSwitch

Spec == Init /\ [][Next]_vars

(***************************************************************************)
(* Fairness.  The steps taken with interrupts off cannot be delayed by     *)
(* anyone.  The timer reschedules itself (Timer::CallBack), so it goes off *)
(* again and again while threads run: strong fairness, because a thread    *)
(* that sleeps in between disables it.  Nothing is assumed of what threads *)
(* call, nor of the devices.                                               *)
(***************************************************************************)
Fairness ==
  /\ WF_vars(PSleep \/ PTake \/ DispatchNext \/ AfterSwitch)
  /\ SF_vars(TimerInterrupt)

FairSpec == Spec /\ Fairness
-----------------------------------------------------------------------------
InSeq(e, s) == \E i \in 1..Len(s) : s[i] = e
NoDuplicates(s) == \A i, j \in 1..Len(s) : s[i] = s[j] => i = j

(***************************************************************************)
(* A thread is READY exactly when it is on the ready list, on which it     *)
(* occurs once: no V, Fork or Yield puts a thread there twice, and none    *)
(* forgets one (Scheduler::ReadyToRun, FindNextToRun).                     *)
(***************************************************************************)
ReadyListExact ==
  /\ NoDuplicates(readyList)
  /\ \A t \in Threads : status[t] = "READY" <=> InSeq(t, readyList)

(***************************************************************************)
(* At most one thread is RUNNING, it is currentThread, and it is RUNNING   *)
(* whenever it executes outside Sleep (the ASSERT(this == currentThread)   *)
(* of Begin, Finish, Yield and Sleep).                                     *)
(***************************************************************************)
OneRunning ==
  \A t \in Threads : status[t] = "RUNNING" <=>
     t = currentThread /\ phase \in {"run", "inP", "switched"}

(***************************************************************************)
(* A thread waits in the queue of s exactly when it is BLOCKED in s.P(),   *)
(* once, and in no other queue (Semaphore::P and V).                       *)
(***************************************************************************)
QueuesExact ==
  \A s \in Sems :
    /\ NoDuplicates(queue[s])
    /\ \A t \in Threads :
         InSeq(t, queue[s]) <=> status[t] = "BLOCKED" /\ waiting[t] = s

\* The three together: the lists the kernel keeps its threads on are exact.
ListsExact == ReadyListExact /\ OneRunning /\ QueuesExact

\* The thread that is never resumed: it is finishing or finished.
Dying(t) == (t = currentThread /\ phase = "finishing") \/ t = toBeDestroyed

(***************************************************************************)
(* A BLOCKED thread is in the P of some semaphore, or it is finishing; and *)
(* a thread that does not exist any more is in no P.  So no thread is ever *)
(* suspended where no V and no carcass collector can find it.              *)
(***************************************************************************)
NobodyLost ==
  \A t \in Threads :
    /\ status[t] = "BLOCKED" <=>
          Dying(t) \/ (waiting[t] # NULL /\ InSeq(t, queue[waiting[t]]))
    /\ waiting[t] # NULL => status[t] # "UNUSED" /\ ~Dying(t)

(***************************************************************************)
(* When a thread is deleted, or another one finishes, at most one carcass  *)
(* is pending, it is not the executing thread, and it is collected before  *)
(* the executing thread does anything else: ASSERT(toBeDestroyed == NULL)  *)
(* of Scheduler::Run and ASSERT(this != currentThread) of ~Thread.         *)
(***************************************************************************)
CarcassCollected ==
  toBeDestroyed # NULL => phase = "switched" /\ toBeDestroyed # currentThread

\* The threads in s.P() that have been taken off the queue (or that have not
\* queued themselves yet) and are going to test value.
Woken(s) == {t \in Threads : waiting[t] = s /\ ~InSeq(t, queue[s])}

(***************************************************************************)
(* No wakeup is lost: while threads wait in the queue of s, every unit of  *)
(* value has a thread that is already on its way to take it.  Otherwise a  *)
(* thread would sleep beside a free semaphore.  A thread that barges in    *)
(* takes a unit before the woken one, which then sleeps again.             *)
(***************************************************************************)
NoLostWakeup ==
  \A s \in Sems : queue[s] # <<>> => value[s] <= Cardinality(Woken(s))

\* A step changes a thread's position among the ones already waiting in a
\* queue only by removing the first: V wakes threads in the order in which
\* they last went to sleep (Semaphore::V, List::RemoveFront).
WakeInOrder ==
  [][\A s \in Sems : \/ queue'[s] = queue[s]
                     \/ \E t \in Threads : queue'[s] = Append(queue[s], t)
                     \/ queue[s] # <<>> /\ queue'[s] = Tail(queue[s])]_vars

(***************************************************************************)
(* A ready thread is given the CPU, because the timer keeps going off and  *)
(* the ready list is a FIFO (Yield, FindNextToRun).                        *)
(***************************************************************************)
ReadyRuns ==
  \A t \in Threads : status[t] = "READY" ~> status[t] = "RUNNING"

-----------------------------------------------------------------------------
\* The counting semaphore that the rest of the kernel relies on.
Abstract == INSTANCE SemaphoreSpec

(***************************************************************************)
(* Semaphore::P and V over the scheduler implement the counting semaphores *)
(* of SemaphoreSpec, its liveness included: a free unit that somebody      *)
(* waits for is taken.                                                     *)
(***************************************************************************)
ImplementsSemaphores == Abstract!Spec

\* The same without liveness.
ImplementsSafety == Abstract!SafeSpec
=============================================================================
