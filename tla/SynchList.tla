----------------------------- MODULE SynchList -----------------------------
(***************************************************************************)
(* Lock and Condition of threads/synch.cc, and the monitor built from them *)
(* in threads/synchlist.cc.  The semaphores are those of SemaphoreSpec: at *)
(* a location "...P" a thread has called P.  The list is the one of        *)
(* LinkedList, which may only be changed by one thread at a time.          *)
(*                                                                         *)
(* Locations:                                                              *)
(*   "idle"     not in a call                                              *)
(*   "appP"     Append, in Acquire          "appBody"  P has returned      *)
(*   "appRel"   about to Release                                           *)
(*   "applyP"   Apply, in Acquire           "applyBody" P has returned     *)
(*   "remP"     RemoveFront, in Acquire     "remBody"  P has returned      *)
(*   "condP"    in Wait, in waiter->P                                      *)
(*   "reP"      in Wait, in Acquire         "reBody"   P has returned      *)
(* A thread may be preempted between P and the assignment to lockHolder.   *)
(***************************************************************************)
EXTENDS Naturals, Sequences, FiniteSets

CONSTANTS
  Threads, NULL,
  Items    \* what is put on the list; an item is on it once at most

ASSUME SynchListAssumption ==
  /\ NULL \notin Threads /\ NULL \notin Items
  /\ IsFiniteSet(Threads) /\ IsFiniteSet(Items)

VARIABLES
  lockSem,     \* the value of Lock::semaphore
  lockHolder,  \* Lock::lockHolder
  waitQueue,   \* Condition::waitQueue; a waiter's semaphore is named by its thread
  waiterSem,   \* the value of a waiter's semaphore, or NULL when it does not exist
  list,        \* SynchList::list
  item,        \* the item a thread appends, or the one it got last
  pc

L == INSTANCE LinkedList

lockVars == <<lockSem, lockHolder>>
condVars == <<waitQueue, waiterSem>>
vars == <<lockVars, condVars, list, item, pc>>

Location == {"idle", "appP", "appBody", "appRel", "applyP", "applyBody",
             "remP", "remBody", "condP", "reP", "reBody"}

\* Each variable has its type; the lock's semaphore is binary.
TypeOK ==
  /\ lockSem \in {0, 1}
  /\ lockHolder \in Threads \cup {NULL}
  /\ waitQueue \in Seq(Threads)
  /\ waiterSem \in [Threads -> {0, 1, NULL}]
  /\ list \in L!List
  /\ item \in [Threads -> Items \cup {NULL}]
  /\ pc \in [Threads -> Location]

LockInit == lockSem = 1 /\ lockHolder = NULL
ConditionInit == waitQueue = <<>> /\ waiterSem = [t \in Threads |-> NULL]

Init ==
  /\ LockInit /\ ConditionInit
  /\ list = L!EmptyList
  /\ item = [t \in Threads |-> NULL]
  /\ pc = [t \in Threads |-> "idle"]

Goto(t, loc) == pc' = [pc EXCEPT ![t] = loc]
-----------------------------------------------------------------------------
(* Lock and Condition.                                                     *)

\* Lock::Release: the holder is cleared, then V.  Its ASSERT is LockExclusive.
Release ==
  /\ lockHolder' = NULL
  /\ lockSem' = lockSem + 1

\* The P of Lock::Acquire returns.
Acquire(t) ==
  /\ pc[t] \in {"appP", "applyP", "remP", "reP"}
  /\ lockSem > 0
  /\ lockSem' = lockSem - 1
  /\ pc' = [pc EXCEPT ![t] = CASE @ = "appP" -> "appBody"
                               [] @ = "applyP" -> "applyBody"
                               [] @ = "remP" -> "remBody"
                               [] @ = "reP"  -> "reBody"]
  /\ UNCHANGED <<lockHolder, waitQueue, waiterSem, list, item>>

\* Mutant of Signal: nobody is woken.
SignalNobody == UNCHANGED <<waitQueue, waiterSem>>

\* Condition::Signal.
Signal ==
  IF waitQueue # <<>>
  THEN /\ waiterSem' = [waiterSem EXCEPT ![Head(waitQueue)] = @ + 1]
       /\ waitQueue' = Tail(waitQueue)
  ELSE UNCHANGED <<waitQueue, waiterSem>>

\* Condition::Wait, up to waiter->P(): new semaphore, enqueued, Release.
Wait(t) ==
  /\ waiterSem' = [waiterSem EXCEPT ![t] = 0]
  /\ waitQueue' = Append(waitQueue, t)
  /\ Release
  /\ Goto(t, "condP")

\* waiter->P() returns, and Acquire is called.
WaitSignalled(t) ==
  /\ pc[t] = "condP"
  /\ waiterSem[t] > 0
  /\ waiterSem' = [waiterSem EXCEPT ![t] = @ - 1]
  /\ Goto(t, "reP")
  /\ UNCHANGED <<lockSem, lockHolder, waitQueue, list, item>>

-----------------------------------------------------------------------------
(* SynchList.                                                              *)

\* List::Append ASSERTs that the item is not on the list: nobody appends one
\* that is there, or that another thread is about to put there.
AppendCall(t, x) ==
  /\ pc[t] = "idle"
  /\ ~L!IsInList(list, x)
  /\ \A u \in Threads : pc[u] \in {"appP", "appBody"} => item[u] # x
  /\ item' = [item EXCEPT ![t] = x]
  /\ Goto(t, "appP")
  /\ UNCHANGED <<lockSem, lockHolder, waitQueue, waiterSem, list>>

\* The lock is held: the item goes on the list and one waiter is signalled.
AppendBody(t) ==
  /\ pc[t] = "appBody"
  /\ lockHolder' = t
  /\ list' = L!AppendItem(list, item[t])
  /\ Signal
  /\ Goto(t, "appRel")
  /\ UNCHANGED <<lockSem, item>>

\* Mutant of AppendReturn: the lock is not released.
AppendReturnHolding(t) ==
  /\ pc[t] = "appRel"
  /\ Goto(t, "idle")
  /\ UNCHANGED <<lockSem, lockHolder, waitQueue, waiterSem, list, item>>

AppendReturn(t) ==
  /\ pc[t] = "appRel"
  /\ Release
  /\ Goto(t, "idle")
  /\ UNCHANGED <<waitQueue, waiterSem, list, item>>

ApplyCall(t) ==
  /\ pc[t] = "idle"
  /\ Goto(t, "applyP")
  /\ UNCHANGED <<lockSem, lockHolder, waitQueue, waiterSem, list, item>>

\* The function is applied to the items, and the lock is released.
ApplyBody(t) ==
  /\ pc[t] = "applyBody"
  /\ Release
  /\ Goto(t, "idle")
  /\ UNCHANGED <<waitQueue, waiterSem, list, item>>

RemoveCall(t) ==
  /\ pc[t] = "idle"
  /\ Goto(t, "remP")
  /\ UNCHANGED <<lockSem, lockHolder, waitQueue, waiterSem, list, item>>

\* RemoveFront with the lock just acquired, before or after a Wait, and an
\* empty list: (the old waiter is deleted and) it waits.
RemoveWait(t) ==
  /\ pc[t] \in {"remBody", "reBody"}
  /\ L!IsEmpty(list)
  /\ Wait(t)
  /\ UNCHANGED <<list, item>>

\* Mutant of RemoveTake: "if" for "while", the list is not tested again.
RemoveTakeUntested(t) ==
  /\ pc[t] \in {"remBody", "reBody"}
  /\ pc[t] = "reBody" \/ ~L!IsEmpty(list)
  /\ item' = [item EXCEPT ![t] = list.first]
  /\ list' = IF L!IsEmpty(list) THEN list ELSE L!RemoveFront(list)
  /\ waiterSem' = [waiterSem EXCEPT ![t] = NULL]
  /\ Release
  /\ Goto(t, "idle")
  /\ UNCHANGED waitQueue

\* The same with an item on the list: it is taken, and the lock released.
RemoveTake(t) ==
  /\ pc[t] \in {"remBody", "reBody"}
  /\ ~L!IsEmpty(list)
  /\ item' = [item EXCEPT ![t] = list.first]
  /\ list' = L!RemoveFront(list)
  /\ waiterSem' = [waiterSem EXCEPT ![t] = NULL]
  /\ Release
  /\ Goto(t, "idle")
  /\ UNCHANGED waitQueue

\* A thread inside a call goes on.
Inside(t) ==
  \/ AppendBody(t) \/ AppendReturn(t) \/ ApplyBody(t)
  \/ RemoveWait(t) \/ RemoveTake(t) \/ WaitSignalled(t)

Next ==
  \E t \in Threads :
    \/ \E x \in Items : AppendCall(t, x)
    \/ RemoveCall(t) \/ ApplyCall(t) \/ Acquire(t) \/ Inside(t)

Spec == Init /\ [][Next]_vars

(***************************************************************************)
(* A thread that can go on does (KernelThreads!ReadyRuns), and a free lock *)
(* is taken by somebody who waits for it (SemaphoreSpec!Live), who need    *)
(* not be the one that has waited longest.  Nobody has to call anything.   *)
(***************************************************************************)
FairSpec ==
  /\ Spec
  /\ WF_vars(\E t \in Threads : Acquire(t))
  /\ \A t \in Threads : WF_vars(Inside(t))
-----------------------------------------------------------------------------
\* The threads between the return of Acquire's P and Release.
Inner == {t \in Threads : pc[t] \in {"appBody", "appRel", "applyBody", "remBody", "reBody"}}

(***************************************************************************)
(* The lock is exclusive, and it is held by the thread it says: the        *)
(* semaphore counts the threads inside, and lockHolder is NULL or is the   *)
(* one inside, in particular when that thread calls Signal, Wait or        *)
(* Release (ASSERT(IsHeldByCurrentThread())).  So the list is never seen   *)
(* half changed: it passes List::SanityCheck in every state, and Append is *)
(* never given an item that is on it.                                      *)
(***************************************************************************)
LockExclusive ==
  /\ TypeOK
  /\ Cardinality(Inner) + lockSem = 1
  /\ lockHolder # NULL <=> \E t \in Threads : pc[t] = "appRel"
  /\ \A t \in Threads : pc[t] = "appRel" => lockHolder = t
  /\ L!SanityCheck(list)
  /\ \A t \in Threads : pc[t] \in {"appP", "appBody"} => ~L!IsInList(list, item[t])

\* The threads that Signal has chosen and that have not yet looked at the list.
Signalled == {t \in Threads : \/ pc[t] = "condP" /\ waiterSem[t] = 1
                              \/ pc[t] \in {"reP", "reBody"}}

(***************************************************************************)
(* A thread is in waitQueue, once, exactly when it is in Wait and has not  *)
(* been signalled; so Signal never V's a semaphore that was deleted.       *)
(***************************************************************************)
WaitersQueued ==
  /\ \A i, j \in 1..Len(waitQueue) : waitQueue[i] = waitQueue[j] => i = j
  /\ {waitQueue[i] : i \in 1..Len(waitQueue)} =
       {t \in Threads : pc[t] = "condP" /\ waiterSem[t] = 0}

(***************************************************************************)
(* "There is no chance the waiter will miss the signal, even though the    *)
(* lock is released before calling P()" (synch.cc, Condition::Wait): while *)
(* threads wait, every item on the list has a signalled thread coming for  *)
(* it, though another thread may be quicker; and the queue holds just the  *)
(* threads that are still to be signalled (WaitersQueued).                 *)
(***************************************************************************)
NoMissedSignal ==
  /\ WaitersQueued
  /\ waitQueue # <<>> => list.numInList <= Cardinality(Signalled)

\* The call a location belongs to, up to the step that takes effect.
Op(loc) == CASE loc \in {"idle", "appRel"} -> "idle"
             [] loc \in {"appP", "appBody"} -> "append"
             [] loc \in {"applyP", "applyBody"} -> "apply"
             [] OTHER -> "remove"

Fifo == INSTANCE FifoQueue WITH items <- L!Apply(list), op <- [t \in Threads |-> Op(pc[t])]

(***************************************************************************)
(* Append, RemoveFront and Apply behave as atomic operations on a FIFO     *)
(* queue, and when a call can be served one is.                            *)
(***************************************************************************)
ImplementsQueue == Fifo!Spec
=============================================================================
