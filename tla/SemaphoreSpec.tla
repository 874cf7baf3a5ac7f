--------------------------- MODULE SemaphoreSpec ---------------------------
(***************************************************************************)
(* What a kernel semaphore promises (threads/synch.h): P waits until the   *)
(* value is positive and decrements it, V increments it, both atomically.  *)
(* Which of the waiting threads is served is not promised: the             *)
(* implementation lets a thread that has just called P overtake one that   *)
(* V has woken.                                                            *)
(***************************************************************************)
EXTENDS Naturals

CONSTANTS Threads, Sems, NULL, InitValue

VARIABLES
  value,    \* [Sems -> Nat]
  waiting   \* the semaphore whose P a thread has called, or NULL

semvars == <<value, waiting>>

Init ==
  /\ value = InitValue
  /\ waiting = [t \in Threads |-> NULL]

RequestP(t, s) ==
  /\ waiting[t] = NULL
  /\ waiting' = [waiting EXCEPT ![t] = s]
  /\ UNCHANGED value

GrantP(t, s) ==
  /\ waiting[t] = s
  /\ value[s] > 0
  /\ value' = [value EXCEPT ![s] = @ - 1]
  /\ waiting' = [waiting EXCEPT ![t] = NULL]

DoV(s) ==
  /\ value' = [value EXCEPT ![s] = @ + 1]
  /\ UNCHANGED waiting

Next ==
  \E s \in Sems :
    \/ DoV(s)
    \/ \E t \in Threads : RequestP(t, s) \/ GrantP(t, s)

SafeSpec == Init /\ [][Next]_semvars

\* If a unit stays available and somebody stays waiting for it, it is taken.
Live == \A s \in Sems : WF_semvars(\E t \in Threads : GrantP(t, s))

Spec == SafeSpec /\ Live
=============================================================================
