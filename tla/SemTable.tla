------------------------------ MODULE SemTable ------------------------------
(***************************************************************************)
(* The semaphores of user programs: threads/stable.cc and threads/sem.cc,  *)
(* and the system calls CreateSemaphore, Wait and Signal of                *)
(* userprog/exception.cc.  A Semaphore is that of SemaphoreSpec; a program *)
(* waits in it by the table's slot.  A call that returns -1 changes        *)
(* nothing.                                                                *)
(***************************************************************************)
EXTENDS Integers, FiniteSets

CONSTANTS
  Callers, SemNames, NoSem,
  MAX_SEMAPHORE,   \* slots of the table
  Values,          \* bound: the initial values programs ask for
  MaxValue         \* bound: a semaphore is not signalled beyond it

ASSUME SemTableAssumption ==
  /\ MAX_SEMAPHORE \in Nat /\ MaxValue \in Nat
  /\ \A i \in Values : i \in Int /\ i <= MaxValue
  /\ NoSem \notin [name : SemNames, value : Nat]

SemSlots == 0..(MAX_SEMAPHORE - 1)

VARIABLES
  bm,        \* STable::bm, the slots that are marked
  semTab,    \* STable::semTab: [name, value] or NoSem
  waiting,   \* the slot whose semaphore a caller waits for, or -1
  overrun,   \* semTab[-1] was written
  ledger     \* per name: the initial value, and the Waits and Signals that returned

semVars == <<bm, semTab, waiting, overrun, ledger>>

Sem(name, i) == [name |-> name, value |-> i]

STInit ==
  /\ bm = {}
  /\ semTab = [id \in SemSlots |-> NoSem]
  /\ waiting = [c \in Callers |-> -1]
  /\ overrun = FALSE
  /\ ledger = [n \in SemNames |-> 0]

Named(n) == {id \in SemSlots : semTab[id] # NoSem /\ semTab[id].name = n}

FindFreeSlot ==
  IF bm = SemSlots THEN -1
  ELSE CHOOSE id \in SemSlots \ bm : \A j \in SemSlots \ bm : id <= j

Refuses(n, init) == init < 0 \/ Named(n) # {}

\* STable::Create.  When the table is full FindFreeSlot's -1 is used as an
\* index: the pointer to the bitmap, which lies before semTab, is overwritten.
Create(c, n, init) ==
  /\ ~overrun /\ waiting[c] = -1
  /\ IF Refuses(n, init)
     THEN UNCHANGED <<bm, semTab, overrun, ledger>>
     ELSE LET id == FindFreeSlot
          IN  /\ overrun' = (id = -1)
              /\ bm' = IF id = -1 THEN bm ELSE bm \cup {id}
              /\ semTab' = IF id = -1 THEN semTab ELSE [semTab EXCEPT ![id] = Sem(n, init)]
              /\ ledger' = IF id = -1 THEN ledger ELSE [ledger EXCEPT ![n] = init]
  /\ UNCHANGED waiting

\* STable::Wait, up to P on the semaphore of that name.
Wait(c, n) ==
  /\ ~overrun /\ waiting[c] = -1
  /\ IF Named(n) = {}
     THEN UNCHANGED waiting
     ELSE waiting' = [waiting EXCEPT ![c] = CHOOSE id \in Named(n) : TRUE]
  /\ UNCHANGED <<bm, semTab, overrun, ledger>>

\* Mutant of WaitReturns: the value stays.
WaitReturnsFree(c) ==
  /\ ~overrun /\ waiting[c] # -1 /\ semTab[waiting[c]].value > 0
  /\ ledger' = [ledger EXCEPT ![semTab[waiting[c]].name] = @ - 1]
  /\ waiting' = [waiting EXCEPT ![c] = -1]
  /\ UNCHANGED <<bm, semTab, overrun>>

\* Sem::Wait: the P returns.
WaitReturns(c) ==
  /\ ~overrun /\ waiting[c] # -1 /\ semTab[waiting[c]].value > 0
  /\ semTab' = [semTab EXCEPT ![waiting[c]].value = @ - 1]
  /\ ledger' = [ledger EXCEPT ![semTab[waiting[c]].name] = @ - 1]
  /\ waiting' = [waiting EXCEPT ![c] = -1]
  /\ UNCHANGED <<bm, overrun>>

\* STable::Signal, and Sem::Signal.
Signal(c, n) ==
  /\ ~overrun /\ waiting[c] = -1
  /\ \A id \in Named(n) : semTab[id].value < MaxValue
  /\ IF Named(n) = {}
     THEN UNCHANGED <<semTab, ledger>>
     ELSE /\ semTab' = [semTab EXCEPT ![CHOOSE id \in Named(n) : TRUE].value = @ + 1]
          /\ ledger' = [ledger EXCEPT ![n] = @ + 1]
  /\ UNCHANGED <<bm, waiting, overrun>>

(***************************************************************************)
(* Programs that use one name share one semaphore: a name has at most one  *)
(* slot, the bitmap marks exactly the slots in use, and a semaphore's      *)
(* value is what its creator gave it, plus the Signals, less the Waits     *)
(* that have returned, by whichever program.                               *)
(***************************************************************************)
SemaphoresShared ==
  /\ \A id \in SemSlots : semTab[id] # NoSem => semTab[id].value \in 0..MaxValue
  /\ \A n \in SemNames : Cardinality(Named(n)) <= 1
  /\ bm = {id \in SemSlots : semTab[id] # NoSem}
  /\ \A id \in SemSlots : semTab[id] # NoSem => semTab[id].value = ledger[semTab[id].name]
=============================================================================
