------------------------ MODULE KernelThreads_proofs ------------------------
(***************************************************************************)
(* Proofs about KernelThreads, for any finite set of threads and any set   *)
(* of semaphores: the scheduler's lists agree with the threads' states, no *)
(* wakeup is lost, and the implementation is a counting semaphore.         *)
(***************************************************************************)
EXTENDS KernelThreads, FiniteSetTheorems, TLAPS

-----------------------------------------------------------------------------
(* Lists.                                                                  *)

\* What Append does to the elements of a list.
LEMMA AppendFacts ==
  ASSUME NEW S, NEW s \in Seq(S), NEW e \in S
  PROVE  /\ Append(s, e) \in Seq(S)
         /\ Append(s, e) # <<>>
         /\ \A x : InSeq(x, Append(s, e)) <=> InSeq(x, s) \/ x = e
         /\ NoDuplicates(s) /\ ~InSeq(e, s) => NoDuplicates(Append(s, e))
  BY DEF InSeq, NoDuplicates

\* What RemoveFront does to the elements of a list without duplicates.
LEMMA TailFacts ==
  ASSUME NEW S, NEW s \in Seq(S), s # <<>>, NoDuplicates(s)
  PROVE  /\ Tail(s) \in Seq(S)
         /\ Head(s) \in S
         /\ InSeq(Head(s), s)
         /\ \A x : InSeq(x, Tail(s)) <=> InSeq(x, s) /\ x # Head(s)
         /\ NoDuplicates(Tail(s))
<1>1. /\ Len(s) \in Nat /\ Len(s) > 0
      /\ Head(s) = s[1]
      /\ Tail(s) \in Seq(S)
      /\ Len(Tail(s)) = Len(s) - 1
      /\ \A i \in 1..(Len(s) - 1) : Tail(s)[i] = s[i + 1]
  OBVIOUS
<1>2. InSeq(Head(s), s) /\ Head(s) \in S
  BY <1>1 DEF InSeq
<1>3. NoDuplicates(Tail(s))
  BY <1>1 DEF NoDuplicates
<1>4. ASSUME NEW x, InSeq(x, Tail(s)) PROVE InSeq(x, s) /\ x # Head(s)
  <2>1. PICK i \in 1..(Len(s) - 1) : Tail(s)[i] = x
    BY <1>1, <1>4 DEF InSeq
  <2>2. i + 1 \in 1..Len(s) /\ s[i + 1] = x /\ i + 1 # 1
    BY <1>1, <2>1
  <2> QED
    BY <1>1, <2>2 DEF InSeq, NoDuplicates
<1>5. ASSUME NEW x, InSeq(x, s), x # Head(s) PROVE InSeq(x, Tail(s))
  <2>1. PICK i \in 1..Len(s) : s[i] = x
    BY <1>5 DEF InSeq
  <2>2. i - 1 \in 1..(Len(s) - 1) /\ Tail(s)[i - 1] = x
    BY <1>1, <1>5, <2>1
  <2> QED
    BY <1>1, <2>2 DEF InSeq
<1> QED
  BY <1>1, <1>2, <1>3, <1>4, <1>5

\* The empty list has no elements.
LEMMA EmptyFacts ==
  /\ NoDuplicates(<<>>)
  /\ \A x : ~InSeq(x, <<>>)
  BY DEF InSeq, NoDuplicates

-----------------------------------------------------------------------------
(* The inductive invariant.                                                *)

\* Where the executing thread may be inside a P.
CurrentInP ==
  /\ phase = "run" => waiting[currentThread] = NULL
  /\ phase \in {"inP", "blocking"} => waiting[currentThread] # NULL

SchedInv ==
  /\ TypeOK
  /\ ReadyListExact
  /\ OneRunning
  /\ QueuesExact
  /\ NobodyLost
  /\ CarcassCollected
  /\ CurrentInP

IInv == SchedInv /\ NoLostWakeup

\* The initial state satisfies the invariant.
LEMMA InitInv == Init => IInv
<1> SUFFICES ASSUME Init PROVE IInv
  OBVIOUS
<1> USE ThreadsAssumption, SemsAssumption, EmptyFacts
<1>1. TypeOK
  BY DEF Init, SchedInit, TypeOK, SchedTypeOK, ThreadStatus, Phase
<1>2. ReadyListExact /\ OneRunning /\ CarcassCollected /\ CurrentInP
  BY DEF Init, SchedInit, ReadyListExact, OneRunning, CarcassCollected, CurrentInP
<1>3. QueuesExact /\ NobodyLost
  BY DEF Init, SchedInit, QueuesExact, NobodyLost, Dying
<1>4. NoLostWakeup
  BY DEF Init, NoLostWakeup
<1> QED
  BY <1>1, <1>2, <1>3, <1>4 DEF IInv, SchedInv
-----------------------------------------------------------------------------
(* One lemma per action: it preserves SchedInv.                            *)

\* Semaphore::P's entry.
LEMMA PCallInv ==
  ASSUME SchedInv, NEW s \in Sems, PCall(s)
  PROVE  SchedInv'
<1> USE SchedInv, PCall(s), ThreadsAssumption, SemsAssumption DEF SchedInv, PCall
<1>1. TypeOK'
  BY DEF TypeOK, SchedTypeOK, Phase
<1>2. ReadyListExact' /\ OneRunning'
  BY DEF ReadyListExact, OneRunning
<1>3. status[currentThread] = "RUNNING"
  BY DEF OneRunning, TypeOK, SchedTypeOK
<1>4. QueuesExact'
  BY <1>3 DEF QueuesExact, TypeOK, SchedTypeOK
<1>5. NobodyLost'
  BY <1>3 DEF NobodyLost, Dying, QueuesExact, TypeOK, SchedTypeOK, CarcassCollected
<1>6. CarcassCollected' /\ CurrentInP'
  BY DEF CarcassCollected, CurrentInP, TypeOK, SchedTypeOK
<1> QED
  BY <1>1, <1>2, <1>4, <1>5, <1>6

\* The loop's body of Semaphore::P.
LEMMA PSleepInv ==
  ASSUME SchedInv, PSleep
  PROVE  SchedInv'
<1> USE SchedInv, PSleep, ThreadsAssumption, SemsAssumption DEF SchedInv, PSleep
<1> DEFINE s == waiting[currentThread]
<1>1. s \in Sems /\ currentThread \in Threads /\ status[currentThread] = "RUNNING"
      /\ queue[s] \in Seq(Threads)
  BY DEF CurrentInP, TypeOK, SchedTypeOK, OneRunning
<1>2. ~InSeq(currentThread, queue[s]) /\ NoDuplicates(queue[s])
  BY <1>1 DEF QueuesExact
<1>3. /\ queue'[s] \in Seq(Threads)
      /\ \A x : InSeq(x, queue'[s]) <=> InSeq(x, queue[s]) \/ x = currentThread
      /\ NoDuplicates(queue'[s])
      /\ \A r \in Sems : r # s => queue'[r] = queue[r]
  BY <1>1, <1>2, AppendFacts DEF TypeOK
<1>4. TypeOK'
  BY <1>1, <1>3 DEF TypeOK, SchedTypeOK, Phase, ThreadStatus
<1>5. ReadyListExact' /\ OneRunning'
  BY <1>1, <1>4 DEF ReadyListExact, OneRunning, TypeOK, SchedTypeOK
<1>6. QueuesExact'
  BY <1>1, <1>3, <1>4 DEF QueuesExact, TypeOK, SchedTypeOK
<1>7. NobodyLost'
  BY <1>1, <1>3, <1>4 DEF NobodyLost, Dying, TypeOK, SchedTypeOK, CarcassCollected
<1>8. CarcassCollected' /\ CurrentInP'
  BY DEF CarcassCollected, CurrentInP
<1> QED
  BY <1>4, <1>5, <1>6, <1>7, <1>8

\* The end of Semaphore::P.
LEMMA PTakeInv ==
  ASSUME SchedInv, PTake
  PROVE  SchedInv'
<1> USE SchedInv, PTake, ThreadsAssumption, SemsAssumption DEF SchedInv, PTake
<1>1. waiting[currentThread] \in Sems /\ currentThread \in Threads
      /\ status[currentThread] = "RUNNING"
  BY DEF CurrentInP, TypeOK, SchedTypeOK, OneRunning
<1>2. TypeOK'
  BY <1>1 DEF TypeOK, SchedTypeOK, Phase
<1>3. ReadyListExact' /\ OneRunning'
  BY <1>1 DEF ReadyListExact, OneRunning
<1>4. QueuesExact'
  BY <1>1, <1>2 DEF QueuesExact, TypeOK, SchedTypeOK
<1>5. NobodyLost'
  BY <1>1, <1>2 DEF NobodyLost, Dying, QueuesExact, TypeOK, SchedTypeOK, CarcassCollected
<1>6. CarcassCollected' /\ CurrentInP'
  BY <1>1 DEF CarcassCollected, CurrentInP, TypeOK, SchedTypeOK
<1> QED
  BY <1>2, <1>3, <1>4, <1>5, <1>6

\* Semaphore::V, from a thread or from an interrupt handler.
LEMMA VBodyInv ==
  ASSUME SchedInv, NEW s \in Sems, VBody(s), phase = "run" \/ Idling
  PROVE  SchedInv'
<1> USE SchedInv, ThreadsAssumption, SemsAssumption DEF SchedInv
<1>1. /\ value' \in [Sems -> Nat]
      /\ UNCHANGED <<currentThread, toBeDestroyed, phase, waiting>>
      /\ phase # "switched" /\ toBeDestroyed = NULL
  BY DEF VBody, TypeOK, Idling, CarcassCollected
<1>2. CASE queue[s] = <<>>
  <2>1. UNCHANGED <<readyList, status, queue>>
    BY <1>2 DEF VBody
  <2>2. TypeOK' /\ ReadyListExact' /\ OneRunning'
    BY <1>1, <2>1 DEF TypeOK, SchedTypeOK, ReadyListExact, OneRunning
  <2>3. QueuesExact' /\ NobodyLost' /\ CarcassCollected' /\ CurrentInP'
    BY <1>1, <2>1 DEF QueuesExact, NobodyLost, Dying, CarcassCollected, CurrentInP
  <2> QED
    BY <2>2, <2>3
<1>3. CASE queue[s] # <<>>
  <2>1. queue[s] \in Seq(Threads) /\ NoDuplicates(queue[s]) /\ readyList \in Seq(Threads)
    BY DEF TypeOK, SchedTypeOK, QueuesExact
  <2>2. PICK h \in Threads :
        /\ h = Head(queue[s])
        /\ InSeq(h, queue[s])
        /\ Tail(queue[s]) \in Seq(Threads)
        /\ NoDuplicates(Tail(queue[s]))
        /\ \A x : InSeq(x, Tail(queue[s])) <=> InSeq(x, queue[s]) /\ x # h
    BY <1>3, <2>1, TailFacts
  <2>3. status[h] = "BLOCKED" /\ waiting[h] = s /\ ~InSeq(h, readyList)
    BY <2>2 DEF QueuesExact, ReadyListExact
  <2>4. /\ readyList' = Append(readyList, h)
        /\ status' = [status EXCEPT ![h] = "READY"]
        /\ queue' = [queue EXCEPT ![s] = Tail(queue[s])]
    BY <1>3, <2>2 DEF VBody, ReadyToRun
  <2>5. /\ readyList' \in Seq(Threads)
        /\ NoDuplicates(readyList')
        /\ \A x : InSeq(x, readyList') <=> InSeq(x, readyList) \/ x = h
    BY <2>1, <2>2, <2>3, <2>4, AppendFacts DEF ReadyListExact
  <2>6. /\ queue'[s] = Tail(queue[s])
        /\ \A r \in Sems : r # s => queue'[r] = queue[r]
        /\ queue' \in [Sems -> Seq(Threads)]
    BY <2>2, <2>4 DEF TypeOK
  <2>7. /\ NoDuplicates(queue'[s])
        /\ \A x : InSeq(x, queue'[s]) <=> InSeq(x, queue[s]) /\ x # h
        /\ \A r \in Sems : r # s => queue'[r] = queue[r]
    BY <2>2, <2>6
  <2>8. /\ status' \in [Threads -> ThreadStatus]
        /\ status'[h] = "READY"
        /\ \A t \in Threads : t # h => status'[t] = status[t]
    BY <2>4 DEF TypeOK, SchedTypeOK, ThreadStatus
  <2>9. TypeOK'
    BY <1>1, <2>5, <2>6, <2>8 DEF TypeOK, SchedTypeOK
  <2>10. ReadyListExact'
    BY <2>5, <2>8 DEF ReadyListExact
  <2>11. OneRunning'
    BY <1>1, <2>3, <2>8 DEF OneRunning
  <2>12. QueuesExact'
    BY <1>1, <2>3, <2>7, <2>8 DEF QueuesExact
  <2>13. NobodyLost'
    <3>1. ~Dying(h)
      BY <2>3 DEF NobodyLost
    <3> QED
      BY <1>1, <2>3, <2>7, <2>8, <3>1, ZenonT(60) DEF NobodyLost, Dying, TypeOK
  <2>14. CarcassCollected' /\ CurrentInP'
    BY <1>1 DEF CarcassCollected, CurrentInP
  <2> QED
    BY <2>9, <2>10, <2>11, <2>12, <2>13, <2>14
<1> QED
  BY <1>2, <1>3

\* Thread::Fork.
LEMMA ForkInv ==
  ASSUME SchedInv, NEW t \in Threads, ForkThread(t)
  PROVE  SchedInv'
<1> USE SchedInv, ThreadsAssumption, SemsAssumption DEF SchedInv
<1>1. /\ status[t] = "UNUSED"
      /\ status' = [status EXCEPT ![t] = "READY"]
      /\ readyList' = Append(readyList, t)
      /\ phase = "run"
      /\ UNCHANGED <<currentThread, toBeDestroyed, phase, value, queue, waiting>>
  BY DEF ForkThread, Fork, ReadyToRun, semVars
<1>2. ~InSeq(t, readyList) /\ toBeDestroyed = NULL
  BY <1>1 DEF ReadyListExact, CarcassCollected
<1>3. /\ readyList' \in Seq(Threads)
      /\ NoDuplicates(readyList')
      /\ \A x : InSeq(x, readyList') <=> InSeq(x, readyList) \/ x = t
  BY <1>1, <1>2, AppendFacts DEF ReadyListExact, TypeOK, SchedTypeOK
<1>4. /\ status' \in [Threads -> ThreadStatus]
      /\ status'[t] = "READY"
      /\ \A u \in Threads : u # t => status'[u] = status[u]
  BY <1>1 DEF TypeOK, SchedTypeOK, ThreadStatus
<1>5. TypeOK'
  BY <1>1, <1>3, <1>4 DEF TypeOK, SchedTypeOK
<1>6. ReadyListExact' /\ OneRunning'
  BY <1>1, <1>3, <1>4 DEF ReadyListExact, OneRunning
<1>7. QueuesExact'
  BY <1>1, <1>4 DEF QueuesExact
<1>8. NobodyLost'
  BY <1>1, <1>2, <1>4 DEF NobodyLost, Dying
<1>9. CarcassCollected' /\ CurrentInP'
  BY <1>1 DEF CarcassCollected, CurrentInP
<1> QED
  BY <1>5, <1>6, <1>7, <1>8, <1>9

\* Thread::Finish.
LEMMA FinishInv ==
  ASSUME SchedInv, FinishThread
  PROVE  SchedInv'
<1> USE SchedInv, ThreadsAssumption, SemsAssumption DEF SchedInv
<1>1. /\ status' = [status EXCEPT ![currentThread] = "BLOCKED"]
      /\ phase = "run" /\ phase' = "finishing"
      /\ UNCHANGED <<currentThread, readyList, toBeDestroyed, value, queue, waiting>>
  BY DEF FinishThread, Finish, semVars
<1>2. /\ currentThread \in Threads /\ status[currentThread] = "RUNNING"
      /\ waiting[currentThread] = NULL /\ toBeDestroyed = NULL
  BY <1>1 DEF OneRunning, CurrentInP, CarcassCollected, TypeOK, SchedTypeOK
<1>3. /\ status' \in [Threads -> ThreadStatus]
      /\ status'[currentThread] = "BLOCKED"
      /\ \A u \in Threads : u # currentThread => status'[u] = status[u]
  BY <1>1, <1>2 DEF TypeOK, SchedTypeOK, ThreadStatus
<1>4. TypeOK'
  BY <1>1, <1>3 DEF TypeOK, SchedTypeOK, Phase
<1>5. ReadyListExact' /\ OneRunning'
  BY <1>1, <1>2, <1>3 DEF ReadyListExact, OneRunning
<1>6. QueuesExact'
  BY <1>1, <1>2, <1>3 DEF QueuesExact
<1>7. NobodyLost'
  BY <1>1, <1>2, <1>3 DEF NobodyLost, Dying
<1>8. CarcassCollected' /\ CurrentInP'
  BY <1>1, <1>2 DEF CarcassCollected, CurrentInP
<1> QED
  BY <1>4, <1>5, <1>6, <1>7, <1>8

\* Thread::Yield, on a timer interrupt.
LEMMA YieldInv ==
  ASSUME SchedInv, TimerInterrupt
  PROVE  SchedInv'
<1> USE SchedInv, ThreadsAssumption, SemsAssumption DEF SchedInv
<1>1. PICK n \in Threads :
        /\ readyList # <<>> /\ n = Head(readyList)
        /\ InSeq(n, readyList)
        /\ Tail(readyList) \in Seq(Threads)
        /\ NoDuplicates(Tail(readyList))
        /\ \A x : InSeq(x, Tail(readyList)) <=> InSeq(x, readyList) /\ x # n
  BY TailFacts DEF TimerInterrupt, Yield, ReadyListExact, TypeOK, SchedTypeOK
<1>2. /\ readyList' = Append(Tail(readyList), currentThread)
      /\ status' = [[status EXCEPT ![currentThread] = "READY"] EXCEPT ![n] = "RUNNING"]
      /\ currentThread' = n
      /\ phase = "run" /\ phase' = "switched"
      /\ UNCHANGED <<toBeDestroyed, value, queue, waiting>>
  BY <1>1 DEF TimerInterrupt, Yield, Run, NextThread, semVars
<1>3. /\ currentThread \in Threads /\ status[currentThread] = "RUNNING"
      /\ waiting[currentThread] = NULL /\ toBeDestroyed = NULL
  BY <1>2 DEF OneRunning, CurrentInP, CarcassCollected, TypeOK, SchedTypeOK
<1>4. status[n] = "READY" /\ n # currentThread /\ ~InSeq(currentThread, Tail(readyList))
  BY <1>1, <1>3 DEF ReadyListExact
<1>5. /\ readyList' \in Seq(Threads)
      /\ NoDuplicates(readyList')
      /\ \A x : InSeq(x, readyList') <=>
               (InSeq(x, readyList) /\ x # n) \/ x = currentThread
  <2> DEFINE tl == Tail(readyList)
  <2>1. /\ tl \in Seq(Threads) /\ NoDuplicates(tl) /\ ~InSeq(currentThread, tl)
        /\ \A x : InSeq(x, tl) <=> InSeq(x, readyList) /\ x # n
        /\ readyList' = Append(tl, currentThread)
    BY <1>1, <1>2, <1>4
  <2> HIDE DEF tl
  <2>2. /\ Append(tl, currentThread) \in Seq(Threads)
        /\ NoDuplicates(Append(tl, currentThread))
        /\ \A x : InSeq(x, Append(tl, currentThread)) <=> InSeq(x, tl) \/ x = currentThread
    BY <1>3, <2>1, AppendFacts
  <2> QED
    BY <2>1, <2>2
<1>6. /\ status' \in [Threads -> ThreadStatus]
      /\ status'[currentThread] = "READY" /\ status'[n] = "RUNNING"
      /\ \A u \in Threads : u # currentThread /\ u # n => status'[u] = status[u]
  BY <1>2, <1>3, <1>4 DEF TypeOK, SchedTypeOK, ThreadStatus
<1>7. TypeOK'
  BY <1>2, <1>5, <1>6 DEF TypeOK, SchedTypeOK, Phase
<1>8. ReadyListExact' /\ OneRunning'
  BY <1>2, <1>3, <1>4, <1>5, <1>6 DEF ReadyListExact, OneRunning
<1>9. QueuesExact'
  BY <1>2, <1>3, <1>4, <1>6 DEF QueuesExact
<1>10. NobodyLost'
  BY <1>2, <1>3, <1>4, <1>6 DEF NobodyLost, Dying
<1>11. CarcassCollected' /\ CurrentInP'
  BY <1>2, <1>3 DEF CarcassCollected, CurrentInP
<1> QED
  BY <1>7, <1>8, <1>9, <1>10, <1>11

\* The end of Thread::Sleep.
LEMMA DispatchInv ==
  ASSUME SchedInv, DispatchNext
  PROVE  SchedInv'
<1> USE SchedInv, ThreadsAssumption, SemsAssumption DEF SchedInv
<1>1. PICK n \in Threads :
        /\ readyList # <<>> /\ n = Head(readyList)
        /\ InSeq(n, readyList)
        /\ Tail(readyList) \in Seq(Threads)
        /\ NoDuplicates(Tail(readyList))
        /\ \A x : InSeq(x, Tail(readyList)) <=> InSeq(x, readyList) /\ x # n
  BY TailFacts DEF DispatchNext, Dispatch, ReadyListExact, TypeOK, SchedTypeOK
<1>2. /\ readyList' = Tail(readyList)
      /\ status' = [status EXCEPT ![n] = "RUNNING"]
      /\ toBeDestroyed' = IF phase = "finishing" THEN currentThread ELSE toBeDestroyed
      /\ currentThread' = n
      /\ phase \in {"blocking", "finishing"} /\ phase' = "switched"
      /\ UNCHANGED <<value, queue, waiting>>
  BY <1>1 DEF DispatchNext, Dispatch, Run, NextThread, semVars
<1>3. /\ currentThread \in Threads /\ status[currentThread] # "RUNNING"
      /\ toBeDestroyed = NULL
      /\ status[n] = "READY"
      /\ phase = "finishing" => Dying(currentThread)
  BY <1>1, <1>2
     DEF OneRunning, CarcassCollected, ReadyListExact, Dying, TypeOK, SchedTypeOK
<1>4. phase = "finishing" =>
        status[currentThread] = "BLOCKED" /\ waiting[currentThread] = NULL /\ n # currentThread
  BY <1>3 DEF NobodyLost
<1>5. phase = "blocking" => waiting[currentThread] # NULL
  BY DEF CurrentInP
<1>6. /\ status' \in [Threads -> ThreadStatus]
      /\ status'[n] = "RUNNING"
      /\ \A u \in Threads : u # n => status'[u] = status[u]
  BY <1>2 DEF TypeOK, SchedTypeOK, ThreadStatus
<1>7. TypeOK'
  BY <1>1, <1>2, <1>6 DEF TypeOK, SchedTypeOK, Phase
<1>8. ReadyListExact'
  BY <1>1, <1>2, <1>6 DEF ReadyListExact
<1>9. OneRunning'
  BY <1>2, <1>3, <1>6 DEF OneRunning
<1>10. QueuesExact'
  BY <1>2, <1>3, <1>6 DEF QueuesExact
<1>11. NobodyLost'
  BY <1>2, <1>3, <1>4, <1>6 DEF NobodyLost, Dying
<1>12. CarcassCollected' /\ CurrentInP'
  BY <1>2, <1>3, <1>4 DEF CarcassCollected, CurrentInP
<1> QED
  BY <1>7, <1>8, <1>9, <1>10, <1>11, <1>12

\* Scheduler::CheckToBeDestroyed.
LEMMA AfterSwitchInv ==
  ASSUME SchedInv, AfterSwitch
  PROVE  SchedInv'
<1> USE SchedInv, ThreadsAssumption, SemsAssumption DEF SchedInv
<1>1. /\ phase = "switched"
      /\ phase' = IF waiting[currentThread] # NULL THEN "inP" ELSE "run"
      /\ toBeDestroyed' = NULL
      /\ status' = IF toBeDestroyed = NULL THEN status
                   ELSE [status EXCEPT ![toBeDestroyed] = "UNUSED"]
      /\ UNCHANGED <<currentThread, readyList, value, queue, waiting>>
  BY DEF AfterSwitch, CheckToBeDestroyed, semVars
<1>2. currentThread \in Threads /\ status[currentThread] = "RUNNING"
  BY <1>1 DEF OneRunning, TypeOK, SchedTypeOK
<1>3. toBeDestroyed # NULL =>
        /\ toBeDestroyed \in Threads /\ toBeDestroyed # currentThread
        /\ status[toBeDestroyed] = "BLOCKED"
        /\ waiting[toBeDestroyed] = NULL
  BY DEF CarcassCollected, NobodyLost, Dying, TypeOK, SchedTypeOK
<1>4. /\ status' \in [Threads -> ThreadStatus]
      /\ \A u \in Threads :
           status'[u] = IF u = toBeDestroyed THEN "UNUSED" ELSE status[u]
  BY <1>1, <1>3 DEF TypeOK, SchedTypeOK, ThreadStatus
<1>5. TypeOK'
  BY <1>1, <1>4 DEF TypeOK, SchedTypeOK, Phase
<1>6. ReadyListExact' /\ OneRunning'
  BY <1>1, <1>2, <1>3, <1>4 DEF ReadyListExact, OneRunning
<1>7. QueuesExact'
  BY <1>1, <1>3, <1>4 DEF QueuesExact
<1>8. NobodyLost'
  BY <1>1, <1>2, <1>3, <1>4 DEF NobodyLost, Dying
<1>9. CarcassCollected' /\ CurrentInP'
  BY <1>1 DEF CarcassCollected, CurrentInP
<1> QED
  BY <1>5, <1>6, <1>7, <1>8, <1>9
-----------------------------------------------------------------------------
(* No wakeup is lost.                                                      *)

\* The woken threads of a semaphore can be counted.
LEMMA WokenFinite ==
  \A s : /\ IsFiniteSet(Woken(s)) /\ Cardinality(Woken(s)) \in Nat
         /\ IsFiniteSet(Woken(s)') /\ Cardinality(Woken(s)') \in Nat
<1> TAKE s
<1>1. Woken(s) \in SUBSET Threads /\ Woken(s)' \in SUBSET Threads
  BY DEF Woken
<1> QED
  BY <1>1, FiniteThreads, FS_Subset, FS_CardinalityType

\* A step that changes neither a queue nor who is in P loses no wakeup.
LEMMA WokenSame ==
  ASSUME NoLostWakeup, UNCHANGED <<value, queue, waiting>>
  PROVE  NoLostWakeup'
<1>1. \A s \in Sems : Woken(s)' = Woken(s)
  BY DEF Woken
<1> QED
  BY <1>1 DEF NoLostWakeup

\* P's entry adds a thread that is going to test value.
LEMMA PCallWoken ==
  ASSUME SchedInv, NoLostWakeup, NEW r \in Sems, PCall(r)
  PROVE  NoLostWakeup'
<1> SUFFICES ASSUME NEW s \in Sems, queue'[s] # <<>>
             PROVE  value'[s] <= Cardinality(Woken(s)')
  BY DEF NoLostWakeup
<1>1. waiting[currentThread] = NULL /\ currentThread \in Threads
  BY DEF PCall, SchedInv, CurrentInP, TypeOK, SchedTypeOK
<1>2. Woken(s) \in SUBSET Woken(s)'
  BY <1>1, SemsAssumption DEF Woken, PCall, SchedInv, TypeOK
<1>3. Cardinality(Woken(s)) <= Cardinality(Woken(s)')
  BY <1>2, WokenFinite, FS_Subset
<1>4. value[s] <= Cardinality(Woken(s)) /\ value'[s] = value[s] /\ value[s] \in Nat
  BY DEF PCall, NoLostWakeup, SchedInv, TypeOK
<1> QED
  BY <1>3, <1>4, WokenFinite

\* A thread queues itself only when value is 0.
LEMMA PSleepWoken ==
  ASSUME SchedInv, NoLostWakeup, PSleep
  PROVE  NoLostWakeup'
<1> DEFINE r == waiting[currentThread]
<1> SUFFICES ASSUME NEW s \in Sems, queue'[s] # <<>>
             PROVE  value'[s] <= Cardinality(Woken(s)')
  BY DEF NoLostWakeup
<1>1. value' = value /\ value[r] = 0 /\ r \in Sems
  BY DEF PSleep, SchedInv, CurrentInP, TypeOK, SchedTypeOK
<1>2. CASE s = r
  BY <1>1, <1>2, WokenFinite
<1>3. CASE s # r
  <2>1. queue'[s] = queue[s] /\ waiting' = waiting
    BY <1>3 DEF PSleep, SchedInv, TypeOK
  <2>2. Woken(s)' = Woken(s)
    BY <2>1 DEF Woken
  <2> QED
    BY <1>1, <2>1, <2>2 DEF NoLostWakeup
<1> QED
  BY <1>2, <1>3

\* The thread that takes a unit was one of the woken ones.
LEMMA PTakeWoken ==
  ASSUME SchedInv, NoLostWakeup, PTake
  PROVE  NoLostWakeup'
<1> DEFINE r == waiting[currentThread]
<1> SUFFICES ASSUME NEW s \in Sems, queue'[s] # <<>>
             PROVE  value'[s] <= Cardinality(Woken(s)')
  BY DEF NoLostWakeup
<1>1. /\ r \in Sems /\ currentThread \in Threads /\ status[currentThread] = "RUNNING"
      /\ value' = [value EXCEPT ![r] = @ - 1] /\ queue' = queue
      /\ waiting' = [waiting EXCEPT ![currentThread] = NULL]
      /\ value \in [Sems -> Nat] /\ waiting \in [Threads -> Sems \cup {NULL}]
  BY DEF PTake, SchedInv, CurrentInP, OneRunning, TypeOK, SchedTypeOK
<1>2. value[s] <= Cardinality(Woken(s))
  BY <1>1 DEF NoLostWakeup
<1>3. ~InSeq(currentThread, queue[r])
  BY <1>1 DEF SchedInv, QueuesExact
<1>4. CASE s = r
  <2>1. currentThread \in Woken(s) /\ Woken(s)' = Woken(s) \ {currentThread}
    BY <1>1, <1>3, <1>4, SemsAssumption DEF Woken
  <2>2. Cardinality(Woken(s)') = Cardinality(Woken(s)) - 1
    BY <2>1, WokenFinite, FS_RemoveElement
  <2>3. value'[s] = value[s] - 1 /\ value[s] \in Nat
    BY <1>1, <1>4
  <2> QED
    BY <1>2, <2>2, <2>3, WokenFinite
<1>5. CASE s # r
  <2>1. Woken(s)' = Woken(s)
    BY <1>1, <1>5, SemsAssumption DEF Woken
  <2>2. value'[s] = value[s]
    BY <1>1, <1>5
  <2> QED
    BY <1>2, <2>1, <2>2
<1> QED
  BY <1>4, <1>5

\* V adds a unit, and with it a woken thread if any waits.
LEMMA VBodyWoken ==
  ASSUME SchedInv, NoLostWakeup, NEW r \in Sems, VBody(r)
  PROVE  NoLostWakeup'
<1> SUFFICES ASSUME NEW s \in Sems, queue'[s] # <<>>
             PROVE  value'[s] <= Cardinality(Woken(s)')
  BY DEF NoLostWakeup
<1>1. /\ value' = [value EXCEPT ![r] = @ + 1] /\ waiting' = waiting
      /\ value \in [Sems -> Nat] /\ queue \in [Sems -> Seq(Threads)]
  BY DEF VBody, SchedInv, TypeOK
<1>2. CASE s # r
  <2>1. value'[s] = value[s] /\ queue'[s] = queue[s]
    BY <1>1, <1>2 DEF VBody
  <2>2. Woken(s)' = Woken(s)
    BY <1>1, <2>1 DEF Woken
  <2> QED
    BY <2>1, <2>2 DEF NoLostWakeup
<1>3. CASE s = r
  <2>1. queue[s] # <<>>
    BY <1>3 DEF VBody
  <2>2. queue[s] \in Seq(Threads) /\ NoDuplicates(queue[s])
    BY <1>1 DEF SchedInv, QueuesExact
  <2>3. queue'[s] = Tail(queue[s])
    BY <1>1, <1>3, <2>1 DEF VBody
  <2>4. PICK h \in Threads :
          /\ InSeq(h, queue[s])
          /\ \A x : InSeq(x, queue'[s]) <=> InSeq(x, queue[s]) /\ x # h
    BY <2>1, <2>2, <2>3, TailFacts
  <2>5. waiting[h] = s
    BY <2>4 DEF SchedInv, QueuesExact
  <2>6. h \notin Woken(s) /\ Woken(s)' = Woken(s) \cup {h}
    BY <1>1, <2>4, <2>5 DEF Woken
  <2>7. Cardinality(Woken(s)') = Cardinality(Woken(s)) + 1
    BY <2>6, WokenFinite, FS_AddElement
  <2>8. value[s] <= Cardinality(Woken(s)) /\ value[s] \in Nat /\ value'[s] = value[s] + 1
    BY <1>1, <1>3, <2>1 DEF NoLostWakeup
  <2> QED
    BY <2>7, <2>8, WokenFinite
<1> QED
  BY <1>2, <1>3
-----------------------------------------------------------------------------
(* The theorems.                                                           *)

\* Every step preserves the inductive invariant.
LEMMA NextInv == IInv /\ [Next]_vars => IInv'
<1> SUFFICES ASSUME IInv, [Next]_vars PROVE IInv'
  OBVIOUS
<1> USE DEF IInv
<1>1. ASSUME NEW s \in Sems, PCall(s) PROVE IInv'
  BY <1>1, PCallInv, PCallWoken
<1>2. ASSUME NEW s \in Sems, V(s) PROVE IInv'
  BY <1>2, VBodyInv, VBodyWoken DEF V
<1>3. ASSUME NEW s \in DeviceSems, DeviceInterrupt(s) PROVE IInv'
  BY <1>3, VBodyInv, VBodyWoken, SemsAssumption DEF DeviceInterrupt
<1>4. ASSUME NEW t \in Threads, ForkThread(t) PROVE IInv'
  BY <1>4, ForkInv, WokenSame DEF ForkThread, semVars
<1>5. CASE PSleep
  BY <1>5, PSleepInv, PSleepWoken
<1>6. CASE PTake
  BY <1>6, PTakeInv, PTakeWoken
<1>7. CASE TimerInterrupt
  BY <1>7, YieldInv, WokenSame DEF TimerInterrupt, semVars
<1>8. CASE FinishThread
  BY <1>8, FinishInv, WokenSame DEF FinishThread, semVars
<1>9. CASE DispatchNext
  BY <1>9, DispatchInv, WokenSame DEF DispatchNext, semVars
<1>10. CASE AfterSwitch
  BY <1>10, AfterSwitchInv, WokenSame DEF AfterSwitch, semVars
<1>11. CASE UNCHANGED vars
  <2>1. SchedInv'
    BY <1>11 DEF SchedInv, TypeOK, SchedTypeOK, ReadyListExact, OneRunning, QueuesExact,
       NobodyLost, Dying, CarcassCollected, CurrentInP, vars, schedVars, semVars
  <2> QED
    BY <1>11, <2>1, WokenSame DEF vars, semVars
<1>12. CASE IdleTimer
  BY <1>11, <1>12 DEF IdleTimer
<1> QED
  BY <1>1, <1>2, <1>3, <1>4, <1>5, <1>6, <1>7, <1>8, <1>9, <1>10, <1>11, <1>12 DEF Next

\* The inductive invariant holds in every reachable state.
LEMMA Invariance == Spec => []IInv
  BY InitInv, NextInv, PTL DEF Spec

\* TypeOK, in particular that no semaphore's value is ever negative.
THEOREM TypeCorrect == Spec => []TypeOK
<1>1. IInv => TypeOK
  BY DEF IInv, SchedInv
<1> QED
  BY Invariance, <1>1, PTL

\* The ready list, the status of the threads and the queues of the semaphores
\* agree: no operation of the scheduler or of a semaphore puts a thread on two
\* lists, and none forgets one.
THEOREM ListsAgree == Spec => []ListsExact
<1>1. IInv => ListsExact
  BY DEF IInv, SchedInv, ListsExact
<1> QED
  BY Invariance, <1>1, PTL

\* A suspended thread is always in a queue where a V finds it, or is finishing.
THEOREM NoThreadLost == Spec => []NobodyLost
<1>1. IInv => NobodyLost
  BY DEF IInv, SchedInv
<1> QED
  BY Invariance, <1>1, PTL

\* The ASSERTs of Scheduler::Run and ~Thread about a finished thread hold.
THEOREM CarcassSafe == Spec => []CarcassCollected
<1>1. IInv => CarcassCollected
  BY DEF IInv, SchedInv
<1> QED
  BY Invariance, <1>1, PTL

\* Semaphore::P and V lose no wakeup, whatever the scheduler and the devices do.
THEOREM WakeupsKept == Spec => []NoLostWakeup
<1>1. IInv => NoLostWakeup
  BY DEF IInv
<1> QED
  BY Invariance, <1>1, PTL

\* V wakes the threads of a queue in the order in which they went to sleep.
THEOREM WakeupOrder == Spec => WakeInOrder
<1> DEFINE A == \A s \in Sems :
                  \/ queue'[s] = queue[s]
                  \/ \E t \in Threads : queue'[s] = Append(queue[s], t)
                  \/ queue[s] # <<>> /\ queue'[s] = Tail(queue[s])
<1>1. IInv /\ [Next]_vars => [A]_vars
  <2> SUFFICES ASSUME IInv, [Next]_vars, ~UNCHANGED vars PROVE A
    BY DEF vars
  <2>1. TypeOK /\ currentThread \in Threads
    BY DEF IInv, SchedInv, TypeOK, SchedTypeOK
  <2>2. CASE PSleep
    BY <2>1, <2>2 DEF PSleep, TypeOK
  <2>3. ASSUME NEW r \in Sems, VBody(r) PROVE A
    BY <2>1, <2>3 DEF VBody, TypeOK
  <2>4. CASE queue' = queue
    BY <2>4
  <2>5. PSleep \/ (\E r \in Sems : VBody(r)) \/ queue' = queue
    BY SemsAssumption DEF Next, PCall, V, DeviceInterrupt, ForkThread, PTake,
       TimerInterrupt, IdleTimer, FinishThread, DispatchNext, AfterSwitch, vars, semVars
  <2> QED
    BY <2>2, <2>3, <2>4, <2>5
<1> QED
  BY Invariance, <1>1, PTL DEF Spec, WakeInOrder

\* Every step of the kernel is a step of the abstract counting semaphores.
LEMMA StepSimulation == IInv /\ [Next]_vars => [Abstract!Next]_(Abstract!semvars)
<1> SUFFICES ASSUME IInv, [Next]_vars PROVE [Abstract!Next]_(Abstract!semvars)
  OBVIOUS
<1> USE DEF Abstract!semvars
<1>1. TypeOK /\ CurrentInP /\ currentThread \in Threads
  BY DEF IInv, SchedInv, TypeOK, SchedTypeOK
<1>2. ASSUME NEW s \in Sems, PCall(s) PROVE Abstract!RequestP(currentThread, s)
  BY <1>1, <1>2 DEF PCall, CurrentInP, Abstract!RequestP
<1>3. CASE PTake
  <2>1. waiting[currentThread] \in Sems
    BY <1>1, <1>3 DEF PTake, CurrentInP, TypeOK
  <2>2. value[waiting[currentThread]] > 0
    BY <1>1, <1>3, <2>1 DEF PTake, TypeOK
  <2>3. Abstract!GrantP(currentThread, waiting[currentThread])
    BY <1>3, <2>2 DEF PTake, Abstract!GrantP
  <2> QED
    BY <1>1, <2>1, <2>3 DEF Abstract!Next
<1>4. ASSUME NEW s \in Sems, VBody(s) PROVE Abstract!DoV(s)
  BY <1>4 DEF VBody, Abstract!DoV
<1>5. \/ \E s \in Sems : PCall(s) \/ VBody(s)
      \/ PTake
      \/ UNCHANGED <<value, waiting>>
  BY SemsAssumption DEF Next, V, DeviceInterrupt, ForkThread, PSleep,
     TimerInterrupt, IdleTimer, FinishThread, DispatchNext, AfterSwitch, vars, semVars
<1> QED
  BY <1>1, <1>2, <1>3, <1>4, <1>5 DEF Abstract!Next

\* The safety part of the refinement: Semaphore::P and V over the scheduler
\* behave as the counting semaphores of SemaphoreSpec.
THEOREM Refinement == Spec => ImplementsSafety
<1>1. Init => Abstract!Init
  BY DEF Init, Abstract!Init
<1> QED
  BY <1>1, Invariance, StepSimulation, PTL DEF Spec, ImplementsSafety, Abstract!SafeSpec
=============================================================================
