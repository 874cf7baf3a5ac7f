------------------------- MODULE SystemCalls_proofs -------------------------
(***************************************************************************)
(* Proofs about the two tables behind the system calls.                    *)
(*                                                                         *)
(* ProcessTable (Exec, Join, Exit), for programs that join the children    *)
(* Exec gave them, each once, before they Exit (~JoinAny, ~LeaveChildren): *)
(* the kernel never uses a PCB that is gone, nobody waits on a semaphore   *)
(* that is deleted, the bitmap, the table and the threads agree, and a     *)
(* joiner reads the exit code of its own child.                            *)
(*                                                                         *)
(* FileTable (Open, Close, Read, Write, Seek, Remove and the sockets), for *)
(* any table of more than two slots, any set of names and any bound on the *)
(* lengths: an open file exists, and reads and writes begin where the last *)
(* ones ended.                                                             *)
(***************************************************************************)
EXTENDS ProcessTable, FileTable, FiniteSetTheorems, WellFoundedInduction, TLAPS

InExec == {"execCheck", "execFork", "execRel", "execRet"}
Joining == {"incP", "joinCall", "joinP", "joinRead"}

\* The child has a PCB and its parent has not let it go yet.
Kept(c, p) == pcb[c] # NoPCB /\ pcb[c].parentID = p /\ pcb[c].exitsem = 0

-----------------------------------------------------------------------------
(* The inductive invariant.                                                *)

\* bmsem is held by the one process that is in an Exec, or free.
BmsemInv ==
  /\ bmsem \in {0, 1}
  /\ bmsem = 1 => \A p \in Pids : pc[p] \notin InExec
  /\ bmsem = 0 => \E p \in Pids : pc[p] \in InExec
  /\ \A p, q \in Pids : pc[p] \in InExec /\ pc[q] \in InExec => p = q

\* The bitmap, the table and the threads agree.
SlotInv ==
  \A p \in Pids :
    /\ p \in bm <=> pcb[p] # NoPCB
    /\ pc[p] # "none" => pcb[p] # NoPCB
    /\ pc[p] = "none" /\ pcb[p] # NoPCB => \E q \in Pids : pc[q] = "execFork" /\ arg[q] = p

\* An Exec that has a slot fills it for a child of the caller.
ExecInv ==
  \A p \in Pids : pc[p] \in InExec \ {"execCheck"} =>
    /\ arg[p] # 0 /\ arg[p] # p /\ Kept(arg[p], p)
    /\ (pc[p] = "execFork") <=> (pc[arg[p]] = "none")

\* A Join is about a child of the caller that has not been let go.
JoinInv ==
  \A p \in Pids : pc[p] \in Joining =>
    /\ arg[p] # 0 /\ Kept(arg[p], p)
    /\ handle[p][arg[p]] = "joined"
    /\ pc[p] = "joinRead" => pc[arg[p]] = "exitP" /\ pcb[arg[p]].joinsem = 0

\* So is a pid a program has not joined yet; the program has not called Exit.
OpenInv ==
  \A p, c \in Pids : handle[p][c] = "open" =>
    c # 0 /\ Kept(c, p) /\ pc[p] # "none" /\ ~Exited(p)

\* An exiting process has set its exit code, and DecNumWait is about its parent.
ExitInv ==
  /\ \A p \in Pids : Exited(p) => p # 0 /\ pcb[p].exitcode \in ExitCodes
  /\ \A p \in Pids : pc[p] = "decP" => arg[p] = pcb[p].parentID

\* Every process but the first was made by another one.
ParentInv ==
  /\ pcb[0] # NoPCB /\ pc[0] # "none"
  /\ \A c \in Pids \ {0} : pcb[c] # NoPCB => pcb[c].parentID \in Pids

IInv ==
  /\ TypeOK /\ NoCrash /\ NoWaiterLost
  /\ BmsemInv /\ SlotInv /\ ExecInv /\ JoinInv /\ OpenInv /\ ExitInv /\ ParentInv
  /\ HandshakeOnce /\ ParentStays

-----------------------------------------------------------------------------
(* What a step does to the PCBs.                                           *)

\* A PCB keeps everything but numwait and multex.
SamePCB(r, s) ==
  /\ s # NoPCB <=> r # NoPCB
  /\ r # NoPCB => /\ s.parentID = r.parentID /\ s.exitcode = r.exitcode
                 /\ s.joinsem = r.joinsem /\ s.exitsem = r.exitsem

\* Assigning numwait or multex changes nothing else of a PCB.
LEMMA CountFields ==
  ASSUME NEW r \in PCB, NEW v \in Nat
  PROVE  /\ [r EXCEPT !.numwait = v] \in PCB /\ SamePCB(r, [r EXCEPT !.numwait = v])
         /\ [r EXCEPT !.multex = v] \in PCB /\ SamePCB(r, [r EXCEPT !.multex = v])
BY PTableAssumption DEF PCB, SamePCB

\* Assigning the exit code changes nothing else of a PCB.
LEMMA ExitcodeField ==
  ASSUME NEW r \in PCB, NEW v \in ExitCodes
  PROVE  LET s == [r EXCEPT !.exitcode = v]
         IN  /\ s \in PCB /\ s # NoPCB /\ s.exitcode = v
             /\ s.parentID = r.parentID /\ s.joinsem = r.joinsem /\ s.exitsem = r.exitsem
BY PTableAssumption DEF PCB

\* Neither does a V or a P of joinsem.
LEMMA JoinsemField ==
  ASSUME NEW r \in PCB, NEW v \in Nat
  PROVE  LET s == [r EXCEPT !.joinsem = v]
         IN  /\ s \in PCB /\ s # NoPCB /\ s.joinsem = v
             /\ s.parentID = r.parentID /\ s.exitcode = r.exitcode /\ s.exitsem = r.exitsem
BY PTableAssumption DEF PCB

\* Nor a V of exitsem.
LEMMA ExitsemField ==
  ASSUME NEW r \in PCB, NEW v \in Nat
  PROVE  LET s == [r EXCEPT !.exitsem = v]
         IN  /\ s \in PCB /\ s # NoPCB /\ s.exitsem = v
             /\ s.parentID = r.parentID /\ s.exitcode = r.exitcode /\ s.joinsem = r.joinsem
BY PTableAssumption DEF PCB

\* A new PCB belongs to its parent, and its handshake has not begun.
LEMMA NewPCBFields ==
  ASSUME NEW p \in Pids \cup {-1}, NEW m \in Nat
  PROVE  /\ NewPCB(p, m) \in PCB /\ NewPCB(p, m) # NoPCB
         /\ NewPCB(p, m).parentID = p
         /\ NewPCB(p, m).joinsem = 0 /\ NewPCB(p, m).exitsem = 0
BY PTableAssumption DEF PCB, NewPCB

\* A set of natural numbers that is not empty has a least one.
LEMMA LeastNumber ==
  ASSUME NEW T \in SUBSET Nat, T # {}
  PROVE  \E n \in T : \A m \in T : n <= m
<1> DEFINE R == {ss \in Nat \X Nat : ss[1] < ss[2]}
<1>1. IsWellFoundedOn(R, Nat)
  BY NatLessThanWellFounded DEF OpToRel
<1>2. \E x \in T : \A y \in T : ~(<<y, x>> \in R)
  <2> HIDE DEF R
  <2> QED
    BY <1>1, WFMin
<1>3. PICK x \in T : \A y \in T : ~(<<y, x>> \in R)
  BY <1>2
<1>4. ASSUME NEW y \in T PROVE x <= y
  <2>1. ~(<<y, x>> \in R) /\ x \in Nat /\ y \in Nat
    BY <1>3
  <2> QED
    BY <2>1
<1> QED
  BY <1>4

\* What FindAndSet returns is a free slot.
LEMMA FreeSlotIsFree ==
  ASSUME bm \in SUBSET Pids, bm # Pids
  PROVE  FreeSlot \in Pids \ bm
<1>1. Pids \ bm \in SUBSET Nat
  BY PTableAssumption DEF Pids
<1>2. Pids \ bm # {}
  OBVIOUS
<1>3. \E i \in Pids \ bm : \A j \in Pids \ bm : i <= j
  BY <1>1, <1>2, LeastNumber
<1> QED
  BY <1>3 DEF FreeSlot

\* The invariant holds at the start.
LEMMA InitInv == Init => IInv
<1> SUFFICES ASSUME Init PROVE IInv
  OBVIOUS
<1>1. 0 \in Pids /\ Pids \subseteq Nat
  BY PTableAssumption DEF Pids
<1>2. /\ pcb \in [Pids -> PCB \cup {NoPCB}] /\ pcb[0] # NoPCB /\ \A p \in Pids \ {0} : pcb[p] = NoPCB
      /\ pcb[0].joinsem = 0 /\ pcb[0].exitsem = 0
  BY <1>1, NewPCBFields DEF Init
<1> QED
  BY <1>1, <1>2 DEF Init, IInv, TypeOK, NoCrash, NoWaiterLost, BmsemInv, SlotInv, ExecInv, JoinInv,
       OpenInv, ExitInv, ParentInv, HandshakeOnce, ParentStays, Kept, InExec, Joining, Exited, Location

-----------------------------------------------------------------------------
(* Every step keeps the invariant.                                         *)

\* A process that calls Exec waits for bmsem.
LEMMA ExecCallInv ==
  ASSUME IInv, NEW p \in Pids, ~JoinAny, ~LeaveChildren, ExecCall(p)
  PROVE  IInv'
BY PTableAssumption DEF ExecCall, IInv, TypeOK, NoCrash, NoWaiterLost, BmsemInv, SlotInv,
    ExecInv, JoinInv, OpenInv, ExitInv, ParentInv, HandshakeOnce, ParentStays, Location, At,
    Goto, Kept, InExec, Joining, Exited

\* The process that passes bmsem is the only one in an Exec.
LEMMA ExecEnterInv ==
  ASSUME IInv, NEW p \in Pids, ~JoinAny, ~LeaveChildren, ExecEnter(p)
  PROVE  IInv'
BY PTableAssumption DEF ExecEnter, IInv, TypeOK, NoCrash, NoWaiterLost, BmsemInv, SlotInv,
    ExecInv, JoinInv, OpenInv, ExitInv, ParentInv, HandshakeOnce, ParentStays, Location, At,
    Goto, Kept, InExec, Joining, Exited

\* An early return of Exec gives bmsem back.
LEMMA ExecFailInv ==
  ASSUME IInv, NEW p \in Pids, NEW ok \in BOOLEAN, ~JoinAny, ~LeaveChildren, ExecFail(p, ok)
  PROVE  IInv'
BY PTableAssumption DEF ExecFail, IInv, TypeOK, NoCrash, NoWaiterLost, BmsemInv, SlotInv,
    ExecInv, JoinInv, OpenInv, ExitInv, ParentInv, HandshakeOnce, ParentStays, Location, At,
    Goto, Kept, InExec, Joining, Exited

\* The new process begins its program.
LEMMA StartProcessInv ==
  ASSUME IInv, NEW p \in Pids, ~JoinAny, ~LeaveChildren, StartProcess(p)
  PROVE  IInv'
BY PTableAssumption DEF StartProcess, IInv, TypeOK, NoCrash, NoWaiterLost, BmsemInv,
    SlotInv, ExecInv, JoinInv, OpenInv, ExitInv, ParentInv, HandshakeOnce, ParentStays,
    Location, At, Goto, Kept, InExec, Joining, Exited

\* The new process finishes without ExitUpdate; its PCB stays in the table.
LEMMA StartReturnsInv ==
  ASSUME IInv, NEW p \in Pids, ~JoinAny, ~LeaveChildren, StartReturns(p)
  PROVE  IInv'
BY PTableAssumption DEF StartReturns, IInv, TypeOK, NoCrash, NoWaiterLost, BmsemInv,
    SlotInv, ExecInv, JoinInv, OpenInv, ExitInv, ParentInv, HandshakeOnce, ParentStays,
    Location, At, Goto, Kept, InExec, Joining, Exited

\* The pid that Exec returns is that of a child nobody has joined.
LEMMA ExecReturnInv ==
  ASSUME IInv, NEW p \in Pids, ~JoinAny, ~LeaveChildren, ExecReturn(p)
  PROVE  IInv'
BY PTableAssumption DEF ExecReturn, IInv, TypeOK, NoCrash, NoWaiterLost, BmsemInv,
    SlotInv, ExecInv, JoinInv, OpenInv, ExitInv, ParentInv, HandshakeOnce, ParentStays,
    Location, At, Goto, Kept, InExec, Joining, Exited

\* A Join that is accepted is about a child that has not been let go.
LEMMA JoinCallInv ==
  ASSUME IInv, NEW p \in Pids, NEW c \in Pids, ~JoinAny, ~LeaveChildren, JoinCall(p, c)
  PROVE  IInv'
BY PTableAssumption DEF JoinCall, Joinable, IInv, TypeOK, NoCrash, NoWaiterLost, BmsemInv,
    SlotInv, ExecInv, JoinInv, OpenInv, ExitInv, ParentInv, HandshakeOnce, ParentStays,
    Location, At, Goto, Kept, InExec, Joining, Exited

\* Halt changes no process.
LEMMA HaltInv ==
  ASSUME IInv, NEW p \in Pids, ~JoinAny, ~LeaveChildren, Halt(p)
  PROVE  IInv'
BY PTableAssumption DEF Halt, IInv, TypeOK, NoCrash, NoWaiterLost, BmsemInv, SlotInv,
    ExecInv, JoinInv, OpenInv, ExitInv, ParentInv, HandshakeOnce, ParentStays, Location, At,
    Goto, Kept, InExec, Joining, Exited

\* The new process takes the slot of its PCB; whoever had it before has no
\* children left that it would have to join.
LEMMA ExecForkInv ==
  ASSUME IInv, NEW p \in Pids, ~JoinAny, ~LeaveChildren, ExecFork(p)
  PROVE  IInv'
<1> PICK c : c = arg[p]
  OBVIOUS
<1>1. /\ c \in Pids /\ c # p /\ c # 0 /\ Kept(c, p)
      /\ pc[p] = "execFork" /\ pc[c] = "none" /\ pc' \in [Pids -> Location]
      /\ pc'[p] = "execRel" /\ pc'[c] = "start" /\ \A q \in Pids \ {p, c} : pc'[q] = pc[q]
  BY DEF ExecFork, IInv, TypeOK, ExecInv, At, InExec, Location
<1>2. /\ handle' \in [Pids -> [Pids -> {"none", "open", "joined"}]]
      /\ \A d \in Pids : handle'[c][d] = "none"
      /\ \A q \in Pids \ {c} : handle'[q] = handle[q]
  BY <1>1 DEF ExecFork, IInv, TypeOK
<1>3. UNCHANGED <<bm, pcb, bmsem, arg, machine>>
  BY DEF ExecFork
<1>4. (TypeOK /\ NoCrash)'
  BY <1>1, <1>2, <1>3 DEF IInv, TypeOK, NoCrash
<1>5. NoWaiterLost'
  BY <1>1, <1>2, <1>3 DEF IInv, NoWaiterLost
<1>6. BmsemInv'
  BY <1>1, <1>2, <1>3 DEF IInv, BmsemInv, InExec
<1>7. SlotInv'
  BY <1>1, <1>2, <1>3 DEF IInv, SlotInv, BmsemInv, InExec, Kept
<1>8. ExecInv'
  BY <1>1, <1>2, <1>3 DEF IInv, ExecInv, BmsemInv, SlotInv, InExec, Kept
<1>9. JoinInv'
  <2> SUFFICES ASSUME NEW q \in Pids, pc'[q] \in Joining
               PROVE  /\ arg[q] # 0 /\ Kept(arg[q], q) /\ handle'[q][arg[q]] = "joined"
                      /\ pc'[q] = "joinRead" => /\ pc'[arg[q]] = "exitP"
                                                /\ pcb[arg[q]].joinsem = 0
    BY <1>3 DEF JoinInv, Kept
  <2>1. q # p /\ q # c /\ pc[q] = pc'[q]
    BY <1>1 DEF Joining
  <2>2. /\ arg[q] # 0 /\ Kept(arg[q], q) /\ handle[q][arg[q]] = "joined"
        /\ pc[q] = "joinRead" => pc[arg[q]] = "exitP" /\ pcb[arg[q]].joinsem = 0
    BY <2>1 DEF IInv, JoinInv
  <2>3. arg[q] \in Pids /\ arg[q] # c
    BY <1>1, <2>1, <2>2 DEF IInv, TypeOK, Kept
  <2>4. pc[q] = "joinRead" => arg[q] # p
    BY <1>1, <2>2
  <2> QED
    BY <1>1, <1>2, <2>1, <2>2, <2>3, <2>4
<1>10. OpenInv'
  BY <1>1, <1>2, <1>3 DEF IInv, OpenInv, Exited, Kept
<1>11. ExitInv'
  BY <1>1, <1>2, <1>3 DEF IInv, ExitInv, Exited
<1>12. ParentInv'
  BY <1>1, <1>2, <1>3, PTableAssumption DEF IInv, ParentInv, Pids
<1>13. HandshakeOnce'
  BY <1>1, <1>2, <1>3 DEF IInv, HandshakeOnce
<1>14. ParentStays'
  <2> SUFFICES ASSUME NEW d \in Pids \ {0}, pcb[d] # NoPCB, pc'[d] # "exitP" \/ pcb[d].exitsem = 0,
                      NEW q, q = pcb[d].parentID
               PROVE  /\ pcb[q] # NoPCB
                      /\ ~Exited(q)'
                      /\ \/ handle'[q][d] = "open"
                         \/ handle'[q][d] = "joined" /\ arg[q] = d
                              /\ pc'[q] \in {"incP", "joinCall", "joinP", "joinRead"}
                         \/ arg[q] = d /\ pc'[q] \in {"execFork", "execRel", "execRet"}
    BY <1>3 DEF ParentStays
  <2>1. CASE d = c
    BY <1>1, <2>1 DEF IInv, SlotInv, Exited, Kept
  <2>2. CASE d # c
    <3>1. pc[d] # "exitP" \/ pcb[d].exitsem = 0
      BY <1>1, <2>2
    <3>2. /\ q \in Pids /\ pcb[q] # NoPCB /\ ~Exited(q)
          /\ \/ handle[q][d] = "open"
             \/ handle[q][d] = "joined" /\ arg[q] = d
                  /\ pc[q] \in {"incP", "joinCall", "joinP", "joinRead"}
             \/ arg[q] = d /\ pc[q] \in {"execFork", "execRel", "execRet"}
      BY <3>1 DEF IInv, ParentInv, ParentStays
    <3>3. q # c
      BY <1>1, <3>2 DEF IInv, OpenInv
    <3> QED
      BY <1>1, <1>2, <2>2, <3>2, <3>3 DEF Exited
  <2> QED
    BY <2>1, <2>2
<1> QED
  BY <1>4, <1>5, <1>6, <1>7, <1>8, <1>9, <1>10, <1>11, <1>12, <1>13, <1>14 DEF IInv

\* The slot that Exec takes belongs to nobody.
LEMMA ExecAllocInv ==
  ASSUME IInv, NEW p \in Pids, ~JoinAny, ~LeaveChildren, ExecAlloc(p)
  PROVE  IInv'
<1> PICK c : c = FreeSlot
  OBVIOUS
<1>1. c \in Pids \ bm
  BY FreeSlotIsFree DEF ExecAlloc, IInv, TypeOK
<1>2. /\ bm' = bm \cup {c} /\ pcb' = [pcb EXCEPT ![c] = NewPCB(p, 0)]
      /\ arg' = [arg EXCEPT ![p] = c] /\ pc' = [pc EXCEPT ![p] = "execFork"]
      /\ pc[p] = "execCheck" /\ UNCHANGED <<bmsem, handle, machine>>
  BY DEF ExecAlloc, At, Goto
<1>3. /\ pcb' \in [Pids -> PCB \cup {NoPCB}] /\ \A q \in Pids \ {c} : pcb'[q] = pcb[q]
      /\ pcb'[c] # NoPCB /\ pcb'[c].parentID = p /\ pcb'[c].joinsem = 0 /\ pcb'[c].exitsem = 0
  BY <1>1, <1>2, NewPCBFields DEF IInv, TypeOK
<1>4. pcb[c] = NoPCB /\ pc[c] = "none" /\ c # p /\ c # 0
  BY <1>1, <1>2 DEF IInv, SlotInv, ParentInv
<1> QED
  BY <1>1, <1>2, <1>3, <1>4, PTableAssumption DEF IInv, TypeOK, NoCrash, NoWaiterLost,
      BmsemInv, SlotInv, ExecInv, JoinInv,
    OpenInv, ExitInv, ParentInv, HandshakeOnce, ParentStays, Kept, InExec, Joining, Exited, Location

\* The child cannot be gone when PCB::Exec releases its multex.
LEMMA ExecReleaseInv ==
  ASSUME IInv, NEW p \in Pids, ~JoinAny, ~LeaveChildren, ExecRelease(p)
  PROVE  IInv'
<1> PICK x, v : x = arg[p] /\ v = pcb[x].multex + 1
  OBVIOUS
<1>1. /\ x \in Pids /\ pcb[x] # NoPCB /\ pcb[x] \in PCB /\ pc[p] = "execRel"
  BY DEF ExecRelease, At, IInv, TypeOK, SlotInv, ExecInv, ExitInv, ParentInv, ParentStays,
      Kept, InExec, Exited
<1>2. v \in Nat
  BY <1>1 DEF PCB
<1>3. /\ pcb' = [pcb EXCEPT ![x] = [pcb[x] EXCEPT !.multex = v]]
      /\ pc' = [pc EXCEPT ![p] = "execRet"]
      /\ UNCHANGED <<bm, bmsem, arg, handle, machine>>
  BY <1>1 DEF ExecRelease, Goto
<1>4. pcb' \in [Pids -> PCB \cup {NoPCB}] /\ \A q \in Pids : SamePCB(pcb[q], pcb'[q])
  <2> PICK r : r = [pcb[x] EXCEPT !.multex = v]
    OBVIOUS
  <2>1. r \in PCB /\ SamePCB(pcb[x], r)
    BY <1>1, <1>2, CountFields
  <2>2. \A q \in Pids : pcb'[q] = IF q = x THEN r ELSE pcb[q]
    BY <1>1, <1>3 DEF IInv, TypeOK
  <2> QED
    BY <1>1, <1>3, <2>1, <2>2 DEF SamePCB, IInv, TypeOK
<1>5. (TypeOK /\ NoCrash /\ NoWaiterLost)'
  BY <1>1, <1>3, <1>4, PTableAssumption DEF SamePCB, IInv, TypeOK, NoCrash, NoWaiterLost, HandshakeOnce, Location
<1>6. (BmsemInv /\ SlotInv)'
  BY <1>1, <1>3, <1>4, PTableAssumption DEF SamePCB, IInv, TypeOK, BmsemInv, SlotInv, ExecInv, Kept, InExec
<1>7. ExecInv'
  BY <1>1, <1>3, <1>4, PTableAssumption DEF SamePCB, IInv, TypeOK, SlotInv, ExecInv, Kept, InExec
<1>8. JoinInv'
  BY <1>1, <1>3, <1>4, PTableAssumption DEF SamePCB, IInv, TypeOK, JoinInv, Kept, Joining
<1>9. OpenInv'
  BY <1>1, <1>3, <1>4, PTableAssumption DEF SamePCB, IInv, TypeOK, JoinInv, OpenInv, Kept, Joining, Exited
<1>10. ExitInv'
  BY <1>1, <1>3, <1>4, PTableAssumption DEF SamePCB, IInv, TypeOK, ExitInv, Kept, Exited
<1>11. ParentInv'
  BY <1>1, <1>3, <1>4, PTableAssumption DEF SamePCB, IInv, TypeOK, ParentInv
<1>12. HandshakeOnce'
  BY <1>1, <1>3, <1>4, PTableAssumption DEF SamePCB, IInv, TypeOK, HandshakeOnce, JoinInv, ExitInv, Kept, Joining, Exited
<1>13. ParentStays'
  BY <1>1, <1>3, <1>4, PTableAssumption DEF SamePCB, IInv, TypeOK, ParentInv, ParentStays, Exited
<1> QED
  BY <1>5, <1>6, <1>7, <1>8, <1>9, <1>10, <1>11, <1>12, <1>13 DEF IInv

\* IncNumWait only counts.
LEMMA JoinIncNumWaitInv ==
  ASSUME IInv, NEW p \in Pids, ~JoinAny, ~LeaveChildren, JoinIncNumWait(p)
  PROVE  IInv'
<1> PICK x, v : x = p /\ v = pcb[x].numwait + 1
  OBVIOUS
<1>1. /\ x \in Pids /\ pcb[x] # NoPCB /\ pcb[x] \in PCB /\ pc[p] = "incP"
  BY DEF JoinIncNumWait, At, IInv, TypeOK, SlotInv, ExecInv, ExitInv, ParentInv,
      ParentStays, Kept, InExec, Exited
<1>2. v \in Nat
  BY <1>1 DEF PCB
<1>3. /\ pcb' = [pcb EXCEPT ![x] = [pcb[x] EXCEPT !.numwait = v]]
      /\ pc' = [pc EXCEPT ![p] = "joinCall"]
      /\ UNCHANGED <<bm, bmsem, arg, handle, machine>>
  BY <1>1 DEF JoinIncNumWait, Goto
<1>4. pcb' \in [Pids -> PCB \cup {NoPCB}] /\ \A q \in Pids : SamePCB(pcb[q], pcb'[q])
  <2> PICK r : r = [pcb[x] EXCEPT !.numwait = v]
    OBVIOUS
  <2>1. r \in PCB /\ SamePCB(pcb[x], r)
    BY <1>1, <1>2, CountFields
  <2>2. \A q \in Pids : pcb'[q] = IF q = x THEN r ELSE pcb[q]
    BY <1>1, <1>3 DEF IInv, TypeOK
  <2> QED
    BY <1>1, <1>3, <2>1, <2>2 DEF SamePCB, IInv, TypeOK
<1>5. (TypeOK /\ NoCrash /\ NoWaiterLost)'
  BY <1>1, <1>3, <1>4, PTableAssumption DEF SamePCB, IInv, TypeOK, NoCrash, NoWaiterLost, HandshakeOnce, Location
<1>6. (BmsemInv /\ SlotInv)'
  BY <1>1, <1>3, <1>4, PTableAssumption DEF SamePCB, IInv, TypeOK, BmsemInv, SlotInv, ExecInv, Kept, InExec
<1>7. ExecInv'
  BY <1>1, <1>3, <1>4, PTableAssumption DEF SamePCB, IInv, TypeOK, SlotInv, ExecInv, Kept, InExec
<1>8. JoinInv'
  BY <1>1, <1>3, <1>4, PTableAssumption DEF SamePCB, IInv, TypeOK, JoinInv, Kept, Joining
<1>9. OpenInv'
  BY <1>1, <1>3, <1>4, PTableAssumption DEF SamePCB, IInv, TypeOK, JoinInv, OpenInv, Kept, Joining, Exited
<1>10. ExitInv'
  BY <1>1, <1>3, <1>4, PTableAssumption DEF SamePCB, IInv, TypeOK, ExitInv, Kept, Exited
<1>11. ParentInv'
  BY <1>1, <1>3, <1>4, PTableAssumption DEF SamePCB, IInv, TypeOK, ParentInv
<1>12. HandshakeOnce'
  BY <1>1, <1>3, <1>4, PTableAssumption DEF SamePCB, IInv, TypeOK, HandshakeOnce, JoinInv, ExitInv, Kept, Joining, Exited
<1>13. ParentStays'
  BY <1>1, <1>3, <1>4, PTableAssumption DEF SamePCB, IInv, TypeOK, ParentInv, ParentStays, Exited
<1> QED
  BY <1>5, <1>6, <1>7, <1>8, <1>9, <1>10, <1>11, <1>12, <1>13 DEF IInv

\* DecNumWait only counts, in a PCB that is still the parent's.
LEMMA ExitDecNumWaitInv ==
  ASSUME IInv, NEW p \in Pids, ~JoinAny, ~LeaveChildren, ExitDecNumWait(p)
  PROVE  IInv'
<1> PICK x, v : x = arg[p] /\ v = IF pcb[x].numwait > 0 THEN pcb[x].numwait - 1 ELSE pcb[x].numwait
  OBVIOUS
<1>1. /\ x \in Pids /\ pcb[x] # NoPCB /\ pcb[x] \in PCB /\ pc[p] = "decP"
  BY DEF ExitDecNumWait, At, IInv, TypeOK, SlotInv, ExecInv, ExitInv, ParentInv,
      ParentStays, Kept, InExec, Exited
<1>2. v \in Nat
  BY <1>1 DEF PCB
<1>3. /\ pcb' = [pcb EXCEPT ![x] = [pcb[x] EXCEPT !.numwait = v]]
      /\ pc' = [pc EXCEPT ![p] = "exitRel"]
      /\ UNCHANGED <<bm, bmsem, arg, handle, machine>>
  BY <1>1 DEF ExitDecNumWait, Goto
<1>4. pcb' \in [Pids -> PCB \cup {NoPCB}] /\ \A q \in Pids : SamePCB(pcb[q], pcb'[q])
  <2> PICK r : r = [pcb[x] EXCEPT !.numwait = v]
    OBVIOUS
  <2>1. r \in PCB /\ SamePCB(pcb[x], r)
    BY <1>1, <1>2, CountFields
  <2>2. \A q \in Pids : pcb'[q] = IF q = x THEN r ELSE pcb[q]
    BY <1>1, <1>3 DEF IInv, TypeOK
  <2> QED
    BY <1>1, <1>3, <2>1, <2>2 DEF SamePCB, IInv, TypeOK
<1>5. (TypeOK /\ NoCrash /\ NoWaiterLost)'
  BY <1>1, <1>3, <1>4, PTableAssumption DEF SamePCB, IInv, TypeOK, NoCrash, NoWaiterLost, HandshakeOnce, Location
<1>6. (BmsemInv /\ SlotInv)'
  BY <1>1, <1>3, <1>4, PTableAssumption DEF SamePCB, IInv, TypeOK, BmsemInv, SlotInv, ExecInv, Kept, InExec
<1>7. ExecInv'
  BY <1>1, <1>3, <1>4, PTableAssumption DEF SamePCB, IInv, TypeOK, SlotInv, ExecInv, Kept, InExec
<1>8. JoinInv'
  BY <1>1, <1>3, <1>4, PTableAssumption DEF SamePCB, IInv, TypeOK, JoinInv, Kept, Joining
<1>9. OpenInv'
  BY <1>1, <1>3, <1>4, PTableAssumption DEF SamePCB, IInv, TypeOK, JoinInv, OpenInv, Kept, Joining, Exited
<1>10. ExitInv'
  BY <1>1, <1>3, <1>4, PTableAssumption DEF SamePCB, IInv, TypeOK, ExitInv, Kept, Exited
<1>11. ParentInv'
  BY <1>1, <1>3, <1>4, PTableAssumption DEF SamePCB, IInv, TypeOK, ParentInv
<1>12. HandshakeOnce'
  BY <1>1, <1>3, <1>4, PTableAssumption DEF SamePCB, IInv, TypeOK, HandshakeOnce, JoinInv, ExitInv, Kept, Joining, Exited
<1>13. ParentStays'
  BY <1>1, <1>3, <1>4, PTableAssumption DEF SamePCB, IInv, TypeOK, ParentInv, ParentStays, Exited
<1> QED
  BY <1>5, <1>6, <1>7, <1>8, <1>9, <1>10, <1>11, <1>12, <1>13 DEF IInv

\* The child cannot be gone when JoinWait is called.
LEMMA JoinWaitCallInv ==
  ASSUME IInv, NEW p \in Pids, ~JoinAny, ~LeaveChildren, JoinWaitCall(p)
  PROVE  IInv'
<1>1. pc[p] = "joinCall" /\ pcb[arg[p]] # NoPCB
  BY DEF JoinWaitCall, At, IInv, JoinInv, Kept, Joining
<1>2. (TypeOK /\ NoCrash /\ NoWaiterLost)'
  BY <1>1, PTableAssumption DEF IInv, JoinWaitCall, Goto, TypeOK, NoCrash, NoWaiterLost, Location
<1>3. (BmsemInv /\ SlotInv /\ ExecInv)'
  BY <1>1, PTableAssumption DEF IInv, JoinWaitCall, Goto, TypeOK, BmsemInv, SlotInv,
      ExecInv, Kept, InExec
<1>4. JoinInv'
  BY <1>1, PTableAssumption DEF IInv, JoinWaitCall, Goto, TypeOK, JoinInv, Kept, Joining
<1>5. (OpenInv /\ ExitInv)'
  BY <1>1, PTableAssumption DEF IInv, JoinWaitCall, Goto, TypeOK, OpenInv, ExitInv, Kept, Exited
<1>6. ParentInv'
  BY <1>1, PTableAssumption DEF IInv, Pids, JoinWaitCall, Goto, TypeOK, ParentInv
<1>7. HandshakeOnce'
  BY <1>1, PTableAssumption DEF IInv, JoinWaitCall, Goto, TypeOK, HandshakeOnce
<1>8. ParentStays'
  BY <1>1, PTableAssumption DEF IInv, JoinWaitCall, Goto, TypeOK, JoinInv, ParentInv,
      ParentStays, Exited
<1> QED
  BY <1>2, <1>3, <1>4, <1>5, <1>6, <1>7, <1>8 DEF IInv

\* JoinWait takes the one unit that the child's exit put there.
LEMMA JoinWaitInv ==
  ASSUME IInv, NEW p \in Pids, ~JoinAny, ~LeaveChildren, JoinWait(p)
  PROVE  IInv'
<1> PICK x, v : x = arg[p] /\ v = pcb[x].joinsem - 1
  OBVIOUS
<1>1. /\ x \in Pids /\ pcb[x] # NoPCB /\ pcb[x] \in PCB /\ pc[p] = "joinP"
      /\ pcb[x].joinsem \in Nat /\ pcb[x].exitsem \in Nat
  BY DEF JoinWait, At, IInv, TypeOK, SlotInv, JoinInv, Kept, Joining, PCB
<1>2. v = 0
  BY <1>1 DEF JoinWait, At, IInv, JoinInv, HandshakeOnce, Kept, Joining
<1>3. /\ pcb' = [pcb EXCEPT ![x] = [pcb[x] EXCEPT !.joinsem = v]]
      /\ pc' = [pc EXCEPT ![p] = "joinRead"]
      /\ UNCHANGED <<bm, bmsem, arg, handle, machine>>
  BY <1>1 DEF JoinWait, Goto
<1>4. /\ pcb' \in [Pids -> PCB \cup {NoPCB}] /\ \A q \in Pids \ {x} : pcb'[q] = pcb[q]
      /\ pcb'[x] # NoPCB /\ pcb'[x].joinsem = v /\ pcb'[x].parentID = pcb[x].parentID
      /\ pcb'[x].exitcode = pcb[x].exitcode /\ pcb'[x].exitsem = pcb[x].exitsem
  <2>1. v \in Nat
    BY <1>2
  <2> QED
    BY <1>1, <1>3, <2>1, JoinsemField DEF IInv, TypeOK
<1>5. (TypeOK /\ NoCrash /\ NoWaiterLost)'
  BY <1>1, <1>2, <1>3, <1>4 DEF IInv, TypeOK, NoCrash, NoWaiterLost, Location
<1>6. (BmsemInv /\ SlotInv /\ ExecInv)'
  BY <1>1, <1>2, <1>3, <1>4 DEF IInv, TypeOK, BmsemInv, SlotInv, ExecInv, Kept, InExec
<1>7. JoinInv'
  BY <1>1, <1>2, <1>3, <1>4 DEF IInv, TypeOK, JoinInv, HandshakeOnce, Kept, Joining
<1>8. (OpenInv /\ ExitInv)'
  BY <1>1, <1>2, <1>3, <1>4 DEF IInv, TypeOK, OpenInv, ExitInv, JoinInv, Kept, Joining, Exited
<1>9. ParentInv'
  BY <1>1, <1>2, <1>3, <1>4 DEF IInv, TypeOK, ParentInv
<1>10. HandshakeOnce'
  BY <1>1, <1>2, <1>3, <1>4 DEF IInv, TypeOK, HandshakeOnce, JoinInv, Kept, Joining
<1>11. ParentStays'
  BY <1>1, <1>2, <1>3, <1>4 DEF IInv, TypeOK, ParentInv, ParentStays, Exited
<1> QED
  BY <1>5, <1>6, <1>7, <1>8, <1>9, <1>10, <1>11 DEF IInv

\* ExitRelease lets the child go, once, and it is still there.
LEMMA JoinReturnInv ==
  ASSUME IInv, NEW p \in Pids, ~JoinAny, ~LeaveChildren, JoinReturn(p)
  PROVE  IInv'
<1> PICK x, v : x = arg[p] /\ v = pcb[x].exitsem + 1
  OBVIOUS
<1>1. /\ x \in Pids /\ pcb[x] # NoPCB /\ pcb[x] \in PCB /\ pc[p] = "joinRead"
      /\ pcb[x].joinsem \in Nat /\ pcb[x].exitsem \in Nat
  BY DEF JoinReturn, At, IInv, TypeOK, SlotInv, JoinInv, Kept, Joining, PCB
<1>2. v = 1
  BY <1>1 DEF JoinReturn, At, IInv, JoinInv, HandshakeOnce, Kept, Joining
<1>3. /\ pcb' = [pcb EXCEPT ![x] = [pcb[x] EXCEPT !.exitsem = v]]
      /\ pc' = [pc EXCEPT ![p] = "user"]
      /\ UNCHANGED <<bm, bmsem, arg, handle, machine>>
  BY <1>1 DEF JoinReturn, Goto
<1>4. /\ pcb' \in [Pids -> PCB \cup {NoPCB}] /\ \A q \in Pids \ {x} : pcb'[q] = pcb[q]
      /\ pcb'[x] # NoPCB /\ pcb'[x].exitsem = v /\ pcb'[x].parentID = pcb[x].parentID
      /\ pcb'[x].exitcode = pcb[x].exitcode /\ pcb'[x].joinsem = pcb[x].joinsem
  <2>1. v \in Nat
    BY <1>2
  <2> QED
    BY <1>1, <1>3, <2>1, ExitsemField DEF IInv, TypeOK
<1>5. pc[x] = "exitP" /\ x # p /\ pcb[x].joinsem = 0 /\ pcb[x].parentID = p /\ v = 1
  BY <1>1, <1>2 DEF IInv, JoinInv, Kept, Joining
<1>6. /\ pc' \in [Pids -> Location] /\ pc'[p] = "user" /\ pc'[x] = "exitP"
      /\ \A q \in Pids \ {p} : pc'[q] = pc[q]
  BY <1>1, <1>3, <1>5 DEF IInv, TypeOK, Location
<1>7. (TypeOK /\ NoCrash /\ NoWaiterLost)'
  BY <1>1, <1>3, <1>4, <1>6 DEF IInv, TypeOK, NoCrash, NoWaiterLost
<1>8. (BmsemInv /\ SlotInv)'
  BY <1>1, <1>3, <1>4, <1>6 DEF IInv, BmsemInv, SlotInv, InExec
<1>9. ExecInv'
  BY <1>1, <1>3, <1>4, <1>5, <1>6 DEF IInv, TypeOK, ExecInv, Kept, InExec
<1>10. JoinInv'
  BY <1>1, <1>3, <1>4, <1>5, <1>6 DEF IInv, TypeOK, JoinInv, Kept, Joining
<1>11. OpenInv'
  BY <1>1, <1>3, <1>4, <1>5, <1>6 DEF IInv, TypeOK, JoinInv, OpenInv, Kept, Joining, Exited
<1>12. ExitInv'
  BY <1>1, <1>3, <1>4, <1>6 DEF IInv, ExitInv, Exited
<1>13. ParentInv'
  BY <1>1, <1>3, <1>4, <1>6 DEF IInv, ParentInv
<1>14. HandshakeOnce'
  BY <1>1, <1>4, <1>5, <1>6 DEF IInv, HandshakeOnce
<1>15. ParentStays'
  BY <1>1, <1>3, <1>4, <1>6 DEF IInv, ParentInv, ParentStays, Exited
<1> QED
  BY <1>7, <1>8, <1>9, <1>10, <1>11, <1>12, <1>13, <1>14, <1>15 DEF IInv

\* JoinRelease puts the first and only unit there.
LEMMA ExitJoinReleaseInv ==
  ASSUME IInv, NEW p \in Pids, ~JoinAny, ~LeaveChildren, ExitJoinRelease(p)
  PROVE  IInv'
<1> PICK x, v : x = p /\ v = pcb[x].joinsem + 1
  OBVIOUS
<1>1. /\ x \in Pids /\ pcb[x] # NoPCB /\ pcb[x] \in PCB /\ pc[p] = "exitRel"
      /\ pcb[x].joinsem \in Nat /\ pcb[x].exitsem \in Nat
  BY DEF ExitJoinRelease, At, IInv, TypeOK, SlotInv, JoinInv, Kept, Joining, PCB
<1>2. v = 1
  BY <1>1 DEF ExitJoinRelease, At, IInv, JoinInv, HandshakeOnce, Kept, Joining
<1>3. /\ pcb' = [pcb EXCEPT ![x] = [pcb[x] EXCEPT !.joinsem = v]]
      /\ pc' = [pc EXCEPT ![p] = "exitP"]
      /\ UNCHANGED <<bm, bmsem, arg, handle, machine>>
  BY <1>1 DEF ExitJoinRelease, Goto
<1>4. /\ pcb' \in [Pids -> PCB \cup {NoPCB}] /\ \A q \in Pids \ {x} : pcb'[q] = pcb[q]
      /\ pcb'[x] # NoPCB /\ pcb'[x].joinsem = v /\ pcb'[x].parentID = pcb[x].parentID
      /\ pcb'[x].exitcode = pcb[x].exitcode /\ pcb'[x].exitsem = pcb[x].exitsem
  <2>1. v \in Nat
    BY <1>2
  <2> QED
    BY <1>1, <1>3, <2>1, JoinsemField DEF IInv, TypeOK
<1> QED
  BY <1>1, <1>2, <1>3, <1>4, PTableAssumption DEF IInv, TypeOK, NoCrash, NoWaiterLost,
      BmsemInv, SlotInv, ExecInv, JoinInv,
    OpenInv, ExitInv, ParentInv, HandshakeOnce, ParentStays, Kept, InExec, Joining, Exited, Location

\* A process exits when it has no children left, and its parent is still there.
LEMMA ExitCallInv ==
  ASSUME IInv, NEW p \in Pids, NEW code \in ExitCodes, ~JoinAny, ~LeaveChildren, ExitCall(p, code)
  PROVE  IInv'
<1> PICK par : par = pcb[p].parentID
  OBVIOUS
<1>1. /\ pc[p] = "user" /\ p # 0 /\ pcb[p] # NoPCB /\ pcb[p] \in PCB
      /\ \A c \in Pids : handle[p][c] # "open"
  BY DEF ExitCall, At, IInv, TypeOK, SlotInv
<1>2. par \in Pids /\ pcb[par] # NoPCB
  BY <1>1 DEF IInv, ParentInv, ParentStays
<1>3. /\ pcb' = [pcb EXCEPT ![p] = [pcb[p] EXCEPT !.exitcode = code]]
      /\ arg' = [arg EXCEPT ![p] = par] /\ pc' = [pc EXCEPT ![p] = "decP"]
      /\ UNCHANGED <<bm, bmsem, handle, machine>>
  BY <1>2 DEF ExitCall, ExitUpdate, Goto
<1>4. /\ pcb' \in [Pids -> PCB \cup {NoPCB}] /\ \A q \in Pids \ {p} : pcb'[q] = pcb[q]
      /\ pcb'[p] # NoPCB /\ pcb'[p].exitcode = code /\ pcb'[p].parentID = par
      /\ pcb'[p].joinsem = pcb[p].joinsem /\ pcb'[p].exitsem = pcb[p].exitsem
  BY <1>1, <1>3, ExitcodeField DEF IInv, TypeOK
<1>5. /\ pc' \in [Pids -> Location] /\ pc'[p] = "decP" /\ \A q \in Pids \ {p} : pc'[q] = pc[q]
      /\ arg' \in [Pids -> Pids] /\ arg'[p] = par /\ \A q \in Pids \ {p} : arg'[q] = arg[q]
  BY <1>1, <1>2, <1>3 DEF IInv, TypeOK, Location
<1>6. (TypeOK /\ NoCrash /\ NoWaiterLost)'
  BY <1>1, <1>3, <1>4, <1>5 DEF IInv, TypeOK, NoCrash, NoWaiterLost
<1>7. (BmsemInv /\ SlotInv)'
  BY <1>1, <1>3, <1>4, <1>5 DEF IInv, BmsemInv, SlotInv, InExec
<1>8. ExecInv'
  BY <1>1, <1>3, <1>4, <1>5 DEF IInv, TypeOK, ExecInv, Kept, InExec
<1>9. JoinInv'
  BY <1>1, <1>3, <1>4, <1>5 DEF IInv, TypeOK, JoinInv, Kept, Joining
<1>10. OpenInv'
  BY <1>1, <1>3, <1>4, <1>5 DEF IInv, TypeOK, OpenInv, Kept, Exited
<1>11. ExitInv'
  BY <1>1, <1>3, <1>4, <1>5 DEF IInv, ExitInv, Exited
<1>12. ParentInv'
  BY <1>1, <1>2, <1>3, <1>4, <1>5 DEF IInv, ParentInv
<1>13. HandshakeOnce'
  BY <1>1, <1>4, <1>5 DEF IInv, HandshakeOnce
<1>14. ParentStays'
  BY <1>1, <1>2, <1>3, <1>4, <1>5 DEF IInv, ParentInv, ParentStays, OpenInv, Exited
<1> QED
  BY <1>6, <1>7, <1>8, <1>9, <1>10, <1>11, <1>12, <1>13, <1>14 DEF IInv

\* Nobody waits on the semaphores of a PCB, and no child needs it, when it
\* is removed.
LEMMA ExitRemoveInv ==
  ASSUME IInv, NEW p \in Pids, ~JoinAny, ~LeaveChildren, ExitRemove(p)
  PROVE  IInv'
<1>1. /\ pc[p] = "exitP" /\ pcb[p] # NoPCB /\ p # 0 /\ pcb[p].exitsem # 0
  BY DEF ExitRemove, At, IInv, SlotInv, ExitInv, Exited
<1>2. WaitersOn(p) = {}
  BY <1>1 DEF WaitersOn, IInv, TypeOK, NoCrash, NoWaiterLost, BmsemInv, SlotInv, ExecInv, JoinInv,
    OpenInv, ExitInv, ParentInv, HandshakeOnce, ParentStays, Kept, InExec, Joining, Exited, Location
<1>3. /\ bm' = bm \ {p} /\ pcb' = [pcb EXCEPT ![p] = NoPCB] /\ pc' = [pc EXCEPT ![p] = "none"]
      /\ UNCHANGED <<bmsem, arg, handle, machine>>
  BY <1>2 DEF ExitRemove, Remove, IInv, TypeOK
<1> QED
  BY <1>1, <1>3, PTableAssumption DEF IInv, TypeOK, NoCrash, NoWaiterLost, BmsemInv,
      SlotInv, ExecInv, JoinInv,
    OpenInv, ExitInv, ParentInv, HandshakeOnce, ParentStays, Kept, InExec, Joining, Exited, Location

\* Every step keeps the invariant.
LEMMA NextInv ==
  ASSUME ~JoinAny, ~LeaveChildren, IInv, [Next]_vars
  PROVE  IInv'
<1>1. CASE UNCHANGED vars
  BY <1>1 DEF vars, IInv, TypeOK, NoCrash, NoWaiterLost, BmsemInv, SlotInv, ExecInv,
      JoinInv, OpenInv,
       ExitInv, ParentInv, HandshakeOnce, ParentStays, Kept, Exited
<1>2. ASSUME NEW p \in Pids, KernelStep(p) PROVE IInv'
  BY <1>2, ExecEnterInv, ExecFailInv, ExecAllocInv, ExecForkInv, ExecReleaseInv, ExecReturnInv,
     StartProcessInv, JoinIncNumWaitInv, JoinWaitCallInv, JoinWaitInv, JoinReturnInv,
     ExitDecNumWaitInv, ExitJoinReleaseInv, ExitRemoveInv
     DEF KernelStep
<1>3. ASSUME NEW p \in Pids, ProgramStep(p) PROVE IInv'
  BY <1>3, ExecCallInv, ExecFailInv, StartReturnsInv, JoinCallInv, ExitCallInv, HaltInv
     DEF ProgramStep
<1> QED
  BY <1>1, <1>2, <1>3 DEF Next, Stopped

-----------------------------------------------------------------------------
(* What follows.                                                           *)

(***************************************************************************)
(* With programs that join every child, once, the invariant holds in every *)
(* state of the table of any size.                                         *)
(***************************************************************************)
THEOREM InvariantHolds ==
  ASSUME ~JoinAny, ~LeaveChildren
  PROVE  Spec => []IInv
<1> QED
  BY InitInv, NextInv, PTL DEF Spec

(***************************************************************************)
(* The kernel never uses the PCB of a process that is gone: JoinUpdate and *)
(* ExitUpdate find pcb[pid] and pcb[parentID] there, and PCB::Exec its own *)
(* PCB when it releases multex.                                            *)
(***************************************************************************)
THEOREM NeverCrashes ==
  ASSUME ~JoinAny, ~LeaveChildren
  PROVE  Spec => []NoCrash
<1>1. IInv => NoCrash
  BY DEF IInv
<1> QED
  BY <1>1, InvariantHolds, PTL

(***************************************************************************)
(* Nobody waits on a semaphore of a PCB when PTable::Remove deletes it:    *)
(* what ~Semaphore assumes.                                                *)
(***************************************************************************)
THEOREM NobodyIsLost ==
  ASSUME ~JoinAny, ~LeaveChildren
  PROVE  Spec => []NoWaiterLost
<1>1. IInv => NoWaiterLost
  BY DEF IInv
<1> QED
  BY <1>1, InvariantHolds, PTL

(***************************************************************************)
(* The bitmap, the table and the threads agree, one Exec at a time fills a *)
(* slot, and parentID names the process that made the Exec.                *)
(***************************************************************************)
THEOREM TableIsExact ==
  ASSUME ~JoinAny, ~LeaveChildren
  PROVE  Spec => []TableExact
<1>1. IInv => TableExact
  <2> SUFFICES ASSUME IInv PROVE TableExact
    OBVIOUS
  <2> DEFINE E == {p \in Pids : pc[p] \in InExec}
  <2>1. Cardinality(E) = 1 - bmsem
    <3>1. CASE bmsem = 1
      <4>1. E = {}
        BY <3>1 DEF IInv, BmsemInv
      <4>2. Cardinality({}) = 0
        BY FS_EmptySet
      <4> QED
        BY <3>1, <4>1, <4>2
    <3>2. CASE bmsem = 0
      <4>1. PICK p \in Pids : E = {p}
        BY <3>2 DEF IInv, BmsemInv
      <4>2. Cardinality({p}) = 1
        BY FS_Singleton
      <4> QED
        BY <3>2, <4>1, <4>2
    <3> QED
      BY <3>1, <3>2 DEF IInv, BmsemInv
  <2>2. OneExec
    BY <2>1 DEF OneExec, InExec
  <2>3. ASSUME NEW p \in Pids
        PROVE  /\ p \in bm <=> pcb[p] # NoPCB
               /\ pcb[p] # NoPCB <=>
                    pc[p] # "none" \/ \E q \in Pids : pc[q] = "execFork" /\ arg[q] = p
    BY DEF IInv, SlotInv, ExecInv, InExec, Kept
  <2> QED
    BY <2>2, <2>3 DEF TableExact, IInv
<1> QED
  BY <1>1, InvariantHolds, PTL

(***************************************************************************)
(* A joiner that joinsem has let through reads the exit code of its own    *)
(* child, and each exit passes one unit through joinsem and one through    *)
(* exitsem.                                                                *)
(***************************************************************************)
THEOREM JoinersReadOwnChild ==
  ASSUME ~JoinAny, ~LeaveChildren
  PROVE  Spec => []JoinReadsOwnChild
<1>1. IInv => JoinReadsOwnChild
  BY DEF JoinReadsOwnChild, IInv, TypeOK, JoinInv, ExitInv, Joining, Exited, Kept
<1> QED
  BY <1>1, InvariantHolds, PTL

-----------------------------------------------------------------------------
(* The table of open files (FileTable): its inductive invariant.           *)

\* The slot holds an open file, not a socket or the console.
IsFile(i) == openf[i] # NULL /\ openf[i].fd_type = 0

\* A slot from 2 on that holds a file has the file's name, by which Remove
\* finds it, and the position that the calls have left.
FileExact(i) ==
  IsFile(i) =>
    /\ i >= 2
    /\ openf[i].name \in Names
    /\ tableDescriptor[i] = openf[i].name
    /\ hostLen[openf[i].name] # Absent
    /\ openf[i].hostOffset = position[i]

FileInv == FileTypeOK /\ \A i \in Slots : FileExact(i)

\* The invariant says what the properties do.
LEMMA FileInvGives == FileInv => OpenExists /\ PositionExact
  BY DEF FileInv, FileExact, IsFile, OpenExists, PositionExact, Kind

\* What OpenFile::OpenFile makes of a file and of anything else.
LEMMA OpenFileFacts ==
  /\ Device \in OpenFile /\ Device.fd_type = 1 /\ Device.currentOffset = -1
  /\ \A n \in Names, perm \in {0, 1} :
       /\ File(n, perm) \in OpenFile
       /\ File(n, perm).fd_type = 0 /\ File(n, perm).currentOffset = 0
       /\ File(n, perm).name = n /\ File(n, perm).hostOffset = 0
  BY DEF Device, File, OpenFile

\* The constructor's table.
LEMMA FileInitInv == FileInit => FileInv
<1> SUFFICES ASSUME FileInit PROVE FileInv
  OBVIOUS
<1>1. \A i \in Slots : openf[i] = Device \/ openf[i] = NULL
  BY DEF FileInit
<1>2. 0 \in Slots /\ 1 \in Slots
  BY FileTableAssumption DEF Slots
<1>3. FileTypeOK
  <2>1. openf \in [Slots -> OpenFile \cup {NULL}]
    BY OpenFileFacts DEF FileInit
  <2>2. hostLen \in [Names -> Nat \cup {Absent}]
    BY FileTableAssumption DEF FileInit
  <2> QED
    BY <1>1, <1>2, <2>1, <2>2, OpenFileFacts DEF FileInit, FileTypeOK
<1>4. \A i \in Slots : ~IsFile(i)
  BY <1>1, OpenFileFacts DEF IsFile
<1> QED
  BY <1>3, <1>4 DEF FileInv, FileExact

\* The first free slot is one.
LEMMA FirstFreeFacts ==
  ASSUME NEW first \in {0, 2}, FreeSlots(first) # {}
  PROVE  FirstFree(first) \in Slots /\ FirstFree(first) >= first
<1>1. FreeSlots(first) \in SUBSET Nat
  BY FileTableAssumption DEF FreeSlots, Slots
<1>2. \E i \in FreeSlots(first) : \A j \in FreeSlots(first) : i <= j
  BY <1>1, LeastNumber
<1>3. FirstFree(first) \in FreeSlots(first)
  BY <1>2 DEF FirstFree
<1> QED
  BY <1>3 DEF FreeSlots

\* The types of the variables that are not indexed by slots.
OthersTyped ==
  /\ hostLen \in [Names -> Nat \cup {Absent}]
  /\ result \in Int
  /\ kernel \in {"running", "crashed"}

\* A step that changes one slot, and removes no file.
LEMMA SlotStep ==
  ASSUME FileInv, NEW i \in Slots, NEW o \in OpenFile \cup {NULL},
         openf' = [openf EXCEPT ![i] = o],
         o # NULL => (o.fd_type = 0 <=> o.currentOffset >= 0),
         tableDescriptor' \in [Slots -> Names \cup {NULL}],
         position' \in [Slots -> Nat],
         \A j \in Slots \ {i} : tableDescriptor'[j] = tableDescriptor[j] /\ position'[j] = position[j],
         \A n \in Names : hostLen[n] # Absent => hostLen'[n] # Absent,
         OthersTyped', FileExact(i)'
  PROVE  FileInv'
<1>1. \A j \in Slots : openf'[j] = IF j = i THEN o ELSE openf[j]
  BY DEF FileInv, FileTypeOK
<1>2. FileTypeOK'
  <2>1. openf' \in [Slots -> OpenFile \cup {NULL}]
    BY DEF FileInv, FileTypeOK
  <2>2. \A j \in Slots : openf'[j] # NULL =>
          (openf'[j].fd_type = 0 <=> openf'[j].currentOffset >= 0)
    BY <1>1 DEF FileInv, FileTypeOK
  <2> QED
    BY <2>1, <2>2 DEF FileTypeOK, OthersTyped
<1>3. ASSUME NEW j \in Slots, j # i PROVE FileExact(j)'
  BY <1>1, <1>3 DEF FileInv, FileExact, IsFile
<1> QED
  BY <1>2, <1>3 DEF FileInv

\* A step that leaves the table alone, and removes no file that is open.
LEMMA SameTable ==
  ASSUME FileInv, UNCHANGED table,
         hostLen' \in [Names -> Nat \cup {Absent}],
         \A i \in Slots : IsFile(i) => hostLen'[openf[i].name] # Absent,
         result' \in Int, kernel' \in {"running", "crashed"}
  PROVE  FileInv'
<1>1. FileTypeOK'
  BY DEF FileInv, FileTypeOK, table
<1>2. ASSUME NEW i \in Slots PROVE FileExact(i)'
  BY <1>2 DEF FileInv, FileExact, IsFile, table
<1> QED
  BY <1>1, <1>2 DEF FileInv

\* What Return leaves alone.
LEMMA ReturnFacts ==
  ASSUME FileInv, NEW r \in Int, Return(r), UNCHANGED hostLen
  PROVE  FileInv'
<1>1. \A i \in Slots : IsFile(i) => hostLen'[openf[i].name] # Absent
  BY DEF FileInv, FileExact
<1> QED
  BY <1>1, SameTable DEF FileInv, FileTypeOK, Return

\* A call that crashes the machine leaves the table as it is.
LEMMA CrashFacts ==
  ASSUME FileInv, FileCrash
  PROVE  FileInv'
<1>1. \A i \in Slots : IsFile(i) => hostLen'[openf[i].name] # Absent
  BY DEF FileInv, FileExact, FileCrash
<1> QED
  BY <1>1, SameTable DEF FileInv, FileTypeOK, FileCrash, table

\* An OpenFile of a file, with other positions.
Moved(o, p, q) == [[o EXCEPT !.currentOffset = p] EXCEPT !.hostOffset = q]

\* It is the OpenFile of the same file, at those positions.
IsMoved(o, p, q) ==
  /\ Moved(o, p, q) \in OpenFile
  /\ Moved(o, p, q).fd_type = 0 /\ Moved(o, p, q).name = o.name
  /\ Moved(o, p, q).currentOffset = p /\ Moved(o, p, q).hostOffset = q

\* An OpenFile whose positions move stays the OpenFile of its file.
LEMMA MovedFile ==
  ASSUME NEW o \in OpenFile, o.fd_type = 0, NEW p \in Nat, NEW q \in Nat
  PROVE  IsMoved(o, p, q)
<1> DEFINE a == [o EXCEPT !.currentOffset = p]
           m == [a EXCEPT !.hostOffset = q]
<1>1. a \in OpenFile
  BY DEF OpenFile
<1>2. a.fd_type = 0 /\ a.name = o.name /\ a.currentOffset = p
  BY DEF OpenFile
<1> HIDE DEF a
<1>3. m \in OpenFile
  BY <1>1 DEF OpenFile
<1>4. m.fd_type = 0 /\ m.name = o.name /\ m.currentOffset = p /\ m.hostOffset = q
  BY <1>1, <1>2 DEF OpenFile
<1>5. Moved(o, p, q) = m
  BY DEF Moved, a
<1> QED
  BY <1>3, <1>4, <1>5, Zenon DEF IsMoved

\* A step that moves the positions of one open file.
LEMMA MoveStep ==
  ASSUME FileInv, NEW i \in Slots, i >= 2, Kind(i) = "file",
         NEW p \in Nat, NEW q \in Nat,
         openf' = [openf EXCEPT ![i] = Moved(openf[i], p, q)],
         position' = [position EXCEPT ![i] = q],
         hostLen' \in [Names -> Nat \cup {Absent}],
         \A n \in Names : hostLen[n] # Absent => hostLen'[n] # Absent,
         result' \in Int, UNCHANGED <<tableDescriptor, kernel>>
  PROVE  FileInv'
<1> DEFINE o == Moved(openf[i], p, q)
<1>1. openf[i] \in OpenFile /\ openf[i].fd_type = 0 /\ IsFile(i)
  BY DEF FileInv, FileTypeOK, Kind, IsFile
<1> HIDE DEF o
<1>2. /\ o \in OpenFile /\ o.fd_type = 0 /\ o.name = openf[i].name
      /\ o.currentOffset = p /\ o.hostOffset = q
  <2>1. IsMoved(openf[i], p, q)
    BY <1>1, MovedFile
  <2> QED
    BY <2>1, Zenon DEF IsMoved, o
<1>3. openf' = [openf EXCEPT ![i] = o]
  BY Zenon DEF o
<1>4. openf'[i] = o /\ position'[i] = q
  BY <1>3 DEF FileInv, FileTypeOK
<1>5. FileExact(i)'
  BY <1>1, <1>2, <1>4 DEF FileInv, FileExact, IsFile
<1>6. \A j \in Slots \ {i} : tableDescriptor'[j] = tableDescriptor[j] /\ position'[j] = position[j]
  BY DEF FileInv, FileTypeOK
<1>7. position' \in [Slots -> Nat] /\ OthersTyped' /\ tableDescriptor' \in [Slots -> Names \cup {NULL}]
  BY DEF FileInv, FileTypeOK, OthersTyped
<1>8. o # NULL => (o.fd_type = 0 <=> o.currentOffset >= 0)
  BY <1>2
<1> QED
  BY <1>2, <1>3, <1>5, <1>6, <1>7, <1>8, SlotStep

-----------------------------------------------------------------------------
(* One step per system call.                                               *)

\* The Open system call.
LEMMA OpenCallInv ==
  ASSUME FileInv, NEW n \in Names, NEW perm \in 0..2, Open(n, perm)
  PROVE  FileInv'
<1>1. CASE FreeSlots(2) = {} \/ perm \notin {0, 1}
  BY <1>1, ReturnFacts DEF Open
<1>2. CASE ~(FreeSlots(2) = {} \/ perm \notin {0, 1})
  <2> PICK id : id = FirstFree(2)
    OBVIOUS
  <2> PICK o : o = IF hostLen[n] = Absent THEN NULL ELSE File(n, perm)
    OBVIOUS
  <2>1. id \in Slots /\ id >= 2
    BY <1>2, FirstFreeFacts
  <2>2. id \in Int
    BY <2>1, FileTableAssumption DEF Slots
  <2>3. /\ openf' = [openf EXCEPT ![id] = o]
        /\ tableDescriptor' = [tableDescriptor EXCEPT ![id] = n]
        /\ position' = [position EXCEPT ![id] = 0]
        /\ result' = id
        /\ UNCHANGED <<hostLen, kernel>>
    BY <1>2 DEF Open
  <2>4. /\ o \in OpenFile \cup {NULL}
        /\ o # NULL => /\ o.fd_type = 0 /\ o.currentOffset = 0 /\ o.name = n
                       /\ o.hostOffset = 0 /\ hostLen[n] # Absent
    BY <1>2, OpenFileFacts
  <2>5. FileExact(id)'
    BY <2>1, <2>3, <2>4 DEF FileInv, FileTypeOK, FileExact, IsFile
  <2>6. tableDescriptor' \in [Slots -> Names \cup {NULL}] /\ position' \in [Slots -> Nat]
    BY <2>3 DEF FileInv, FileTypeOK
  <2>7. \A j \in Slots \ {id} : tableDescriptor'[j] = tableDescriptor[j] /\ position'[j] = position[j]
    BY <2>3 DEF FileInv, FileTypeOK
  <2> QED
    <3>1. OthersTyped'
      BY <2>1, <2>2, <2>3 DEF FileInv, FileTypeOK, OthersTyped
    <3>2. o # NULL => (o.fd_type = 0 <=> o.currentOffset >= 0)
      BY <2>4
    <3> QED
      BY <2>1, <2>3, <2>4, <2>5, <2>6, <2>7, <3>1, <3>2, SlotStep
<1> QED
  BY <1>1, <1>2

\* The Close system call.
LEMMA CloseCallInv ==
  ASSUME FileInv, NEW i \in Slots, Close(i)
  PROVE  FileInv'
<1>1. CASE Kind(i) = "none"
  BY <1>1, ReturnFacts DEF Close
<1>2. CASE Kind(i) # "none"
  <2>1. /\ openf' = [openf EXCEPT ![i] = NULL]
        /\ tableDescriptor' = [tableDescriptor EXCEPT ![i] = NULL]
        /\ result' = 0
        /\ UNCHANGED <<position, kernel, hostLen>>
    BY <1>2 DEF Close
  <2>2. FileExact(i)'
    BY <2>1 DEF FileInv, FileTypeOK, FileExact, IsFile
  <2>3. tableDescriptor' \in [Slots -> Names \cup {NULL}] /\ position' \in [Slots -> Nat]
    BY <2>1 DEF FileInv, FileTypeOK
  <2>4. \A j \in Slots \ {i} : tableDescriptor'[j] = tableDescriptor[j] /\ position'[j] = position[j]
    BY <2>1 DEF FileInv, FileTypeOK
  <2> QED
    <3>1. OthersTyped'
      BY <2>1 DEF FileInv, FileTypeOK, OthersTyped
    <3>2. NULL \in OpenFile \cup {NULL} /\ UNCHANGED hostLen
      BY <2>1
    <3> QED
      BY <2>1, <2>2, <2>3, <2>4, <3>1, <3>2, SlotStep
<1> QED
  BY <1>1, <1>2

\* The SocketTCP system call.
LEMMA SocketCallInv ==
  ASSUME FileInv, NEW ok \in BOOLEAN, SocketTCP(ok)
  PROVE  FileInv'
<1>1. CASE ~ok \/ FreeSlots(0) = {}
  BY <1>1, ReturnFacts DEF SocketTCP
<1>2. CASE ~(~ok \/ FreeSlots(0) = {})
  <2> PICK id : id = FirstFree(0)
    OBVIOUS
  <2>1. id \in Slots
    BY <1>2, FirstFreeFacts
  <2>2. id \in Int
    BY <2>1, FileTableAssumption DEF Slots
  <2>3. /\ openf' = [openf EXCEPT ![id] = Device]
        /\ position' = [position EXCEPT ![id] = 0]
        /\ result' = id
        /\ UNCHANGED <<tableDescriptor, hostLen, kernel>>
    BY <1>2 DEF SocketTCP
  <2>4. FileExact(id)'
    BY <2>1, <2>3, OpenFileFacts DEF FileInv, FileTypeOK, FileExact, IsFile
  <2>5. tableDescriptor' \in [Slots -> Names \cup {NULL}] /\ position' \in [Slots -> Nat]
    BY <2>3 DEF FileInv, FileTypeOK
  <2>6. \A j \in Slots \ {id} : tableDescriptor'[j] = tableDescriptor[j] /\ position'[j] = position[j]
    BY <2>3 DEF FileInv, FileTypeOK
  <2>7. Device \in OpenFile /\ Device.fd_type # 0 /\ ~(Device.currentOffset >= 0)
    BY OpenFileFacts
  <2> QED
    <3>1. OthersTyped'
      BY <2>1, <2>2, <2>3 DEF FileInv, FileTypeOK, OthersTyped
    <3> QED
      BY <2>1, <2>3, <2>4, <2>5, <2>6, <2>7, <3>1, SlotStep
<1> QED
  BY <1>1, <1>2

\* The length of an open file is a number.
LEMMA OpenLength ==
  ASSUME FileInv, NEW i \in Slots, Kind(i) = "file"
  PROVE  /\ openf[i] \in OpenFile /\ openf[i].name \in Names
         /\ hostLen[openf[i].name] \in Nat
         /\ openf[i].hostOffset \in Nat /\ openf[i].hostOffset = position[i]
<1>1. IsFile(i) /\ FileExact(i)
  BY DEF FileInv, Kind, IsFile
<1>2. openf[i] \in OpenFile
  BY <1>1 DEF FileInv, FileTypeOK, IsFile
<1>3. openf[i].hostOffset \in Nat
  BY <1>2 DEF OpenFile
<1> QED
  BY <1>1, <1>2, <1>3 DEF FileInv, FileTypeOK, FileExact

\* The Read system call.
LEMMA ReadCallInv ==
  ASSUME FileInv, NEW i \in Slots, NEW len \in 1..(MaxLen + 1), ReadFile(i, len)
  PROVE  FileInv'
<1> DEFINE old == openf[i].hostOffset
           size == hostLen[openf[i].name]
           numRead == Least(len - 1, Greatest(size - old, 0))
<1>1. /\ i >= 2 /\ Kind(i) = "file"
      /\ result' = IF old = size THEN 0 ELSE IF numRead > 0 THEN numRead ELSE -1
      /\ MoveTo(i, old + numRead)
      /\ position' = [position EXCEPT ![i] = @ + Greatest(result', 0)]
      /\ UNCHANGED <<tableDescriptor, hostLen, kernel>>
  BY DEF ReadFile
<1>2. size \in Nat /\ old \in Nat /\ old = position[i] /\ len - 1 \in Nat
  BY <1>1, OpenLength, FileTableAssumption
<1> HIDE DEF old, size
<1>3. numRead \in Nat /\ (old = size => numRead = 0)
  BY <1>2 DEF Least, Greatest
<1> HIDE DEF numRead
<1>4. result' \in Int /\ Greatest(result', 0) = numRead
  BY <1>1, <1>3 DEF Greatest
<1>5. position' = [position EXCEPT ![i] = old + numRead]
  BY <1>1, <1>2, <1>4
<1>6. openf' = [openf EXCEPT ![i] = Moved(openf[i], old + numRead, old + numRead)]
  BY <1>1 DEF MoveTo, FileInv, FileTypeOK, Moved
<1>7. old + numRead \in Nat
  BY <1>2, <1>3
<1> QED
  BY <1>1, <1>4, <1>5, <1>6, <1>7, MoveStep DEF FileInv, FileTypeOK

\* The Write system call.
LEMMA WriteCallInv ==
  ASSUME FileInv, NEW i \in Slots, NEW len \in 1..MaxLen, NEW nul \in BOOLEAN, WriteFile(i, len, nul)
  PROVE  FileInv'
<1> DEFINE old == openf[i].hostOffset
           name == openf[i].name
           n == IF nul THEN len - 1 ELSE len
           size == hostLen[name]
<1>1. /\ i >= 2 /\ Kind(i) = "file"
      /\ IF n <= 0
         THEN /\ openf' = [openf EXCEPT ![i].currentOffset = old]
              /\ result' = -1
              /\ UNCHANGED <<hostLen, position>>
         ELSE /\ old + n <= MaxLen
              /\ hostLen' = [hostLen EXCEPT ![name] = Greatest(size, old + n)]
              /\ MoveTo(i, old + n)
              /\ position' = [position EXCEPT ![i] = @ + n]
              /\ result' = n + 1
      /\ UNCHANGED <<tableDescriptor, kernel>>
  BY DEF WriteFile
<1>2. /\ size \in Nat /\ old \in Nat /\ old = position[i] /\ n \in Nat
      /\ name \in Names /\ openf[i] \in OpenFile /\ openf[i].hostOffset = old
  BY <1>1, OpenLength, FileTableAssumption
<1> HIDE DEF old, n, size, name
<1>3. CASE n <= 0
  <2>1. openf' = [openf EXCEPT ![i] = Moved(openf[i], old, old)]
    <3>1. openf' = [openf EXCEPT ![i] = [openf[i] EXCEPT !.currentOffset = old]]
      BY <1>1, <1>3 DEF FileInv, FileTypeOK
    <3>2. Moved(openf[i], old, old) = [openf[i] EXCEPT !.currentOffset = old]
      BY <1>2 DEF OpenFile, Moved
    <3> QED
      BY <3>1, <3>2
  <2>2. position' = [position EXCEPT ![i] = old]
    BY <1>1, <1>2, <1>3 DEF FileInv, FileTypeOK
  <2>3. /\ hostLen' \in [Names -> Nat \cup {Absent}]
        /\ \A m \in Names : hostLen[m] # Absent => hostLen'[m] # Absent
        /\ result' \in Int
    BY <1>1, <1>3 DEF FileInv, FileTypeOK
  <2> QED
    BY <1>1, <1>2, <2>1, <2>2, <2>3, MoveStep
<1>4. CASE ~(n <= 0)
  <2>1. openf' = [openf EXCEPT ![i] = Moved(openf[i], old + n, old + n)]
    BY <1>1, <1>4 DEF MoveTo, FileInv, FileTypeOK, Moved
  <2>2. position' = [position EXCEPT ![i] = old + n]
    BY <1>1, <1>2, <1>4
  <2>3. old + n \in Nat /\ Greatest(size, old + n) \in Nat
    BY <1>2 DEF Greatest
  <2>4. /\ hostLen' \in [Names -> Nat \cup {Absent}]
        /\ \A m \in Names : hostLen[m] # Absent => hostLen'[m] # Absent
        /\ result' \in Int
    BY <1>1, <1>2, <1>4, <2>3 DEF FileInv, FileTypeOK, Absent
  <2> QED
    BY <1>1, <2>1, <2>2, <2>3, <2>4, MoveStep
<1> QED
  BY <1>3, <1>4

\* The Seek system call.
LEMMA SeekCallInv ==
  ASSUME FileInv, NEW i \in Slots, NEW pos \in -2..(MaxLen + 1), Seek(pos, i)
  PROVE  FileInv'
<1> DEFINE size == hostLen[openf[i].name]
           target == IF pos = -1 THEN size ELSE pos
<1>1. /\ i >= 2 /\ Kind(i) = "file"
      /\ IF target > size \/ target < 0
         THEN /\ openf' = [openf EXCEPT ![i].hostOffset = size]
              /\ position' = [position EXCEPT ![i] = size]
              /\ result' = -1
         ELSE /\ MoveTo(i, target)
              /\ position' = [position EXCEPT ![i] = target]
              /\ result' = target
      /\ UNCHANGED <<tableDescriptor, hostLen, kernel>>
  BY DEF Seek
<1>2. /\ size \in Nat /\ target \in Int /\ openf[i] \in OpenFile
      /\ openf[i].currentOffset \in Nat
  <2>1. size \in Nat /\ openf[i] \in OpenFile /\ pos \in Int
    BY <1>1, OpenLength, FileTableAssumption
  <2>2. openf[i].currentOffset \in Nat \cup {-1} /\ openf[i].currentOffset >= 0
    BY <1>1, <2>1 DEF FileInv, FileTypeOK, OpenFile, Kind
  <2> QED
    BY <2>1, <2>2
<1>3. /\ hostLen' \in [Names -> Nat \cup {Absent}]
      /\ \A m \in Names : hostLen[m] # Absent => hostLen'[m] # Absent
  BY <1>1 DEF FileInv, FileTypeOK
<1> HIDE DEF size, target
<1>4. CASE target > size \/ target < 0
  <2> PICK c \in Nat : c = openf[i].currentOffset
    BY <1>2
  <2>1. openf' = [openf EXCEPT ![i] = Moved(openf[i], c, size)]
    <3>1. openf' = [openf EXCEPT ![i] = [openf[i] EXCEPT !.hostOffset = size]]
      BY <1>1, <1>4 DEF FileInv, FileTypeOK
    <3>2. [openf[i] EXCEPT !.currentOffset = c] = openf[i]
      BY <1>2 DEF OpenFile
    <3> QED
      BY <3>1, <3>2 DEF Moved
  <2> QED
    <3>1. result' \in Int /\ position' = [position EXCEPT ![i] = size]
      BY <1>1, <1>4
    <3> QED
      BY <1>1, <1>2, <1>3, <2>1, <3>1, MoveStep
<1>5. CASE ~(target > size \/ target < 0)
  <2>1. openf' = [openf EXCEPT ![i] = Moved(openf[i], target, target)]
    BY <1>1, <1>5 DEF MoveTo, FileInv, FileTypeOK, Moved
  <2>2. target \in Nat
    BY <1>2, <1>5
  <2> QED
    <3>1. result' \in Int /\ position' = [position EXCEPT ![i] = target]
      BY <1>1, <1>5, <2>2
    <3> QED
      BY <1>1, <1>3, <2>1, <2>2, <3>1, MoveStep
<1> QED
  BY <1>4, <1>5

\* Create truncates a file that may be open; Remove spares it.
LEMMA NamesInv ==
  ASSUME FileInv, NEW n \in Names, Create(n) \/ RemoveFile(n)
  PROVE  FileInv'
<1>1. CASE Create(n)
  <2>1. /\ hostLen' = [hostLen EXCEPT ![n] = 0] /\ UNCHANGED table
        /\ result' = 0 /\ kernel' = kernel
    BY <1>1 DEF Create, Return
  <2>2. \A i \in Slots : IsFile(i) => hostLen'[openf[i].name] # Absent
    BY <2>1 DEF FileInv, FileTypeOK, FileExact, Absent
  <2>3. hostLen' \in [Names -> Nat \cup {Absent}]
    BY <2>1 DEF FileInv, FileTypeOK
  <2> QED
    BY <2>1, <2>2, <2>3, SameTable DEF FileInv, FileTypeOK
<1>2. CASE RemoveFile(n)
  <2>1. CASE (\E i \in Slots : i >= 2 /\ tableDescriptor[i] = n) \/ hostLen[n] = Absent
    BY <1>2, <2>1, ReturnFacts DEF RemoveFile
  <2>2. CASE ~((\E i \in Slots : i >= 2 /\ tableDescriptor[i] = n) \/ hostLen[n] = Absent)
    <3>1. /\ hostLen' = [hostLen EXCEPT ![n] = Absent] /\ UNCHANGED table
          /\ result' = 0 /\ kernel' = kernel
      BY <1>2, <2>2 DEF RemoveFile, Return
    <3>2. \A i \in Slots : IsFile(i) => openf[i].name # n /\ openf[i].name \in Names
      BY <2>2 DEF FileInv, FileExact
    <3>3. \A i \in Slots : IsFile(i) => hostLen'[openf[i].name] # Absent
      BY <3>1, <3>2 DEF FileInv, FileTypeOK, FileExact
    <3>4. hostLen' \in [Names -> Nat \cup {Absent}]
      BY <3>1 DEF FileInv, FileTypeOK
    <3> QED
      BY <3>1, <3>3, <3>4, SameTable DEF FileInv, FileTypeOK
  <2> QED
    BY <2>1, <2>2
<1> QED
  BY <1>1, <1>2

\* The calls that are refused, and those that only ask the host.
LEMMA OtherCallsInv ==
  ASSUME FileInv, NEW i \in Slots, NEW r \in -1..1,
         \/ ReadRefused(i) \/ ReadSocket(i) \/ WriteRefused(i)
         \/ SeekRefused(i) \/ SeekSocket(i)
         \/ Connect(i, r) \/ Receive(i, r) \/ Send(i, r)
  PROVE  FileInv'
<1>1. CASE FileCrash
  BY <1>1, CrashFacts
<1>2. CASE \E v \in Int : Return(v) /\ UNCHANGED hostLen
  BY <1>2, ReturnFacts
<1>3. FileCrash \/ \E v \in Int : Return(v) /\ UNCHANGED hostLen
  BY DEF ReadRefused, ReadSocket, WriteRefused, SeekRefused, SeekSocket, Connect, Receive, Send
<1> QED
  BY <1>1, <1>2, <1>3

\* Every system call keeps the invariant.
LEMMA FileNextInv == FileInv /\ [FileNext]_fileVars => FileInv'
<1> SUFFICES ASSUME FileInv, [FileNext]_fileVars PROVE FileInv'
  OBVIOUS
<1>1. CASE UNCHANGED fileVars
  BY <1>1 DEF fileVars, FileInv, FileTypeOK, FileExact, IsFile
<1>2. CASE \E n \in Names : Create(n) \/ RemoveFile(n) \/ \E perm \in 0..2 : Open(n, perm)
  BY <1>2, NamesInv, OpenCallInv
<1>3. ASSUME NEW i \in Slots,
             \/ Close(i)
             \/ \E len \in 1..(MaxLen + 1) : ReadFile(i, len)
             \/ \E len \in 1..MaxLen, nul \in BOOLEAN : WriteFile(i, len, nul)
             \/ \E pos \in -2..(MaxLen + 1) : Seek(pos, i)
      PROVE  FileInv'
  BY <1>3, CloseCallInv, ReadCallInv, WriteCallInv, SeekCallInv
<1>4. ASSUME NEW i \in Slots,
             \/ ReadRefused(i) \/ ReadSocket(i) \/ WriteRefused(i)
             \/ SeekRefused(i) \/ SeekSocket(i)
             \/ \E r \in -1..1 : Connect(i, r) \/ Receive(i, r) \/ Send(i, r)
      PROVE  FileInv'
  <2>1. 0 \in -1..1
    OBVIOUS
  <2> QED
    BY <1>4, <2>1, OtherCallsInv
<1>5. CASE \E ok \in BOOLEAN : SocketTCP(ok)
  BY <1>5, SocketCallInv
<1> QED
  BY <1>1, <1>2, <1>3, <1>4, <1>5 DEF FileNext, Crashed

\* The inductive invariant holds in every state.
THEOREM FileInvariantHolds == FileSpec => []FileInv
<1> QED
  BY FileInitInv, FileNextInv, PTL DEF FileSpec

(***************************************************************************)
(* A file that is open exists, whatever mixture of Open, failed Open,      *)
(* SocketTCP, Close, Create and Remove went before.                        *)
(***************************************************************************)
THEOREM OpenFilesExist == FileSpec => []OpenExists
<1> QED
  BY FileInvGives, FileInvariantHolds, PTL

(***************************************************************************)
(* Each Read and Write begins where the last call on the descriptor ended, *)
(* although Length moves the host's file in between.                       *)
(***************************************************************************)
THEOREM PositionsKept == FileSpec => []PositionExact
<1> QED
  BY FileInvGives, FileInvariantHolds, PTL
=============================================================================
