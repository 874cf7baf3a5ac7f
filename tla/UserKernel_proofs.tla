------------------------- MODULE UserKernel_proofs -------------------------
(***************************************************************************)
(* Proofs about UserKernel, for any set of processes, any programs, any    *)
(* size of memory and any table of semaphores: the bitmap of frames is     *)
(* exact, a program runs on its own registers and page table, its memory   *)
(* is kept, and a name is one semaphore.                                   *)
(***************************************************************************)
EXTENDS UserKernel, FiniteSetTheorems, TLAPS

-----------------------------------------------------------------------------
(* The frames that FindAndSet returns.                                     *)

\* The number of elements below one of a finite set of numbers.
Rank(S, f) == Cardinality({e \in S : e < f})

\* Ranks are numbers below the size of the set, and they grow.
LEMMA RankGrows ==
  ASSUME NEW S \in SUBSET Nat, IsFiniteSet(S)
  PROVE  /\ Cardinality(S) \in Nat
         /\ \A f \in S : Rank(S, f) \in 0..(Cardinality(S) - 1)
         /\ \A f, g \in S : f < g => Rank(S, f) < Rank(S, g)
<1> DEFINE Below(f) == {e \in S : e < f}
<1>1. Cardinality(S) \in Nat
  BY FS_CardinalityType
<1>2. ASSUME NEW f \in S PROVE IsFiniteSet(Below(f)) /\ Cardinality(Below(f)) \in Nat
  BY FS_Subset, FS_CardinalityType
<1>3. ASSUME NEW f \in S, NEW T \in SUBSET S, f \in T, Below(f) \subseteq T
      PROVE  Cardinality(Below(f)) < Cardinality(T)
  <2>1. IsFiniteSet(T)
    BY FS_Subset
  <2>2. f \notin Below(f) /\ Below(f) \cup {f} \subseteq T
    BY <1>3
  <2>3. Cardinality(Below(f) \cup {f}) = Cardinality(Below(f)) + 1
    BY <1>2, <2>2, FS_AddElement
  <2>4. Cardinality(Below(f) \cup {f}) <= Cardinality(T)
    BY <2>1, <2>2, FS_Subset
  <2>5. Cardinality(T) \in Nat /\ Cardinality(Below(f)) \in Nat
    BY <1>2, <2>1, FS_CardinalityType
  <2> QED
    BY <2>3, <2>4, <2>5
<1>4. ASSUME NEW f \in S PROVE Rank(S, f) \in 0..(Cardinality(S) - 1)
  <2>1. Rank(S, f) = Cardinality(Below(f))
    BY DEF Rank
  <2>2. Cardinality(Below(f)) < Cardinality(S)
    BY <1>3
  <2> HIDE DEF Below
  <2> QED
    BY <1>1, <1>2, <2>1, <2>2
<1>5. ASSUME NEW f \in S, NEW g \in S, f < g PROVE Rank(S, f) < Rank(S, g)
  <2>1. f \in Below(g) /\ Below(f) \subseteq Below(g) /\ Below(g) \in SUBSET S
    <3>1. ASSUME NEW e \in S, e < f PROVE e < g
      <4>1. e \in Nat /\ f \in Nat /\ g \in Nat
        OBVIOUS
      <4> QED
        BY <1>5, <3>1, <4>1
    <3> QED
      BY <1>5, <3>1
  <2>2. Cardinality(Below(f)) < Cardinality(Below(g))
    <3> HIDE DEF Below
    <3> QED
      BY <1>3, <2>1
  <2> QED
    BY <2>2 DEF Rank
<1> QED
  BY <1>1, <1>4, <1>5

\* Every number below the size of the set is the rank of one element.
LEMMA RankOnto ==
  ASSUME NEW S \in SUBSET Nat, IsFiniteSet(S), NEW k \in 0..(Cardinality(S) - 1)
  PROVE  \E f \in S : Rank(S, f) = k
<1> DEFINE N == Cardinality(S)
           r == [f \in S |-> Rank(S, f)]
<1>1. N \in Nat
  BY FS_CardinalityType
<1>2. r \in Injection(S, 0..(N - 1))
  <2>1. r \in [S -> 0..(N - 1)]
    BY RankGrows
  <2>2. ASSUME NEW f \in S, NEW g \in S, f # g PROVE r[f] # r[g]
    <3>1. f < g \/ g < f
      BY <2>2
    <3>2. Rank(S, f) \in Int /\ Rank(S, g) \in Int
      BY <1>1, RankGrows
    <3>3. (f < g => Rank(S, f) < Rank(S, g)) /\ (g < f => Rank(S, g) < Rank(S, f))
      BY RankGrows
    <3> QED
      BY <3>1, <3>2, <3>3
  <2> QED
    BY <2>1, <2>2 DEF Injection, IsInjective
<1>3. IsFiniteSet(0..(N - 1)) /\ Cardinality(0..(N - 1)) = N
  <2>1. 0 \in Int /\ N - 1 \in Int
    BY <1>1
  <2>2. /\ IsFiniteSet(0..(N - 1))
        /\ Cardinality(0..(N - 1)) = IF 0 > N - 1 THEN 0 ELSE N - 1 - 0 + 1
    BY <2>1, FS_Interval
  <2> HIDE DEF N
  <2> QED
    BY <1>1, <2>2
<1>4. r \in Surjection(S, 0..(N - 1))
  <2> HIDE DEF r
  <2> QED
    BY <1>2, <1>3, FS_Injection
<1> QED
  BY <1>4 DEF Surjection

\* The frames are free, and no two of them are the same.
LEMMA FindFramesFacts ==
  ASSUME NEW n \in Nat, gPhysPageBitMap \subseteq Frames,
         n <= Cardinality(Frames \ gPhysPageBitMap)
  PROVE  /\ n <= NumPhysPages
         /\ FindFrames(n) \in [1..n -> Frames]
         /\ \A i \in 1..n : FindFrames(n)[i] \notin gPhysPageBitMap
         /\ \A i, j \in 1..n : FindFrames(n)[i] = FindFrames(n)[j] => i = j
<1> DEFINE free == Frames \ gPhysPageBitMap
<1>1. IsFiniteSet(Frames) /\ Cardinality(Frames) = NumPhysPages /\ Frames \in SUBSET Nat
  <2>1. NumPhysPages \in Nat /\ 0 \in Int /\ NumPhysPages - 1 \in Int
    BY AddrSpaceAssumption
  <2>2. /\ IsFiniteSet(0..(NumPhysPages - 1))
        /\ Cardinality(0..(NumPhysPages - 1)) =
             IF 0 > NumPhysPages - 1 THEN 0 ELSE NumPhysPages - 1 - 0 + 1
    BY <2>1, FS_Interval
  <2> QED
    BY <2>1, <2>2 DEF Frames
<1>2. IsFiniteSet(free) /\ free \in SUBSET Nat /\ Cardinality(free) <= NumPhysPages
  BY <1>1, FS_Subset
<1>3. Cardinality(free) \in Nat
  BY <1>2, FS_CardinalityType
<1>4. ASSUME NEW i \in 1..n
      PROVE  /\ FindFrames(n)[i] \in free
             /\ Rank(free, FindFrames(n)[i]) = i - 1
  <2>1. i - 1 \in 0..(Cardinality(free) - 1)
    BY <1>3
  <2>2. \E f \in free : Rank(free, f) = i - 1
    <3> HIDE DEF free
    <3> QED
      BY <1>2, <2>1, RankOnto
  <2>3. FindFrames(n)[i] = CHOOSE f \in free : Rank(free, f) = i - 1
    BY DEF FindFrames, Rank
  <2> HIDE DEF free
  <2> QED
    BY <2>2, <2>3
<1>5. FindFrames(n) \in [1..n -> Frames]
  <2> DEFINE h(i) == CHOOSE f \in free : Rank(free, f) = i - 1
  <2>1. FindFrames(n) = [i \in 1..n |-> h(i)]
    BY Zenon DEF FindFrames, Rank
  <2> HIDE DEF h
  <2>2. \A i \in 1..n : h(i) \in Frames
    BY <1>4, <2>1
  <2> QED
    BY <2>1, <2>2
<1>6. ASSUME NEW i \in 1..n, NEW j \in 1..n, FindFrames(n)[i] = FindFrames(n)[j]
      PROVE  i = j
  <2>1. i - 1 = j - 1
    BY <1>4, <1>6
  <2> QED
    BY <2>1
<1> QED
  BY <1>2, <1>3, <1>4, <1>5, <1>6, AddrSpaceAssumption

-----------------------------------------------------------------------------
(* The inductive invariant.                                                *)

Programs == [code : Nat \ {0}, rdata : Nat, data : Nat, rest : Nat]
Content == Procs \X {"file", "zero", "data", "args"} \X Nat

\* Where the processes are; a thread has a space while it runs a program.
LocInv ==
  /\ loc \in [Procs -> {"none", "new", "lock", "alloc", "exec", "user", "done"}]
  /\ space \in [Procs -> BOOLEAN]
  /\ \A p \in Procs : space[p] <=> loc[p] = "user"
  /\ current \in Procs \cup {NULL} /\ ptReg \in Procs \cup {NULL}
  /\ program \in [Procs -> Programs \cup {NULL}]
  /\ \A p \in Procs : loc[p] # "none" => program[p] \in Programs

\* A program's registers are in the machine while it runs, and saved while it
\* does not.
CpuInv ==
  /\ MachineIsOwn
  /\ lastRegs = [p \in Procs |-> lastRegs[p]] /\ userRegisters = [p \in Procs |-> userRegisters[p]]
  /\ \A p \in Procs : current # p /\ loc[p] = "user" => userRegisters[p] = lastRegs[p]

\* One process is between the P and the V of addrLock, or none.
LockInv ==
  \/ addrLock = 1 /\ \A p \in Procs : loc[p] # "alloc"
  \/ addrLock = 0 /\ \E p \in Procs : loc[p] = "alloc" /\ \A q \in Procs : loc[q] = "alloc" => q = p

\* A page table is a sequence of different frames, and only a process that has
\* passed the constructor has one.
TablesInv ==
  /\ pageTable \in [Procs -> Seq(Frames) \cup {NULL}]
  /\ \A p \in Procs : loc[p] \in {"none", "new", "lock", "alloc", "done"} => pageTable[p] = NULL
  /\ \A p \in Procs : \A i, j \in 1..NumPages(p) : pageTable[p][i] = pageTable[p][j] => i = j

\* Frames are marked, and are in one table or are lost.
FramesInv ==
  /\ gPhysPageBitMap \subseteq Frames
  /\ \A p, q \in Procs : p # q => FramesOf(p) \cap FramesOf(q) = {}
  /\ \A f : f \in gPhysPageBitMap <=> f \in leaked \/ \E p \in Procs : f \in FramesOf(p)
  /\ \A p \in Procs : FramesOf(p) \cap leaked = {}

\* What a process should see has one entry for each of its pages.
ViewInv ==
  /\ view \in [Procs -> Seq(Content)]
  /\ \A p \in Procs : Len(view[p]) = NumPages(p)
  /\ victims \subseteq Procs
  /\ mainMemory = [f \in Frames |-> mainMemory[f]]

ASInv == LocInv /\ CpuInv /\ LockInv /\ TablesInv /\ FramesInv /\ ViewInv /\ MemoryKept

\* A semaphore that a caller waits for exists.
SemInv ==
  /\ bm = {id \in SemSlots : semTab[id] # NoSem}
  /\ semTab \in [SemSlots -> [name : SemNames, value : Nat] \cup {NoSem}]
  /\ \A id \in SemSlots : semTab[id] # NoSem => semTab[id].value <= MaxValue
  /\ waiting \in [Callers -> SemSlots \cup {-1}]
  /\ \A c \in Callers : waiting[c] # -1 => semTab[waiting[c]] # NoSem
  /\ \A i, j \in SemSlots : semTab[i] # NoSem /\ semTab[j] # NoSem /\ semTab[i].name = semTab[j].name => i = j
  /\ ledger = [n \in SemNames |-> ledger[n]]
  /\ \A id \in SemSlots : semTab[id] # NoSem => semTab[id].value = ledger[semTab[id].name]

IInv == ASInv /\ SemInv

\* The steps of AddrSpace, in one formula.
ASStep ==
  \/ Run(NULL)
  \/ \E p \in Procs : Run(p) \/ Step(p) \/ \E g \in Programs, args \in BOOLEAN : Fork(p, g, args)

\* The kernel's constructors establish the invariant.
LEMMA InitInv == Init => IInv
<1> SUFFICES ASSUME Init PROVE IInv
  OBVIOUS
<1> USE DEF Init, ASInit
<1>1. LocInv
  BY AddrSpaceAssumption DEF LocInv
<1>2. CpuInv
  BY DEF CpuInv, MachineIsOwn
<1>3. LockInv
  BY DEF LockInv
<1>4. \A p \in Procs : NumPages(p) = 0 /\ FramesOf(p) = {} /\ pageTable[p] = NULL
  BY DEF NumPages, FramesOf
<1>5. TablesInv
  BY <1>4 DEF TablesInv
<1>6. FramesInv
  BY <1>4 DEF FramesInv
<1>7. ViewInv
  BY <1>4 DEF ViewInv
<1>8. MemoryKept
  BY <1>4 DEF MemoryKept
<1>9. SemInv
  <2>1. SemSlots \subseteq Nat
    BY SemTableAssumption DEF SemSlots
  <2> QED
    BY <2>1 DEF STInit, SemInv
<1> QED
  BY <1>1, <1>2, <1>3, <1>5, <1>6, <1>7, <1>8, <1>9 DEF IInv, ASInv

-----------------------------------------------------------------------------
(* The processor.                                                          *)

\* The processes' locations keep their types.
LEMMA LocStep ==
  ASSUME LocInv, ASStep
  PROVE  LocInv'
<1> USE DEF LocInv
<1>1. CASE Run(NULL) \/ \E p \in Procs : Run(p)
  <2>1. PICK next \in Procs \cup {NULL} : Run(next)
    BY <1>1
  <2> QED
    BY <2>1 DEF Run, RestoreState
<1>2. ASSUME NEW p \in Procs, NEW g \in Programs, NEW args \in BOOLEAN, Fork(p, g, args)
      PROVE  LocInv'
  BY <1>2 DEF Fork, Goto, cpuVars
<1>3. ASSUME NEW p \in Procs, Step(p) PROVE LocInv'
  <2>1. CASE LockAddr(p) \/ Allocate(p) \/ OutOfMemory(p)
    BY <2>1 DEF LockAddr, Allocate, OutOfMemory, Goto, cpuVars
  <2>2. CASE StartProcess_1(p) \/ StartProcess_2(p)
    BY <2>2 DEF StartProcess_1, StartProcess_2, Execute, Goto
  <2>3. CASE ArgumentsFault(p) \/ ArgumentsRefused(p)
    BY <2>3 DEF ArgumentsFault, ArgumentsRefused, EndWithoutSpace, Goto
  <2>4. CASE \E v \in StorePages : Store(p, v)
    BY <2>4 DEF Store, procVars
  <2>5. CASE Finish(p)
    BY <2>5 DEF Finish
  <2> QED
    BY <1>3, <2>1, <2>2, <2>3, <2>4, <2>5 DEF Step
<1> QED
  BY <1>1, <1>2, <1>3 DEF ASStep

\* The page table in the machine is the running process's.
LEMMA CpuStep ==
  ASSUME LocInv, CpuInv, ASStep
  PROVE  CpuInv'
<1> USE DEF LocInv, CpuInv, MachineIsOwn
<1>1. CASE Run(NULL) \/ \E p \in Procs : Run(p)
  <2>1. PICK next \in Procs \cup {NULL} : Run(next)
    BY <1>1
  <2> QED
    BY <2>1, AddrSpaceAssumption DEF Run, RestoreState, SaveUserState, RestoreUserState
<1>2. ASSUME NEW p \in Procs, NEW g \in Programs, NEW args \in BOOLEAN, Fork(p, g, args)
      PROVE  CpuInv'
  BY <1>2 DEF Fork, Goto, cpuVars
<1>3. ASSUME NEW p \in Procs, Step(p) PROVE CpuInv'
  <2>1. CASE LockAddr(p) \/ Allocate(p) \/ OutOfMemory(p)
    BY <2>1 DEF LockAddr, Allocate, OutOfMemory, Goto, cpuVars
  <2>2. CASE StartProcess_1(p) \/ StartProcess_2(p)
    BY <2>2 DEF StartProcess_1, StartProcess_2, Execute, Goto
  <2>3. CASE ArgumentsFault(p) \/ ArgumentsRefused(p)
    BY <2>3, AddrSpaceAssumption DEF ArgumentsFault, ArgumentsRefused, EndWithoutSpace, Goto
  <2>4. CASE \E v \in StorePages : Store(p, v)
    <3>1. /\ current = p /\ loc[p] = "user" /\ UNCHANGED <<loc, current, ptReg, userRegisters>>
          /\ registers' = <<registers[1], 1>>
          /\ lastRegs' = [lastRegs EXCEPT ![p] = <<lastRegs[p][1], 1>>]
      BY <2>4 DEF Store, procVars
    <3> QED
      BY <3>1
  <2>5. CASE Finish(p)
    BY <2>5, AddrSpaceAssumption DEF Finish
  <2> QED
    BY <1>3, <2>1, <2>2, <2>3, <2>4, <2>5 DEF Step
<1> QED
  BY <1>1, <1>2, <1>3 DEF ASStep

-----------------------------------------------------------------------------
(* Physical memory.                                                        *)

\* addrLock is held exactly by the process that is loading.
LEMMA LockStep ==
  ASSUME LocInv, LockInv, ASStep
  PROVE  LockInv'
<1> USE DEF LocInv, LockInv
<1>1. CASE Run(NULL) \/ \E p \in Procs : Run(p)
  <2>1. PICK next \in Procs \cup {NULL} : Run(next)
    BY <1>1
  <2>2. addrLock' = addrLock /\ \A p \in Procs : loc'[p] = "alloc" <=> loc[p] = "alloc"
    BY <2>1 DEF Run, memVars
  <2> QED
    BY <2>2
<1>2. ASSUME NEW p \in Procs, NEW g \in Programs, NEW args \in BOOLEAN, Fork(p, g, args)
      PROVE  LockInv'
  <2>1. addrLock' = addrLock /\ \A q \in Procs : loc'[q] = "alloc" <=> loc[q] = "alloc"
    BY <1>2 DEF Fork, Goto, memVars
  <2> QED
    BY <2>1
<1>3. ASSUME NEW p \in Procs, Step(p) PROVE LockInv'
  <2>1. CASE LockAddr(p)
    BY <2>1 DEF LockAddr, Goto
  <2>2. CASE Allocate(p) \/ OutOfMemory(p)
    <3>1. loc[p] = "alloc" /\ addrLock' = addrLock + 1 /\ loc' = [loc EXCEPT ![p] = "exec"]
      BY <2>2 DEF Allocate, OutOfMemory, Goto
    <3> QED
      BY <3>1
  <2>3. CASE ~(LockAddr(p) \/ Allocate(p) \/ OutOfMemory(p))
    <3>1. addrLock' = addrLock /\ \A q \in Procs : loc'[q] = "alloc" <=> loc[q] = "alloc"
      BY <1>3, <2>3 DEF Step, StartProcess_1, StartProcess_2, Execute, ArgumentsFault,
                        ArgumentsRefused, EndWithoutSpace, Store, Finish, Goto, memVars, procVars
    <3> QED
      BY <3>1
  <2> QED
    BY <2>1, <2>2, <2>3
<1> QED
  BY <1>1, <1>2, <1>3 DEF ASStep

\* The frames of a process are those its page table names.
LEMMA FramesAre ==
  ASSUME TablesInv, NEW p \in Procs
  PROVE  /\ NumPages(p) \in Nat
         /\ FramesOf(p) \subseteq Frames
         /\ FramesOf(p) = {pageTable[p][i] : i \in 1..NumPages(p)}
<1>1. p # NULL
  BY AddrSpaceAssumption
<1>2. CASE pageTable[p] = NULL
  BY <1>2 DEF FramesOf, NumPages
<1>3. CASE pageTable[p] # NULL
  <2>1. pageTable[p] \in Seq(Frames)
    BY <1>3 DEF TablesInv
  <2>2. DOMAIN pageTable[p] = 1..Len(pageTable[p]) /\ Len(pageTable[p]) \in Nat
    BY <2>1
  <2>3. NumPages(p) = Len(pageTable[p]) /\ FramesOf(p) = {pageTable[p][i] : i \in 1..NumPages(p)}
    BY <1>1, <1>3, <2>2 DEF FramesOf, NumPages, Range
  <2> QED
    BY <2>1, <2>2, <2>3
<1> QED
  BY <1>2, <1>3

\* The steps that leave the page tables and the bitmap alone.
LEMMA SameTables ==
  ASSUME LocInv, TablesInv, FramesInv,
         UNCHANGED <<pageTable, gPhysPageBitMap, leaked>>,
         \A p \in Procs : loc'[p] \in {"none", "new", "lock", "alloc", "done"} => pageTable[p] = NULL
  PROVE  TablesInv' /\ FramesInv'
<1>1. \A p \in Procs : FramesOf(p)' = FramesOf(p) /\ NumPages(p)' = NumPages(p)
  BY DEF FramesOf, NumPages
<1>2. TablesInv'
  BY <1>1 DEF TablesInv
<1>3. FramesInv'
  BY <1>1 DEF FramesInv
<1> QED
  BY <1>2, <1>3

\* A process gives up its page table, and its frames are lost or cleared.
LEMMA TableGone ==
  ASSUME LocInv, TablesInv, FramesInv, NEW p \in Procs,
         loc[p] \in {"exec", "user"},
         pageTable' = [pageTable EXCEPT ![p] = NULL],
         loc' = [loc EXCEPT ![p] = "done"],
         \/ leaked' = leaked \cup FramesOf(p) /\ gPhysPageBitMap' = gPhysPageBitMap
         \/ leaked' = leaked /\ gPhysPageBitMap' = gPhysPageBitMap \ FramesOf(p)
  PROVE  TablesInv' /\ FramesInv' /\ NumPages(p)' = 0
<1>1. pageTable'[p] = NULL /\ \A q \in Procs : q # p => pageTable'[q] = pageTable[q]
  BY DEF TablesInv
<1>2. FramesOf(p)' = {} /\ NumPages(p)' = 0
  BY <1>1 DEF FramesOf, NumPages
<1>3. \A q \in Procs : q # p => FramesOf(q)' = FramesOf(q) /\ NumPages(q)' = NumPages(q)
  BY <1>1 DEF FramesOf, NumPages
<1>4. TablesInv'
  <2>1. pageTable' \in [Procs -> Seq(Frames) \cup {NULL}]
    BY DEF TablesInv
  <2>2. \A q \in Procs : loc'[q] \in {"none", "new", "lock", "alloc", "done"} => pageTable'[q] = NULL
    BY <1>1 DEF TablesInv, LocInv
  <2>3. \A q \in Procs : \A i, j \in 1..NumPages(q)' : pageTable'[q][i] = pageTable'[q][j] => i = j
    <3> TAKE q \in Procs
    <3>1. CASE q = p
      BY <1>2, <3>1
    <3>2. CASE q # p
      BY <1>1, <1>3, <3>2 DEF TablesInv
    <3> QED
      BY <3>1, <3>2
  <2> QED
    BY <2>1, <2>2, <2>3 DEF TablesInv
<1>5. FramesInv'
  <2>1. gPhysPageBitMap' \subseteq Frames
    BY DEF FramesInv
  <2>2. \A q, r \in Procs : q # r => FramesOf(q)' \cap FramesOf(r)' = {}
    BY <1>2, <1>3 DEF FramesInv
  <2>3. \A q \in Procs : FramesOf(q)' \cap leaked' = {}
    BY <1>2, <1>3 DEF FramesInv
  <2>4. ASSUME NEW f
        PROVE  f \in gPhysPageBitMap' <=> f \in leaked' \/ \E q \in Procs : f \in FramesOf(q)'
    <3>1. f \in gPhysPageBitMap <=> f \in leaked \/ \E q \in Procs : f \in FramesOf(q)
      BY DEF FramesInv
    <3>2. (\E q \in Procs : f \in FramesOf(q)') <=> \E q \in Procs : q # p /\ f \in FramesOf(q)
      BY <1>2, <1>3
    <3>3. f \in FramesOf(p) => f \notin leaked /\ \A q \in Procs : q # p => f \notin FramesOf(q)
      BY DEF FramesInv
    <3> QED
      BY <3>1, <3>2, <3>3
  <2> QED
    BY <2>1, <2>2, <2>3, <2>4 DEF FramesInv
<1> QED
  BY <1>2, <1>4, <1>5

\* What Allocate takes.
LEMMA AllocateFacts ==
  ASSUME LocInv, FramesInv, NEW p \in Procs, Allocate(p),
         NEW g, g = program[p], NEW frames, frames = FindFrames(Size(g))
  PROVE  /\ g \in Programs /\ Size(g) \in Nat
         /\ frames \in Seq(Frames) /\ frames # NULL
         /\ Len(frames) = Size(g) /\ DOMAIN frames = 1..Size(g)
         /\ \A i \in 1..Size(g) : frames[i] \in Frames \ gPhysPageBitMap
         /\ \A i, j \in 1..Size(g) : frames[i] = frames[j] => i = j
<1>1. g \in Programs
  BY DEF LocInv, Allocate
<1>2. Size(g) \in Nat
  BY <1>1 DEF Size, Programs
<1>3. gPhysPageBitMap \subseteq Frames /\ Size(g) <= Cardinality(Frames \ gPhysPageBitMap)
  BY DEF FramesInv, Allocate
<1> PICK n \in Nat : n = Size(g)
  BY <1>2
<1>4. /\ n <= NumPhysPages
      /\ frames \in [1..n -> Frames]
      /\ \A i \in 1..n : frames[i] \notin gPhysPageBitMap
      /\ \A i, j \in 1..n : frames[i] = frames[j] => i = j
  BY <1>3, FindFramesFacts
<1>5. frames \in Seq(Frames) /\ Len(frames) = n /\ DOMAIN frames = 1..n
  BY <1>4
<1>6. frames # NULL
  BY <1>4, AddrSpaceAssumption
<1> QED
  BY <1>1, <1>4, <1>5, <1>6

\* The frames that Allocate takes are the process's alone.
LEMMA AllocateTables ==
  ASSUME LocInv, TablesInv, FramesInv, NEW p \in Procs, Allocate(p)
  PROVE  TablesInv' /\ FramesInv'
<1> PICK g : g = program[p]
  OBVIOUS
<1> PICK frames : frames = FindFrames(Size(g))
  OBVIOUS
<1> PICK n : n = Size(g)
  OBVIOUS
<1>1. /\ n \in Nat /\ frames \in Seq(Frames) /\ frames # NULL
      /\ Len(frames) = n /\ DOMAIN frames = 1..n
      /\ \A i \in 1..n : frames[i] \in Frames \ gPhysPageBitMap
      /\ \A i, j \in 1..n : frames[i] = frames[j] => i = j
  BY AllocateFacts
<1>2. /\ loc[p] = "alloc" /\ loc' = [loc EXCEPT ![p] = "exec"]
      /\ gPhysPageBitMap' = gPhysPageBitMap \cup Range(frames)
      /\ pageTable' = [pageTable EXCEPT ![p] = frames]
      /\ leaked' = leaked
  BY DEF Allocate, Goto
<1>3. Range(frames) \subseteq Frames \ gPhysPageBitMap
  BY <1>1 DEF Range
<1>4. p # NULL /\ pageTable[p] = NULL
  BY <1>2, AddrSpaceAssumption DEF TablesInv
<1>5. pageTable'[p] = frames /\ \A q \in Procs : q # p => pageTable'[q] = pageTable[q]
  BY <1>2 DEF TablesInv
<1>6. FramesOf(p)' = Range(frames) /\ NumPages(p)' = n /\ FramesOf(p) = {}
  BY <1>1, <1>4, <1>5 DEF FramesOf, NumPages
<1>7. \A q \in Procs : q # p => FramesOf(q)' = FramesOf(q) /\ NumPages(q)' = NumPages(q)
  BY <1>5 DEF FramesOf, NumPages
<1>8. TablesInv'
  <2>1. pageTable' \in [Procs -> Seq(Frames) \cup {NULL}]
    BY <1>1, <1>2 DEF TablesInv
  <2>2. \A q \in Procs : loc'[q] \in {"none", "new", "lock", "alloc", "done"} => pageTable'[q] = NULL
    BY <1>2, <1>5 DEF TablesInv, LocInv
  <2>3. \A q \in Procs : \A i, j \in 1..NumPages(q)' : pageTable'[q][i] = pageTable'[q][j] => i = j
    <3> TAKE q \in Procs
    <3>1. CASE q = p
      BY <1>1, <1>5, <1>6, <3>1
    <3>2. CASE q # p
      BY <1>5, <1>7, <3>2 DEF TablesInv
    <3> QED
      BY <3>1, <3>2
  <2> QED
    BY <2>1, <2>2, <2>3 DEF TablesInv
<1>9. FramesInv'
  <2>1. gPhysPageBitMap' \subseteq Frames
    BY <1>2, <1>3 DEF FramesInv
  <2>2. ASSUME NEW q \in Procs, q # p
        PROVE  FramesOf(q) \cap Range(frames) = {} /\ FramesOf(q)' = FramesOf(q)
    BY <1>3, <1>7, <2>2 DEF FramesInv
  <2>3. \A q, r \in Procs : q # r => FramesOf(q)' \cap FramesOf(r)' = {}
    BY <1>6, <2>2 DEF FramesInv
  <2>4. \A q \in Procs : FramesOf(q)' \cap leaked' = {}
    BY <1>2, <1>3, <1>6, <2>2 DEF FramesInv
  <2>5. ASSUME NEW f
        PROVE  f \in gPhysPageBitMap' <=> f \in leaked' \/ \E q \in Procs : f \in FramesOf(q)'
    <3>1. f \in gPhysPageBitMap <=> f \in leaked \/ \E q \in Procs : f \in FramesOf(q)
      BY DEF FramesInv
    <3>2. (\E q \in Procs : f \in FramesOf(q)') <=>
            f \in Range(frames) \/ \E q \in Procs : f \in FramesOf(q)
      BY <1>6, <2>2
    <3> QED
      BY <1>2, <3>1, <3>2
  <2> QED
    BY <2>1, <2>3, <2>4, <2>5 DEF FramesInv
<1> QED
  BY <1>8, <1>9

\* The page tables and the bitmap of frames keep agreeing.
LEMMA TablesStep ==
  ASSUME LocInv, TablesInv, FramesInv, ASStep
  PROVE  TablesInv' /\ FramesInv'
<1>1. CASE Run(NULL) \/ \E p \in Procs : Run(p)
  <2>1. PICK next \in Procs \cup {NULL} : Run(next)
    BY <1>1
  <2>2. \A p \in Procs : loc'[p] \in {"none", "new", "lock", "alloc", "done"} =>
                         loc[p] \in {"none", "new", "lock", "alloc", "done"}
    BY <2>1 DEF Run, LocInv
  <2> QED
    BY <2>1, <2>2, SameTables DEF Run, memVars, TablesInv
<1>2. ASSUME NEW p \in Procs, NEW g \in Programs, NEW args \in BOOLEAN, Fork(p, g, args)
      PROVE  TablesInv' /\ FramesInv'
  <2>1. \A q \in Procs : loc'[q] \in {"none", "new", "lock", "alloc", "done"} =>
                         loc[q] \in {"none", "new", "lock", "alloc", "done"}
    BY <1>2 DEF Fork, Goto, LocInv
  <2> QED
    BY <1>2, <2>1, SameTables DEF Fork, memVars, TablesInv
<1>3. ASSUME NEW p \in Procs, Step(p) PROVE TablesInv' /\ FramesInv'
  <2>1. CASE Allocate(p)
    BY <2>1, AllocateTables
  <2>2. CASE ArgumentsFault(p) \/ ArgumentsRefused(p) \/ Finish(p)
    <3>1. /\ loc[p] \in {"exec", "user"}
          /\ pageTable' = [pageTable EXCEPT ![p] = NULL]
          /\ loc' = [loc EXCEPT ![p] = "done"]
          /\ \/ leaked' = leaked \cup FramesOf(p) /\ gPhysPageBitMap' = gPhysPageBitMap
             \/ leaked' = leaked /\ gPhysPageBitMap' = gPhysPageBitMap \ FramesOf(p)
      BY <2>2 DEF ArgumentsFault, ArgumentsRefused, EndWithoutSpace, Finish, Goto, FreedFrames
    <3> QED
      BY <3>1, TableGone
  <2>3. CASE LockAddr(p) \/ OutOfMemory(p) \/ StartProcess_1(p) \/ StartProcess_2(p)
             \/ \E v \in StorePages : Store(p, v)
    <3>1. \A q \in Procs : loc'[q] \in {"none", "new", "lock", "alloc", "done"} =>
                           loc[q] \in {"none", "new", "lock", "alloc", "done"}
      BY <2>3 DEF LockAddr, OutOfMemory, StartProcess_1, StartProcess_2, Execute, Store, procVars,
                  Goto, LocInv
    <3>2. UNCHANGED <<pageTable, gPhysPageBitMap, leaked>>
      BY <2>3 DEF LockAddr, OutOfMemory, StartProcess_1, StartProcess_2, Store, memVars
    <3> QED
      BY <3>1, <3>2, SameTables DEF TablesInv
  <2> QED
    BY <1>3, <2>1, <2>2, <2>3 DEF Step
<1> QED
  BY <1>1, <1>2, <1>3 DEF ASStep

-----------------------------------------------------------------------------
(* What memory holds.                                                      *)

\* A page of a process is in memory as the process should see it.
PageKept(p, i) == mainMemory[pageTable[p][i]] = view[p][i]

\* The steps that leave memory and the page tables alone.
LEMMA SameMemory ==
  ASSUME ViewInv, MemoryKept, UNCHANGED <<pageTable, mainMemory, view, victims, broken>>
  PROVE  ViewInv' /\ MemoryKept'
<1>1. \A p \in Procs : NumPages(p)' = NumPages(p)
  BY DEF NumPages
<1>2. ViewInv'
  BY <1>1 DEF ViewInv
<1>3. MemoryKept'
  BY <1>1 DEF MemoryKept
<1> QED
  BY <1>2, <1>3

\* A process that has lost its page table has no pages.
LEMMA GoneMemory ==
  ASSUME TablesInv, ViewInv, MemoryKept, ~broken, NEW p \in Procs,
         pageTable' = [pageTable EXCEPT ![p] = NULL],
         view' = [view EXCEPT ![p] = <<>>],
         victims' = victims \ {p},
         mainMemory' = [f \in Frames |-> mainMemory'[f]],
         \A q \in Procs : q # p => \A f \in FramesOf(q) : mainMemory'[f] = mainMemory[f]
  PROVE  ViewInv' /\ MemoryKept'
<1>1. pageTable'[p] = NULL /\ \A q \in Procs : q # p => pageTable'[q] = pageTable[q]
  BY DEF TablesInv
<1>2. NumPages(p)' = 0 /\ \A q \in Procs : q # p => NumPages(q)' = NumPages(q)
  BY <1>1 DEF NumPages
<1>3. view'[p] = <<>> /\ \A q \in Procs : q # p => view'[q] = view[q]
  BY DEF ViewInv
<1>4. ViewInv'
  <2>1. view' \in [Procs -> Seq(Content)]
    BY DEF ViewInv
  <2>2. \A q \in Procs : Len(view'[q]) = NumPages(q)'
    <3> TAKE q \in Procs
    <3>1. CASE q = p
      BY <1>2, <1>3, <3>1
    <3>2. CASE q # p
      BY <1>2, <1>3, <3>2 DEF ViewInv
    <3> QED
      BY <3>1, <3>2
  <2> QED
    BY <2>1, <2>2 DEF ViewInv
<1>5. ASSUME NEW q \in Procs \ victims', NEW i \in 1..NumPages(q)' PROVE PageKept(q, i)'
  <2>1. q # p
    BY <1>2
  <2>2. q \in Procs \ victims /\ i \in 1..NumPages(q)
    BY <1>2, <2>1
  <2>3. mainMemory[pageTable[q][i]] = view[q][i]
    BY <2>2 DEF MemoryKept
  <2>4. pageTable[q][i] \in FramesOf(q)
    BY <2>2, FramesAre
  <2> QED
    BY <1>1, <1>3, <2>1, <2>3, <2>4 DEF PageKept
<1>6. MemoryKept'
  BY <1>5 DEF MemoryKept, PageKept
<1> QED
  BY <1>4, <1>6

\* A process ends, and its frames are freed.
LEMMA FinishMemory ==
  ASSUME TablesInv, FramesInv, ViewInv, MemoryKept, NEW p \in Procs,
         ArgumentsFault(p) \/ Finish(p)
  PROVE  ViewInv' /\ MemoryKept'
<1>1. /\ ~broken /\ pageTable' = [pageTable EXCEPT ![p] = NULL]
      /\ view' = [view EXCEPT ![p] = <<>>] /\ victims' = victims \ {p}
  BY DEF ArgumentsFault, EndWithoutSpace, Finish
<1>2. mainMemory' = mainMemory \/
      mainMemory' = [f \in Frames |-> IF f \in FramesOf(p) THEN NULL ELSE mainMemory[f]]
  BY DEF ArgumentsFault, Finish, FreedFrames
<1>3. mainMemory' = [f \in Frames |-> mainMemory'[f]]
  <2>1. CASE mainMemory' = mainMemory
    BY <2>1 DEF ViewInv
  <2>2. CASE mainMemory' = [f \in Frames |-> IF f \in FramesOf(p) THEN NULL ELSE mainMemory[f]]
    BY <2>2
  <2> QED
    BY <1>2, <2>1, <2>2
<1>4. ASSUME NEW q \in Procs, q # p, NEW f \in FramesOf(q) PROVE mainMemory'[f] = mainMemory[f]
  <2>1. f \notin FramesOf(p) /\ f \in Frames
    BY <1>4, FramesAre DEF FramesInv
  <2> QED
    BY <1>2, <2>1
<1> QED
  BY <1>1, <1>3, <1>4, GoneMemory

\* A store goes to a page of the process, which nobody else has.
LEMMA StoreMemory ==
  ASSUME LocInv, CpuInv, TablesInv, FramesInv, ViewInv, MemoryKept,
         NEW p \in Procs, NEW v \in StorePages, Store(p, v)
  PROVE  ViewInv' /\ MemoryKept'
<1> PICK f : f = pageTable[p][v + 1]
  OBVIOUS
<1> PICK c : c = <<p, "data", v>>
  OBVIOUS
<1>1. v \in Nat /\ c \in Content
  BY AddrSpaceAssumption DEF Content
<1>2. ~broken /\ current = p /\ loc[p] = "user" /\ ptReg = p /\ v < NumPages(p)
  BY DEF Store, CpuInv, MachineIsOwn
<1>3. /\ mainMemory' = [mainMemory EXCEPT ![f] = c]
      /\ view' = [view EXCEPT ![p] = IF v < Len(view[p]) THEN [view[p] EXCEPT ![v + 1] = c]
                                     ELSE view[p]]
      /\ UNCHANGED <<pageTable, victims, broken>>
  BY <1>2 DEF Store
<1>4. NumPages(p) \in Nat /\ v + 1 \in 1..NumPages(p) /\ f \in FramesOf(p) /\ f \in Frames
  <2>1. NumPages(p) \in Nat
    BY FramesAre
  <2>2. v + 1 \in 1..NumPages(p)
    BY <1>1, <1>2, <2>1
  <2> QED
    BY <2>1, <2>2, FramesAre
<1>5. view[p] \in Seq(Content) /\ Len(view[p]) = NumPages(p)
  BY DEF ViewInv
<1>6. view' = [view EXCEPT ![p] = [view[p] EXCEPT ![v + 1] = c]]
  BY <1>2, <1>3, <1>5
<1>7. \A q \in Procs : NumPages(q)' = NumPages(q)
  BY <1>3 DEF NumPages
<1> PICK w : w = [view[p] EXCEPT ![v + 1] = c]
  OBVIOUS
<1>8. /\ w \in Seq(Content) /\ Len(w) = NumPages(p)
      /\ \A i \in 1..NumPages(p) : w[i] = IF i = v + 1 THEN c ELSE view[p][i]
  BY <1>1, <1>4, <1>5
<1>9. view'[p] = w /\ \A q \in Procs : q # p => view'[q] = view[q]
  BY <1>6 DEF ViewInv
<1>10. ViewInv'
  <2>1. view' \in [Procs -> Seq(Content)]
    BY <1>6, <1>8 DEF ViewInv
  <2>2. \A q \in Procs : Len(view'[q]) = NumPages(q)'
    BY <1>7, <1>8, <1>9 DEF ViewInv
  <2>3. mainMemory' = [e \in Frames |-> mainMemory'[e]]
    BY <1>3 DEF ViewInv
  <2> QED
    BY <1>3, <2>1, <2>2, <2>3 DEF ViewInv
<1>11. \A e \in Frames : mainMemory'[e] = IF e = f THEN c ELSE mainMemory[e]
  BY <1>3 DEF ViewInv
<1>12. ASSUME NEW q \in Procs \ victims, NEW i \in 1..NumPages(q)
       PROVE  mainMemory'[pageTable[q][i]] = view'[q][i]
  <2>1. mainMemory[pageTable[q][i]] = view[q][i]
    BY <1>2 DEF MemoryKept
  <2>2. pageTable[q][i] \in FramesOf(q) /\ pageTable[q][i] \in Frames
    BY FramesAre
  <2>3. CASE q # p
    <3>1. pageTable[q][i] # f
      BY <1>4, <2>2, <2>3 DEF FramesInv
    <3> QED
      BY <1>9, <1>11, <2>1, <2>2, <2>3, <3>1
  <2>4. CASE q = p
    <3>1. pageTable[q][i] = f <=> i = v + 1
      BY <1>4, <2>4 DEF TablesInv
    <3> QED
      BY <1>8, <1>9, <1>11, <2>1, <2>2, <2>4, <3>1
  <2> QED
    BY <2>3, <2>4
<1>13. MemoryKept'
  BY <1>3, <1>7, <1>12 DEF MemoryKept
<1> QED
  BY <1>10, <1>13

\* The arguments go to the last page of the process whose table is loaded;
\* the pages of the others are as they were.
LEMMA ArgumentsWritten ==
  ASSUME LocInv, TablesInv, FramesInv, ViewInv, MemoryKept, ~broken,
         NEW p \in Procs, WriteArguments(p)
  PROVE  /\ mainMemory' = [f \in Frames |-> mainMemory'[f]]
         /\ Overwritten \subseteq Procs
         /\ ~broken' => \A q \in Procs \ Overwritten : \A f \in FramesOf(q) :
                          mainMemory'[f] = mainMemory[f]
<1>1. CASE TableDeleted
  <2>1. UNCHANGED mainMemory /\ broken' = TRUE
    BY <1>1 DEF WriteArguments
  <2> QED
    BY <1>1, <2>1 DEF ViewInv, Overwritten
<1>2. CASE ~TableDeleted
  <2> PICK o : o = ptReg
    OBVIOUS
  <2> PICK f : f = pageTable[o][NumPages(o)]
    OBVIOUS
  <2>1. o \in Procs /\ NumPages(o) > 0
    BY <1>2 DEF TableDeleted, LocInv, WriteArguments
  <2>2. mainMemory' = [mainMemory EXCEPT ![f] = <<p, "args", 0>>] /\ Overwritten = {o}
    BY <1>2 DEF WriteArguments, Overwritten
  <2>3. NumPages(o) \in Nat /\ NumPages(o) \in 1..NumPages(o)
    BY <2>1, FramesAre
  <2>4. f \in FramesOf(o)
    BY <2>1, <2>3, FramesAre
  <2>5. ASSUME NEW q \in Procs \ Overwritten, NEW e \in FramesOf(q)
        PROVE  mainMemory'[e] = mainMemory[e]
    <3>1. q # o
      BY <2>2
    <3>2. e \in Frames /\ e # f
      BY <2>1, <2>4, <3>1, FramesAre DEF FramesInv
    <3> QED
      BY <2>2, <3>2 DEF ViewInv
  <2>6. mainMemory' = [e \in Frames |-> mainMemory'[e]]
    BY <2>2 DEF ViewInv
  <2> QED
    BY <2>1, <2>2, <2>5, <2>6
<1> QED
  BY <1>1, <1>2

\* The arguments of a program that is started.
LEMMA ArgumentsMemory ==
  ASSUME LocInv, TablesInv, FramesInv, ViewInv, MemoryKept,
         NEW p \in Procs, StartProcess_2(p)
  PROVE  ViewInv' /\ MemoryKept'
<1>1. /\ UNCHANGED <<pageTable, view>> /\ ~broken /\ WriteArguments(p)
      /\ victims' = victims \cup Overwritten
  BY DEF StartProcess_2
<1>2. \A q \in Procs : NumPages(q)' = NumPages(q)
  BY <1>1 DEF NumPages
<1>3. /\ mainMemory' = [f \in Frames |-> mainMemory'[f]]
      /\ Overwritten \subseteq Procs
      /\ ~broken' => \A q \in Procs \ Overwritten : \A f \in FramesOf(q) :
                       mainMemory'[f] = mainMemory[f]
  BY <1>1, ArgumentsWritten
<1>4. ViewInv'
  BY <1>1, <1>2, <1>3 DEF ViewInv
<1>5. ASSUME ~broken', NEW q \in Procs \ victims', NEW i \in 1..NumPages(q)
      PROVE  mainMemory'[pageTable[q][i]] = view[q][i]
  <2>1. q \in Procs \ victims /\ q \in Procs \ Overwritten
    BY <1>1
  <2>2. pageTable[q][i] \in FramesOf(q)
    BY <2>1, FramesAre
  <2> QED
    BY <1>1, <1>3, <1>5, <2>1, <2>2 DEF MemoryKept
<1>6. MemoryKept'
  BY <1>1, <1>2, <1>5 DEF MemoryKept
<1> QED
  BY <1>4, <1>6

\* The arguments of a program whose start is given up: it has no pages then.
LEMMA RefusedMemory ==
  ASSUME LocInv, TablesInv, FramesInv, ViewInv, MemoryKept,
         NEW p \in Procs, ArgumentsRefused(p)
  PROVE  ViewInv' /\ MemoryKept'
<1>1. /\ pageTable' = [pageTable EXCEPT ![p] = NULL] /\ view' = [view EXCEPT ![p] = <<>>]
      /\ ~broken /\ WriteArguments(p)
      /\ victims' = (victims \cup Overwritten) \ {p}
  BY DEF ArgumentsRefused, EndWithoutSpace
<1>2. pageTable'[p] = NULL /\ \A q \in Procs : q # p => pageTable'[q] = pageTable[q]
  BY <1>1 DEF TablesInv
<1>3. NumPages(p)' = 0 /\ \A q \in Procs : q # p => NumPages(q)' = NumPages(q)
  BY <1>2 DEF NumPages
<1>4. view'[p] = <<>> /\ \A q \in Procs : q # p => view'[q] = view[q]
  BY <1>1 DEF ViewInv
<1>5. /\ mainMemory' = [f \in Frames |-> mainMemory'[f]]
      /\ Overwritten \subseteq Procs
      /\ ~broken' => \A q \in Procs \ Overwritten : \A f \in FramesOf(q) :
                       mainMemory'[f] = mainMemory[f]
  BY <1>1, ArgumentsWritten
<1>6. ViewInv'
  <2>1. view' \in [Procs -> Seq(Content)]
    BY <1>1 DEF ViewInv
  <2>2. \A q \in Procs : Len(view'[q]) = NumPages(q)'
    <3> TAKE q \in Procs
    <3>1. CASE q = p
      BY <1>3, <1>4, <3>1
    <3>2. CASE q # p
      BY <1>3, <1>4, <3>2 DEF ViewInv
    <3> QED
      BY <3>1, <3>2
  <2> QED
    BY <1>1, <1>5, <2>1, <2>2 DEF ViewInv
<1>7. ASSUME ~broken', NEW q \in Procs \ victims', NEW i \in 1..NumPages(q)'
      PROVE  mainMemory'[pageTable'[q][i]] = view'[q][i]
  <2>1. q # p
    BY <1>3
  <2>2. q \in Procs \ victims /\ q \in Procs \ Overwritten /\ i \in 1..NumPages(q)
    BY <1>1, <1>3, <2>1
  <2>3. pageTable[q][i] \in FramesOf(q)
    BY <2>2, FramesAre
  <2> QED
    BY <1>1, <1>2, <1>4, <1>5, <1>7, <2>1, <2>2, <2>3 DEF MemoryKept
<1>8. MemoryKept'
  BY <1>7 DEF MemoryKept
<1> QED
  BY <1>6, <1>8

\* The frames of a new space, as AllocateFacts describes them.
FramesFor(g, frames) ==
  /\ g \in Programs /\ Size(g) \in Nat
  /\ frames \in Seq(Frames) /\ DOMAIN frames = 1..Size(g)
  /\ \A i, j \in 1..Size(g) : frames[i] = frames[j] => i = j

\* What the loop of a segment leaves in a frame: what was there, or the page of
\* the program that belongs there.
CopiedRight(mem, p, g, frames, at, size, f) ==
  LET new == CopySegment(mem, p, g, frames, at, size)
  IN  \/ new[f] = mem[f]
      \/ \E j \in 1..Size(g) : frames[j] = f /\ new[f] = Image(p, g, j - 1)

\* That is so of a frame that it does not copy to by mistake.
LEMMA SegmentCopied ==
  ASSUME NEW mem, NEW p, NEW g, NEW frames, FramesFor(g, frames), NEW at \in Nat, NEW size \in Nat,
         NEW f \in Frames, f \notin Astray(g, frames, at, size)
  PROVE  CopiedRight(mem, p, g, frames, at, size, f)
<1> DEFINE C == Copied(g, at, size)
           Chosen == CHOOSE i \in C : CopiedTo(frames, at, i) = f
<1>1. CopySegment(mem, p, g, frames, at, size)[f] =
        IF f \in gPhysPageBitMap \cup Range(frames) /\ \E i \in C : CopiedTo(frames, at, i) = f
        THEN <<p, "file", at + Chosen>> ELSE mem[f]
  BY DEF CopySegment
<1>2. ASSUME \E i \in C : CopiedTo(frames, at, i) = f
      PROVE  \E j \in 1..Size(g) : frames[j] = f /\ <<p, "file", at + Chosen>> = Image(p, g, j - 1)
  <2> PICK c : c = Chosen
    OBVIOUS
  <2>1. c \in C /\ CopiedTo(frames, at, c) = f
    BY <1>2
  <2>2. c \in 0..(Size(g) - 1) /\ at + c < FilePages(g)
    BY <2>1 DEF Copied
  <2>3. at + c < Size(g) /\ frames[at + c + 1] = f
    BY <2>1 DEF Astray
  <2>4. Size(g) \in Nat
    BY DEF FramesFor
  <2> PICK m : m = Size(g)
    OBVIOUS
  <2>5. at + c + 1 \in 1..m /\ (at + c + 1) - 1 = at + c
    BY <2>2, <2>3, <2>4
  <2> PICK j : j = at + c + 1
    OBVIOUS
  <2>6. j \in 1..Size(g) /\ frames[j] = f /\ j - 1 = at + c
    BY <2>3, <2>5
  <2>7. Image(p, g, j - 1) = <<p, "file", at + c>>
    BY <2>2, <2>6 DEF Image
  <2> QED
    BY <2>6, <2>7
<1> HIDE DEF C, Chosen
<1> QED
  BY <1>1, <1>2 DEF CopiedRight

\* Memory after the constructor: a frame that is not copied to by mistake holds
\* its page of the program, or what it held.
LEMMA LoadedFacts ==
  ASSUME NEW p, NEW g, NEW frames, FramesFor(g, frames),
         NEW f \in Frames, f \notin AllAstray(g, frames)
  PROVE  /\ \A i \in 1..Size(g) : frames[i] = f => Loaded(p, g, frames)[f] = Image(p, g, i - 1)
         /\ f \notin Range(frames) => Loaded(p, g, frames)[f] = mainMemory[f]
<1> PICK m0 : m0 = [e \in Frames |-> IF e \in Range(frames) THEN <<p, "zero", 0>> ELSE mainMemory[e]]
  OBVIOUS
<1> PICK m1 : m1 = CopySegment(m0, p, g, frames, 0, g.code)
  OBVIOUS
<1> PICK m2 : m2 = CopySegment(m1, p, g, frames, DataAt(g), g.data)
  OBVIOUS
<1> PICK m3 : m3 = CopySegment(m2, p, g, frames, RDataAt(g), g.rdata)
  OBVIOUS
<1>1. Loaded(p, g, frames) = m3
  BY DEF Loaded
<1>2. /\ g.code \in Nat \ {0} /\ g.rdata \in Nat /\ g.data \in Nat /\ g.rest \in Nat
      /\ DataAt(g) \in Nat /\ RDataAt(g) \in Nat
  BY DEF FramesFor, Programs, DataAt, RDataAt
<1>3. f \notin Astray(g, frames, DataAt(g), g.data) /\ f \notin Astray(g, frames, RDataAt(g), g.rdata)
  BY DEF AllAstray
<1>4. m2[f] = m1[f] \/ \E j \in 1..Size(g) : frames[j] = f /\ m2[f] = Image(p, g, j - 1)
  <2> PICK at \in Nat, size \in Nat : at = DataAt(g) /\ size = g.data
    BY <1>2
  <2>1. f \notin Astray(g, frames, at, size) /\ m2 = CopySegment(m1, p, g, frames, at, size)
    BY <1>3
  <2>2. CopiedRight(m1, p, g, frames, at, size, f)
    BY <2>1, SegmentCopied
  <2> QED
    BY <2>1, <2>2 DEF CopiedRight
<1>5. m3[f] = m2[f] \/ \E j \in 1..Size(g) : frames[j] = f /\ m3[f] = Image(p, g, j - 1)
  <2> PICK at \in Nat, size \in Nat : at = RDataAt(g) /\ size = g.rdata
    BY <1>2
  <2>1. f \notin Astray(g, frames, at, size) /\ m3 = CopySegment(m2, p, g, frames, at, size)
    BY <1>3
  <2>2. CopiedRight(m2, p, g, frames, at, size, f)
    BY <2>1, SegmentCopied
  <2> QED
    BY <2>1, <2>2 DEF CopiedRight
<1>6. Range(frames) = {frames[i] : i \in 1..Size(g)}
  BY DEF FramesFor, Range
<1>7. ASSUME NEW i \in 1..Size(g), frames[i] = f PROVE m1[f] = Image(p, g, i - 1)
  <2> PICK C : C = Copied(g, 0, g.code)
    OBVIOUS
  <2>1. C = {j \in 0..(Size(g) - 1) : j < FilePages(g)}
    <3>1. \A j \in 0..(Size(g) - 1) : 0 + j = j
      OBVIOUS
    <3>2. g.code > 0
      BY <1>2
    <3> QED
      BY <3>1, <3>2 DEF Copied
  <2>2. \A j \in C : CopiedTo(frames, 0, j) = frames[j + 1]
    <3> TAKE j \in C
    <3>1. j + 1 \in 1..Size(g)
      BY <2>1 DEF FramesFor
    <3>2. frames[j + 1] \in Frames
      BY <3>1 DEF FramesFor
    <3>3. frames[j + 1] \in Int
      BY <3>2 DEF Frames
    <3> QED
      BY <3>3 DEF CopiedTo
  <2>3. f \in Range(frames)
    BY <1>6, <1>7
  <2>4. \A j \in C : frames[j + 1] = f => j = i - 1
    <3> TAKE j \in C
    <3>1. j + 1 \in 1..Size(g) /\ j \in Int /\ i \in Int
      BY <2>1 DEF FramesFor
    <3>2. frames[j + 1] = f => j + 1 = i
      BY <1>7, <3>1 DEF FramesFor
    <3> QED
      BY <3>1, <3>2
  <2>5. i - 1 \in 0..(Size(g) - 1) /\ (i - 1) + 1 = i
    BY DEF FramesFor
  <2>6. m1[f] = IF \E j \in C : CopiedTo(frames, 0, j) = f
                THEN <<p, "file", 0 + (CHOOSE j \in C : CopiedTo(frames, 0, j) = f)>> ELSE m0[f]
    BY <2>3 DEF CopySegment
  <2>7. CASE i - 1 < FilePages(g)
    <3>1. i - 1 \in C /\ CopiedTo(frames, 0, i - 1) = f
      BY <1>7, <2>1, <2>2, <2>5, <2>7
    <3>2. \A j \in C : CopiedTo(frames, 0, j) = f => j = i - 1
      BY <2>2, <2>4
    <3> PICK c : c = CHOOSE j \in C : CopiedTo(frames, 0, j) = f
      OBVIOUS
    <3>3. c \in C /\ CopiedTo(frames, 0, c) = f
      BY <3>1, Zenon
    <3>4. c = i - 1
      BY <3>2, <3>3
    <3>5. m1[f] = <<p, "file", 0 + c>>
      BY <2>6, <3>1
    <3>6. 0 + c = i - 1
      <4>1. i - 1 \in Int
        BY <2>5
      <4>2. \A x \in Int : 0 + x = x
        OBVIOUS
      <4> QED
        BY <3>4, <4>1, <4>2, Zenon
    <3> QED
      BY <2>7, <3>5, <3>6 DEF Image
  <2>8. CASE ~(i - 1 < FilePages(g))
    <3>1. ~\E j \in C : CopiedTo(frames, 0, j) = f
      BY <2>1, <2>2, <2>4, <2>8
    <3>2. m1[f] = m0[f] /\ m0[f] = <<p, "zero", 0>>
      BY <2>3, <2>6, <3>1
    <3> QED
      BY <2>8, <3>2 DEF Image
  <2> QED
    BY <2>7, <2>8
<1>8. ASSUME NEW i \in 1..Size(g), frames[i] = f PROVE m3[f] = Image(p, g, i - 1)
  <2>1. \A j \in 1..Size(g) : frames[j] = f => j = i
    BY <1>8 DEF FramesFor
  <2> QED
    BY <1>4, <1>5, <1>7, <1>8, <2>1
<1>9. ASSUME f \notin Range(frames) PROVE m3[f] = mainMemory[f]
  <2>1. \A j \in 1..Size(g) : frames[j] # f
    BY <1>6, <1>9
  <2>2. f \notin Astray(g, frames, 0, g.code)
    <3>1. ASSUME NEW j \in Copied(g, 0, g.code) PROVE CopiedTo(frames, 0, j) \in Range(frames)
      <4>1. j + 1 \in 1..Size(g)
        BY DEF FramesFor, Copied
      <4>2. frames[j + 1] \in Frames /\ frames[j + 1] \in Range(frames)
        BY <1>6, <4>1 DEF FramesFor
      <4>3. frames[j + 1] \in Int
        BY <4>2 DEF Frames
      <4> QED
        BY <4>2, <4>3 DEF CopiedTo
    <3> QED
      BY <1>9, <3>1 DEF Astray
  <2>3. m1[f] = m0[f]
    <3> PICK size \in Nat : size = g.code
      BY <1>2
    <3>1. CopiedRight(m0, p, g, frames, 0, size, f)
      BY <2>2, SegmentCopied
    <3> QED
      BY <2>1, <3>1 DEF CopiedRight
  <2>4. m0[f] = mainMemory[f]
    BY <1>9
  <2> QED
    BY <1>4, <1>5, <2>1, <2>3, <2>4
<1> QED
  BY <1>1, <1>8, <1>9

\* A new program's memory holds its image, when nothing was copied into it by
\* mistake; the pages of the others are as they were, under the same condition.
LEMMA AllocateMemory ==
  ASSUME LocInv, TablesInv, FramesInv, ViewInv, MemoryKept, NEW p \in Procs, Allocate(p)
  PROVE  ViewInv' /\ MemoryKept'
<1> PICK g : g = program[p]
  OBVIOUS
<1> PICK frames : frames = FindFrames(Size(g))
  OBVIOUS
<1> PICK n : n = Size(g)
  OBVIOUS
<1> PICK wrong : wrong = AllAstray(g, frames)
  OBVIOUS
<1>1. /\ n \in Nat /\ g \in Programs /\ frames \in Seq(Frames) /\ frames # NULL
      /\ Len(frames) = n /\ DOMAIN frames = 1..n
      /\ \A i \in 1..n : frames[i] \in Frames \ gPhysPageBitMap
      /\ \A i, j \in 1..n : frames[i] = frames[j] => i = j
  BY AllocateFacts
<1>2. FramesFor(g, frames)
  BY <1>1 DEF FramesFor
<1>3. /\ ~broken
      /\ pageTable' = [pageTable EXCEPT ![p] = frames]
      /\ view' = [view EXCEPT ![p] = [i \in 1..n |-> Image(p, g, i - 1)]]
      /\ victims' = victims \cup Misplaced(p, g, frames)
      /\ mainMemory' = Loaded(p, g, frames)
  BY DEF Allocate
<1>4. pageTable'[p] = frames /\ \A q \in Procs : q # p => pageTable'[q] = pageTable[q]
  BY <1>3 DEF TablesInv
<1>5. NumPages(p)' = n /\ \A q \in Procs : q # p => NumPages(q)' = NumPages(q)
  BY <1>1, <1>4, AddrSpaceAssumption DEF NumPages
<1>6. /\ victims \subseteq victims' /\ victims' \subseteq Procs
      /\ \A q \in Procs \ victims' : (IF q = p THEN Range(frames) ELSE FramesOf(q)) \cap wrong = {}
  BY <1>3 DEF Misplaced, ViewInv
<1>7. \A i \in 1..n : Image(p, g, i - 1) \in Content
  BY <1>1 DEF Image, Content
<1>8. ViewInv'
  <2> PICK w : w = [i \in 1..n |-> Image(p, g, i - 1)]
    OBVIOUS
  <2>1. w \in Seq(Content) /\ Len(w) = n
    BY <1>1, <1>7
  <2>2. view' \in [Procs -> Seq(Content)]
    BY <1>3, <2>1 DEF ViewInv
  <2>3. view'[p] = w /\ \A q \in Procs : q # p => view'[q] = view[q]
    BY <1>3 DEF ViewInv
  <2>4. \A q \in Procs : Len(view'[q]) = NumPages(q)'
    BY <1>5, <2>1, <2>3 DEF ViewInv
  <2>5. mainMemory' = [f \in Frames |-> mainMemory'[f]]
    BY <1>3 DEF Loaded, CopySegment
  <2> QED
    BY <1>6, <2>2, <2>4, <2>5 DEF ViewInv
<1>9. Range(frames) = {frames[i] : i \in 1..n}
  BY <1>1 DEF Range
<1>10. ASSUME NEW q \in Procs \ victims', q # p, NEW i \in 1..NumPages(q)
       PROVE  mainMemory'[pageTable[q][i]] = view[q][i]
  <2> PICK f : f = pageTable[q][i]
    OBVIOUS
  <2>1. f \in FramesOf(q) /\ f \in Frames
    BY FramesAre
  <2>2. q \in Procs \ victims /\ f \notin wrong
    BY <1>6, <1>10, <2>1
  <2>3. f \in gPhysPageBitMap
    BY <2>1 DEF FramesInv
  <2>4. f \notin Range(frames)
    BY <1>1, <1>9, <2>3
  <2>5. mainMemory'[f] = mainMemory[f]
    BY <1>2, <1>3, <2>1, <2>2, <2>4, LoadedFacts
  <2> QED
    BY <1>3, <2>2, <2>5 DEF MemoryKept
<1>11. ASSUME p \notin victims', NEW i \in 1..n
       PROVE  mainMemory'[frames[i]] = Image(p, g, i - 1)
  <2>1. frames[i] \in Frames /\ frames[i] \in Range(frames)
    BY <1>1, <1>9
  <2>2. frames[i] \notin wrong
    BY <1>6, <1>11, <2>1
  <2> QED
    BY <1>2, <1>3, <2>1, <2>2, LoadedFacts
<1>12. view'[p] = [i \in 1..n |-> Image(p, g, i - 1)] /\ \A q \in Procs : q # p => view'[q] = view[q]
  BY <1>3 DEF ViewInv
<1>13. ASSUME NEW q \in Procs \ victims', NEW i \in 1..NumPages(q)'
       PROVE  mainMemory'[pageTable'[q][i]] = view'[q][i]
  <2>1. CASE q = p
    BY <1>4, <1>5, <1>11, <1>12, <1>13, <2>1
  <2>2. CASE q # p
    BY <1>4, <1>5, <1>10, <1>12, <1>13, <2>2
  <2> QED
    BY <2>1, <2>2
<1>14. MemoryKept'
  BY <1>13 DEF MemoryKept
<1> QED
  BY <1>8, <1>14

\* Every step keeps what each process has written in its memory.
LEMMA MemoryStep ==
  ASSUME LocInv, CpuInv, TablesInv, FramesInv, ViewInv, MemoryKept, ASStep
  PROVE  ViewInv' /\ MemoryKept'
<1>1. CASE Run(NULL) \/ \E p \in Procs : Run(p)
  BY <1>1, SameMemory DEF Run, memVars
<1>2. ASSUME NEW p \in Procs, NEW g \in Programs, NEW args \in BOOLEAN, Fork(p, g, args)
      PROVE  ViewInv' /\ MemoryKept'
  BY <1>2, SameMemory DEF Fork, memVars
<1>3. ASSUME NEW p \in Procs, Step(p) PROVE ViewInv' /\ MemoryKept'
  <2>1. CASE Allocate(p)
    BY <2>1, AllocateMemory
  <2>2. CASE ArgumentsFault(p) \/ Finish(p)
    BY <2>2, FinishMemory
  <2>3. CASE LockAddr(p) \/ OutOfMemory(p) \/ StartProcess_1(p)
    BY <2>3, SameMemory DEF LockAddr, OutOfMemory, StartProcess_1, memVars
  <2>4. CASE StartProcess_2(p) \/ ArgumentsRefused(p)
    BY <2>4, ArgumentsMemory, RefusedMemory
  <2>5. CASE \E v \in StorePages : Store(p, v)
    BY <2>5, StoreMemory
  <2> QED
    BY <1>3, <2>1, <2>2, <2>3, <2>4, <2>5 DEF Step
<1> QED
  BY <1>1, <1>2, <1>3 DEF ASStep

-----------------------------------------------------------------------------
(* Semaphores.                                                             *)

\* A set of natural numbers that is not empty has a least one.
LEMMA LeastNumber ==
  ASSUME NEW T \in SUBSET Nat, T # {}
  PROVE  \E n \in T : \A m \in T : n <= m
<1> DEFINE R == {ss \in Nat \X Nat : ss[1] < ss[2]}
<1>1. IsWellFoundedOn(R, Nat)
  BY NatLessThanWellFounded DEF OpToRel
<1>2. \E x \in T : \A y \in T : ~(<<y, x>> \in R)
  <2> HIDE DEF R
  <2> QED
    BY <1>1, WFMin
<1>3. PICK x \in T : \A y \in T : ~(<<y, x>> \in R)
  BY <1>2
<1>4. ASSUME NEW y \in T PROVE x <= y
  <2>1. ~(<<y, x>> \in R) /\ x \in Nat /\ y \in Nat
    BY <1>3
  <2> QED
    BY <2>1
<1> QED
  BY <1>4

\* The slot that FindFreeSlot returns is free.
LEMMA FreeSlotFacts ==
  ASSUME bm \subseteq SemSlots, FindFreeSlot # -1
  PROVE  FindFreeSlot \in SemSlots \ bm
<1>1. SemSlots \ bm \in SUBSET Nat
  BY SemTableAssumption DEF SemSlots
<1>2. SemSlots \ bm # {}
  BY DEF FindFreeSlot
<1>3. \E id \in SemSlots \ bm : \A j \in SemSlots \ bm : id <= j
  BY <1>1, <1>2, LeastNumber
<1> QED
  BY <1>2, <1>3 DEF FindFreeSlot

\* The value of one semaphore changes, and the ledger with it.
LEMMA ValueStep ==
  ASSUME SemInv, NEW id \in SemSlots, semTab[id] # NoSem,
         NEW k \in Nat, k <= MaxValue,
         semTab' = [semTab EXCEPT ![id] = [semTab[id] EXCEPT !.value = k]],
         ledger' = [ledger EXCEPT ![semTab[id].name] = k],
         bm' = bm,
         waiting' \in [Callers -> SemSlots \cup {-1}],
         \A c \in Callers : waiting'[c] # -1 => waiting'[c] = waiting[c]
  PROVE  SemInv'
<1> DEFINE Rec == [name : SemNames, value : Nat]
<1> PICK r : r = [semTab[id] EXCEPT !.value = k]
  OBVIOUS
<1>1. semTab[id] \in Rec
  BY DEF SemInv
<1>2. r \in Rec /\ r.name = semTab[id].name /\ r.value = k
  BY <1>1
<1>3. r # NoSem
  BY <1>2, SemTableAssumption
<1>4. semTab'[id] = r /\ \A j \in SemSlots : j # id => semTab'[j] = semTab[j]
  BY DEF SemInv
<1> HIDE DEF Rec
<1>5. semTab' \in [SemSlots -> Rec \cup {NoSem}]
  BY <1>2 DEF SemInv, Rec
<1>6. \A j \in SemSlots : semTab'[j] # NoSem <=> semTab[j] # NoSem
  BY <1>3, <1>4
<1>7. \A j \in SemSlots : semTab[j] # NoSem => semTab'[j].name = semTab[j].name
  BY <1>2, <1>4
<1>8. \A j \in SemSlots : semTab'[j] # NoSem => semTab'[j].value <= MaxValue
  BY <1>2, <1>4 DEF SemInv
<1>9. \A j \in SemSlots : semTab[j] # NoSem => semTab[j].name \in SemNames
  BY DEF SemInv
<1>10. ASSUME NEW j \in SemSlots, semTab'[j] # NoSem
       PROVE  semTab'[j].value = ledger'[semTab'[j].name]
  <2>1. semTab[j] # NoSem /\ semTab[j].name \in SemNames /\ semTab'[j].name = semTab[j].name
    BY <1>6, <1>7, <1>9, <1>10
  <2>2. CASE j = id
    BY <1>2, <1>4, <2>1, <2>2 DEF SemInv
  <2>3. CASE j # id
    <3>1. semTab[j].name # semTab[id].name
      BY <2>1, <2>3 DEF SemInv
    <3>2. ledger'[semTab[j].name] = ledger[semTab[j].name]
      BY <2>1, <3>1 DEF SemInv
    <3> QED
      BY <1>4, <2>1, <2>3, <3>2 DEF SemInv
  <2> QED
    BY <2>2, <2>3
<1>11. ledger' = [n \in SemNames |-> ledger'[n]]
  BY DEF SemInv
<1>12. \A i, j \in SemSlots : semTab'[i] # NoSem /\ semTab'[j] # NoSem
                               /\ semTab'[i].name = semTab'[j].name => i = j
  BY <1>6, <1>7 DEF SemInv
<1>13. \A c \in Callers : waiting'[c] # -1 => semTab'[waiting'[c]] # NoSem
  <2> TAKE c \in Callers
  <2> HAVE waiting'[c] # -1
  <2>1. waiting'[c] = waiting[c] /\ waiting[c] \in SemSlots /\ semTab[waiting[c]] # NoSem
    BY DEF SemInv
  <2> QED
    BY <1>6, <2>1
<1> QED
  BY <1>5, <1>6, <1>8, <1>10, <1>11, <1>12, <1>13 DEF SemInv, Rec

\* The CreateSemaphore system call.
LEMMA SemCreate ==
  ASSUME SemInv, NEW c \in Callers, NEW n \in SemNames, NEW init \in Values, Create(c, n, init)
  PROVE  SemInv'
<1>1. CASE Refuses(n, init)
  BY <1>1 DEF Create, SemInv
<1>2. CASE ~Refuses(n, init) /\ FindFreeSlot = -1
  BY <1>2 DEF Create, SemInv
<1>3. CASE ~Refuses(n, init) /\ FindFreeSlot # -1
  <2> DEFINE Rec == [name : SemNames, value : Nat]
  <2> PICK id : id = FindFreeSlot
    OBVIOUS
  <2> PICK r : r = Sem(n, init)
    OBVIOUS
  <2>1. id \in SemSlots /\ id \notin bm
    BY <1>3, FreeSlotFacts DEF SemInv
  <2>2. init \in Nat /\ init <= MaxValue
    BY <1>3, SemTableAssumption DEF Refuses
  <2>3. r \in Rec /\ r.name = n /\ r.value = init
    BY <2>2 DEF Sem
  <2>4. r # NoSem
    BY <2>3, SemTableAssumption
  <2> HIDE DEF Rec
  <2>5. /\ bm' = bm \cup {id} /\ semTab' = [semTab EXCEPT ![id] = r]
        /\ ledger' = [ledger EXCEPT ![n] = init] /\ UNCHANGED waiting
    BY <1>3 DEF Create
  <2>6. semTab[id] = NoSem /\ semTab'[id] = r /\ \A j \in SemSlots : j # id => semTab'[j] = semTab[j]
    BY <2>1, <2>5 DEF SemInv
  <2>7. \A j \in SemSlots : semTab[j] # NoSem => semTab[j].name # n /\ semTab[j].name \in SemNames
    BY <1>3 DEF Refuses, Named, SemInv
  <2>8. semTab' \in [SemSlots -> Rec \cup {NoSem}]
    BY <2>3, <2>5 DEF SemInv, Rec
  <2>9. bm' = {j \in SemSlots : semTab'[j] # NoSem}
    BY <2>1, <2>4, <2>5, <2>6 DEF SemInv
  <2>10. \A j \in SemSlots : semTab'[j] # NoSem => semTab'[j].value <= MaxValue
    BY <2>2, <2>3, <2>6 DEF SemInv
  <2>11. \A i, j \in SemSlots : semTab'[i] # NoSem /\ semTab'[j] # NoSem
                                 /\ semTab'[i].name = semTab'[j].name => i = j
    BY <2>3, <2>6, <2>7 DEF SemInv
  <2>12. ledger' = [m \in SemNames |-> ledger'[m]]
    BY <2>5 DEF SemInv
  <2>13. ASSUME NEW j \in SemSlots, semTab'[j] # NoSem
         PROVE  semTab'[j].value = ledger'[semTab'[j].name]
    <3>1. CASE j = id
      BY <2>3, <2>5, <2>6, <3>1 DEF SemInv
    <3>2. CASE j # id
      <4>1. semTab'[j] = semTab[j] /\ semTab[j].name # n /\ semTab[j].name \in SemNames
        BY <2>6, <2>7, <2>13, <3>2
      <4>2. ledger'[semTab[j].name] = ledger[semTab[j].name]
        BY <2>5, <4>1 DEF SemInv
      <4> QED
        BY <2>13, <4>1, <4>2 DEF SemInv
    <3> QED
      BY <3>1, <3>2
  <2>14. \A d \in Callers : waiting'[d] # -1 => semTab'[waiting'[d]] # NoSem
    BY <2>4, <2>5, <2>6 DEF SemInv
  <2> QED
    BY <2>5, <2>8, <2>9, <2>10, <2>11, <2>12, <2>13, <2>14 DEF SemInv, Rec
<1> QED
  BY <1>1, <1>2, <1>3

\* The Wait and Signal system calls, and the end of Wait.
LEMMA SemOthers ==
  ASSUME SemInv, NEW c \in Callers,
         WaitReturns(c) \/ \E n \in SemNames : Wait(c, n) \/ Signal(c, n)
  PROVE  SemInv'
<1>1. CASE WaitReturns(c)
  <2> PICK id : id = waiting[c]
    OBVIOUS
  <2>1. id \in SemSlots /\ semTab[id] # NoSem /\ semTab[id].value > 0
    BY <1>1 DEF WaitReturns, SemInv
  <2>2. /\ semTab[id].value \in Nat /\ semTab[id].value <= MaxValue
        /\ semTab[id].value = ledger[semTab[id].name] /\ semTab[id].name \in SemNames
    BY <2>1 DEF SemInv
  <2> PICK k : k = semTab[id].value - 1
    OBVIOUS
  <2>3. k \in Nat /\ k <= MaxValue
    BY <2>1, <2>2, SemTableAssumption
  <2>4. /\ semTab' = [semTab EXCEPT ![id] = [semTab[id] EXCEPT !.value = k]]
        /\ ledger' = [ledger EXCEPT ![semTab[id].name] = k]
        /\ bm' = bm /\ waiting' = [waiting EXCEPT ![c] = -1]
    BY <1>1, <2>2 DEF WaitReturns
  <2>5. /\ waiting' \in [Callers -> SemSlots \cup {-1}]
        /\ \A d \in Callers : waiting'[d] # -1 => waiting'[d] = waiting[d]
    BY <2>4 DEF SemInv
  <2> QED
    BY <2>1, <2>3, <2>4, <2>5, ValueStep
<1>2. ASSUME NEW n \in SemNames, Wait(c, n) PROVE SemInv'
  <2>1. CASE Named(n) = {}
    BY <1>2, <2>1 DEF Wait, SemInv
  <2>2. CASE Named(n) # {}
    <3> PICK id \in Named(n) : id = CHOOSE i \in Named(n) : TRUE
      BY <2>2
    <3>1. id \in SemSlots /\ semTab[id] # NoSem
      BY DEF Named
    <3>2. waiting' = [waiting EXCEPT ![c] = id] /\ UNCHANGED <<bm, semTab, ledger>>
      BY <1>2, <2>2 DEF Wait
    <3> QED
      BY <3>1, <3>2 DEF SemInv
  <2> QED
    BY <2>1, <2>2
<1>3. ASSUME NEW n \in SemNames, Signal(c, n) PROVE SemInv'
  <2>1. CASE Named(n) = {}
    BY <1>3, <2>1 DEF Signal, SemInv
  <2>2. CASE Named(n) # {}
    <3> PICK id \in Named(n) : id = CHOOSE i \in Named(n) : TRUE
      BY <2>2
    <3>1. id \in SemSlots /\ semTab[id] # NoSem /\ semTab[id].name = n
      BY DEF Named
    <3>2. semTab[id].value < MaxValue
      BY <1>3 DEF Signal
    <3>3. semTab[id].value \in Nat /\ semTab[id].value = ledger[n]
      BY <3>1 DEF SemInv
    <3> PICK k : k = semTab[id].value + 1
      OBVIOUS
    <3>4. k \in Nat /\ k <= MaxValue
      BY <3>2, <3>3, SemTableAssumption
    <3>5. /\ semTab' = [semTab EXCEPT ![id] = [semTab[id] EXCEPT !.value = k]]
          /\ ledger' = [ledger EXCEPT ![semTab[id].name] = k]
          /\ bm' = bm /\ waiting' = waiting
      BY <1>3, <2>2, <3>1, <3>3 DEF Signal
    <3>6. waiting' \in [Callers -> SemSlots \cup {-1}]
      BY <3>5 DEF SemInv
    <3> QED
      BY <3>1, <3>4, <3>5, <3>6, ValueStep
  <2> QED
    BY <2>1, <2>2
<1> QED
  BY <1>1, <1>2, <1>3

-----------------------------------------------------------------------------
(* The theorems.                                                           *)

\* Every step of the composed kernel keeps the invariant.
LEMMA NextInv == IInv /\ [Next]_vars => IInv'
<1> SUFFICES ASSUME IInv, [Next]_vars PROVE IInv'
  OBVIOUS
<1>1. ASSUME UNCHANGED semVars PROVE SemInv'
  BY <1>1 DEF semVars, IInv, SemInv
<1>2. ASSUME UNCHANGED asVars PROVE ASInv'
  <2>1. LocInv' /\ CpuInv' /\ LockInv'
    BY <1>2 DEF asVars, memVars, cpuVars, procVars, IInv, ASInv, LocInv, CpuInv, MachineIsOwn, LockInv
  <2>2. TablesInv' /\ FramesInv'
    BY <1>2, SameTables DEF asVars, memVars, procVars, IInv, ASInv, TablesInv
  <2>3. ViewInv' /\ MemoryKept'
    BY <1>2, SameMemory DEF asVars, memVars, IInv, ASInv
  <2> QED
    BY <2>1, <2>2, <2>3 DEF ASInv
<1>3. ASSUME ASStep PROVE ASInv'
  BY <1>3, LocStep, CpuStep, LockStep, TablesStep, MemoryStep DEF IInv, ASInv
<1>4. CASE UNCHANGED vars
  BY <1>1, <1>2, <1>4 DEF vars, IInv
<1>5. CASE Switch
  <2>1. \A s \in Starts : s[1] \in Programs /\ s[2] \in BOOLEAN
    BY AddrSpaceAssumption DEF Programs
  <2>2. ASStep
    BY <1>5, <2>1 DEF Switch, ASStep
  <2> QED
    BY <1>1, <1>3, <1>5, <2>2 DEF Switch, IInv
<1>6. CASE Own
  BY <1>1, <1>3, <1>6 DEF Own, ASStep, IInv
<1>7. CASE SemCall
  BY <1>2, <1>7, SemCreate, SemOthers, UserKernelAssumption DEF SemCall, IInv
<1> QED
  BY <1>4, <1>5, <1>6, <1>7 DEF Next

\* The inductive invariant holds in every state.
THEOREM InvariantHolds == Spec => []IInv
<1> QED
  BY InitInv, NextInv, PTL DEF Spec

(***************************************************************************)
(* The bitmap of frames is exact: a frame is marked when it is in one page *)
(* table, or when its table was lost, and addrLock is always given back.   *)
(***************************************************************************)
THEOREM MemoryIsExact == Spec => []MemoryExact
<1>1. IInv => MemoryExact
  <2> SUFFICES ASSUME IInv PROVE MemoryExact
    OBVIOUS
  <2> USE DEF IInv, ASInv
  <2>1. addrLock \in {0, 1} /\ addrLock + Cardinality({p \in Procs : loc[p] = "alloc"}) = 1
    <3>1. CASE addrLock = 1 /\ \A p \in Procs : loc[p] # "alloc"
      <4>1. {p \in Procs : loc[p] = "alloc"} = {}
        BY <3>1
      <4> QED
        BY <3>1, <4>1, FS_EmptySet
    <3>2. ASSUME addrLock = 0, NEW p \in Procs, loc[p] = "alloc",
                 \A q \in Procs : loc[q] = "alloc" => q = p
          PROVE  addrLock \in {0, 1} /\ addrLock + Cardinality({q \in Procs : loc[q] = "alloc"}) = 1
      <4>1. {q \in Procs : loc[q] = "alloc"} = {p}
        BY <3>2
      <4>2. Cardinality({p}) = 1
        BY FS_Singleton
      <4> QED
        BY <3>2, <4>1, <4>2
    <3> QED
      BY <3>1, <3>2 DEF LockInv
  <2>2. ASSUME NEW p \in Procs PROVE Cardinality(FramesOf(p)) = NumPages(p)
    <3> PICK t, n : t = pageTable[p] /\ n = NumPages(p)
      OBVIOUS
    <3>1. n \in Nat /\ FramesOf(p) = {t[i] : i \in 1..n}
      BY FramesAre
    <3>2. \A i, j \in 1..n : t[i] = t[j] => i = j
      BY DEF TablesInv
    <3> PICK h : h = [i \in 1..n |-> t[i]]
      OBVIOUS
    <3>3. h \in Bijection(1..n, FramesOf(p))
      BY <3>1, <3>2 DEF Bijection, Injection, Surjection, IsInjective
    <3>4. IsFiniteSet(1..n) /\ Cardinality(1..n) = n
      <4>1. 1 \in Int /\ n \in Int
        BY <3>1
      <4>2. IsFiniteSet(1..n) /\ Cardinality(1..n) = IF 1 > n THEN 0 ELSE n - 1 + 1
        BY <4>1, FS_Interval
      <4> QED
        BY <3>1, <4>2
    <3>5. ExistsBijection(1..n, FramesOf(p))
      BY <3>3 DEF ExistsBijection
    <3> QED
      BY <3>4, <3>5, FS_Bijection
  <2>3. gPhysPageBitMap = leaked \cup UNION {FramesOf(p) : p \in Procs}
    BY DEF FramesInv
  <2>4. FramesExact
    BY <2>1, <2>2, <2>3 DEF FramesExact, FramesInv
  <2>5. \A p \in Procs : FramesOf(p) \subseteq Frames
    BY FramesAre
  <2>6. TypeOK
    BY <2>1, <2>5 DEF TypeOK, LocInv, FramesInv, ViewInv, SemInv
  <2> QED
    BY <2>4, <2>6 DEF MemoryExact
<1> QED
  BY <1>1, InvariantHolds, PTL

(***************************************************************************)
(* While a program runs, the page table and the registers are its own.     *)
(***************************************************************************)
THEOREM OwnMachine == Spec => []MachineIsOwn
<1>1. IInv => MachineIsOwn
  BY DEF IInv, ASInv, CpuInv
<1> QED
  BY <1>1, InvariantHolds, PTL

(***************************************************************************)
(* A program's memory holds its image and what it stored, unless the start *)
(* of a process wrote on it: nothing else reaches it.                      *)
(***************************************************************************)
THEOREM MemoryIsKept == Spec => []MemoryKept
<1>1. IInv => MemoryKept
  BY DEF IInv, ASInv
<1> QED
  BY <1>1, InvariantHolds, PTL

(***************************************************************************)
(* A name has one semaphore, whose value is the initial one plus the       *)
(* Signals less the Waits that returned.                                   *)
(***************************************************************************)
THEOREM SemaphoresAreShared == Spec => []SemaphoresShared
<1>1. IInv => SemaphoresShared
  <2> SUFFICES ASSUME IInv PROVE SemaphoresShared
    OBVIOUS
  <2> USE DEF IInv
  <2>1. \A id \in SemSlots : semTab[id] # NoSem => semTab[id].value \in 0..MaxValue
    BY SemTableAssumption DEF SemInv
  <2>2. ASSUME NEW n \in SemNames PROVE Cardinality(Named(n)) <= 1
    <3>1. CASE Named(n) = {}
      BY <3>1, FS_EmptySet
    <3>2. ASSUME NEW id \in Named(n) PROVE Cardinality(Named(n)) <= 1
      <4>1. Named(n) = {id}
        BY DEF Named, SemInv
      <4> QED
        BY <4>1, FS_Singleton
    <3> QED
      BY <3>1, <3>2
  <2> QED
    BY <2>1, <2>2 DEF SemaphoresShared, SemInv
<1> QED
  BY <1>1, InvariantHolds, PTL
=============================================================================
