----------------------------- MODULE AddrSpace -----------------------------
(***************************************************************************)
(* Address spaces and the state of a user program in the machine:          *)
(* userprog/addrspace.cc, the two entry points of a process in             *)
(* threads/pcb.cc, and the saving and restoring of threads/scheduler.cc    *)
(* and threads/thread.cc.                                                  *)
(*                                                                         *)
(* Memory is counted in pages, and the segments of a program begin at page *)
(* boundaries: a program is [code, rdata, data, rest], the sizes of its    *)
(* segments (rdata is the read-only data; rest is the uninitialised data   *)
(* and the stack).  As test/script and coff2noff make it, the file holds   *)
(* code, read-only data and data one after the other, and that is how      *)
(* their virtual addresses follow each other too.  A process runs until a  *)
(* tick lets the scheduler switch; there is no tick between two steps of   *)
(* the kernel except where interrupts are enabled again.                   *)
(*                                                                         *)
(* Locations of a process:                                                 *)
(*   "none"   not created           "new"    forked, has never run         *)
(*   "lock"   in addrLock->P()      "alloc"  P has returned                *)
(*   "exec"   the space is built    "user"   in machine->Run()             *)
(*   "done"   finished                                                     *)
(***************************************************************************)
EXTENDS Integers, Sequences, FiniteSets, Functions

CONSTANTS
  Procs, NULL,
  Starts,        \* the programs, as sizes in pages, and whether they get arguments
  NumPhysPages,  \* frames of physical memory
  StorePages     \* bound: the pages that programs store to

Frames == 0..(NumPhysPages - 1)

\* NULL is neither a process nor a page table; every program has code, that of
\* test/start.S.
ASSUME AddrSpaceAssumption ==
  /\ NULL \notin Procs
  /\ \A n \in 0..NumPhysPages : NULL \notin [1..n -> Frames]
  /\ NumPhysPages \in Nat /\ StorePages \subseteq Nat
  /\ \A s \in Starts : s \in [code : Nat \ {0}, rdata : Nat, data : Nat, rest : Nat] \X BOOLEAN

VARIABLES
  gPhysPageBitMap,  \* the frames that are marked
  mainMemory,       \* what each marked frame holds; a frame is cleared before it is used
  addrLock,         \* the value of kernel->addrLock
  program, loc,
  withArgs,         \* was the process forked by ExecV?
  pageTable,        \* AddrSpace::pageTable: the frame of each page; NULL for no space
  space,            \* is Thread::space set?
  current,          \* kernel->currentThread, NULL when it is no user process
  ptReg,            \* the process whose table machine->pageTable is
  registers,        \* the machine's registers: whose they are, and a value
  userRegisters,    \* Thread::userRegisters
  view,             \* what the pages of a process should hold
  lastRegs,         \* what its registers should hold
  victims,          \* the processes with a page that another's start wrote on
  leaked,           \* the frames whose page table is lost
  broken            \* memory of the host was overwritten

memVars == <<gPhysPageBitMap, mainMemory, addrLock, pageTable, view, victims, leaked, broken>>
cpuVars == <<current, ptReg, registers, userRegisters, lastRegs>>
procVars == <<program, loc, withArgs, space>>
asVars == <<memVars, cpuVars, procVars>>

Goto(p, l) == loc' = [loc EXCEPT ![p] = l]

\* AddrSpace::numPages, 0 when memory was short.
NumPages(p) == IF p = NULL \/ pageTable[p] = NULL THEN 0 ELSE Len(pageTable[p])
FramesOf(p) == IF pageTable[p] = NULL THEN {} ELSE Range(pageTable[p])

ASInit ==
  /\ gPhysPageBitMap = {}
  /\ mainMemory = [f \in Frames |-> NULL]
  /\ addrLock = 1
  /\ program = [p \in Procs |-> NULL]
  /\ loc = [p \in Procs |-> "none"]
  /\ withArgs = [p \in Procs |-> FALSE]
  /\ pageTable = [p \in Procs |-> NULL]
  /\ space = [p \in Procs |-> FALSE]
  /\ current = NULL
  /\ ptReg = NULL
  /\ registers = <<NULL, 0>>
  /\ userRegisters = [p \in Procs |-> <<NULL, 0>>]
  /\ view = [p \in Procs |-> <<>>]
  /\ lastRegs = [p \in Procs |-> <<NULL, 0>>]
  /\ victims = {}
  /\ leaked = {}
  /\ broken = FALSE

-----------------------------------------------------------------------------
(* Processes and context switches.                                         *)

\* PCB::Exec and PCB::ExecV, up to the Fork; only a program calls ExecV.
Fork(p, g, args) ==
  /\ ~broken
  /\ loc[p] = "none"
  /\ current = NULL => ~args
  /\ program' = [program EXCEPT ![p] = g]
  /\ withArgs' = [withArgs EXCEPT ![p] = args]
  /\ Goto(p, "new")
  /\ UNCHANGED <<memVars, cpuVars, space>>

\* Mutant of SaveUserState: not done.
SaveUserStateNot(p) == userRegisters

\* Thread::SaveUserState, if the old thread is a user program.
SaveUserState(p) ==
  IF p # NULL /\ space[p] THEN [userRegisters EXCEPT ![p] = registers] ELSE userRegisters

\* Mutant of RestoreState: the page table register is left alone.
RestoreStateNot(p) == ptReg

\* AddrSpace::RestoreState, for a thread that has a space.
RestoreState(p) == IF p # NULL /\ space[p] THEN p ELSE ptReg

RestoreUserState(p) == IF p # NULL /\ space[p] THEN userRegisters[p] ELSE registers

\* Scheduler::Run: the current thread gives the processor to another.  A new
\* thread begins in ThreadBegin and restores nothing.
Run(next) ==
  /\ ~broken
  /\ next # current
  /\ next # NULL => loc[next] \notin {"none", "done"}
  /\ userRegisters' = SaveUserState(current)
  /\ registers' = RestoreUserState(next)
  /\ ptReg' = RestoreState(next)
  /\ current' = next
  /\ loc' = [p \in Procs |-> IF p = next /\ loc[p] = "new" THEN "lock" ELSE loc[p]]
  /\ UNCHANGED <<memVars, program, withArgs, space, lastRegs>>

-----------------------------------------------------------------------------
(* AddrSpace::AddrSpace(fileName).                                         *)

\* The P on addrLock returns.
LockAddr(p) ==
  /\ ~broken
  /\ current = p /\ loc[p] = "lock"
  /\ addrLock > 0
  /\ addrLock' = addrLock - 1
  /\ Goto(p, "alloc")
  /\ UNCHANGED <<gPhysPageBitMap, mainMemory, pageTable, view, victims, leaked, broken, cpuVars,
                 program, withArgs, space>>

\* The pages of the space: the read-only data is loaded but not counted.
Size(g) == g.code + g.data + g.rest

\* The frames that n calls of FindAndSet return.
FindFrames(n) ==
  LET free == Frames \ gPhysPageBitMap
  IN  [i \in 1..n |-> CHOOSE f \in free : Cardinality({e \in free : e < f}) = i - 1]

\* What a page of the program is, in the file and in memory.
FilePages(g) == g.code + g.rdata + g.data
Image(p, g, v) == IF v < FilePages(g) THEN <<p, "file", v>> ELSE <<p, "zero", 0>>

\* The loop of a segment that is not empty runs over all pages of the space,
\* and a read beyond the end of the file copies nothing.
Copied(g, at, size) == {i \in 0..(Size(g) - 1) : size > 0 /\ at + i < FilePages(g)}

\* The frame that page i of a segment is copied to: the loop adds the virtual
\* address of the segment to the address of the frame of page i.
CopiedTo(frames, at, i) == frames[i + 1] + at

\* Memory after the loop of the segment that begins at page "at".  What is
\* copied to a free frame does not matter.
CopySegment(mem, p, g, frames, at, size) ==
  [f \in Frames |->
     IF /\ f \in gPhysPageBitMap \cup Range(frames)
        /\ \E i \in Copied(g, at, size) : CopiedTo(frames, at, i) = f
     THEN <<p, "file", at + (CHOOSE i \in Copied(g, at, size) : CopiedTo(frames, at, i) = f)>>
     ELSE mem[f]]

RDataAt(g) == g.code
DataAt(g) == g.code + g.rdata

\* The frames are cleared, then the segments are copied: code, data,
\* read-only data.  The first loop takes the other two segments along, the
\* last one the data, since they follow in the file.
Loaded(p, g, frames) ==
  LET cleared == [f \in Frames |-> IF f \in Range(frames) THEN <<p, "zero", 0>>
                                   ELSE mainMemory[f]]
      code == CopySegment(cleared, p, g, frames, 0, g.code)
      data == CopySegment(code, p, g, frames, DataAt(g), g.data)
  IN  CopySegment(data, p, g, frames, RDataAt(g), g.rdata)

\* The frames that a loop copies to by mistake: the page belongs elsewhere,
\* because the frames are not consecutive, or is not in the space at all,
\* because the read-only data was not counted.
Astray(g, frames, at, size) ==
  {CopiedTo(frames, at, i) : i \in {j \in Copied(g, at, size) :
      at + j < Size(g) => CopiedTo(frames, at, j) # frames[at + j + 1]}}

AllAstray(g, frames) ==
  Astray(g, frames, DataAt(g), g.data) \cup Astray(g, frames, RDataAt(g), g.rdata)

\* The processes, the new one too, with a frame that is copied to by mistake.
Misplaced(p, g, frames) ==
  {q \in Procs : (IF q = p THEN Range(frames) ELSE FramesOf(q)) \cap AllAstray(g, frames) # {}}

\* Enough memory: frames are taken, the program is loaded, V.  A segment
\* copied beyond the end of mainMemory overwrites memory of the host.
Allocate(p) ==
  LET g == program[p]
      frames == FindFrames(Size(g))
  IN  /\ ~broken
      /\ current = p /\ loc[p] = "alloc"
      /\ Size(g) <= Cardinality(Frames \ gPhysPageBitMap)
      /\ gPhysPageBitMap' = gPhysPageBitMap \cup Range(frames)
      /\ pageTable' = [pageTable EXCEPT ![p] = frames]
      /\ mainMemory' = Loaded(p, g, frames)
      /\ view' = [view EXCEPT ![p] = [i \in 1..Size(g) |-> Image(p, g, i - 1)]]
      /\ victims' = victims \cup Misplaced(p, g, frames)
      /\ broken' = ~(AllAstray(g, frames) \subseteq Frames)
      /\ addrLock' = addrLock + 1
      /\ Goto(p, "exec")
      /\ UNCHANGED <<cpuVars, program, withArgs, space, leaked>>

\* Not enough memory: numPages is 0 and pageTable is never set.
OutOfMemory(p) ==
  /\ ~broken
  /\ current = p /\ loc[p] = "alloc"
  /\ Size(program[p]) > Cardinality(Frames \ gPhysPageBitMap)
  /\ addrLock' = addrLock + 1
  /\ Goto(p, "exec")
  /\ UNCHANGED <<gPhysPageBitMap, mainMemory, pageTable, view, victims, leaked, broken, cpuVars,
                 program, withArgs, space>>

-----------------------------------------------------------------------------
(* The program starts, runs and ends.                                      *)

InitRegisters(p) == <<p, 0>>

\* AddrSpace::Execute, as StartProcess_1 calls it: the space is the thread's,
\* the registers are set and the page table is loaded.
Execute(p) ==
  /\ space' = [space EXCEPT ![p] = TRUE]
  /\ registers' = InitRegisters(p)
  /\ lastRegs' = [lastRegs EXCEPT ![p] = InitRegisters(p)]
  /\ ptReg' = p
  /\ Goto(p, "user")
  /\ UNCHANGED <<current, userRegisters, program, withArgs>>

StartProcess_1(p) ==
  /\ ~broken
  /\ current = p /\ loc[p] = "exec" /\ ~withArgs[p]
  /\ Execute(p)
  /\ UNCHANGED memVars

\* The page table register still names a table that was deleted.
TableDeleted == ptReg # NULL => loc[ptReg] = "done"

\* The loop of StartProcess_2 writes the arguments through the page table that
\* is still loaded, at the stack of whoever's registers are still in the
\* machine.
WriteArguments(p) ==
  /\ NumPages(ptReg) > 0 \/ TableDeleted
  /\ IF TableDeleted
     THEN broken' = TRUE /\ UNCHANGED mainMemory
     ELSE /\ mainMemory' = [mainMemory EXCEPT ![pageTable[ptReg][NumPages(ptReg)]] =
                                               <<p, "args", 0>>]
          /\ UNCHANGED broken

\* The process that the arguments are written into.
Overwritten == IF TableDeleted THEN {} ELSE {ptReg}

StartProcess_2(p) ==
  /\ ~broken
  /\ current = p /\ loc[p] = "exec" /\ withArgs[p]
  /\ WriteArguments(p)
  /\ victims' = victims \cup Overwritten
  /\ Execute(p)
  /\ UNCHANGED <<gPhysPageBitMap, addrLock, pageTable, view, leaked>>

\* The thread ends before Execute.  It has no space yet, so nobody deletes the
\* one that was built for it.
EndWithoutSpace(p) ==
  /\ leaked' = leaked \cup FramesOf(p)
  /\ pageTable' = [pageTable EXCEPT ![p] = NULL]
  /\ view' = [view EXCEPT ![p] = <<>>]
  /\ Goto(p, "done")
  /\ current' = NULL
  /\ UNCHANGED <<gPhysPageBitMap, addrLock, ptReg, registers, userRegisters, lastRegs,
                 program, withArgs, space>>

\* The early return of StartProcess_2 at an argument that is the empty string:
\* its pointer and the arguments before it have been written.
ArgumentsRefused(p) ==
  /\ ~broken
  /\ current = p /\ loc[p] = "exec" /\ withArgs[p]
  /\ WriteArguments(p)
  /\ victims' = (victims \cup Overwritten) \ {p}
  /\ EndWithoutSpace(p)

\* The loaded table is that of a process without memory: the first write
\* raises AddressErrorException, whose handler ends the new process before
\* WriteMem can return FALSE.
ArgumentsFault(p) ==
  /\ ~broken
  /\ current = p /\ loc[p] = "exec" /\ withArgs[p]
  /\ NumPages(ptReg) = 0 /\ ~TableDeleted
  /\ victims' = victims \ {p}
  /\ EndWithoutSpace(p)
  /\ UNCHANGED <<mainMemory, broken>>

\* A user instruction that stores to page v: Machine::WriteMem, whose
\* Translate finds the frame in the table that is loaded.
Store(p, v) ==
  /\ ~broken
  /\ current = p /\ loc[p] = "user"
  /\ v < NumPages(ptReg)
  /\ mainMemory' = [mainMemory EXCEPT ![pageTable[ptReg][v + 1]] = <<p, "data", v>>]
  /\ view' = [view EXCEPT ![p] = IF v < Len(@) THEN [@ EXCEPT ![v + 1] = <<p, "data", v>>]
                                 ELSE @]
  /\ registers' = <<registers[1], 1>>
  /\ lastRegs' = [lastRegs EXCEPT ![p] = <<@[1], 1>>]
  /\ UNCHANGED <<gPhysPageBitMap, addrLock, pageTable, victims, leaked, broken, current, ptReg,
                 userRegisters, procVars>>

\* Mutant of FreedFrames: one frame stays marked.
FreedFramesButLast(p) ==
  {pageTable[p][i] : i \in 1..(NumPages(p) - 1)}

\* The frames that ~AddrSpace clears.
FreedFrames(p) == FramesOf(p)

\* The end of a process, by Exit or by an exception such as a store outside
\* the space: PCB::~PCB, Thread::FreeSpace and Thread::Finish.  The space of a
\* process that had no memory deletes a pointer that was never set.
Finish(p) ==
  /\ ~broken
  /\ current = p /\ loc[p] = "user"
  /\ gPhysPageBitMap' = gPhysPageBitMap \ FreedFrames(p)
  /\ broken' \in (IF pageTable[p] = NULL THEN BOOLEAN ELSE {FALSE})
  /\ pageTable' = [pageTable EXCEPT ![p] = NULL]
  /\ view' = [view EXCEPT ![p] = <<>>]
  /\ victims' = victims \ {p}
  /\ space' = [space EXCEPT ![p] = FALSE]
  /\ loc' = [loc EXCEPT ![p] = "done"]
  /\ current' = NULL
  /\ mainMemory' = [f \in Frames |-> IF f \in FreedFrames(p) THEN NULL ELSE mainMemory[f]]
  /\ UNCHANGED <<addrLock, leaked, program, withArgs, ptReg, registers, userRegisters, lastRegs>>

\* The steps of a process that runs.
Step(p) ==
  \/ LockAddr(p) \/ Allocate(p) \/ OutOfMemory(p)
  \/ StartProcess_1(p) \/ StartProcess_2(p) \/ ArgumentsRefused(p) \/ ArgumentsFault(p)
  \/ \E v \in StorePages : Store(p, v)
  \/ Finish(p)

-----------------------------------------------------------------------------
(* Properties.                                                             *)

(***************************************************************************)
(* The bitmap of frames is exact: no frame is in two page tables, every    *)
(* frame of a table is marked, and a frame is marked only if it is in a    *)
(* table; so a process that ends gives its memory back, but for one whose  *)
(* start was given up while its arguments were written.  The lock is       *)
(* always given back too, when memory was short as well.                   *)
(***************************************************************************)
FramesExact ==
  /\ \A p, q \in Procs : p # q => FramesOf(p) \cap FramesOf(q) = {}
  /\ \A p \in Procs : Cardinality(FramesOf(p)) = NumPages(p)
  /\ gPhysPageBitMap = leaked \cup UNION {FramesOf(p) : p \in Procs}
  /\ \A p \in Procs : FramesOf(p) \cap leaked = {}
  /\ addrLock + Cardinality({p \in Procs : loc[p] = "alloc"}) = 1

(***************************************************************************)
(* A program never sees another's machine: while it runs, the page table   *)
(* and the registers are its own, whatever has run in between.             *)
(***************************************************************************)
MachineIsOwn ==
  \A p \in Procs : current = p /\ loc[p] = "user" => ptReg = p /\ registers = lastRegs[p]

(***************************************************************************)
(* A program's memory holds its image and what it has written itself, as   *)
(* long as nobody's start has written on it.  A start does that in three   *)
(* ways: it copies the data or the read-only data into frames that are not *)
(* consecutive, it copies beyond its own space because the read-only data  *)
(* was not counted, and StartProcess_2 writes arguments through the table  *)
(* of whoever ran before.  Nothing else one process does reaches another.  *)
(***************************************************************************)
MemoryKept ==
  ~broken =>
    \A p \in Procs \ victims : \A i \in 1..NumPages(p) :
      mainMemory[pageTable[p][i]] = view[p][i]

(***************************************************************************)
(* What the callers of Exec and ExecV are told ("Run the specified         *)
(* executable", "with parameters stored in argv[1..argc-1]"): a program    *)
(* that begins to run has the pages of its file in its memory, and its     *)
(* arguments on its own stack.                                             *)
(***************************************************************************)
StartedAsAsked ==
  [][\A p \in Procs :
       /\ loc[p] = "exec" /\ loc'[p] = "user"
       /\ ~broken'
       => \A i \in 1..NumPages(p) :
            mainMemory'[pageTable[p][i]] =
              IF withArgs[p] /\ i = NumPages(p) THEN <<p, "args", 0>>
              ELSE Image(p, program[p], i - 1)]_asVars
=============================================================================
