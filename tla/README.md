# A TLA+ verification of the NachOS 4.0 kernel

NachOS is an instructional operating system kernel that runs on a simulated
MIPS machine.  This copy (`NachOS-4.0/code`) adds multiprogramming (process
table, `Exec`, `ExecV`, `Join`, `Exit`), user semaphores, and file, console and
socket system calls.  This directory models the kernel and the machine it runs
on in TLA+, checks the models with TLC, and proves most of their safety
properties with TLAPS, for every size of the tables, the memory and the disk.

Paths below are relative to `src/NachOS-4.0/code`.

## 1. Inventory

| Component | State it keeps | Operations | Used by, through |
|---|---|---|---|
| Threads and scheduler (`threads/thread.cc`, `threads/scheduler.cc`) | `currentThread`, `readyList`, each thread's `status`, `toBeDestroyed` | `Fork`, `Begin`, `Yield`, `Sleep`, `Finish`, `ReadyToRun`, `FindNextToRun`, `Run`, `CheckToBeDestroyed` | everything; `Semaphore`, the timer and `ThreadRoot` call it |
| Interrupts, timer, alarm (`machine/interrupt.cc`, `machine/timer.cc`, `threads/alarm.cc`) | interrupt level, pending list, `yieldOnReturn`, machine status | `SetLevel`, `OneTick`, `Schedule`, `CheckIfDue`, `Idle`, `YieldOnReturn`, `Halt` | the devices schedule call-backs; `SetLevel` and every user instruction tick |
| Semaphores (`threads/synch.cc`) | `value`, `queue` | `P`, `V` | all below; interrupt handlers call `V` |
| Locks, condition variables (`threads/synch.cc`) | `lockHolder`, a semaphore; `waitQueue` | `Acquire`, `Release`; `Wait`, `Signal`, `Broadcast` | `SynchList`, console, disk, post office |
| Synchronised list (`threads/synchlist.cc`, `lib/list.cc`) | a linked list, a lock, a condition | `Append`, `RemoveFront`, `Apply` | mailboxes |
| Process table (`threads/ptable.cc`, `threads/pcb.cc`) | `bm`, `pcb[]`, `bmsem`; per PCB `parentID`, `numwait`, `exitcode`, `joinsem`, `exitsem`, `multex` | `ExecUpdate`, `ExecV`, `JoinUpdate`, `ExitUpdate`, `Remove` | system calls and exceptions of user programs |
| Address spaces (`userprog/addrspace.cc`, `lib/bitmap.cc`) | page tables, `gPhysPageBitMap`, `addrLock` | constructor, destructor, `Execute`, `RestoreState` | `StartProcess_1/2`, `~PCB`, `Scheduler::Run` |
| User semaphores (`threads/stable.cc`, `threads/sem.cc`) | `bm`, `semTab[]` | `Create`, `Wait`, `Signal` | system calls |
| File table and file calls (`userprog/exception.cc`, `filesys/filesys.h`) | the descriptor table shared by files and sockets | `Create`, `Open`, `Close`, `Read`, `Write`, `Seek`, `Remove`, `SocketTCP`, `Connect`, `Send`, `Receive` | system calls |
| Synchronous devices (`filesys/synchdisk.cc`, `userprog/synchconsole.cc`, `machine/disk.cc`, `machine/console.cc`) | a lock, a semaphore; the head, its track buffer, the busy flags | read or write and wait for the interrupt | system calls, file system |
| Post office (`network/post.cc`, `machine/network.cc`) | mailboxes, the input buffer, send lock | `PostalDelivery`, `Send`, `Receive` | `Kernel::NetworkTest` |
| File system on disk (`filesys/*.cc`, a build without `FILESYS_STUB`) | directory, free map, file headers, on sectors | `Create`, `Open`, `Remove`, `List`, `Print`, `Read`, `Write`, `Seek` | system calls |
| MIPS simulator (`machine/mipssim.cc`, `translate.cc`, `machine.cc`) | registers, memory, page table | `OneInstruction`, `Translate`, `ReadMem`, `WriteMem`, `RaiseException`, `DelayedLoad` | `machine->Run()` |
| Host interface, libraries (`lib/*.cc`) | | | |

What is hard here:

* **Preemption.**  The machine has one CPU, but the timer makes a thread yield
  at any tick, so kernel code outside `SetLevel(IntOff)` interleaves freely.
* **Interrupt handlers** V semaphores while a thread runs and while the CPU
  is idle inside a sleeping thread's `Sleep`; they come in the order of their
  times, possibly late.
* **Barging.**  `V` increments `value` and makes a waiter ready; another thread
  may take the unit before the waiter runs.
* **Lifetime.**  Threads, PCBs, page tables and semaphores are deleted while
  others hold pointers or slot numbers.
* **Ordering of Join and Exit**, in both orders, around slot reuse.
* **Limits and partial failure**: a full table, short memory, a full disk, a
  program that cannot start.
* **Failure**: packets are lost, and Nachos may exit between two sector writes.
* **Delays of the processor**: delay slots and delayed loads around exceptions.

What makes each component correct: the lists are exact and nobody is lost
(scheduler); no lost wakeup, a counting semaphore (semaphores); mutual
exclusion, no missed signal, an atomic FIFO queue (monitors); each Join reads
its own child's exit code, slots come back, and nothing is used after it is
deleted (process table); a frame belongs to one process, and a program sees only
its own memory and registers (address spaces); a name is one semaphore (user
semaphores); each request gets its own wakeup, in time (devices); mail is
delivered once and in order unless it is lost (post office); a sector belongs to
one file, and a step of one file leaves the others alone (file system);
instructions agree with the integers and can be restarted (simulator).
`PROJECT.json` lists the hazards with their lines.

## 2. Modules

| Module | Models |
|---|---|
| `Scheduler` | `scheduler.cc`, `thread.cc`: the state of the scheduler and the pieces of its operations |
| `KernelThreads` | the scheduler composed with `Semaphore`, devices and the timer: a specification |
| `SemaphoreSpec` | abstract: counting semaphores |
| `ProcessTable` | `ptable.cc`, `pcb.cc` and the process system calls, over the semaphores of `SemaphoreSpec` |
| `LinkedList` | `List` of `lib/list.cc`: operators on linked elements |
| `SynchList` | `Lock`, `Condition` and `SynchList`, over the same semaphores and `LinkedList` |
| `FifoQueue` | abstract: an atomic FIFO queue whose `remove` waits |
| `FileTable` | the file and socket calls of `exception.cc`, with `FileSystem` and `OpenFile` |
| `DiskFS` | the file system on disk, sector by sector |
| `FileStore` | abstract: named files, each step about one of them; a new one may first be there under another name |
| `Devices` | `interrupt.cc`, timer, alarm, disk, console, `SynchDisk`, `SynchConsole` |
| `PostOffice` | `network.cc` and `post.cc` on several machines |
| `NetworkTest` | `Kernel::NetworkTest` composed with `PostOffice` and other traffic: a specification |
| `AddrSpace` | `addrspace.cc`, the starts of a process, the machine state saved by a context switch |
| `SemTable` | `stable.cc`, `sem.cc` and their system calls |
| `UserKernel` | `AddrSpace` composed with `SemTable`: a specification |
| `Machine` | the MIPS simulator and `IncreasePC` |
| `KernelThreads_proofs`, `SynchList_proofs`, `DiskFS_proofs`, `Devices_proofs`, `NetworkTest_proofs`, `UserKernel_proofs`, `Machine_proofs` | the theorems about the specification they are named after |
| `SystemCalls_proofs` | the theorems about `ProcessTable` and `FileTable` |
| `MC...` | instances for TLC |

Definitions whose comment starts with "Mutant of" are altered versions of the
definition that follows them.  No specification uses them; each shows that some
property would notice that mistake in the code.

Type invariants are listed with the runs only for `KernelThreads`; elsewhere
`TypeOK` is a conjunct of the first invariant that rests on it (`LockExclusive`,
`SectorsExact`, `OneWakeup`, `AckMeansReceived`, `MemoryExact`, `Restartable`,
and so on).

### Scheduler and KernelThreads

`phase` says where the executing thread is (running with interrupts on, at the
head of `P`'s loop, in the loop of `Sleep`, just back from `SWITCH`).  A context
switch happens only where interrupts are enabled again, after a user
instruction, and in `Sleep`, so each action is the code between two such
points.  `waiting[t]` is the semaphore whose `P` the thread is inside; in the
code this is the thread's stack.  A thread calls anything at any time.  The
handlers of the console, the disk and the network are represented by what they
do to the kernel, a `V`.

The Thread objects are a fixed set; a deleted one may be created again.
`JUST_CREATED` is not a separate status because `Fork` follows the constructor
without a preemption that could see the object.

### ProcessTable

A process is at a location of a system call.  A location ending in `P` means
that `P` has been called; the next step takes a unit when there is one.  That
is `SemaphoreSpec`, which `KernelThreads` implements.  Any interleaving is
allowed, because the timer may go off at every tick.  `IncNumWait` and
`DecNumWait` (`P`, one assignment, `V` on `multex`) are one step each: `multex`
protects only `numwait`, and the step waits while an Exec holds it.  A `V`
followed by code that touches only the process's own state is merged with what
follows.

`handle[p][c]` is what the program of `p` knows: `"open"` is a pid that Exec
returned and that it has not joined.  With `JoinAny` and `LeaveChildren` false
programs join what they have opened, once, and before they exit.

The kernel's main thread runs the first program with `processID` 0.  The code
does not initialise that field; the model assumes 0.

An exec of a file that is not a NOFF executable stops the simulator with an
ASSERT and is not modelled.  Program names only decide whether Exec fails.
`Exec`'s tests for a failed `new` are dead code.

### SynchList and LinkedList

The same style.  A thread can be preempted between the return of `P` in
`Acquire` and the assignment to `lockHolder`, so these are separate steps.  The
semaphore that `Condition::Wait` allocates is named by its thread; it exists
until the thread has the lock again, and the next `Wait` of the same thread
makes a new one.

The list is that of `lib/list.cc`: `first`, `last`, `numInList` and the `next`
of each element.  `List::Append` asserts that the item is not on the list, so
threads append items that are not.  The ASSERTs of `SanityCheck` are a conjunct of
`LockExclusive`.

### FileTable

None of these calls touches a semaphore (except on the console), so interrupts
stay as they are and a call is one step; what is hard is the order of the calls
of several programs on one global table.  An `OpenFile` has its `currentOffset`
and the offset of the host's file, which `Length` moves to the end; both are
modelled, and `position` is where a descriptor should be.  `result` is register
2.  The host's sockets answer as they like.  Data is left out.

Two steps of the model stop the kernel, as the code does: `Connect` where nothing
is open (a NULL pointer), and `Read` or `Seek` of a socket (`Length` calls
`Lseek`, which asserts success).  A `Seek` that is refused leaves the position at
the end of the file.

### DiskFS

The file system takes no lock ("this implementation assumes there is no
concurrent access"), so one operation runs at a time.  An operation reads the
directory and the bitmap, computes its new copies, and puts the sectors it
writes in `todo`, in the order of the code; `WriteSector` writes the next one,
and `Crash` may come at any time and drop the rest together with the open files.
`call` is what was asked and what was answered, with the disk before it.  A
sector holds a bitmap, a directory, a header or data bytes; a sector that is
used again for data holds `Junk` where nobody has written.  `torn` is the entry
whose `Create` or `Remove` a crash cut off while its sectors were not marked.

The bitmap fills one sector.  The directory takes two: ten entries of 20 bytes are
200, and a sector has 128.  `Directory::WriteBack` writes them one after the
other, and the seventh entry (bytes 120 to 139) has `inUse` and `sector` in the
first and its name in the second.  `HeadAt` and `NameAt` say for each entry in
which part of the directory these are; `Part` is what a sector holds, and
`DirectoryOn` reads both.  So a `Create` into the entry at the border may be in use
for one write, and after an exit for good, under the name of a file that was removed
before: `Directory::Remove` only clears `inUse`, and `Format` writes names that were in
memory (`Garbage`).  `FileStore` has this as `nascent`: the new file may be there under
another name until `Rename`, or keep it (`Settle`).

### Devices

Times are relative to the present, so that the state space is finite although
`totalTicks` grows for ever: `left` is `when - totalTicks`, `phase` is
`totalTicks` modulo a rotation, `age` is `totalTicks - bufferInit`.
`inHandler` splits `CheckIfDue` into one step per handler; `Idle` advances the
clock when no thread can run.  `settled` is how long the head has really been on
its track: `DiskOnTime` compares what the disk takes for buffered, from `age`,
with it.  Which thread runs is left open; the scheduler is in `KernelThreads`.

### PostOffice and NetworkTest

Each machine has its socket, the network's one input buffer, a postal worker, mailboxes
(atomic queues, by `SynchList!ImplementsQueue`), and the lock and semaphore of
`Send`.  `NetworkOutput::Send` loses a packet, unless `Reliable`, or hands it to
`SendToSocket`.  The host delivers in order (a Unix datagram socket on one host), but
only to a name that somebody has bound.  In the code the names do not agree:
`NetworkInput` binds `<host>_0` (`BoundFormat`) and `Send` addresses `SOCKET_<host>`, so
that every packet is dropped.  `SendFormat` is a constant.  With the code's own,
the run `reliable_network_test` shows that the test never ends.  The run
`post_office` has the bound one, so that there is something to check behind the
socket: its invariants hold of the code too (the theorems are for either name,
and without deliveries there is only less to go wrong), but `TestCompletes` is a
property of the protocol on a network whose names agree, not of this build.

### AddrSpace, SemTable, UserKernel

Memory is counted in pages, and a frame holds a mark of who wrote it and what.
`current` is the user process on the CPU, `ptReg` and `registers` are the
machine's; `view` and `lastRegs` are what a program should see.  `Run` saves and
restores as `Scheduler::Run` does.  The constructor is `LockAddr`, then
`Allocate` or `OutOfMemory`; the frames are the lowest free ones, as
`FindAndSet` returns them.

A program is `[code, rdata, data, rest]`.  Its segments begin at page boundaries
and follow one another, in the file and in virtual memory, as `test/script` and
`coff2noff` make them; every build defines `RDATA`.  The loop of a segment runs
over all pages of the space and adds the segment's virtual address to a frame's
address.  That is the page's place only if the frames are consecutive, so a
program that starts in the holes that others left writes its data and its
read-only data on itself, on another program or beyond `mainMemory`.  The size
of the space does not count the read-only data, so that the last pages of the
file may be copied past the space even if the frames are consecutive.
`StartProcess_2` writes the arguments through the page table that is still
loaded, also when it then gives up at an argument that is the empty string
(`ArgumentsRefused`); if that table is empty, the write faults and the new
process ends (`ArgumentsFault`).  In both cases the thread has no space yet and
its frames stay marked (`leaked`).  The return of `StartProcess_2` before the
space is built is in `ProcessTable`.  The model does what the code does;
`victims` collects the processes that a start writes on, and `MemoryKept` says
that nothing else reaches the memory of another.  What the callers of `Exec` and
`ExecV` are promised is `StartedAsAsked`, which a run refutes.  A step that
would overwrite memory of the host sets `broken`, after which nothing is
claimed.

`SemTable` does the same for `semTab[-1]`, which `Create` writes when the table is full
(`overrun`).  The ledger counts what was given and taken, per name.

### Machine

Bytes have `ByteBits` bits, a word four bytes, and there are four general
registers; the rest is as in `mipssim.cc` with `SIM_FIX`, including the
delayed load that `RaiseException` applies.  An instruction is any of
`Program`: what is fetched is left open once the fetch has been translated.
A run starts with any of `Loading` as its pending load, so that the first
instruction may find a load of one of its own registers on its way.  `OneTick` is
what `Machine::Run` does between two instructions when an interrupt is due:
`CheckIfDue` lets the pending load arrive.  Powers of
two are a recursive function and the bitwise instructions are sums over the
bits, because the prover can reason about these.
`last` keeps the states before the last two steps for the properties.

## 3. Runs

| Run | Instance | Result |
|---|---|---|
| `kernel_threads` | 4 threads, a mutex (1), a device semaphore (0), `MaxValue` 2 | 88,812 states, pass |
| `process_table` | 3 slots, one exit code, `MaxNumWait` 2 | 42,737 states, pass |
| `synch_list` | 3 threads, 3 items | 322,917 states, pass |
| `file_table` | 4 slots, 2 files, `MaxLen` 2 | 409,500 states, pass |
| `disk_fs` | 9 sectors of 2 bytes, 3 names, 2 directory entries (across and behind the border), 1 handle | 41,802 states, pass |
| `devices` | 2 threads, 2 tracks of 4 sectors, timer, console | 3,462,121 states, pass |
| `post_office` | 2 machines with 2 threads each, 3 boxes, 2 other messages, names that agree | 589,231 states, pass |
| `user_kernel` | 3 processes, 6 frames, 3 names on 2 semaphore slots | 2,153,380 states, pass |
| `machine` | 8-bit words, 3 frames, 5 pages, two instructions and interrupts | 642,948 states, pass |
| `exit_after_parent` | `LeaveChildren` | violates `NoCrash` |
| `reliable_network_test` | `Reliable`, the code's names, no other traffic | violates `ReliableTestEnds` |
| `execv_arguments` | as `user_kernel`, one semaphore name | violates `StartedAsAsked` |

**Bounds.**

* `kernel_threads`: `MaxValue` stops a V that would exceed it: two units are
  enough for two threads to be woken and overtaken.  Four threads allow one
  running, one woken and two waiting.
* `process_table`: three slots hold a parent, a child and a grandchild or two
  siblings, fill up, and are reused.  `MaxNumWait` only bounds the drift of
  `numwait`, on which nothing else depends.
* `synch_list`: three threads let two wait while the third appends and then
  takes the item itself; three items make a list with a middle.
* `file_table`: four slots are the console's two, slot 2 (`index`) and one
  beyond; with files of up to two bytes a position can be at the start, inside
  and at the end, and beyond the end after a `Create` that truncates.
* `disk_fs`: four sectors besides the system's: one file with two data sectors
  leaves room for a header only, so that `Create` fails at each of its stages;
  sectors change between header and data.  A buffer of three bytes begins or ends
  inside a sector.  Two handles would add nothing that one does not show, since
  an open file keeps its own copy of a header that never changes.
  The first entry lies across the border of the directory's sectors, with any name
  in it when the disk is formatted, and the second behind it, where the first could hide
  it; an entry before the border changes in one write, like one behind it.
* `devices`: the times have no common divisor, so that requests come inside a
  sector and interrupts are late by a tick; four sectors let a request find the
  track buffer partly filled.
* `post_office`: with three threads sending, the lock, the one buffer and the
  mailboxes are all contended; the chat's box is the third.
* `user_kernel`: the middle of three programs leaves a hole of two frames in
  which a program of three does not fit in one piece; its file of four pages is longer
  than its space; three programs do not fit together if one is large.
* `machine`: two instructions, because every delay is one instruction long; the
  operands are the ends of the ranges, and the pages are a writable pair that
  is not in consecutive frames, a read-only, an invalid and an impossible one.  At
  the start no load is pending, or one of the address register or of another.

**Restrictions that are constants.**  `DiskFS` has `MountTorn` and `RemoveOpen`,
both FALSE in the run.  A crash inside `Create` leaves an entry whose sectors
are not marked: `SectorsExact` says that no more than that happens, but the code
has no recovery, and mounting such a disk lets the next `Create` take the same
sectors.  `Remove` does not look whether the file is open, and a handle that
stays reads and writes sectors that others may have by then, even where another
file's header is.  With either TRUE, `SectorsExact` does not hold.
`ProcessTable` has `JoinAny` and `LeaveChildren`.

**Fairness.**  `KernelThreads`: weak fairness of the steps with interrupts off,
which nothing can delay, and strong fairness of the timer, which schedules
itself again in `Timer::CallBack`.  Nothing is assumed of threads or devices.
`ProcessTable`: weak fairness of each process inside the kernel
(`KernelThreads!ReadyRuns`), none for user code.  `SynchList`: the same, and for
the lock only that some waiter gets it when it stays free
(`SemaphoreSpec!Live`): semaphores are not fair between waiters.
`NetworkTest`: the same for its threads, the worker and the send lock, and weak
fairness of the network's interrupts, which are scheduled again and again; none
for the other traffic.

**Deadlock** is checked in `kernel_threads`, `file_table`, `disk_fs` and
`devices`.  It is not in `process_table`, where a program that joins a process that
failed to start waits for ever; in `synch_list`, where every thread may wait for
an item; in `post_office`, where the test ends or a message is lost; in
`user_kernel`, where every process ends or waits for a semaphore; and in `machine`,
which stops after `MaxSteps`.

**What the runs show.**

* `kernel_threads`: the lists are exact, the finished thread is deleted by the
  next one, no wakeup is lost although units are overtaken, waiters are woken in
  order, a ready thread runs, and semaphores implement `SemaphoreSpec`.
* `process_table`: with programs that join each child once before they exit,
  nothing is used after it is deleted, a Join returns its own child's code, and
  slots and `bmsem` come back, reuse and overflow included.
* `synch_list`: the monitor is exclusive, `Wait` misses no signal, and
  `SynchList` implements `FifoQueue`, liveness included.
* `file_table`: an open file is never removed, and `Read` and `Write` begin where the
  last call on the descriptor left it.
* `disk_fs`: in every crash no sector is leaked or owned twice,
  only the entry of the operation that was cut off may own sectors that are not marked
  or be found under an old name, a failed `Create` leaves the disk alone, partial
  writes keep the bytes around them, and the file system implements `FileStore`.
* `devices`: handlers run in order and less than a tick late, the ASSERTs of
  the devices hold, nobody gets another's wakeup, and a reader is left without
  one only after the end of the input or a 0xFF byte, which `ConsoleInput` takes
  for it.
* `post_office`: only the network and the host lose mail; order is kept; an
  acknowledgement means receipt; the test ends unless one of its messages is
  lost (there is no retry).  In this build it never does: see below.
* `user_kernel`: frames are exact, also when memory is short (but a process whose
  arguments cannot be written leaks its own); a program that runs has its own
  page table and registers; its memory changes by others only in the three ways of
  `victims`.
* `machine`: an instruction that faults has changed nothing but the arrival of
  the load before it; loads and jumps are one instruction late, but for a load
  that an interrupt brings before the next instruction, whose own write then
  stays; sums, products and quotients agree with the integers; LWR/LWL and
  SWR/SWL pairs make unaligned words; read-only pages never change.  The pairs
  have a condition that the proofs brought up: a load that was pending before
  the pair arrives between its two instructions, and if it changes the address
  register (or, for a store, the register stored) they do not work on the same
  word.  An `LWR` into its own address register is excluded too: an interrupt
  before `LWL` changes the address.

Three things are not as written in the repository, and a run each shows it:

1. A child that exits after its parent dereferences a NULL PCB.
2. No packet is ever delivered, with reliability 1 either: the sender's and the
   receiver's names of a socket differ.
3. The arguments of `ExecV` are written on the stack of the process that ran before,
   and the new program does not have them.

Other observations made while modelling, for which no run is kept:

* With programs that get no arguments `StartedAsAsked` fails too: a program whose
  frames are not consecutive has its data in the wrong ones.
* A process whose `StartProcess_2` returns early is never removed, and a Join of
  it never returns (`pcb.cc:100`); `JoinReturns` is about children that called
  `Exit`.
* `Open` of a missing file returns a descriptor where nothing is open, and the
  next `Open` returns the same one (`exception.cc:389`).
* `Send` refuses every descriptor above `FileSystem::index`, which stays 2.
* With `JoinAny`, a second Join of a child that is about to go waits on a
  semaphore that is then deleted (`NoWaiterLost` fails); the runs do not explore it.
* With a full table of user semaphores `Create` writes before the table;
  `SemaphoresShared` claims nothing from there on.
* A file whose `Create` was cut off may come up under the name of a removed file.
* What `LWR` and `LWL` into their own address register load depends on
  whether an interrupt is due between them.
* `numwait` counts a child that exits before its parent calls Join for good;
  nothing reads it.
* `SRL` and `SRLV` shift a signed `int` and copy the sign (`mipssim.cc:520`).
* `DIV` of the smallest integer by -1 traps on the host; the model has it as
  `HostFault` and stops there.
* `IncreasePC` sets `NextPCReg` from `PCReg`, so a system call in the delay slot
  of a jump loses the jump (`exception.cc:58`); compilers put none there.

## 4. Proofs

Each `..._proofs` module proves the safety properties that a run checks on a
small instance, for every value of the constants that satisfies the assumptions
of the modules it extends.  All have the same shape: an inductive invariant
`IInv` (found with TLC, which checked it on the run's instance), a lemma per
action, `InvariantHolds`, and one theorem per property.  In `Machine_proofs` the
invariant is `StateOK`, to which `DelaysKept` and `UnalignedPairs` add
invariants of their own.

| Module | Theorems (property) | Constants that stay arbitrary |
|---|---|---|
| `KernelThreads_proofs` | `TypeCorrect` (`TypeOK`), `ListsAgree` (`ListsExact`), `NoThreadLost` (`NobodyLost`), `CarcassSafe` (`CarcassCollected`), `WakeupsKept` (`NoLostWakeup`), `WakeupOrder` (`WakeInOrder`, an action property), `Refinement` (the safety part of `SemaphoreSpec`) | threads (finitely many), semaphores, initial values |
| `SynchList_proofs` | `LockIsExclusive` (`LockExclusive`), `NoSignalMissed` (`NoMissedSignal`), `ImplementsFifoQueue` (the safety part of `ImplementsQueue`) | threads and items (finitely many) |
| `SystemCalls_proofs` | `NeverCrashes` (`NoCrash`), `NobodyIsLost` (`NoWaiterLost`), `TableIsExact` (`TableExact`), `JoinersReadOwnChild` (`JoinReadsOwnChild`) | slots, exit codes, `MaxNumWait` |
| `SystemCalls_proofs` | `OpenFilesExist` (`OpenExists`), `PositionsKept` (`PositionExact`) | slots, names, `MaxLen` |
| `Devices_proofs` | `HandlersAreOnTime` (`HandlersOnTime`), `DeviceAssertsHold` (`DeviceAsserts`), `EachGetsItsWakeup` (`OneWakeup`), `DiskIsOnTime` (`DiskOnTime`) | threads, all times, the disk's geometry, random timer or not |
| `NetworkTest_proofs` | `WakeupsAreExact` (`WakeupsExact`), `OrderIsKept` (`OrderKept`), `MailIsExact` (`MailExact`), `AckMeansItWasReceived` (`AckMeansReceived`) | users of the post office (finitely many), boxes, the amount of other traffic, the names of the sockets, reliable or not |
| `UserKernel_proofs` | `MemoryIsExact` (`MemoryExact`), `OwnMachine` (`MachineIsOwn`), `MemoryIsKept` (`MemoryKept`), `SemaphoresAreShared` (`SemaphoresShared`) | processes, frames, program sizes, semaphore names, slots and values |
| `DiskFS_proofs` | `SectorsStayExact` (`SectorsExact`), `CallsStayExact` (`CallsExact`), `FileStoreImplemented` (`ImplementsFileStore`) | sectors and their size, room in a header, the entries of the directory and their places in its two sectors, names, bytes, sizes and buffers, open files |
| `Machine_proofs` | `TypeCorrect` (`TypeOK`), `FaultsAreRestartable` (`Restartable`), `PagesAreKept` (`PagesKept`), `ArithmeticIsExact` (`ArithmeticExact`), `DelaysAreKept` (`DelaysKept`), `UnalignedPairsWork` (`UnalignedPairs`) | the width of bytes and words, memory, page size and page table, the program, the contents of registers and memory, the number of steps |

**Assumptions.**  The `ASSUME`s give the constants their types and say that `NULL`
and the other marks are not values of the types they are added to.  Beyond that:
`DevicesAssumption` has `UserTick <= SystemTick` (`machine/stats.h`: 1 and 10) and
times that are not zero; `NetworkTestAssumption` has two machines, which is what
`Kernel::NetworkTest` says of itself, and a box for each of its uses;
`UserKernelAssumption` lets every process call the semaphores.  The theorems about
`ProcessTable` assume `~JoinAny` and `~LeaveChildren`, as the run does: the
run `exit_after_parent` and the observation about `JoinAny` above show that they do
not hold without.  In the same way the theorems of `DiskFS_proofs` assume
`~RemoveOpen` and `~MountTorn`.  `DiskFSAssumption` has a disk with room for the two
system files, a header with room for the directory's two sectors, entries whose name
does not come before the rest of them, and `Sizes` up to `MaxFileSize`:
`FileHeader::Allocate` does not compare the size with `NumDirect`, so the
theorems are about callers that do not ask for more.  `MachineAssumption` has
pages of whole words (`PageSize` is 128 in `machine.h`), instruction fields within
their widths, and a page table in which no frame serves two valid pages, which
is what `MemoryIsExact` shows of the tables the kernel builds.

**The arguments**, and why the properties are not inductive alone:

* *Scheduler.*  `SchedInv` is the conjunction of the type
  invariant, the exactness of the lists, `NobodyLost`, `CarcassCollected` and
  `CurrentInP` (the executing thread is inside no `P` in phase `"run"`, and inside
  one in phases `"inP"` and `"blocking"`).  `QueuesExact`
  says that the thread `V` takes is BLOCKED, `ReadyListExact` then that it is not on
  the ready list already, `OneRunning` and `CurrentInP` that the thread `PSleep`
  queues is in no queue yet.  `NoLostWakeup` is then inductive
  relative to `SchedInv`: the cardinality of `Woken(s)` grows by one with a `V`
  that finds a waiter, does not change by dispatching, and shrinks by one with a
  `P` that takes a unit; a thread that queues itself does so when `value` is 0.
* *Monitor.*  `LockInv` (one thread inside, the holder is it) makes the
  list's steps atomic; `Represents` relates the pointers to a sequence, and lemmas
  about `Append`, `RemoveFront` and `Apply` of `LinkedList` show that they do to it
  what `FifoQueue` does.  That the walk of `Apply` returns the whole sequence
  is an induction, done by taking the least position where it would not
  (`LeastNumber`).  `WaitInv` counts: with waiters left, there are at
  least as many signalled threads as items.
* *Process table.*  The handshake of Join and Exit is one unit each
  way (`HandshakeOnce`); the child keeps its slot while its `exitsem` is 0, the parent
  keeps its own while it has children (`ParentStays`), one Exec runs at a time
  (`BmsemInv`, `ExecInv`), and what a program holds open is a live child of its own
  (`OpenInv`).  These need one another: each deletes or fills a slot only
  where the others say that nobody looks.
* *File table.*  A slot that holds a file has the file's name in
  `tableDescriptor`, so `Remove` sees it, and its host offset is its position.
* *Devices.*  The pending list is sorted, has at most one interrupt of each
  device and none that is more than a tick overdue; it says which devices are busy;
  a unit's lock says who is inside; for who waits there is an interrupt or a V,
  never both.  For the keyboard, the poll, the character and the end of the input
  exclude one another.  The disk adds `age = settled` and that the
  pending interrupt is `OnTime`, which the clock keeps because it moves
  `phase` and `left` by the same amount up to whole rotations; the rest is
  arithmetic of remainders with variable moduli.
* *Post office.*  A packet has a number in its thread's order; the places it can
  be in are pairwise disjoint, and each of them is ordered and before the next, so the
  moves from place to place keep the order.  The worker's and the sender's
  semaphores are tied to the one buffer and to the one thread inside `Send`.  For
  the test, which packets exist is tied to the step each machine is at.
* *Address spaces.*  Page tables are injective and disjoint, and the bitmap is
  their union with the leaked frames; the lowest free frames (`Rank`) give a new
  table that is disjoint again.  `ViewInv` and `MemoryKept` relate the frames to
  what each program has written, except for `victims`.  That the loops leave the
  other processes alone is `LoadedFacts`: a frame that is not in `AllAstray`
  holds its page of the new program, or what it held.
* *File system.*  `Phase` says where the disk is: the marks are exactly the
  sectors of the files (`Exact`), or the marks are those of all files but the
  one a crash left torn (`AllBut`), or an operation is under way and `todo` is
  what is left of its writes: `Formatting`, `CreateStarts`, `CreateBetween` (one
  sector of the directory is written), `CreateEnds`, `Removing`, `Writing`.
  `FilesOK` (the files in use own disjoint sectors, none of the system's) holds
  in every phase.  `NamesOK(d, x)` says that no entry before that of a file, in
  use or not, has the file's name, but for the entry `x` that is changed:
  `Create` takes the first free entry, so the old name in it cannot hide a file
  behind it.  There is a lemma for each kind of write: one that misses the
  files, one of a data sector, one that adds an entry, one that gives it its
  name and one that drops it.  `Format` cuts an old directory in two, and
  `Behind` says that the files of the second sector are not hidden by those of
  the first.  `CallInv` says of a `Write` that each byte has its new value or
  stands in `todo` with it, which the next sector written keeps (`WrittenStep`);
  that it holds at first is arithmetic over the buffer of `WriteAt`, with the
  partial sectors at both ends and at the end of the file.  For `FileStore`,
  `StoreOf` and `NascentOf` are the store and the other name as functions of a
  disk, and lemmas say what a write does to them: nothing (`Alike`), one more
  file (`OneMore`), another name (`Renamed`), or the bytes of one file.
  `FirstClear` needs that the free sectors have each rank once (`RankOnto`).
* *Simulator.*  `OneInstruction` is proved about by kinds of instructions: for
  each kind a lemma says that it either succeeded, with a result of the type its
  registers need, or faulted and left what `Restartable` names (`Succeeded`,
  `Faulted`).  `PagesKept` follows from the distinct frames of
  `MachineAssumption`: a store that was translated through a writable entry hits
  no frame of another.  For `ArithmeticExact` there is a loop invariant of
  `Mult` (what has been added, and what is left to add, shifted, make the
  product), and the facts about powers of two, words and quotients it needs, for
  any width.  Those on the loop and on powers are inductions, done by taking the
  least number for which they fail.  `DelaysKept` speaks of two steps, so its
  invariant `DelaysPending` says what the step before has left for the next: the
  pending load, or what an interrupt made of it, and the target of the jump.
  `UnalignedPairs` does the same with `PairsPending`: after `LWR` the pending
  value ends in the bytes of the first word, after `SWR` the first word has its
  bytes of the register (`HalfStored`), and the registers that both instructions
  read are as they were (`Kept`).  A word is taken apart into four digits to the
  base of a byte (`JoinParts`) and put together again (`Merged`), and no two
  mapped addresses have the same place (`PlacesDiffer`), so the second word's
  bytes do not overwrite the first's.

**Only model-checked.**

* Liveness (`ReadyRuns`, `JoinReturns`, `ResourcesGivenBack`, `TestCompletes`, and the
  liveness parts of `ImplementsSemaphores` and `ImplementsQueue`): the prover
  has no rule for fairness here.

Some definitions are written for the proofs' sake: `Devices!Insert` and the
mail's places in `PostOffice` name positions and sets instead of using
`SelectSeq`, about which the prover knows nothing; `Machine!Pow2`, `Bit` and
`FromBits` stand for `^`, which the provers do not know, and for the recursive
operators of `Bitwise`.

## 5. Not modelled

* The host interface (`lib/sysdep.cc`, but for the names of sockets), debugging
  output, `lib/hash.cc` and the library tests: pure I/O, or code of no component
  here.
* `bfd.h` and `bfdlink.h` under `usr/local` and the cross-compiler: third-party.
* The simulator's debugger, its TLB (not in this build) and the byte swapping
  of a big-endian host.
* `AddrSpace::Load` and `Condition::Broadcast`, which nobody calls; stacks and
  `SWITCH`; program names; the contents of messages.
* Descriptors outside the file table, which some calls use before they test
  them.

## 6. Plan

1. *Done*: scheduler, semaphores, monitors, process table, file table, address
   spaces, user semaphores, devices, post office, file system, simulator.
2. *Done*: proofs of the safety properties of all of these.
3. Left: a proof of the liveness properties, once the prover has rules for
   fairness.
