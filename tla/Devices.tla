------------------------------ MODULE Devices ------------------------------
(***************************************************************************)
(* The simulated hardware and the synchronous interfaces to it: the list   *)
(* of pending interrupts and the clock (machine/interrupt.cc), the timer   *)
(* and the alarm (machine/timer.cc, threads/alarm.cc), the disk and the    *)
(* console (machine/disk.cc, machine/console.cc), and SynchDisk and        *)
(* SynchConsole (filesys/synchdisk.cc, userprog/synchconsole.cc).          *)
(*                                                                         *)
(* Times are kept relative to totalTicks, which grows for ever: `left' is  *)
(* when - totalTicks, `phase' is where the disk is in its rotation, and    *)
(* `age' is totalTicks - bufferInit, up to a whole rotation.               *)
(*                                                                         *)
(* Which thread runs is left open (KernelThreads has the scheduler): any   *)
(* thread that can go on may.  Time advances when a thread enables         *)
(* interrupts again, at the end of P and V, when it executes a user        *)
(* instruction, and when no thread can run.                                *)
(***************************************************************************)
EXTENDS Integers, Sequences, FiniteSets

CONSTANTS
  Threads, NULL,
  UserTick, SystemTick, RotationTime, SeekTime, ConsoleTime, TimerTicks,
  SectorsPerTrack, NumTracks,
  RandomTimer     \* is the timer's delay random (-rs)?

ASSUME DevicesAssumption ==
  /\ {UserTick, SystemTick, RotationTime, SeekTime, ConsoleTime, TimerTicks,
      SectorsPerTrack, NumTracks} \subseteq Nat \ {0}
  /\ UserTick <= SystemTick
  /\ RandomTimer \in BOOLEAN
  /\ NULL \notin {"char", "0xFF", "end"}

NumSectors == SectorsPerTrack * NumTracks
Sectors == 0..(NumSectors - 1)
Rotation == RotationTime * SectorsPerTrack   \* the time of one rotation

\* The devices that threads wait for; the alarm's timer is "timer".
Units == {"disk", "in", "out"}

VARIABLES
  pending,        \* Interrupt::pending, of [left, who]
  inHandler,      \* Interrupt::inHandler
  yieldOnReturn,  \* Interrupt::yieldOnReturn
  status,         \* Interrupt::status
  phase,          \* totalTicks % Rotation
  active,         \* Disk::active
  lastSector,     \* Disk::lastSector
  age,            \* totalTicks - Disk::bufferInit
  settled,        \* how long the head has really been over its track
  request,        \* the disk request that is being served
  incoming,       \* ConsoleInput::incoming, with EOF as NULL
  putBusy,        \* ConsoleOutput::putBusy
  polled,         \* what the last poll that found something found
  lock,           \* the semaphore in the lock of each unit
  sem,            \* the semaphore that each unit's CallBack V's
  pc              \* where each thread is: <<location, unit>>

clock == <<phase, age, settled>>
disk == <<active, lastSector, request>>
console == <<incoming, putBusy, polled>>
interrupt == <<pending, inHandler, yieldOnReturn, status>>
synch == <<lock, sem>>
vars == <<interrupt, clock, disk, console, synch, pc>>

User == <<"user", NULL>>
Goto(t, loc) == pc' = [pc EXCEPT ![t] = loc]

-----------------------------------------------------------------------------
(* The clock and the pending interrupts.                                   *)

\* PendingCompare(x, y) < 0.
Before(x, y) == x.left < y.left

\* SortedList::Insert: in front of the first item that is bigger, or at the end.
InsertPlace(list, item) ==
  CHOOSE k \in 1..(Len(list) + 1) :
    /\ k <= Len(list) => Before(item, list[k])
    /\ \A j \in 1..(k - 1) : ~Before(item, list[j])

Insert(list, item) ==
  LET k == InsertPlace(list, item)
  IN  [i \in 1..(Len(list) + 1) |-> IF i < k THEN list[i] ELSE IF i = k THEN item ELSE list[i - 1]]

\* Interrupt::Schedule.
Schedule(list, who, fromNow) == Insert(list, [left |-> fromNow, who |-> who])

Due(list) == list # <<>> /\ Head(list).left <= 0

MinOf(a, b) == IF a < b THEN a ELSE b

\* The clock moves on by d, with the interrupts in list pending.
Advance(list, d) ==
  /\ pending' = [i \in 1..Len(list) |-> [list[i] EXCEPT !.left = @ - d]]
  /\ phase' = (phase + d) % Rotation
  /\ age' = MinOf(age + d, Rotation)
  /\ settled' = MinOf(settled + d, Rotation)

\* Interrupt::OneTick: handlers run if an interrupt is due now.
OneTick(list, d) == Advance(list, d) /\ inHandler' = Due(pending')

\* Interrupt::SetLevel, when it enables interrupts, as P, V and Release do.
Enable(list) == status' = "SystemMode" /\ OneTick(list, SystemTick)

\* A thread that can execute its next step.
Runnable(t) ==
  \/ pc[t][1] \in {"user", "body", "done"}
  \/ pc[t][1] = "lock" /\ lock[pc[t][2]] > 0
  \/ pc[t][1] = "wait" /\ sem[pc[t][2]] > 0

\* Interrupt::Idle: the clock jumps to the next interrupt.
Idle ==
  /\ ~inHandler
  /\ \A t \in Threads : ~Runnable(t)
  /\ pending # <<>>
  /\ Advance(pending, Head(pending).left)
  /\ inHandler' = TRUE
  /\ status' = "IdleMode"
  /\ UNCHANGED <<yieldOnReturn, disk, console, lock, sem, pc>>

\* Mutant of HandlersDone: the loop stops after one handler.
HandlersDoneEarly ==
  /\ inHandler
  /\ inHandler' = FALSE
  /\ yieldOnReturn' = FALSE
  /\ status' = "SystemMode"
  /\ UNCHANGED <<pending, clock, disk, console, lock, sem, pc>>

\* The end of CheckIfDue, and of the OneTick or Idle that called it.  The
\* yield that the alarm asked for lets another thread go on, as any step may.
HandlersDone ==
  /\ inHandler
  /\ ~Due(pending)
  /\ inHandler' = FALSE
  /\ yieldOnReturn' = FALSE
  /\ status' = "SystemMode"
  /\ UNCHANGED <<pending, clock, disk, console, lock, sem, pc>>

\* CheckIfDue takes the next interrupt, of the given device, off the list.
Fire(who) == inHandler /\ Due(pending) /\ Head(pending).who = who

-----------------------------------------------------------------------------
(* The timer and the alarm.                                                *)

Delays == IF RandomTimer THEN 1..(2 * TimerTicks) ELSE {TimerTicks}

\* Alarm::CallBack: the thread that runs is to yield.
AlarmCallBack == yieldOnReturn' = (yieldOnReturn \/ status # "IdleMode")

\* Timer::CallBack: the alarm is called, then the timer is set again.
TimerInterrupt ==
  /\ Fire("timer")
  /\ AlarmCallBack
  /\ \E delay \in Delays : pending' = Schedule(Tail(pending), "timer", delay)
  /\ UNCHANGED <<inHandler, status, clock, disk, console, lock, sem, pc>>

\* The CallBack of SynchDisk, SynchConsoleInput and SynchConsoleOutput: V.
CallBack(u) == sem' = [sem EXCEPT ![u] = @ + 1]

-----------------------------------------------------------------------------
(* The disk.                                                               *)

AbsDiff(a, b) == IF a < b THEN b - a ELSE a - b

Seek(newSector) ==
  AbsDiff(newSector \div SectorsPerTrack, lastSector \div SectorsPerTrack) * SeekTime

\* TimeToSeek: how long until the head is at a boundary, after the seek.
RotationAfter(newSector) ==
  LET over == (phase + Seek(newSector)) % RotationTime
  IN  IF over > 0 THEN RotationTime - over ELSE 0

ModuloDiff(to, from) ==
  ((to % SectorsPerTrack) - (from % SectorsPerTrack) + SectorsPerTrack) % SectorsPerTrack

\* Where in a rotation the disk was when the track buffer began to fill.
BufferPhase == (phase - age + 2 * Rotation) % Rotation

\* Is the sector in the track buffer by the time the head is at a boundary?
InTrackBuffer(newSector, writing) ==
  /\ ~writing
  /\ Seek(newSector) = 0
  /\ (RotationAfter(newSector) + age) \div RotationTime
       > ModuloDiff(newSector, BufferPhase \div RotationTime)

\* Disk::ComputeLatency.
ComputeLatency(newSector, writing) ==
  LET seek == Seek(newSector)
      rotation == RotationAfter(newSector)
  IN  IF InTrackBuffer(newSector, writing) THEN RotationTime
      ELSE seek + rotation + RotationTime
             + ModuloDiff(newSector, (phase + seek + rotation) \div RotationTime)
                 * RotationTime

\* Mutant of UpdateLast: the track buffer is kept over a seek.
UpdateLastKeepBuffer(newSector) == lastSector' = newSector /\ UNCHANGED age

\* Disk::UpdateLast: a seek empties the track buffer.
UpdateLast(newSector) ==
  /\ age' = IF Seek(newSector) # 0 THEN -(Seek(newSector) + RotationAfter(newSector))
            ELSE age
  /\ lastSector' = newSector

\* Disk::ReadRequest and WriteRequest, by the holder of SynchDisk's lock.
DiskRequest(t, newSector, writing) ==
  /\ ~inHandler
  /\ pc[t] = <<"body", "disk">>
  /\ active' = TRUE
  /\ request' = [sector |-> newSector, buffered |-> InTrackBuffer(newSector, writing),
                 seek |-> Seek(newSector)]
  /\ settled' = IF Seek(newSector) > 0 THEN -(Seek(newSector) + RotationAfter(newSector))
                ELSE settled
  /\ UpdateLast(newSector)
  /\ pending' = Schedule(pending, "disk", ComputeLatency(newSector, writing))
  /\ Goto(t, <<"wait", "disk">>)
  /\ UNCHANGED <<inHandler, yieldOnReturn, status, phase, console, lock, sem>>

\* Disk::CallBack, and SynchDisk::CallBack.
DiskInterrupt ==
  /\ Fire("disk")
  /\ active' = FALSE
  /\ request' = NULL
  /\ CallBack("disk")
  /\ pending' = Tail(pending)
  /\ UNCHANGED <<inHandler, yieldOnReturn, status, clock, lastSector, console, lock, pc>>

-----------------------------------------------------------------------------
(* The console.                                                            *)

\* ConsoleInput::CallBack when the poll finds nothing.
NothingTyped ==
  /\ Fire("in")
  /\ pending' = Schedule(Tail(pending), "in", ConsoleTime)
  /\ UNCHANGED <<inHandler, yieldOnReturn, status, clock, disk, console, lock, sem, pc>>

\* ConsoleInput::CallBack when there is a character, the byte 0xFF, which is
\* what EOF is as a char, or the end of the input; and SynchConsole's CallBack.
InputInterrupt(c) ==
  /\ Fire("in")
  /\ incoming' = IF c = "char" THEN c ELSE NULL
  /\ polled' = c
  /\ CallBack("in")
  /\ pending' = Tail(pending)
  /\ UNCHANGED <<inHandler, yieldOnReturn, status, clock, disk, putBusy, lock, pc>>

\* ConsoleOutput::PutChar, by the holder of SynchConsoleOutput's lock.
PutChar(t) ==
  /\ ~inHandler
  /\ pc[t] = <<"body", "out">>
  /\ putBusy' = TRUE
  /\ pending' = Schedule(pending, "out", ConsoleTime)
  /\ Goto(t, <<"wait", "out">>)
  /\ UNCHANGED <<inHandler, yieldOnReturn, status, clock, disk, incoming, polled, lock, sem>>

\* ConsoleOutput::CallBack, and SynchConsoleOutput::CallBack.
OutputInterrupt ==
  /\ Fire("out")
  /\ putBusy' = FALSE
  /\ CallBack("out")
  /\ pending' = Tail(pending)
  /\ UNCHANGED <<inHandler, yieldOnReturn, status, clock, disk, incoming, polled, lock, pc>>

-----------------------------------------------------------------------------
(* The threads: SynchDisk::ReadSector and WriteSector, GetChar, PutChar.   *)

\* A user instruction.
UserStep(t) ==
  /\ ~inHandler
  /\ pc[t] = User
  /\ status' = "UserMode"
  /\ OneTick(pending, UserTick)
  /\ UNCHANGED <<yieldOnReturn, disk, console, lock, sem, pc>>

\* A system call, up to lock->Acquire().
Call(t, u) ==
  /\ ~inHandler
  /\ pc[t] = User
  /\ status' = "SystemMode"
  /\ Goto(t, <<"lock", u>>)
  /\ UNCHANGED <<pending, inHandler, yieldOnReturn, clock, disk, console, lock, sem>>

\* Mutant of Acquire: the lock is not taken.
AcquireNot(t, u) ==
  /\ ~inHandler
  /\ pc[t] = <<"lock", u>>
  /\ lock[u] > 0
  /\ Goto(t, <<IF u = "in" THEN "wait" ELSE "body", u>>)
  /\ Enable(pending)
  /\ UNCHANGED <<yieldOnReturn, disk, console, lock, sem>>

\* The P of Acquire returns.
Acquire(t, u) ==
  /\ ~inHandler
  /\ pc[t] = <<"lock", u>>
  /\ lock[u] > 0
  /\ lock' = [lock EXCEPT ![u] = @ - 1]
  /\ Goto(t, <<IF u = "in" THEN "wait" ELSE "body", u>>)
  /\ Enable(pending)
  /\ UNCHANGED <<yieldOnReturn, disk, console, sem>>

\* The P on the unit's semaphore returns.
Woken(t, u) ==
  /\ ~inHandler
  /\ pc[t] = <<"wait", u>>
  /\ sem[u] > 0
  /\ sem' = [sem EXCEPT ![u] = @ - 1]
  /\ Goto(t, <<"done", u>>)
  /\ Enable(pending)
  /\ UNCHANGED <<yieldOnReturn, disk, console, lock>>

\* Mutant of GetCharList: the next poll is never scheduled.
GetCharListSilent(u) == pending

\* ConsoleInput::GetChar polls again, unless incoming is EOF.
GetCharList(u) ==
  IF u = "in" /\ incoming # NULL THEN Schedule(pending, "in", ConsoleTime) ELSE pending

\* GetChar takes the character; then lock->Release(), and back to the user.
Finish(t, u) ==
  /\ ~inHandler
  /\ pc[t] = <<"done", u>>
  /\ incoming' = IF u = "in" THEN NULL ELSE incoming
  /\ lock' = [lock EXCEPT ![u] = @ + 1]
  /\ Goto(t, User)
  /\ Enable(GetCharList(u))
  /\ UNCHANGED <<yieldOnReturn, disk, putBusy, polled, sem>>

-----------------------------------------------------------------------------
(* The constructors, in the order Kernel::Initialize calls them.           *)

InterruptInit == inHandler = FALSE /\ yieldOnReturn = FALSE /\ status = "SystemMode"

\* The alarm's timer is set and the console begins to poll.
PendingInit ==
  \E delay \in Delays :
    pending = Schedule(Schedule(<<>>, "timer", delay), "in", ConsoleTime)

DiskInit == active = FALSE /\ lastSector = 0 /\ request = NULL /\ age = 0 /\ settled = 0
ConsoleInputInit == incoming = NULL /\ polled = NULL
ConsoleOutputInit == putBusy = FALSE

\* The lock and the semaphore of SynchDisk and of the two SynchConsoles.
SynchInit == lock = [u \in Units |-> 1] /\ sem = [u \in Units |-> 0]

Init ==
  /\ InterruptInit /\ PendingInit
  /\ ConsoleInputInit /\ ConsoleOutputInit /\ DiskInit /\ SynchInit
  /\ phase = 0
  /\ pc = [t \in Threads |-> User]

\* A thread goes on with its call.
Inside(t) ==
  \/ \E s \in Sectors, w \in BOOLEAN : DiskRequest(t, s, w)
  \/ PutChar(t)
  \/ \E u \in Units : Woken(t, u) \/ Finish(t, u)

Input == \E c \in {"char", "0xFF", "end"} : InputInterrupt(c)

Handler ==
  \/ TimerInterrupt \/ DiskInterrupt \/ NothingTyped \/ Input \/ OutputInterrupt
  \/ HandlersDone

Next ==
  \/ Handler \/ Idle
  \/ \E t \in Threads : UserStep(t) \/ Inside(t)
                        \/ \E u \in Units : Call(t, u) \/ Acquire(t, u)

Spec == Init /\ [][Next]_vars

-----------------------------------------------------------------------------
(* Properties.                                                             *)

\* Each variable has its type.
TypeOK ==
  /\ pending \in Seq([left : Int, who : Units \cup {"timer"}])
  /\ inHandler \in BOOLEAN /\ yieldOnReturn \in BOOLEAN
  /\ status \in {"IdleMode", "SystemMode", "UserMode"}
  /\ phase \in 0..(Rotation - 1) /\ age \in Int /\ settled \in Int
  /\ active \in BOOLEAN /\ lastSector \in Sectors
  /\ request \in [sector : Sectors, buffered : BOOLEAN, seek : Nat] \cup {NULL}
  /\ incoming \in {NULL, "char"} /\ putBusy \in BOOLEAN
  /\ polled \in {NULL, "char", "0xFF", "end"}
  /\ lock \in [Units -> {0, 1}] /\ sem \in [Units -> {0, 1}]
  /\ pc \in [Threads -> {User} \cup ({"lock", "body", "wait", "done"} \X Units)]

(***************************************************************************)
(* Interrupts come in the order of their times, before a thread takes      *)
(* another step, and less than one system tick late; the context switch    *)
(* the alarm asks for is never left over when the handlers have returned.  *)
(***************************************************************************)
HandlersOnTime ==
  /\ \A i, j \in 1..Len(pending) : i < j => pending[i].left <= pending[j].left
  /\ \A i \in 1..Len(pending) : pending[i].left > (IF inHandler THEN -SystemTick ELSE 0)
  /\ yieldOnReturn => inHandler /\ status # "IdleMode"

PendingOf(who) == {i \in 1..Len(pending) : pending[i].who = who}

(***************************************************************************)
(* The devices' ASSERTs hold: when a request is made or a handler called,  *)
(* the device is in the state it expects, because it has exactly one       *)
(* interrupt pending per request and the locks keep other requests out.    *)
(***************************************************************************)
DeviceAsserts ==
  /\ Cardinality(PendingOf("disk")) = (IF active THEN 1 ELSE 0)
  /\ Cardinality(PendingOf("out")) = (IF putBusy THEN 1 ELSE 0)
  /\ Cardinality(PendingOf("timer")) = 1
  /\ Cardinality(PendingOf("in")) <= (IF incoming = NULL THEN 1 ELSE 0)
  /\ \A t \in Threads : /\ pc[t] = <<"body", "disk">> => ~active
                        /\ pc[t] = <<"body", "out">> => ~putBusy

(***************************************************************************)
(* A unit serves one thread at a time, and each thread gets the wakeup of  *)
(* its own request: while it waits, its request is still to be served or   *)
(* its V is waiting for it, and no V is left for a later caller.  For the  *)
(* keyboard a V stands for the character or the EOF that has come; a       *)
(* reader that waits with no V and no poll to come, which nobody will wake *)
(* up, has called GetChar after the end of the input, or after a 0xFF.     *)
(***************************************************************************)
OneWakeup ==
  /\ TypeOK
  /\ \A u \in Units :
    LET inside == {t \in Threads : pc[t][2] = u /\ pc[t][1] \in {"body", "wait", "done"}}
        waiting == {t \in inside : pc[t][1] = "wait"}
    IN  /\ Cardinality(inside) + lock[u] = 1
        /\ u # "in" => sem[u] + Cardinality(PendingOf(u)) = Cardinality(waiting)
        /\ u = "in" => (sem[u] = 1 => PendingOf("in") = {})
        /\ u = "in" /\ incoming # NULL =>
             sem[u] = 1 \/ \E t \in inside : pc[t][1] = "done"
        /\ u = "in" /\ waiting # {} /\ sem[u] = 0 =>
             (PendingOf("in") = {} <=> polled \in {"0xFF", "end"})

(***************************************************************************)
(* The disk interrupt comes just when the head has passed over the sector, *)
(* or one sector's time after the request if the sector was in the track   *)
(* buffer, and less than a rotation and a sector after the seek.  Only     *)
(* sectors that have passed under the head since it came to their track    *)
(* are ever taken from the buffer (Disk::ComputeLatency, UpdateLast).      *)
(***************************************************************************)
DiskOnTime ==
  \A i \in PendingOf("disk") :
    LET end == phase + pending[i].left
    IN  /\ pending[i].left < request.seek + Rotation + RotationTime
        /\ ~request.buffered =>
             /\ end % RotationTime = 0
             /\ (end \div RotationTime) % SectorsPerTrack
                  = (request.sector + 1) % SectorsPerTrack
        /\ request.buffered =>
             \E k \in 1..SectorsPerTrack :
               LET slot == ((phase - settled + 2 * Rotation) \div RotationTime) + k - 1
               IN  /\ slot % SectorsPerTrack = request.sector % SectorsPerTrack
                   /\ k * RotationTime < settled + RotationTime
=============================================================================
