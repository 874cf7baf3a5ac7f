----------------------------- MODULE FileTable -----------------------------
(***************************************************************************)
(* The table of open files and sockets, and the system calls on it         *)
(* (userprog/exception.cc, with the stub FileSystem and OpenFile of        *)
(* filesys/filesys.h and filesys/openfile.h).                              *)
(*                                                                         *)
(* One table serves all processes.  None of these calls enables interrupts *)
(* or blocks, except on the console, so each call is one step; programs    *)
(* make them in any order.  An OpenFile has a position of its own          *)
(* (currentOffset) and that of the host's file (hostOffset), which Length  *)
(* moves to the end.                                                       *)
(***************************************************************************)
EXTENDS Integers

CONSTANTS
  SIZE,        \* the number of slots (20)
  Names,       \* names of files
  NULL,
  MaxLen       \* bound: a file does not grow beyond it

Slots == 0..(SIZE - 1)
Index == 2     \* FileSystem::index, after the constructor
Absent == -1   \* the length of a file that does not exist

ASSUME FileTableAssumption ==
  /\ SIZE \in Nat /\ SIZE > 2
  /\ NULL \notin Names
  /\ MaxLen \in Nat

VARIABLES
  openf,            \* FileSystem::openf
  tableDescriptor,  \* FileSystem::tableDescriptor, the names
  hostLen,          \* the lengths of the host's files
  position,         \* where the next Read or Write of a descriptor should begin
  result,           \* the value the last call put in register 2
  kernel            \* "running", or "crashed" (a NULL pointer, or an ASSERT)

fileVars == <<openf, tableDescriptor, hostLen, position, result, kernel>>

OpenFile == [fd_type : {0, 1}, name : Names \cup {NULL}, permission : {-1, 0, 1},
             currentOffset : Nat \cup {-1}, hostOffset : Nat]

\* Each variable has its type; no position in a file is negative.
FileTypeOK ==
  /\ openf \in [Slots -> OpenFile \cup {NULL}]
  /\ \A i \in Slots : openf[i] # NULL =>
       (openf[i].fd_type = 0 <=> openf[i].currentOffset >= 0)
  /\ tableDescriptor \in [Slots -> Names \cup {NULL}]
  /\ hostLen \in [Names -> Nat \cup {Absent}]
  /\ position \in [Slots -> Nat]
  /\ result \in Int
  /\ kernel \in {"running", "crashed"}

\* OpenFile::OpenFile(f, 0, permission), and with any other type, which is a
\* socket or the console.
File(n, perm) ==
  [fd_type |-> 0, name |-> n, permission |-> perm, currentOffset |-> 0, hostOffset |-> 0]
Device ==
  [fd_type |-> 1, name |-> NULL, permission |-> -1, currentOffset |-> -1, hostOffset |-> 0]

\* FileSystem::FileSystem: stdin and stdout are open; what other files the host
\* has is not known.
FileInit ==
  /\ openf = [i \in Slots |-> IF i < 2 THEN Device ELSE NULL]
  /\ tableDescriptor = [i \in Slots |-> NULL]
  /\ hostLen \in [Names -> {Absent, 0, MaxLen}]
  /\ position = [i \in Slots |-> 0]
  /\ result = 0
  /\ kernel = "running"

-----------------------------------------------------------------------------
table == <<openf, tableDescriptor, position>>

\* The call returns r and leaves the table as it is.
Return(r) == result' = r /\ UNCHANGED <<table, kernel>>

FileCrash == kernel' = "crashed" /\ UNCHANGED <<openf, tableDescriptor, hostLen, position, result>>

Running == kernel = "running"
Kind(i) == IF openf[i] = NULL THEN "none"
           ELSE IF openf[i].fd_type = 0 THEN "file" ELSE "device"

\* The first free slot from "first" on.
FreeSlots(first) == {i \in Slots : i >= first /\ openf[i] = NULL}
FirstFree(first) == CHOOSE i \in FreeSlots(first) : \A j \in FreeSlots(first) : i <= j

\* SC_Create: creates the file, or truncates it, open or not.
Create(n) ==
  /\ Running
  /\ hostLen' = [hostLen EXCEPT ![n] = 0]
  /\ Return(0)

\* Mutant of Open: the name is not recorded.
OpenUnnamed(n, perm) ==
  /\ Running
  /\ FreeSlots(2) # {} /\ hostLen[n] # Absent
  /\ LET id == FirstFree(2) IN
     /\ openf' = [openf EXCEPT ![id] = File(n, perm)]
     /\ position' = [position EXCEPT ![id] = 0]
     /\ result' = id
     /\ UNCHANGED <<tableDescriptor, hostLen, kernel>>

(***************************************************************************)
(* SC_Open.  The slot is the first free one from 2 on.  When the host has  *)
(* no such file openf stays NULL, but the name is recorded and the call    *)
(* returns the slot all the same.                                          *)
(***************************************************************************)
Open(n, perm) ==
  /\ Running
  /\ IF FreeSlots(2) = {} \/ perm \notin {0, 1} THEN Return(-1) /\ UNCHANGED hostLen
     ELSE LET id == FirstFree(2) IN
          /\ openf' = [openf EXCEPT ![id] = IF hostLen[n] = Absent THEN NULL
                                            ELSE File(n, perm)]
          /\ tableDescriptor' = [tableDescriptor EXCEPT ![id] = n]
          /\ position' = [position EXCEPT ![id] = 0]
          /\ result' = id
          /\ UNCHANGED <<hostLen, kernel>>

\* SC_Close, of the console too.
Close(i) ==
  /\ Running
  /\ UNCHANGED hostLen
  /\ IF Kind(i) = "none" THEN Return(-1)
     ELSE /\ openf' = [openf EXCEPT ![i] = NULL]
          /\ tableDescriptor' = [tableDescriptor EXCEPT ![i] = NULL]
          /\ result' = 0
          /\ UNCHANGED <<position, kernel>>

-----------------------------------------------------------------------------
(* Reading, writing and seeking.                                           *)

\* The OpenFile in slot i is left with both positions at p.
MoveTo(i, p) == openf' = [openf EXCEPT ![i].currentOffset = p, ![i].hostOffset = p]

Least(a, b) == IF a <= b THEN a ELSE b
Greatest(a, b) == IF a >= b THEN a ELSE b

\* Mutant of ReadFile: it reads from where Length has left the host's file.
ReadFileNoSeek(i, len) ==
  LET size == hostLen[openf[i].name] IN
  /\ Running /\ i >= 2 /\ Kind(i) = "file"
  /\ result' = IF openf[i].hostOffset = size THEN 0 ELSE -1
  /\ MoveTo(i, size)
  /\ UNCHANGED <<tableDescriptor, hostLen, position, kernel>>

(***************************************************************************)
(* SC_Read of len > 0 bytes of a file.  GetCurrentPos copies the host's    *)
(* position, Length moves it away, and ReadAt sets it again: len - 1 bytes *)
(* at most are read.                                                       *)
(***************************************************************************)
ReadFile(i, len) ==
  LET old == openf[i].hostOffset
      size == hostLen[openf[i].name]
      numRead == Least(len - 1, Greatest(size - old, 0)) IN
  /\ Running /\ i >= 2 /\ Kind(i) = "file"
  /\ result' = IF old = size THEN 0 ELSE IF numRead > 0 THEN numRead ELSE -1
  /\ MoveTo(i, old + numRead)
  /\ position' = [position EXCEPT ![i] = @ + Greatest(result', 0)]
  /\ UNCHANGED <<tableDescriptor, hostLen, kernel>>

\* SC_Read refused: nothing is open there, or it is stdout.
ReadRefused(i) ==
  /\ Running
  /\ Kind(i) = "none" \/ i = 1
  /\ Return(-1) /\ UNCHANGED hostLen

\* SC_Read of a socket: Length calls Lseek, which ASSERTs that it succeeded.
ReadSocket(i) == Running /\ i >= 2 /\ Kind(i) = "device" /\ FileCrash

\* SC_Write of len bytes to a file that was not opened read-only.  A final NUL
\* is not written, and the result is one more than the bytes written.
WriteFile(i, len, endsInNul) ==
  LET old == openf[i].hostOffset
      n == IF endsInNul THEN len - 1 ELSE len
      size == hostLen[openf[i].name] IN
  /\ Running /\ i >= 2 /\ Kind(i) = "file"
  /\ openf[i].permission # 1
  /\ IF n <= 0
     THEN /\ openf' = [openf EXCEPT ![i].currentOffset = old]
          /\ result' = -1
          /\ UNCHANGED <<hostLen, position>>
     ELSE /\ old + n <= MaxLen
          /\ hostLen' = [hostLen EXCEPT ![openf[i].name] = Greatest(size, old + n)]
          /\ MoveTo(i, old + n)
          /\ position' = [position EXCEPT ![i] = @ + n]
          /\ result' = n + 1
  /\ UNCHANGED <<tableDescriptor, kernel>>

\* SC_Write refused: not open, stdin or a socket, or read-only.
WriteRefused(i) ==
  /\ Running
  /\ \/ Kind(i) = "none"
     \/ Kind(i) = "device" /\ i # 1
     \/ Kind(i) = "file" /\ openf[i].permission = 1
  /\ Return(-1) /\ UNCHANGED hostLen

(***************************************************************************)
(* SC_Seek in a file.  -1 is the end.  Length has moved the host's file to *)
(* its end, where a Seek that is refused leaves it.                        *)
(***************************************************************************)
Seek(pos, i) ==
  LET size == hostLen[openf[i].name]
      target == IF pos = -1 THEN size ELSE pos IN
  /\ Running /\ i >= 2 /\ Kind(i) = "file"
  /\ IF target > size \/ target < 0
     THEN /\ openf' = [openf EXCEPT ![i].hostOffset = size]
          /\ position' = [position EXCEPT ![i] = size]
          /\ result' = -1
     ELSE /\ MoveTo(i, target)
          /\ position' = [position EXCEPT ![i] = target]
          /\ result' = target
  /\ UNCHANGED <<tableDescriptor, hostLen, kernel>>

\* SC_Seek where nothing is open, or on the console's slots.
SeekRefused(i) ==
  /\ Running
  /\ Kind(i) = "none" \/ i < 2
  /\ Return(-1) /\ UNCHANGED hostLen

\* SC_Seek on a socket: Length again.
SeekSocket(i) == Running /\ i >= 2 /\ Kind(i) = "device" /\ FileCrash

\* SC_Remove: refused while some slot from 2 on has that name.
RemoveFile(n) ==
  /\ Running
  /\ IF (\E i \in Slots : i >= 2 /\ tableDescriptor[i] = n) \/ hostLen[n] = Absent
     THEN Return(-1) /\ UNCHANGED hostLen
     ELSE Return(0) /\ hostLen' = [hostLen EXCEPT ![n] = Absent]

-----------------------------------------------------------------------------
(* Sockets.                                                                *)

\* SC_SocketTCP: the first free slot from 0 on; "ok" when the host gives a
\* socket, which is not closed when the table is full.
SocketTCP(ok) ==
  /\ Running
  /\ UNCHANGED hostLen
  /\ IF ~ok \/ FreeSlots(0) = {} THEN Return(-1)
     ELSE LET id == FirstFree(0) IN
          /\ openf' = [openf EXCEPT ![id] = Device]
          /\ position' = [position EXCEPT ![id] = 0]
          /\ result' = id
          /\ UNCHANGED <<tableDescriptor, kernel>>

\* SC_Connect does not test the slot; otherwise the host decides.
Connect(i, r) ==
  /\ Running
  /\ IF Kind(i) = "none" THEN FileCrash
     ELSE r \in {-1, 0} /\ Return(r) /\ UNCHANGED hostLen

\* SC_Receive: what the host received, or -1 where no socket is.
Receive(i, r) ==
  /\ Running
  /\ Kind(i) # "device" => r = -1
  /\ Return(r) /\ UNCHANGED hostLen

\* SC_Send: also -1 on a slot beyond FileSystem::index.
Send(i, r) ==
  /\ Running
  /\ (Kind(i) # "device" \/ i > Index) => r = -1
  /\ Return(r) /\ UNCHANGED hostLen

Crashed == ~Running /\ UNCHANGED fileVars

FileNext ==
  \/ \E n \in Names : Create(n) \/ RemoveFile(n) \/ \E perm \in 0..2 : Open(n, perm)
  \/ \E i \in Slots :
       \/ Close(i)
       \/ ReadRefused(i) \/ ReadSocket(i) \/ \E len \in 1..(MaxLen + 1) : ReadFile(i, len)
       \/ WriteRefused(i)
       \/ \E len \in 1..MaxLen, nul \in BOOLEAN : WriteFile(i, len, nul)
       \/ SeekRefused(i) \/ SeekSocket(i) \/ \E pos \in -2..(MaxLen + 1) : Seek(pos, i)
       \/ \E r \in -1..1 : Connect(i, r) \/ Receive(i, r) \/ Send(i, r)
  \/ \E ok \in BOOLEAN : SocketTCP(ok)
  \/ Crashed

FileSpec == FileInit /\ [][FileNext]_fileVars
-----------------------------------------------------------------------------
(***************************************************************************)
(* A file that is open exists: Remove finds the name of every open file in *)
(* tableDescriptor, although files, failed Opens and sockets share the     *)
(* slots and only some of them write there (exception.cc:804).             *)
(***************************************************************************)
OpenExists ==
  /\ FileTypeOK
  /\ \A i \in Slots : Kind(i) = "file" => hostLen[openf[i].name] # Absent

(***************************************************************************)
(* Each Read and Write begins where the calls on that descriptor have left *)
(* it, although Length moves the host's file to its end in between.  A     *)
(* Seek that fails goes to the end of the file.                            *)
(***************************************************************************)
PositionExact ==
  \A i \in Slots : Kind(i) = "file" => openf[i].hostOffset = position[i]
=============================================================================
