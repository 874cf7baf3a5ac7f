------------------------------- MODULE DiskFS -------------------------------
(***************************************************************************)
(* The Nachos file system on the simulated disk: filesys/filesys.cc,       *)
(* directory.cc, filehdr.cc, openfile.cc and pbitmap.cc (the build without *)
(* FILESYS_STUB).                                                          *)
(*                                                                         *)
(* The file system is not synchronised ("this implementation assumes there *)
(* is no concurrent access"), so one operation runs at a time.  Each       *)
(* operation reads the directory and the bitmap from the disk, changes its *)
(* copies, and writes sectors back one after the other: `todo' is the      *)
(* sectors it has still to write, and Nachos may exit between two of them. *)
(* The bitmap fills one sector.  The directory takes two (200 bytes on     *)
(* sectors of 128), written one after the other, and the entry at their    *)
(* border has inUse and sector in the first, and its name in the second.   *)
(***************************************************************************)
EXTENDS Integers, Sequences, FiniteSets, Functions

CONSTANTS
  NumSectors,      \* sectors of the disk
  SectorSize,      \* bytes in a sector
  NumDirect,       \* data sectors a header has room for
  NumDirEntries,   \* entries of the directory
  DirectoryFileSize,  \* bytes of the directory
  HeadAt, NameAt,  \* the part of the directory, 1 or 2, that holds inUse and
                   \* sector of each entry, and the part that holds its name
  Names, Bytes, NULL,
  Junk,            \* a byte that nobody has written
  Sizes, Buffers,  \* bound: the sizes given to Create and Read, and the bytes to Write
  Handles,         \* bound: files open at a time
  Garbage,         \* bound: the names in memory that was not initialised
  RemoveOpen,      \* may a file be removed while it is open?
  MountTorn        \* may a disk be mounted that a crash left torn?

FreeMapSector == 0
DirectorySector == 1
Sectors == 0..(NumSectors - 1)
MaxFileSize == NumDirect * SectorSize

FileHeader == [numBytes : 0..MaxFileSize, dataSectors : Seq(Sectors)]

DirectoryEntry == [inUse : BOOLEAN, name : Names \cup {NULL}, sector : Sectors]
Entries == 1..NumDirEntries

\* The directory takes two sectors, an entry's name comes after the rest of it;
\* a header has room for a system file, and no file is created that has no room
\* in its header; NULL is not a value of the file system.
ASSUME DiskFSAssumption ==
  /\ NumSectors \in Nat /\ NumSectors >= 5
  /\ SectorSize \in Nat \ {0}
  /\ NumDirect \in Nat /\ NumDirect >= 2
  /\ NumDirEntries \in Nat
  /\ DirectoryFileSize \in (SectorSize + 1)..(2 * SectorSize)
  /\ {HeadAt, NameAt} \subseteq [Entries -> 1..2]
  /\ \A i \in Entries : HeadAt[i] <= NameAt[i]
  /\ Garbage \subseteq [Entries -> Names \cup {NULL}]
  /\ Sizes \subseteq 0..MaxFileSize /\ Buffers \subseteq Seq(Bytes)
  /\ {RemoveOpen, MountTorn} \subseteq BOOLEAN
  /\ NULL \notin Names
  /\ NULL \notin FileHeader
  /\ NULL \notin [Entries -> DirectoryEntry]
  /\ NULL \notin [sector : Sectors, hdr : FileHeader, seekPosition : 0..MaxFileSize]
  /\ NULL \notin Seq(Bytes \cup {Junk})

VARIABLES
  disk,      \* what each sector holds: <<kind, content>>
  todo,      \* the writes the running operation has still to do
  up,        \* is Nachos running, the file system mounted?
  handle,    \* the open files: [sector, hdr, seekPosition]
  call,      \* the last operation: what was asked, and what it answers
  torn       \* the entry that a crash left at odds with the bitmap; or what follows

Whole == 0          \* torn: no entry is
Unformatted == -1   \* torn: there is no file system, or Format was cut off

vars == <<disk, todo, up, handle, call, torn>>

-----------------------------------------------------------------------------
(* Bitmaps, headers and directories in memory.                             *)

DivRoundUp(n, s) == (n + s - 1) \div s

\* A bitmap is the set of the sectors that are marked.
Bitmap == SUBSET Sectors
NumClear(map) == Cardinality(Sectors \ map)
Clear(map, s) == map \ {s}

\* The first clear bit, or -1.
FindAndSet(map) ==
  IF Sectors \subseteq map THEN -1
  ELSE CHOOSE s \in Sectors \ map : \A r \in Sectors \ map : s <= r

\* The n sectors that n calls of FindAndSet return.
FirstClear(map, n) ==
  [i \in 1..n |-> CHOOSE s \in Sectors \ map :
                    Cardinality({r \in Sectors \ map : r < s}) = i - 1]

\* FileHeader::Allocate: the header of a new file, or NULL.
Allocate(map, fileSize) ==
  LET n == DivRoundUp(fileSize, SectorSize)
  IN  IF NumClear(map) < n THEN NULL
      ELSE [numBytes |-> fileSize, dataSectors |-> FirstClear(map, n)]

\* FileHeader::Deallocate; its ASSERT is part of SectorsExact.
Deallocate(map, hdr) == map \ Range(hdr.dataSectors)

ByteToSector(hdr, offset) == hdr.dataSectors[offset \div SectorSize + 1]
FileLength(hdr) == hdr.numBytes

\* Directory::Directory, which leaves the names as they were in memory: NULL is
\* what is no name of a file.  (So it does the sectors, which nobody reads.)
EmptyDirectory(names) ==
  [i \in Entries |-> [inUse |-> FALSE, name |-> names[i], sector |-> 0]]

\* The first index that satisfies P, or -1.
First(P) == IF \E i \in Entries : P[i]
            THEN CHOOSE i \in Entries : P[i] /\ \A j \in 1..(i - 1) : ~P[j]
            ELSE -1

FindIndex(dir, n) == First([i \in Entries |-> dir[i].inUse /\ dir[i].name = n])

Find(dir, n) == IF FindIndex(dir, n) = -1 THEN -1 ELSE dir[FindIndex(dir, n)].sector

\* The entry that Directory::Add takes: the first free one, or -1.
FreeEntry(dir) == First([i \in Entries |-> ~dir[i].inUse])

\* Directory::Add: the directory with the new entry, or NULL.
DirAdd(dir, n, s) ==
  LET i == FreeEntry(dir)
  IN  IF FindIndex(dir, n) # -1 \/ i = -1 THEN NULL
      ELSE [dir EXCEPT ![i] = [inUse |-> TRUE, name |-> n, sector |-> s]]

\* Directory::Remove; the name and the sector stay in the entry.
DirRemove(dir, n) ==
  IF FindIndex(dir, n) = -1 THEN dir
  ELSE [dir EXCEPT ![FindIndex(dir, n)].inUse = FALSE]

\* The entries in use, in the order of the table.
InUse(dir) == SelectSeq([i \in Entries |-> dir[i]], LAMBDA e : e.inUse)

\* Directory::List.
DirList(dir) == [i \in 1..Len(InUse(dir)) |-> InUse(dir)[i].name]

-----------------------------------------------------------------------------
(* Sectors and the two system files.  SynchDisk transfers whole sectors.   *)

Hdr(h) == <<"hdr", h>>
Map(m) == <<"map", m>>
Dir(d) == <<"dir", d>>
Data(b) == <<"data", b>>
Unwritten == Data([i \in 0..(SectorSize - 1) |-> Junk])

\* FileHeader::FetchFrom.
FetchHdr(s) == disk[s][2]

\* The headers that Format makes: a bitmap of one sector, a directory of two.
MapHdr == Allocate({FreeMapSector, DirectorySector}, SectorSize)
DirHdr == Allocate({FreeMapSector, DirectorySector} \cup Range(MapHdr.dataSectors),
                   DirectoryFileSize)
SystemSectors == {FreeMapSector, DirectorySector} \cup Range(MapHdr.dataSectors)
                   \cup Range(DirHdr.dataSectors)
MapData == MapHdr.dataSectors[1]
DirData == DirHdr.dataSectors

\* What the kth sector of the directory's file holds of a directory; what the
\* other one holds is left blank.
Part(dir, k) ==
  [i \in Entries |-> [inUse |-> HeadAt[i] = k /\ dir[i].inUse,
                      sector |-> IF HeadAt[i] = k THEN dir[i].sector ELSE 0,
                      name |-> IF NameAt[i] = k THEN dir[i].name ELSE NULL]]

\* The directory that the two sectors of its file hold on a disk d.
DirectoryOn(d) ==
  [i \in Entries |-> [inUse |-> d[DirData[HeadAt[i]]][2][i].inUse,
                      sector |-> d[DirData[HeadAt[i]]][2][i].sector,
                      name |-> d[DirData[NameAt[i]]][2][i].name]]

\* PersistentBitmap::FetchFrom, and Directory::FetchFrom.
FreeMap == disk[MapData][2]
Directory == DirectoryOn(disk)

WriteBackHdr(s, h) == <<s, Hdr(h)>>
WriteBackMap(m) == <<MapData, Map(m)>>

\* Directory::WriteBack: WriteAt writes the sectors of the file in order.
WriteBackDir(dir) ==
  << <<DirData[1], Dir(Part(dir, 1))>>, <<DirData[2], Dir(Part(dir, 2))>> >>

-----------------------------------------------------------------------------
(* ReadAt and WriteAt, over the sectors of a file.                         *)

MinOf(a, b) == IF a < b THEN a ELSE b

\* The part of a request that lies inside the file; 0 refuses it.
Clamp(hdr, numBytes, position) ==
  IF numBytes <= 0 \/ position >= FileLength(hdr) THEN 0
  ELSE MinOf(numBytes, FileLength(hdr) - position)

FirstSector(position) == position \div SectorSize
LastSector(position, n) == (position + n - 1) \div SectorSize

\* Byte k of a sector; what held a header or a system file before is junk.
SectorByte(s, k) == IF disk[s][1] = "data" THEN disk[s][2][k] ELSE Junk

\* Byte k of the buffer that the sectors from FirstSector on were read into.
BufferByte(hdr, first, k) ==
  SectorByte(ByteToSector(hdr, first * SectorSize + k), k % SectorSize)

\* OpenFile::ReadAt: the bytes it copies out.
ReadAt(hdr, numBytes, position) ==
  LET n == Clamp(hdr, numBytes, position)
      first == FirstSector(position)
  IN  [i \in 1..n |-> BufferByte(hdr, first, position - first * SectorSize + i - 1)]

\* Mutant of WriteBuffer: partly written sectors are not read first.
WriteBufferBlank(hdr, from, n, position) ==
  LET first == FirstSector(position)
      at == position - first * SectorSize
  IN  [k \in 0..((LastSector(position, n) - first + 1) * SectorSize - 1) |->
         IF k \in at..(at + n - 1) THEN from[k - at + 1] ELSE Junk]

\* The buffer of WriteAt: sectors that are written in part are read first, as
\* far as the file goes, and the new bytes are copied over them.
WriteBuffer(hdr, from, n, position) ==
  LET first == FirstSector(position)
      last == LastSector(position, n)
      firstAligned == position = first * SectorSize
      lastAligned == position + n = (last + 1) * SectorSize
      start == IF firstAligned THEN <<>> ELSE ReadAt(hdr, SectorSize, first * SectorSize)
      end == IF lastAligned \/ (first = last /\ ~firstAligned) THEN <<>>
             ELSE ReadAt(hdr, SectorSize, last * SectorSize)
      at == position - first * SectorSize
      tail == (last - first) * SectorSize
  IN  [k \in 0..((last - first + 1) * SectorSize - 1) |->
         CASE k \in at..(at + n - 1) -> from[k - at + 1]
           [] k \notin at..(at + n - 1) /\ k < Len(start) -> start[k + 1]
           [] k \notin at..(at + n - 1) /\ k >= Len(start)
                /\ k >= tail /\ k - tail < Len(end) -> end[k - tail + 1]
           [] OTHER -> Junk]

\* The sectors WriteAt writes, in order.
WriteAt(hdr, from, numBytes, position) ==
  LET n == Clamp(hdr, numBytes, position)
      first == FirstSector(position)
      buf == WriteBuffer(hdr, from, n, position)
      Piece(i) == [j \in 0..(SectorSize - 1) |-> buf[(i - 1) * SectorSize + j]]
  IN  IF n = 0 THEN <<>>
      ELSE [i \in 1..(LastSector(position, n) - first + 1) |->
              <<ByteToSector(hdr, (first + i - 1) * SectorSize), Data(Piece(i))>>]

-----------------------------------------------------------------------------
(* The operations.                                                         *)

NoCall == [op |-> "none"]

Init ==
  /\ disk = [s \in Sectors |-> Unwritten]
  /\ todo = <<>>
  /\ up = FALSE
  /\ handle = [h \in Handles |-> NULL]
  /\ call = NoCall
  /\ torn = Unformatted

\* No operation is running: the next one may be called.
Idle == up /\ todo = <<>>

\* FileSystem(TRUE), on a new disk or over an old file system.
Format ==
  /\ ~up
  /\ \E names \in Garbage :
       todo' = << WriteBackHdr(FreeMapSector, MapHdr), WriteBackHdr(DirectorySector, DirHdr),
                  WriteBackMap(SystemSectors) >> \o WriteBackDir(EmptyDirectory(names))
  /\ up' = TRUE
  /\ call' = [op |-> "format"]
  /\ torn' = Whole
  /\ UNCHANGED <<disk, handle>>

\* FileSystem(FALSE): the two system files are opened.
Mount ==
  /\ ~up
  /\ torn # Unformatted
  /\ MountTorn \/ torn = Whole
  /\ up' = TRUE
  /\ UNCHANGED <<disk, todo, handle, call, torn>>

\* SynchDisk::WriteSector, for the running operation.
WriteSector ==
  /\ todo # <<>>
  /\ disk' = [disk EXCEPT ![Head(todo)[1]] = Head(todo)[2]]
  /\ todo' = Tail(todo)
  /\ UNCHANGED <<up, handle, call, torn>>

\* The sectors of the file of an entry: its header's and its data's.
SectorsOf(i) ==
  {Directory[i].sector} \cup Range(FetchHdr(Directory[i].sector).dataSectors)

\* Nachos exits.  The operation has left its entry at odds with the bitmap when
\* the entry is in use and its sectors are not marked.
Crash ==
  /\ up
  /\ up' = FALSE
  /\ todo' = <<>>
  /\ handle' = [h \in Handles |-> NULL]
  /\ call' = NoCall
  /\ torn' = IF todo = <<>> THEN torn
             ELSE CASE call.op = "format" -> Unformatted
                    [] /\ call.op \in {"create", "remove"}
                       /\ Directory[call.entry].inUse
                       /\ ~(SectorsOf(call.entry) \subseteq FreeMap) -> call.entry
                    [] OTHER -> torn
  /\ UNCHANGED disk

\* Mutant of CreateWrites: the bitmap is not written back.
CreateWritesNoMap(sector, hdr, dir, map) ==
  << WriteBackHdr(sector, hdr) >> \o WriteBackDir(dir)

\* The order in which Create flushes its changes.
CreateWrites(sector, hdr, dir, map) ==
  << WriteBackHdr(sector, hdr) >> \o WriteBackDir(dir) \o << WriteBackMap(map) >>

\* FileSystem::Create.
Create(n, size) ==
  LET sector == FindAndSet(FreeMap)
      marked == FreeMap \cup {sector}
      dir == DirAdd(Directory, n, sector)
      hdr == Allocate(marked, size)
      success == /\ Find(Directory, n) = -1
                 /\ sector # -1
                 /\ dir # NULL
                 /\ hdr # NULL
  IN  /\ Idle
      /\ todo' = IF success
                 THEN CreateWrites(sector, hdr, dir, marked \cup Range(hdr.dataSectors))
                 ELSE <<>>
      /\ call' = [op |-> "create", name |-> n, size |-> size, before |-> disk,
                  entry |-> FreeEntry(Directory), answer |-> success]
      /\ UNCHANGED <<disk, up, handle, torn>>

\* OpenFile::OpenFile: the header is brought into memory.
OpenFile(sector) == [sector |-> sector, hdr |-> FetchHdr(sector), seekPosition |-> 0]

\* FileSystem::Open.
Open(h, n) ==
  LET sector == Find(Directory, n)
  IN  /\ Idle
      /\ handle[h] = NULL
      /\ handle' = [handle EXCEPT ![h] =
                      IF sector < 0 THEN NULL
                      ELSE OpenFile(sector)]
      /\ call' = [op |-> "open", name |-> n, answer |-> sector >= 0]
      /\ UNCHANGED <<disk, todo, up, torn>>

\* ~OpenFile.
Close(h) ==
  /\ Idle
  /\ handle[h] # NULL
  /\ handle' = [handle EXCEPT ![h] = NULL]
  /\ call' = NoCall
  /\ UNCHANGED <<disk, todo, up, torn>>

\* Mutant of RemoveMap: the header's sector stays marked.
RemoveMapKeepHeader(map, sector, hdr) == Deallocate(map, hdr)

\* The bitmap that Remove writes back.
RemoveMap(map, sector, hdr) == Clear(Deallocate(map, hdr), sector)

\* FileSystem::Remove.
Remove(n) ==
  LET sector == Find(Directory, n)
  IN  /\ Idle
      /\ RemoveOpen \/ \A h \in Handles : handle[h] # NULL => handle[h].sector # sector
      /\ todo' = IF sector = -1 THEN <<>>
                 ELSE << WriteBackMap(RemoveMap(FreeMap, sector, FetchHdr(sector))) >>
                        \o WriteBackDir(DirRemove(Directory, n))
      /\ call' = [op |-> "remove", name |-> n, entry |-> FindIndex(Directory, n),
                  answer |-> sector # -1]
      /\ UNCHANGED <<disk, up, handle, torn>>

\* FileSystem::List.
List ==
  /\ Idle
  /\ call' = [op |-> "list", answer |-> DirList(Directory)]
  /\ UNCHANGED <<disk, todo, up, handle, torn>>

\* FileSystem::Print, of which the files' contents are kept: a header prints
\* its sectors in turn, until the length of the file is reached.
Printed(hdr) ==
  [k \in 1..FileLength(hdr) |->
     SectorByte(hdr.dataSectors[(k - 1) \div SectorSize + 1], (k - 1) % SectorSize)]

PrintAll ==
  /\ Idle
  /\ LET used == InUse(Directory)
     IN  call' = [op |-> "print",
                  answer |-> [i \in 1..Len(used) |-> Printed(FetchHdr(used[i].sector))]]
  /\ UNCHANGED <<disk, todo, up, handle, torn>>

\* OpenFile::Seek.
Seek(h, position) ==
  /\ Idle
  /\ handle[h] # NULL
  /\ handle' = [handle EXCEPT ![h].seekPosition = position]
  /\ call' = NoCall
  /\ UNCHANGED <<disk, todo, up, torn>>

\* OpenFile::Read, from the seek position.
Read(h, numBytes) ==
  /\ Idle
  /\ handle[h] # NULL
  /\ LET f == handle[h]
         into == ReadAt(f.hdr, numBytes, f.seekPosition)
     IN  /\ call' = [op |-> "read", file |-> f, size |-> numBytes, answer |-> into]
         /\ handle' = [handle EXCEPT ![h].seekPosition = @ + Len(into)]
  /\ UNCHANGED <<disk, todo, up, torn>>

\* OpenFile::Write, at the seek position.
Write(h, from) ==
  /\ Idle
  /\ handle[h] # NULL
  /\ LET f == handle[h]
         n == Clamp(f.hdr, Len(from), f.seekPosition)
     IN  /\ todo' = WriteAt(f.hdr, from, Len(from), f.seekPosition)
         /\ call' = [op |-> "write", file |-> f, from |-> from, before |-> disk, answer |-> n]
         /\ handle' = [handle EXCEPT ![h].seekPosition = @ + n]
  /\ UNCHANGED <<disk, up, torn>>

Next ==
  \/ Format \/ Mount \/ WriteSector \/ Crash \/ List \/ PrintAll
  \/ \E n \in Names : Remove(n) \/ \E size \in Sizes : Create(n, size)
  \/ \E h \in Handles :
       \/ Close(h)
       \/ \E n \in Names : Open(h, n)
       \/ \E p \in 0..MaxFileSize : Seek(h, p)
       \/ \E n \in Sizes : Read(h, n)
       \/ \E b \in Buffers : Write(h, b)

Spec == Init /\ [][Next]_vars
-----------------------------------------------------------------------------
(* Properties.                                                             *)

\* A sector holds one kind of thing, and what it holds has its type.
TypeOK ==
  /\ \A s \in Sectors :
       \/ disk[s][1] = "hdr" /\ disk[s][2].numBytes \in 0..MaxFileSize
                            /\ Range(disk[s][2].dataSectors) \subseteq Sectors
       \/ disk[s][1] = "map" /\ disk[s][2] \in Bitmap
       \/ disk[s][1] = "dir" /\ disk[s][2] \in [Entries -> DirectoryEntry]
       \/ disk[s][1] = "data" /\ disk[s][2] \in [0..(SectorSize - 1) -> Bytes \cup {Junk}]
  /\ \A i \in 1..Len(todo) : todo[i][1] \in Sectors
  /\ up \in BOOLEAN
  /\ \A h \in Handles : handle[h] # NULL => handle[h].seekPosition \in 0..MaxFileSize
  /\ torn \in Entries \cup {Whole, Unformatted}

\* There is a file system on the disk.
Formatted == torn # Unformatted /\ ~(call.op = "format" /\ todo # <<>>)

Used == {i \in Entries : Directory[i].inUse}

\* The entry that is being changed, together with its bits, or was by a crash.
InFlux == IF todo # <<>> /\ call.op \in {"create", "remove"} THEN call.entry ELSE torn

(***************************************************************************)
(* The bitmap, the directory and the headers agree: no sector belongs to   *)
(* two files, every sector of a file is marked, no mark is leaked, and     *)
(* every file is found under its own name.  While Create or Remove writes  *)
(* its sectors, and after a crash between any two of them, only the entry  *)
(* it is about may own sectors that are not marked, or be in use under the *)
(* name of a file removed before; a crash never leaks a sector, and never  *)
(* touches nor hides another file.                                         *)
(***************************************************************************)
SectorsExact ==
  /\ TypeOK
  /\ Formatted =>
    /\ FreeMap \subseteq SystemSectors \cup UNION {SectorsOf(i) : i \in Used}
    /\ \A i \in Used \ {InFlux} : SectorsOf(i) \subseteq FreeMap
    /\ SystemSectors \subseteq FreeMap
    /\ \A i \in Used : SectorsOf(i) \cap SystemSectors = {}
    /\ \A i, j \in Used : i # j => SectorsOf(i) \cap SectorsOf(j) = {}
    /\ \A i \in Used \ {InFlux} : FindIndex(Directory, Directory[i].name) = i

\* The bytes of the file a header describes on a disk d, one by one.
BytesOf(d, hdr) ==
  [i \in 1..hdr.numBytes |->
     LET s == hdr.dataSectors[(i - 1) \div SectorSize + 1]
     IN  IF d[s][1] = "data" THEN d[s][2][(i - 1) % SectorSize] ELSE Junk]

\* The bytes old with new put over them at position p, as far as they go.
Overwritten(old, new, p) ==
  [i \in 1..Len(old) |-> IF i > p /\ i <= p + Len(new) THEN new[i - p] ELSE old[i]]

(***************************************************************************)
(* Each call does what was asked.  Create succeeds exactly when the name   *)
(* is new, an entry is free and the disk has room for the header and the   *)
(* data, and otherwise leaves the disk as it was; Read returns the bytes   *)
(* from the seek position on; Write changes those bytes and no others,     *)
(* though it has to write whole sectors.                                   *)
(***************************************************************************)
CallsExact ==
  Idle =>
    CASE call.op = "create" ->
           LET map == call.before[MapData][2]
               dir == DirectoryOn(call.before)
           IN  /\ call.answer <=>
                    /\ \A i \in Entries : dir[i].inUse => dir[i].name # call.name
                    /\ \E i \in Entries : ~dir[i].inUse
                    /\ Cardinality(Sectors \ map) >= 1 + DivRoundUp(call.size, SectorSize)
               /\ ~call.answer => disk = call.before
               /\ call.answer => \E i \in Used : Directory[i].name = call.name
      [] call.op = "read" ->
           LET old == BytesOf(disk, call.file.hdr)
               p == call.file.seekPosition
           IN  call.answer = SubSeq(old, p + 1, MinOf(p + call.size, Len(old)))
      [] call.op = "write" ->
           BytesOf(disk, call.file.hdr) =
             Overwritten(BytesOf(call.before, call.file.hdr), call.from, call.file.seekPosition)
      [] OTHER -> TRUE

Store ==
  [n \in Names |->
     IF (\E k \in 1..2 : disk[DirData[k]][1] # "dir") \/ Find(Directory, n) = -1 THEN NULL
     ELSE BytesOf(disk, FetchHdr(Find(Directory, n)))]

\* The other name under which the file that is being created is found: its entry
\* is in use, and has still the name of a file removed before.
Nascent ==
  IF /\ call.op = "create" /\ todo # <<>>
     /\ Directory[call.entry].inUse
     /\ Directory[call.entry].name \in Names \ {call.name}
     /\ FindIndex(Directory, Directory[call.entry].name) = call.entry
  THEN Directory[call.entry].name ELSE NULL

Abstract == INSTANCE FileStore WITH store <- Store, nascent <- Nascent, Bytes <- Bytes \cup {Junk}

(***************************************************************************)
(* The file system implements FileStore, in every crash too: a file comes  *)
(* and goes with the write of a sector of the directory, a new one may be  *)
(* there for one write, or after a crash, under the name its entry had     *)
(* before, and no operation on one file, nor a sector that is used again,  *)
(* changes, hides or brings back the bytes of another.                     *)
(***************************************************************************)
ImplementsFileStore == Abstract!Spec
=============================================================================
