--------------------------- MODULE DiskFS_proofs ---------------------------
(***************************************************************************)
(* Proofs about DiskFS, for any size of the disk, of its sectors and of    *)
(* the headers, any directory of two sectors, however its entries lie in   *)
(* them, and any number of open files: the bitmap, the directory and the   *)
(* headers agree in every crash, each call does what was asked, and the    *)
(* file system implements FileStore.  Open files are not removed and a     *)
(* torn disk is not mounted, as in the runs.                               *)
(***************************************************************************)
EXTENDS DiskFS, FiniteSetTheorems, NaturalsInduction, SequenceTheorems, TLAPS

-----------------------------------------------------------------------------
(* The inductive invariant.                                                *)

Content ==
  ({"hdr"} \X FileHeader) \cup ({"map"} \X Bitmap)
    \cup ({"dir"} \X [Entries -> DirectoryEntry])
    \cup ({"data"} \X [0..(SectorSize - 1) -> Bytes \cup {Junk}])

OpenFiles == [sector : Sectors, hdr : FileHeader, seekPosition : 0..MaxFileSize]

\* The directory on a disk d, the entries in use, their headers and sectors.
DirSectors == {DirData[1], DirData[2]}
DirOf(d) == DirectoryOn(d)
HasDir(d) == d[DirData[1]][1] = "dir" /\ d[DirData[2]][1] = "dir"
UsedOn(d) == {i \in Entries : DirOf(d)[i].inUse}
HdrOf(d, i) == d[DirOf(d)[i].sector][2]
Own(d, i) == {DirOf(d)[i].sector} \cup Range(HdrOf(d, i).dataSectors)
Owned(d) == SystemSectors \cup UNION {Own(d, i) : i \in UsedOn(d)}

\* A header has as many sectors as its bytes need, all different.
GoodHdr(h) ==
  /\ h \in FileHeader
  /\ DOMAIN h.dataSectors = 1..DivRoundUp(h.numBytes, SectorSize)
  /\ \A k, l \in DOMAIN h.dataSectors : h.dataSectors[k] = h.dataSectors[l] => k = l

\* One entry in use, and two of them.
EntryOK(d, i) ==
  /\ d[DirOf(d)[i].sector][1] = "hdr"
  /\ GoodHdr(HdrOf(d, i))
  /\ DirOf(d)[i].sector \notin Range(HdrOf(d, i).dataSectors)
  /\ Own(d, i) \cap SystemSectors = {}

Apart(d, i, j) == Own(d, i) \cap Own(d, j) = {}

FilesOK(d) ==
  /\ \A i \in UsedOn(d) : EntryOK(d, i)
  /\ \A i, j \in UsedOn(d) : i # j => Apart(d, i, j)

\* No entry before that of a file, in use or not, has the file's name: the one
\* that Create takes may be in use for a while under the name it has.  The
\* entry x is exempt.
NamesOK(d, x) ==
  \A j \in UsedOn(d) \ {x} :
    /\ DirOf(d)[j].name \in Names
    /\ \A i \in Entries : i < j => DirOf(d)[i].name # DirOf(d)[j].name

\* What Format needs, which cuts the directory in two: the files of the second
\* half are not hidden by the first one's.
Behind(d) ==
  \A i, j \in UsedOn(d) : HeadAt[j] = 2 /\ i < j => DirOf(d)[i].name # DirOf(d)[j].name

\* The marks are those of the files, or those of all files but one.
Exact(d) == HasDir(d) /\ d[MapData] = Map(Owned(d))
AllBut(d, i) == HasDir(d) /\ d[MapData] = Map(Owned(d) \ Own(d, i))

\* The write of one sector of the directory.
WritePart(dir, k) == <<DirData[k], Dir(Part(dir, k))>>

Formatting ==
  /\ call.op = "format"
  /\ \A h \in Handles : handle[h] = NULL
  /\ \E names \in Garbage : LET dir == EmptyDirectory(names) IN
       \/ todo = << WriteBackHdr(FreeMapSector, MapHdr), WriteBackHdr(DirectorySector, DirHdr),
                    WriteBackMap(SystemSectors), WritePart(dir, 1), WritePart(dir, 2) >>
       \/ todo = << WriteBackHdr(DirectorySector, DirHdr),
                    WriteBackMap(SystemSectors), WritePart(dir, 1), WritePart(dir, 2) >>
       \/ todo = << WriteBackMap(SystemSectors), WritePart(dir, 1), WritePart(dir, 2) >>
       \/ /\ todo = << WritePart(dir, 1), WritePart(dir, 2) >>
          /\ disk[MapData] = Map(SystemSectors)
       \/ /\ todo = << WritePart(dir, 2) >>
          /\ disk[MapData] = Map(SystemSectors)
          /\ disk[DirData[1]] = Dir(Part(dir, 1))

\* What a file needs to become the one of entry i, and the directory with it.
NewName(d, n, i) ==
  /\ n \in Names /\ i \in Entries
  /\ \A j \in UsedOn(d) \ {i} : DirOf(d)[j].name # n
  /\ \A j \in Entries : j < i => j \in UsedOn(d)
NewFile(d, i, s, h) ==
  /\ i \in Entries \ UsedOn(d)
  /\ GoodHdr(h)
  /\ s \in Sectors \ Range(h.dataSectors)
  /\ ({s} \cup Range(h.dataSectors)) \cap Owned(d) = {}
NewDir(d, n, i, s) == [DirOf(d) EXCEPT ![i] = [inUse |-> TRUE, name |-> n, sector |-> s]]
NewMap(d, s, h) == Owned(d) \cup {s} \cup Range(h.dataSectors)

CreateStarts ==
  /\ call.op = "create"
  /\ Exact(disk) /\ NamesOK(disk, 0)
  /\ NewName(disk, call.name, call.entry)
  /\ \E s \in Sectors, h \in FileHeader :
       LET dir == NewDir(disk, call.name, call.entry, s)
           map == NewMap(disk, s, h)
       IN  /\ NewFile(disk, call.entry, s, h)
           /\ \/ todo = << WriteBackHdr(s, h), WritePart(dir, 1), WritePart(dir, 2),
                           WriteBackMap(map) >>
              \/ /\ todo = << WritePart(dir, 1), WritePart(dir, 2), WriteBackMap(map) >>
                 /\ disk[s] = Hdr(h)

\* Between the two sectors of the directory, with the entry's half still to be
\* written, or written, its name perhaps not.
CreateBetween ==
  /\ call.op = "create"
  /\ NewName(disk, call.name, call.entry)
  /\ \E s \in Sectors, h \in FileHeader :
       /\ todo = << WritePart(NewDir(disk, call.name, call.entry, s), 2),
                    WriteBackMap(NewMap(disk, s, h)) >>
       /\ disk[s] = Hdr(h)
       /\ \/ /\ HeadAt[call.entry] = 2
             /\ Exact(disk) /\ NamesOK(disk, 0)
             /\ NewFile(disk, call.entry, s, h)
          \/ /\ HeadAt[call.entry] = 1
             /\ call.entry \in UsedOn(disk) /\ DirOf(disk)[call.entry].sector = s
             /\ NameAt[call.entry] = 1 => DirOf(disk)[call.entry].name = call.name
             /\ AllBut(disk, call.entry) /\ NamesOK(disk, call.entry)

CreateEnds ==
  /\ call.op = "create"
  /\ todo = << WriteBackMap(Owned(disk)) >>
  /\ call.entry \in UsedOn(disk) /\ DirOf(disk)[call.entry].name = call.name
  /\ AllBut(disk, call.entry) /\ NamesOK(disk, 0)

Removed(d, i) == [DirOf(d) EXCEPT ![i].inUse = FALSE]

Removing ==
  /\ call.op = "remove"
  /\ HasDir(disk) /\ NamesOK(disk, 0)
  /\ call.entry \in Entries
  /\ \A h \in Handles : handle[h] # NULL => handle[h].sector # DirOf(disk)[call.entry].sector
  /\ LET i == call.entry
         dir == Removed(disk, i)
     IN  \/ /\ todo = << WriteBackMap(Owned(disk) \ Own(disk, i)), WritePart(dir, 1),
                         WritePart(dir, 2) >>
            /\ i \in UsedOn(disk) /\ Exact(disk)
         \/ /\ todo = << WritePart(dir, 1), WritePart(dir, 2) >>
            /\ i \in UsedOn(disk) /\ AllBut(disk, i)
         \/ /\ todo = << WritePart(dir, 2) >>
            /\ \/ HeadAt[i] = 1 /\ i \notin UsedOn(disk) /\ Exact(disk)
               \/ HeadAt[i] = 2 /\ i \in UsedOn(disk) /\ AllBut(disk, i)

\* The file that a handle f holds is the one of an entry in use.
Holds(d, f) ==
  \E i \in UsedOn(d) : f.sector = DirOf(d)[i].sector /\ f.hdr = HdrOf(d, i)

Writing ==
  /\ call.op = "write"
  /\ todo # <<>>
  /\ Exact(disk) /\ NamesOK(disk, 0)
  /\ call.file \in OpenFiles /\ Holds(disk, call.file)
  /\ \A k \in 1..Len(todo) :
       /\ todo[k][1] \in Range(call.file.hdr.dataSectors)
       /\ todo[k][2] \in {"data"} \X [0..(SectorSize - 1) -> Bytes \cup {Junk}]

\* Where the file system is.
Phase ==
  \/ ~up /\ torn = Unformatted
  \/ ~up /\ torn \in UsedOn(disk) /\ AllBut(disk, torn) /\ NamesOK(disk, torn)
  \/ torn = Whole /\ todo = <<>> /\ Exact(disk) /\ NamesOK(disk, 0)
  \/ /\ up /\ torn = Whole
     /\ Formatting \/ CreateStarts \/ CreateBetween \/ CreateEnds \/ Removing \/ Writing

Typed ==
  /\ disk \in [Sectors -> Content]
  /\ todo \in Seq(Sectors \X Content)
  /\ up \in BOOLEAN
  /\ handle \in [Handles -> OpenFiles \cup {NULL}]
  /\ ~up => /\ todo = <<>>
            /\ call = NoCall
            /\ \A h \in Handles : handle[h] = NULL

GoodDir(d) == d[DirData[2]][1] = "dir" => HasDir(d) /\ FilesOK(d) /\ Behind(d)

IInv ==
  /\ Typed
  /\ GoodDir(disk)
  /\ Phase
  /\ \A h \in Handles : handle[h] # NULL => HasDir(disk) /\ Holds(disk, handle[h])

\* What the create call answered.
CreateOK ==
  LET map == call.before[MapData][2]
      dir == DirOf(call.before)
  IN  /\ call.answer <=>
           /\ \A i \in Entries : dir[i].inUse => dir[i].name # call.name
           /\ \E i \in Entries : ~dir[i].inUse
           /\ Cardinality(Sectors \ map) >= 1 + DivRoundUp(call.size, SectorSize)
      /\ ~call.answer => todo = <<>> /\ disk = call.before
      /\ call.answer => todo # <<>> \/ \E i \in UsedOn(disk) : DirOf(disk)[i].name = call.name

ReadOK ==
  LET old == BytesOf(disk, call.file.hdr)
      p == call.file.seekPosition
  IN  /\ todo = <<>>
      /\ call.answer = SubSeq(old, p + 1, MinOf(p + call.size, Len(old)))

\* Byte k of a file on disk d, and the sector and the place it is in.
PlaceOf(hdr, k) == hdr.dataSectors[(k - 1) \div SectorSize + 1]
ByteIn(content, o) == IF content[1] = "data" THEN content[2][o] ELSE Junk

\* Byte k of the file has its new value, or is to be written with it.
Written(d, w, hdr, new, k) ==
  /\ \A j \in 1..Len(w) :
       w[j][1] = PlaceOf(hdr, k) => ByteIn(w[j][2], (k - 1) % SectorSize) = new[k]
  /\ (\A j \in 1..Len(w) : w[j][1] # PlaceOf(hdr, k))
       => ByteIn(d[PlaceOf(hdr, k)], (k - 1) % SectorSize) = new[k]

WriteOK ==
  LET hdr == call.file.hdr
      new == Overwritten(BytesOf(call.before, hdr), call.from, call.file.seekPosition)
  IN  /\ hdr.numBytes \in Nat
      /\ \A k \in 1..hdr.numBytes : Written(disk, todo, hdr, new, k)

CallInv ==
  /\ call.op = "create" => CreateOK
  /\ call.op = "read" => ReadOK
  /\ call.op = "write" => WriteOK

-----------------------------------------------------------------------------
(* Numbers.                                                                *)

\* Every non-empty set of natural numbers has a least element.
LEMMA LeastNumber ==
  ASSUME NEW T \in SUBSET Nat, T # {}
  PROVE  \E n \in T : \A m \in T : n <= m
<1> DEFINE R == {ss \in Nat \X Nat : ss[1] < ss[2]}
<1>1. IsWellFoundedOn(R, Nat)
  BY NatLessThanWellFounded DEF OpToRel
<1>2. \E x \in T : \A y \in T : ~(<<y, x>> \in R)
  <2> HIDE DEF R
  <2> QED
    BY <1>1, WFMin
<1>3. PICK x \in T : \A y \in T : ~(<<y, x>> \in R)
  BY <1>2
<1>4. ASSUME NEW y \in T PROVE x <= y
  <2>1. ~(<<y, x>> \in R) /\ x \in Nat /\ y \in Nat
    BY <1>3
  <2> QED
    BY <2>1
<1> QED
  BY <1>4

\* What the remainder and the quotient of a division are.
LEMMA Division ==
  ASSUME NEW a \in Int, NEW n \in Nat \ {0}
  PROVE  a % n \in 0..(n - 1) /\ a \div n \in Int /\ a = n * (a \div n) + (a % n)
OBVIOUS

\* The quotient and the remainder are the only numbers of that kind.
LEMMA DivisionUnique ==
  ASSUME NEW a \in Int, NEW n \in Nat \ {0}, NEW q \in Int, NEW r \in 0..(n - 1),
         a = n * q + r
  PROVE  a % n = r /\ a \div n = q
OBVIOUS

\* Multiples keep the order.
LEMMA Multiples ==
  ASSUME NEW n \in Nat, NEW a \in Int, NEW b \in Int
  PROVE  /\ n * a \in Int
         /\ a <= b => n * a <= n * b
         /\ a < b => n * a + n <= n * b
OBVIOUS

\* The number of sectors that n bytes need, and the sector of byte k.
LEMMA RoundUp ==
  ASSUME NEW s \in Nat \ {0}, NEW n \in Nat
  PROVE  /\ DivRoundUp(n, s) \in Nat
         /\ \A k \in 0..(n - 1) : k \div s + 1 \in 1..DivRoundUp(n, s)
<1> DEFINE q == DivRoundUp(n, s)
           r == (n + s - 1) % s
<1>1. q \in Int /\ r \in 0..(s - 1) /\ n + s - 1 = s * q + r
  <2>1. n + s - 1 \in Int
    OBVIOUS
  <2>2. q = (n + s - 1) \div s
    BY DEF DivRoundUp
  <2> HIDE DEF q
  <2> QED
    BY <2>1, <2>2, Division
<1> HIDE DEF q, r
<1>2. q >= 0
  <2>1. ASSUME q < 0 PROVE FALSE
    <3>1. s * q + s <= s * 0 /\ s * q \in Int
      BY <1>1, <2>1, Multiples
    <3> QED
      BY <1>1, <3>1
  <2> QED
    BY <1>1, <2>1
<1>3. ASSUME NEW k \in 0..(n - 1) PROVE k \div s + 1 \in 1..q
  <2> DEFINE a == k \div s
             b == k % s
  <2>1. a \in Int /\ b \in 0..(s - 1) /\ k = s * a + b
    BY Division
  <2> HIDE DEF a, b
  <2>2. a >= 0
    <3>1. ASSUME a < 0 PROVE FALSE
      <4>1. s * a + s <= s * 0 /\ s * a \in Int
        BY <2>1, <3>1, Multiples
      <4> QED
        BY <2>1, <4>1
    <3> QED
      BY <2>1, <3>1
  <2>3. a < q
    <3>1. ASSUME a >= q PROVE FALSE
      <4>1. s * q <= s * a /\ s * a \in Int /\ s * q \in Int
        BY <1>1, <2>1, <3>1, Multiples
      <4> QED
        BY <1>1, <2>1, <4>1
    <3> QED
      BY <1>1, <2>1, <3>1
  <2>4. a + 1 \in 1..q
    BY <1>1, <2>1, <2>2, <2>3
  <2> QED
    BY <2>4 DEF a
<1> QED
  BY <1>1, <1>2, <1>3 DEF q

\* One sector is enough for the bytes of one.
LEMMA OneSector ==
  ASSUME NEW s \in Nat \ {0}
  PROVE  DivRoundUp(s, s) = 1
<1>1. s + s - 1 = s * 1 + (s - 1) /\ s - 1 \in 0..(s - 1) /\ s + s - 1 \in Int
  OBVIOUS
<1> QED
  BY <1>1, DivisionUnique DEF DivRoundUp

\* Two sectors are needed for more bytes than one has, and enough for twice as many.
LEMMA TwoSectors ==
  ASSUME NEW s \in Nat \ {0}, NEW n \in (s + 1)..(2 * s)
  PROVE  DivRoundUp(n, s) = 2
<1> DEFINE r == n - s - 1
<1>1. n \in Int /\ s \in Int /\ n >= s + 1 /\ n <= 2 * s
  OBVIOUS
<1>2. r \in 0..(s - 1) /\ n + s - 1 \in Int
  BY <1>1
<1>3. n + s - 1 = s * 2 + r
  BY <1>1
<1> HIDE DEF r
<1>4. (n + s - 1) \div s = 2
  BY <1>2, <1>3, DivisionUnique
<1> QED
  BY <1>4 DEF DivRoundUp

-----------------------------------------------------------------------------
(* The sectors that FindAndSet and Allocate return.                        *)

\* The number of elements below one of a finite set of numbers.
Rank(S, f) == Cardinality({e \in S : e < f})

\* Ranks are numbers below the size of the set, and they grow.
LEMMA RankGrows ==
  ASSUME NEW S \in SUBSET Nat, IsFiniteSet(S)
  PROVE  /\ Cardinality(S) \in Nat
         /\ \A f \in S : Rank(S, f) \in 0..(Cardinality(S) - 1)
         /\ \A f, g \in S : f < g => Rank(S, f) < Rank(S, g)
<1> DEFINE Below(f) == {e \in S : e < f}
<1>1. Cardinality(S) \in Nat
  BY FS_CardinalityType
<1>2. ASSUME NEW f \in S PROVE IsFiniteSet(Below(f)) /\ Cardinality(Below(f)) \in Nat
  BY FS_Subset, FS_CardinalityType
<1>3. ASSUME NEW f \in S, NEW T \in SUBSET S, f \in T, Below(f) \subseteq T
      PROVE  Cardinality(Below(f)) < Cardinality(T)
  <2>1. IsFiniteSet(T)
    BY FS_Subset
  <2>2. f \notin Below(f) /\ Below(f) \cup {f} \subseteq T
    BY <1>3
  <2>3. Cardinality(Below(f) \cup {f}) = Cardinality(Below(f)) + 1
    BY <1>2, <2>2, FS_AddElement
  <2>4. Cardinality(Below(f) \cup {f}) <= Cardinality(T)
    BY <2>1, <2>2, FS_Subset
  <2>5. Cardinality(T) \in Nat /\ Cardinality(Below(f)) \in Nat
    BY <1>2, <2>1, FS_CardinalityType
  <2> QED
    BY <2>3, <2>4, <2>5
<1>4. ASSUME NEW f \in S PROVE Rank(S, f) \in 0..(Cardinality(S) - 1)
  <2>1. Rank(S, f) = Cardinality(Below(f))
    BY DEF Rank
  <2>2. Cardinality(Below(f)) < Cardinality(S)
    BY <1>3
  <2> HIDE DEF Below
  <2> QED
    BY <1>1, <1>2, <2>1, <2>2
<1>5. ASSUME NEW f \in S, NEW g \in S, f < g PROVE Rank(S, f) < Rank(S, g)
  <2>1. f \in Below(g) /\ Below(f) \subseteq Below(g) /\ Below(g) \in SUBSET S
    <3>1. ASSUME NEW e \in S, e < f PROVE e < g
      <4>1. e \in Nat /\ f \in Nat /\ g \in Nat
        OBVIOUS
      <4> QED
        BY <1>5, <3>1, <4>1
    <3> QED
      BY <1>5, <3>1
  <2>2. Cardinality(Below(f)) < Cardinality(Below(g))
    <3> HIDE DEF Below
    <3> QED
      BY <1>3, <2>1
  <2> QED
    BY <2>2 DEF Rank
<1> QED
  BY <1>1, <1>4, <1>5

\* Every number below the size of the set is the rank of one element.
LEMMA RankOnto ==
  ASSUME NEW S \in SUBSET Nat, IsFiniteSet(S), NEW k \in 0..(Cardinality(S) - 1)
  PROVE  \E f \in S : Rank(S, f) = k
<1> DEFINE N == Cardinality(S)
           r == [f \in S |-> Rank(S, f)]
<1>1. N \in Nat
  BY FS_CardinalityType
<1>2. r \in Injection(S, 0..(N - 1))
  <2>1. r \in [S -> 0..(N - 1)]
    BY RankGrows
  <2>2. ASSUME NEW f \in S, NEW g \in S, f # g PROVE r[f] # r[g]
    <3>1. f < g \/ g < f
      BY <2>2
    <3>2. Rank(S, f) \in Int /\ Rank(S, g) \in Int
      BY <1>1, RankGrows
    <3>3. (f < g => Rank(S, f) < Rank(S, g)) /\ (g < f => Rank(S, g) < Rank(S, f))
      BY RankGrows
    <3> QED
      BY <3>1, <3>2, <3>3
  <2> QED
    BY <2>1, <2>2 DEF Injection, IsInjective
<1>3. IsFiniteSet(0..(N - 1)) /\ Cardinality(0..(N - 1)) = N
  <2>1. 0 \in Int /\ N - 1 \in Int
    BY <1>1
  <2>2. /\ IsFiniteSet(0..(N - 1))
        /\ Cardinality(0..(N - 1)) = IF 0 > N - 1 THEN 0 ELSE N - 1 - 0 + 1
    BY <2>1, FS_Interval
  <2> HIDE DEF N
  <2> QED
    BY <1>1, <2>2
<1>4. r \in Surjection(S, 0..(N - 1))
  <2> HIDE DEF r
  <2> QED
    BY <1>2, <1>3, FS_Injection
<1> QED
  BY <1>4 DEF Surjection

\* The sectors are finitely many.
LEMMA SectorsFinite ==
  /\ Sectors \in SUBSET Nat /\ IsFiniteSet(Sectors) /\ Cardinality(Sectors) = NumSectors
  /\ 0 \in Sectors /\ 1 \in Sectors
<1>1. NumSectors \in Nat /\ NumSectors >= 5 /\ 0 \in Int /\ NumSectors - 1 \in Int
  BY DiskFSAssumption
<1>2. /\ IsFiniteSet(0..(NumSectors - 1))
      /\ Cardinality(0..(NumSectors - 1)) =
           IF 0 > NumSectors - 1 THEN 0 ELSE NumSectors - 1 - 0 + 1
  BY <1>1, FS_Interval
<1> QED
  BY <1>1, <1>2 DEF Sectors

\* The clear bits of a bitmap are finitely many, and fewer by one when a clear
\* bit is set.
LEMMA ClearFacts ==
  ASSUME NEW map
  PROVE  /\ IsFiniteSet(Sectors \ map) /\ NumClear(map) \in Nat
         /\ \A s \in Sectors \ map : NumClear(map \cup {s}) = NumClear(map) - 1
         /\ NumClear(map) >= 1 <=> ~(Sectors \subseteq map)
<1>1. IsFiniteSet(Sectors \ map)
  BY SectorsFinite, FS_Subset
<1>2. Cardinality(Sectors \ map) \in Nat
  BY <1>1, FS_CardinalityType
<1>3. ASSUME NEW s \in Sectors \ map
      PROVE  NumClear(map \cup {s}) = NumClear(map) - 1
  <2>1. Cardinality((Sectors \ map) \ {s}) = Cardinality(Sectors \ map) - 1
    BY <1>1, FS_RemoveElement
  <2>2. (Sectors \ map) \ {s} = Sectors \ (map \cup {s})
    OBVIOUS
  <2> QED
    BY <2>1, <2>2 DEF NumClear
<1>4. NumClear(map) >= 1 <=> ~(Sectors \subseteq map)
  <2>1. Cardinality(Sectors \ map) = 0 <=> Sectors \ map = {}
    BY <1>1, FS_EmptySet
  <2>2. Sectors \ map = {} <=> Sectors \subseteq map
    OBVIOUS
  <2> QED
    BY <1>2, <2>1, <2>2 DEF NumClear
<1> QED
  BY <1>1, <1>2, <1>3, <1>4 DEF NumClear

\* FindAndSet finds a clear bit when there is one.
LEMMA FindAndSetFacts ==
  ASSUME NEW map
  PROVE  IF Sectors \subseteq map THEN FindAndSet(map) = -1
         ELSE FindAndSet(map) \in Sectors \ map /\ FindAndSet(map) # -1
<1>1. CASE Sectors \subseteq map
  BY <1>1 DEF FindAndSet
<1>2. CASE ~(Sectors \subseteq map)
  <2>1. Sectors \ map # {} /\ Sectors \ map \in SUBSET Nat
    BY <1>2, SectorsFinite
  <2>2. \E s \in Sectors \ map : \A r \in Sectors \ map : s <= r
    BY <2>1, LeastNumber
  <2>3. FindAndSet(map) \in Sectors \ map
    BY <1>2, <2>2 DEF FindAndSet
  <2> QED
    BY <1>2, <2>1, <2>3
<1> QED
  BY <1>1, <1>2

\* The sectors are clear, and no two of them are the same.
LEMMA FirstClearFacts ==
  ASSUME NEW map, NEW n \in Nat, n <= NumClear(map)
  PROVE  /\ FirstClear(map, n) \in [1..n -> Sectors]
         /\ \A i \in 1..n : FirstClear(map, n)[i] \notin map
         /\ \A i, j \in 1..n : FirstClear(map, n)[i] = FirstClear(map, n)[j] => i = j
<1> DEFINE free == Sectors \ map
<1>1. IsFiniteSet(free) /\ free \in SUBSET Nat /\ Cardinality(free) \in Nat
  BY ClearFacts, SectorsFinite DEF NumClear
<1>2. n <= Cardinality(free)
  BY DEF NumClear
<1>3. ASSUME NEW i \in 1..n
      PROVE  /\ FirstClear(map, n)[i] \in free
             /\ Rank(free, FirstClear(map, n)[i]) = i - 1
  <2>1. i - 1 \in 0..(Cardinality(free) - 1)
    BY <1>1, <1>2
  <2>2. \E f \in free : Rank(free, f) = i - 1
    <3> HIDE DEF free
    <3> QED
      BY <1>1, <2>1, RankOnto
  <2>3. FirstClear(map, n)[i] = CHOOSE f \in free : Rank(free, f) = i - 1
    BY DEF FirstClear, Rank
  <2> HIDE DEF free
  <2> QED
    BY <2>2, <2>3
<1>4. FirstClear(map, n) \in [1..n -> Sectors]
  <2> DEFINE h(i) == CHOOSE f \in free : Rank(free, f) = i - 1
  <2>1. FirstClear(map, n) = [i \in 1..n |-> h(i)]
    BY Zenon DEF FirstClear, Rank
  <2> HIDE DEF h
  <2>2. \A i \in 1..n : h(i) \in Sectors
    BY <1>3, <2>1
  <2> QED
    BY <2>1, <2>2
<1>5. ASSUME NEW i \in 1..n, NEW j \in 1..n, FirstClear(map, n)[i] = FirstClear(map, n)[j]
      PROVE  i = j
  <2>1. i - 1 = j - 1
    BY <1>3, <1>5
  <2> QED
    BY <2>1
<1> QED
  BY <1>3, <1>4, <1>5

\* Allocate makes a good header of clear sectors when there are enough.
LEMMA AllocateFacts ==
  ASSUME NEW map, NEW size \in 0..MaxFileSize
  PROVE  IF NumClear(map) < DivRoundUp(size, SectorSize) THEN Allocate(map, size) = NULL
         ELSE /\ Allocate(map, size) # NULL
              /\ GoodHdr(Allocate(map, size))
              /\ Allocate(map, size).numBytes = size
              /\ Allocate(map, size).dataSectors
                   \in [1..DivRoundUp(size, SectorSize) -> Sectors]
              /\ Range(Allocate(map, size).dataSectors) \cap map = {}
<1> DEFINE n == DivRoundUp(size, SectorSize)
           ds == FirstClear(map, n)
<1>1. n \in Nat /\ NumClear(map) \in Nat
  <2>1. size \in Nat /\ SectorSize \in Nat \ {0}
    BY DiskFSAssumption DEF MaxFileSize
  <2> QED
    BY <2>1, RoundUp, ClearFacts
<1>2. CASE NumClear(map) < n
  BY <1>2 DEF Allocate
<1>3. CASE ~(NumClear(map) < n)
  <2>1. Allocate(map, size) = [numBytes |-> size, dataSectors |-> ds]
    BY <1>3 DEF Allocate
  <2>2. n <= NumClear(map)
    BY <1>1, <1>3
  <2>3. /\ ds \in [1..n -> Sectors]
        /\ \A i \in 1..n : ds[i] \notin map
        /\ \A i, j \in 1..n : ds[i] = ds[j] => i = j
    BY <1>1, <2>2, FirstClearFacts
  <2> HIDE DEF ds, n
  <2>4. ds \in Seq(Sectors) /\ DOMAIN ds = 1..n
    BY <1>1, <2>3
  <2>5. Allocate(map, size) \in FileHeader
    BY <2>1, <2>4 DEF FileHeader
  <2>6. Allocate(map, size) # NULL
    BY <2>5, DiskFSAssumption
  <2>7. GoodHdr(Allocate(map, size))
    BY <2>1, <2>3, <2>4, <2>5 DEF GoodHdr, n
  <2>8. Range(ds) \cap map = {}
    BY <2>3 DEF Range
  <2> QED
    BY <1>3, <2>1, <2>3, <2>6, <2>7, <2>8 DEF n
<1> QED
  BY <1>2, <1>3

\* Where Format puts the two system files.
LEMMA SystemFacts ==
  /\ SystemSectors = {0, 1, MapData} \cup DirSectors /\ SystemSectors \subseteq Sectors
  /\ MapData \notin {0, 1} \cup DirSectors /\ DirSectors \cap {0, 1} = {}
  /\ DirData[1] # DirData[2] /\ DirData[1] \in DirSectors /\ DirData[2] \in DirSectors
  /\ MapHdr \in FileHeader /\ DirHdr \in FileHeader
<1> DEFINE m0 == {FreeMapSector, DirectorySector}
           m1 == m0 \cup Range(MapHdr.dataSectors)
<1>1. DivRoundUp(SectorSize, SectorSize) = 1 /\ SectorSize \in 0..MaxFileSize
  <2>1. SectorSize \in Nat \ {0} /\ NumDirect \in Nat \ {0}
    BY DiskFSAssumption, SMT
  <2>2. SectorSize <= NumDirect * SectorSize /\ NumDirect * SectorSize \in Nat
    BY <2>1
  <2> QED
    BY <2>1, <2>2, OneSector DEF MaxFileSize
<1>2. NumClear({}) = NumSectors /\ NumSectors \in Nat /\ NumSectors >= 5
  <2>1. Sectors \ {} = Sectors
    OBVIOUS
  <2> QED
    BY <2>1, SectorsFinite, DiskFSAssumption DEF NumClear
<1>3. NumClear(m0) = NumSectors - 2
  <2>1. 0 \in Sectors \ {} /\ 1 \in Sectors \ ({} \cup {0}) /\ m0 = ({} \cup {0}) \cup {1}
    BY SectorsFinite DEF FreeMapSector, DirectorySector
  <2>2. NumClear({} \cup {0}) = NumClear({}) - 1
    BY <2>1, ClearFacts
  <2>3. NumClear(m0) = NumClear({} \cup {0}) - 1
    <3> HIDE DEF m0
    <3> QED
      BY <2>1, ClearFacts
  <2> QED
    BY <1>2, <2>2, <2>3
<1>4. /\ GoodHdr(MapHdr) /\ MapHdr.dataSectors \in [1..1 -> Sectors]
      /\ Range(MapHdr.dataSectors) \cap m0 = {}
  <2>1. ~(NumClear(m0) < DivRoundUp(SectorSize, SectorSize))
    BY <1>1, <1>2, <1>3
  <2> HIDE DEF m0
  <2>2. MapHdr = Allocate(m0, SectorSize)
    BY DEF MapHdr, m0
  <2> QED
    BY <1>1, <2>1, <2>2, AllocateFacts
<1>5. Range(MapHdr.dataSectors) = {MapData} /\ MapData \in Sectors \ m0
  <2>1. Range(MapHdr.dataSectors) = {MapHdr.dataSectors[1]}
    BY <1>4 DEF Range
  <2>2. MapHdr.dataSectors[1] = MapData
    BY DEF MapData
  <2>3. Range(MapHdr.dataSectors) = {MapData}
    BY <2>1, <2>2
  <2> HIDE DEF m0
  <2> QED
    BY <1>4, <2>2, <2>3
<1>6. NumClear(m1) = NumSectors - 3
  <2>1. NumClear(m0 \cup {MapData}) = NumClear(m0) - 1
    BY <1>5, ClearFacts
  <2> QED
    BY <1>2, <1>3, <1>5, <2>1
<1>20. DivRoundUp(DirectoryFileSize, SectorSize) = 2 /\ DirectoryFileSize \in 0..MaxFileSize
  <2>1. /\ SectorSize \in Nat \ {0} /\ NumDirect \in Nat /\ NumDirect >= 2
        /\ DirectoryFileSize \in (SectorSize + 1)..(2 * SectorSize)
    BY DiskFSAssumption
  <2>2. SectorSize * 2 <= SectorSize * NumDirect /\ SectorSize * NumDirect \in Int
    BY <2>1, Multiples
  <2>3. DirectoryFileSize \in Nat /\ DirectoryFileSize <= NumDirect * SectorSize
    BY <2>1, <2>2
  <2>4. DivRoundUp(DirectoryFileSize, SectorSize) = 2
    BY <2>1, TwoSectors
  <2>5. NumDirect * SectorSize \in Int
    BY <2>1, <2>2
  <2> QED
    BY <2>3, <2>4, <2>5 DEF MaxFileSize
<1>7. /\ GoodHdr(DirHdr) /\ DirHdr.dataSectors \in [1..2 -> Sectors]
      /\ Range(DirHdr.dataSectors) \cap m1 = {}
  <2>1. ~(NumClear(m1) < DivRoundUp(DirectoryFileSize, SectorSize))
    BY <1>2, <1>6, <1>20
  <2> HIDE DEF m1
  <2>2. DirHdr = Allocate(m1, DirectoryFileSize)
    BY DEF DirHdr, m1
  <2> QED
    BY <1>20, <2>1, <2>2, AllocateFacts
<1>8. /\ Range(DirHdr.dataSectors) = DirSectors /\ DirSectors \subseteq Sectors \ m1
      /\ DirData[1] # DirData[2]
  <2>1. Range(DirHdr.dataSectors) = {DirHdr.dataSectors[1], DirHdr.dataSectors[2]}
    <3>1. 1..2 = {1, 2}
      OBVIOUS
    <3> QED
      BY <1>7, <3>1 DEF Range
  <2>2. DirHdr.dataSectors = DirData
    BY DEF DirData
  <2>3. Range(DirHdr.dataSectors) = DirSectors
    BY <2>1, <2>2 DEF DirSectors
  <2>4. DirData[1] # DirData[2]
    <3>1. DOMAIN DirData = 1..2 /\ 1 \in 1..2 /\ 2 \in 1..2
      BY <1>7, <2>2
    <3>2. \A k, l \in DOMAIN DirData : DirData[k] = DirData[l] => k = l
      BY <1>7, <2>2 DEF GoodHdr
    <3> QED
      BY <3>1, <3>2
  <2>5. DirSectors \subseteq Sectors
    BY <1>7, <2>2 DEF DirSectors
  <2> HIDE DEF m1
  <2> QED
    BY <1>7, <2>3, <2>4, <2>5
<1>9. m0 = {0, 1} /\ m0 \subseteq Sectors
  BY SectorsFinite DEF FreeMapSector, DirectorySector
<1>10. SystemSectors = m0 \cup {MapData} \cup DirSectors
  BY <1>5, <1>8 DEF SystemSectors
<1>11. MapHdr \in FileHeader /\ DirHdr \in FileHeader
  BY <1>4, <1>7 DEF GoodHdr
<1>12. MapData \notin {0, 1} \cup DirSectors /\ MapData \in Sectors
  BY <1>5, <1>8, <1>9
<1>13. DirSectors \cap {0, 1} = {} /\ DirData[1] \in DirSectors /\ DirData[2] \in DirSectors
  BY <1>8, <1>9 DEF DirSectors
<1> HIDE DEF m0
<1> QED
  BY <1>8, <1>9, <1>10, <1>11, <1>12, <1>13

\* Where the fields of an entry lie.
LEMMA PlaceFacts ==
  ASSUME NEW i \in Entries
  PROVE  /\ HeadAt[i] \in {1, 2} /\ NameAt[i] \in {1, 2}
         /\ HeadAt[i] = 2 => NameAt[i] = 2
         /\ DirData[HeadAt[i]] \in DirSectors /\ DirData[NameAt[i]] \in DirSectors
<1>1. HeadAt[i] \in 1..2 /\ NameAt[i] \in 1..2 /\ HeadAt[i] <= NameAt[i]
  BY DiskFSAssumption
<1>2. HeadAt[i] \in {1, 2} /\ NameAt[i] \in {1, 2}
  BY <1>1
<1> QED
  BY <1>1, <1>2 DEF DirSectors

-----------------------------------------------------------------------------
(* One write to a disk.                                                    *)

\* What the sectors of a typed disk hold.
LEMMA ContentFacts ==
  ASSUME NEW v \in Content
  PROVE  /\ v = <<v[1], v[2]>>
         /\ v[1] = "hdr" => v[2] \in FileHeader
         /\ v[1] = "map" => v[2] \in Bitmap
         /\ v[1] = "dir" => v[2] \in [Entries -> DirectoryEntry]
         /\ v[1] = "data" => v[2] \in [0..(SectorSize - 1) -> Bytes \cup {Junk}]
         /\ v[1] \in {"hdr", "map", "dir", "data"}
BY DEF Content

\* A sector of the disk holds one of the four kinds.
LEMMA ContentType ==
  /\ \A h \in FileHeader : Hdr(h) \in Content
  /\ \A m \in Bitmap : Map(m) \in Content
  /\ \A d \in [Entries -> DirectoryEntry] : Dir(d) \in Content
BY DEF Content, Hdr, Map, Dir

\* The kinds of system sector that an operation looks at.
LEMMA DirType ==
  ASSUME NEW d \in [Sectors -> Content], HasDir(d)
  PROVE  DirOf(d) \in [Entries -> DirectoryEntry]
<1>1. /\ d[DirData[1]] \in Content /\ d[DirData[2]] \in Content
  BY SystemFacts
<1>2. \A r \in DirSectors : d[r][2] \in [Entries -> DirectoryEntry]
  BY <1>1, ContentFacts DEF HasDir, DirSectors
<1>3. ASSUME NEW i \in Entries
      PROVE  [inUse |-> d[DirData[HeadAt[i]]][2][i].inUse,
              sector |-> d[DirData[HeadAt[i]]][2][i].sector,
              name |-> d[DirData[NameAt[i]]][2][i].name] \in DirectoryEntry
  <2>1. /\ d[DirData[HeadAt[i]]][2][i] \in DirectoryEntry
        /\ d[DirData[NameAt[i]]][2][i] \in DirectoryEntry
    BY <1>2, PlaceFacts
  <2> QED
    BY <2>1 DEF DirectoryEntry
<1> QED
  BY <1>3 DEF DirOf, DirectoryOn

\* The fields of an entry, and when two of them are the same.
LEMMA EntryIs ==
  ASSUME NEW d, NEW i \in Entries
  PROVE  /\ DirOf(d)[i] = [inUse |-> DirOf(d)[i].inUse, sector |-> DirOf(d)[i].sector,
                           name |-> DirOf(d)[i].name]
         /\ DirOf(d)[i].inUse = d[DirData[HeadAt[i]]][2][i].inUse
         /\ DirOf(d)[i].sector = d[DirData[HeadAt[i]]][2][i].sector
         /\ DirOf(d)[i].name = d[DirData[NameAt[i]]][2][i].name
BY DEF DirOf, DirectoryOn

\* What a directory's two sectors hold is a directory's.
LEMMA PartType ==
  ASSUME NEW dir \in [Entries -> DirectoryEntry], NEW k
  PROVE  Part(dir, k) \in [Entries -> DirectoryEntry]
<1>1. ASSUME NEW i \in Entries
      PROVE  [inUse |-> HeadAt[i] = k /\ dir[i].inUse,
              sector |-> IF HeadAt[i] = k THEN dir[i].sector ELSE 0,
              name |-> IF NameAt[i] = k THEN dir[i].name ELSE NULL] \in DirectoryEntry
  <2>1. dir[i].inUse \in BOOLEAN /\ dir[i].sector \in Sectors /\ dir[i].name \in Names \cup {NULL}
    BY DEF DirectoryEntry
  <2>2. (HeadAt[i] = k /\ dir[i].inUse) \in BOOLEAN
    OBVIOUS
  <2> QED
    BY <2>1, <2>2, SectorsFinite DEF DirectoryEntry
<1> QED
  BY <1>1 DEF Part

\* The write of a sector of a directory is one of the disk's.
LEMMA PartWriteType ==
  ASSUME NEW dir \in [Entries -> DirectoryEntry], NEW k \in {1, 2}
  PROVE  WritePart(dir, k) \in Sectors \X Content
<1>1. Part(dir, k) \in [Entries -> DirectoryEntry]
  BY PartType
<1>2. DirData[k] \in Sectors
  BY SystemFacts
<1> QED
  BY <1>1, <1>2, ContentType DEF WritePart

\* Sequences that agree one by one.
LEMMA SameTuple ==
  ASSUME NEW S, NEW w \in Seq(S), NEW t \in Seq(S), NEW n \in 3..5, Len(w) = n, Len(t) = n,
         w[1] = t[1], w[2] = t[2], w[3] = t[3], n > 3 => w[4] = t[4], n > 4 => w[5] = t[5]
  PROVE  w = t
<1>1. ASSUME NEW i \in 1..n PROVE w[i] = t[i]
  <2>1. i = 1 \/ i = 2 \/ i = 3 \/ (i = 4 /\ n > 3) \/ (i = 5 /\ n > 4)
    OBVIOUS
  <2> QED
    BY <2>1
<1> QED
  BY <1>1, SeqEqual

\* Writes that are put one after the other.
Joined(a, b, c, u, v) ==
  /\ <<a, b, c>> \o <<u, v>> = <<a, b, c, u, v>>
  /\ <<a>> \o <<u, v>> \o <<b>> = <<a, u, v, b>>
  /\ <<a>> \o <<u, v>> = <<a, u, v>>

LEMMA Concatenations ==
  ASSUME NEW a, NEW b, NEW c, NEW u, NEW v
  PROVE  Joined(a, b, c, u, v)
<1> DEFINE S == {a, b, c, u, v}
           x == <<a, b, c>>
           y == <<u, v>>
           z == <<a, u, v>>
<1>1. x \in Seq(S) /\ y \in Seq(S) /\ z \in Seq(S) /\ <<a>> \in Seq(S) /\ <<b>> \in Seq(S)
  OBVIOUS
<1>2. Len(x) = 3 /\ Len(y) = 2 /\ Len(z) = 3 /\ Len(<<a>>) = 1 /\ Len(<<b>>) = 1
  OBVIOUS
<1>3. x \o y = <<a, b, c, u, v>>
  <2> DEFINE w == x \o y
             t == <<a, b, c, u, v>>
  <2>1. w \in Seq(S) /\ Len(w) = 5
    BY <1>1, <1>2
  <2>2. w[1] = a /\ w[2] = b /\ w[3] = c /\ w[4] = u /\ w[5] = v
    BY <1>1, <1>2
  <2>3. /\ t \in Seq(S) /\ Len(t) = 5
        /\ t[1] = a /\ t[2] = b /\ t[3] = c /\ t[4] = u /\ t[5] = v
    OBVIOUS
  <2> HIDE DEF S, w, t
  <2>4. w = t
    BY <2>1, <2>2, <2>3, SameTuple
  <2> QED
    BY <2>4 DEF w, t
<1>4. <<a>> \o y = z
  <2> DEFINE w == <<a>> \o y
  <2>1. w \in Seq(S) /\ Len(w) = 3
    BY <1>1, <1>2
  <2>2. w[1] = a /\ w[2] = u /\ w[3] = v
    BY <1>1, <1>2
  <2>3. z[1] = a /\ z[2] = u /\ z[3] = v
    OBVIOUS
  <2> HIDE DEF S, w, z
  <2>4. w = z
    BY <1>1, <1>2, <2>1, <2>2, <2>3, SameTuple
  <2> QED
    BY <2>4 DEF w
<1>5. z \o <<b>> = <<a, u, v, b>>
  <2> DEFINE w == z \o <<b>>
             t == <<a, u, v, b>>
  <2>1. w \in Seq(S) /\ Len(w) = 4
    BY <1>1, <1>2
  <2>2. w[1] = a /\ w[2] = u /\ w[3] = v /\ w[4] = b
    BY <1>1, <1>2
  <2>3. /\ t \in Seq(S) /\ Len(t) = 4
        /\ t[1] = a /\ t[2] = u /\ t[3] = v /\ t[4] = b
    OBVIOUS
  <2> HIDE DEF S, w, t
  <2>4. w = t
    BY <2>1, <2>2, <2>3, SameTuple
  <2> QED
    BY <2>4 DEF w, t
<1> QED
  BY <1>3, <1>4, <1>5 DEF Joined

\* The fields of entry i after sector k of the directory dir was written.
NewFields(d, e, dir, k, i) ==
  /\ HeadAt[i] = k => /\ DirOf(e)[i].inUse = dir[i].inUse
                      /\ DirOf(e)[i].sector = dir[i].sector
  /\ HeadAt[i] # k => /\ DirOf(e)[i].inUse = DirOf(d)[i].inUse
                      /\ DirOf(e)[i].sector = DirOf(d)[i].sector
  /\ NameAt[i] = k => DirOf(e)[i].name = dir[i].name
  /\ NameAt[i] # k => DirOf(e)[i].name = DirOf(d)[i].name

LEMMA PartEntry ==
  ASSUME NEW d, NEW e, NEW k, NEW dir \in [Entries -> DirectoryEntry],
         e[DirData[k]][2] = Part(dir, k),
         \A l \in {1, 2} : l # k => e[DirData[l]] = d[DirData[l]],
         NEW i \in Entries
  PROVE  NewFields(d, e, dir, k, i)
<1>1. /\ DirOf(e)[i].inUse = e[DirData[HeadAt[i]]][2][i].inUse
      /\ DirOf(e)[i].sector = e[DirData[HeadAt[i]]][2][i].sector
      /\ DirOf(e)[i].name = e[DirData[NameAt[i]]][2][i].name
  BY EntryIs, Zenon
<1>2. /\ DirOf(d)[i].inUse = d[DirData[HeadAt[i]]][2][i].inUse
      /\ DirOf(d)[i].sector = d[DirData[HeadAt[i]]][2][i].sector
      /\ DirOf(d)[i].name = d[DirData[NameAt[i]]][2][i].name
  BY EntryIs, Zenon
<1>3. HeadAt[i] \in {1, 2} /\ NameAt[i] \in {1, 2}
  BY PlaceFacts
<1>4. ASSUME HeadAt[i] = k
      PROVE  DirOf(e)[i].inUse = dir[i].inUse /\ DirOf(e)[i].sector = dir[i].sector
  <2>1. dir[i].inUse \in BOOLEAN
    BY DEF DirectoryEntry
  <2>2. Part(dir, k)[i].inUse = dir[i].inUse /\ Part(dir, k)[i].sector = dir[i].sector
    BY <1>4, <2>1 DEF Part
  <2>3. /\ DirOf(e)[i].inUse = e[DirData[k]][2][i].inUse
        /\ DirOf(e)[i].sector = e[DirData[k]][2][i].sector
    BY <1>1, <1>4, Zenon
  <2> QED
    BY <2>2, <2>3, Zenon
<1>5. ASSUME HeadAt[i] # k
      PROVE  DirOf(e)[i].inUse = DirOf(d)[i].inUse /\ DirOf(e)[i].sector = DirOf(d)[i].sector
  <2>1. e[DirData[HeadAt[i]]] = d[DirData[HeadAt[i]]]
    BY <1>3, <1>5
  <2> QED
    BY <1>1, <1>2, <2>1, Zenon
<1>6. ASSUME NameAt[i] = k PROVE DirOf(e)[i].name = dir[i].name
  <2>1. Part(dir, k)[i].name = dir[i].name
    BY <1>6 DEF Part
  <2>2. DirOf(e)[i].name = e[DirData[k]][2][i].name
    BY <1>1, <1>6, Zenon
  <2> QED
    BY <2>1, <2>2, Zenon
<1>7. ASSUME NameAt[i] # k PROVE DirOf(e)[i].name = DirOf(d)[i].name
  <2>1. e[DirData[NameAt[i]]] = d[DirData[NameAt[i]]]
    BY <1>3, <1>7
  <2> QED
    BY <1>1, <1>2, <2>1, Zenon
<1> QED
  BY <1>4, <1>5, <1>6, <1>7, Zenon DEF NewFields

\* One sector of the directory is written: the fields in it are the new ones.
PartWrite(d, e, dir, k) ==
  /\ d \in [Sectors -> Content] /\ k \in {1, 2} /\ dir \in [Entries -> DirectoryEntry]
  /\ e = [d EXCEPT ![DirData[k]] = Dir(Part(dir, k))]

PartDone(d, e, dir, k) ==
  /\ e \in [Sectors -> Content] /\ e[DirData[k]] = Dir(Part(dir, k))
  /\ \A r \in Sectors : r # DirData[k] => e[r] = d[r]
  /\ \A r \in Sectors : r \notin DirSectors => e[r] = d[r]
  /\ e[DirData[k]][1] = "dir" /\ e[MapData] = d[MapData]
  /\ HasDir(d) => HasDir(e)
  /\ \A i \in Entries : NewFields(d, e, dir, k, i)

LEMMA PartWritten ==
  ASSUME NEW d, NEW e, NEW dir, NEW k, PartWrite(d, e, dir, k)
  PROVE  PartDone(d, e, dir, k)
<1> USE DEF PartWrite
<1>1. DirData[k] \in DirSectors /\ DirData[k] \in Sectors /\ MapData # DirData[k] /\ MapData \in Sectors
  BY SystemFacts DEF DirSectors
<1>2. Dir(Part(dir, k)) \in Content
  BY PartType, ContentType
<1>3. e \in [Sectors -> Content] /\ e[DirData[k]] = Dir(Part(dir, k))
  BY <1>1, <1>2
<1>4. \A r \in Sectors : r # DirData[k] => e[r] = d[r]
  BY <1>1
<1>5. e[DirData[k]][1] = "dir" /\ e[DirData[k]][2] = Part(dir, k)
  BY <1>3 DEF Dir
<1>6. \A l \in {1, 2} : l # k => e[DirData[l]] = d[DirData[l]]
  <2>1. ASSUME NEW l \in {1, 2}, l # k PROVE DirData[l] # DirData[k] /\ DirData[l] \in Sectors
    BY <2>1, SystemFacts
  <2> QED
    BY <1>4, <2>1
<1>7. \A r \in Sectors : r \notin DirSectors => e[r] = d[r]
  BY <1>1, <1>4
<1>8. e[MapData] = d[MapData]
  BY <1>1, <1>4
<1>9. HasDir(d) => HasDir(e)
  BY <1>5, <1>6 DEF HasDir
<1>10. dir \in [Entries -> DirectoryEntry]
  OBVIOUS
<1>11. \A i \in Entries : NewFields(d, e, dir, k, i)
  <2> HIDE DEF PartWrite
  <2> QED
    BY <1>5, <1>6, <1>10, PartEntry, Zenon
<1> QED
  BY <1>3, <1>4, <1>5, <1>7, <1>8, <1>9, <1>11 DEF PartDone

\* An entry in use has a header, which is not a system sector.
LEMMA EntryFacts ==
  ASSUME NEW d \in [Sectors -> Content], HasDir(d), FilesOK(d), NEW i \in UsedOn(d)
  PROVE  /\ i \in Entries
         /\ DirOf(d)[i].sector \in Sectors \ SystemSectors
         /\ DirOf(d)[i].sector \in Own(d, i)
         /\ GoodHdr(HdrOf(d, i))
         /\ DirOf(d)[i].sector \notin Range(HdrOf(d, i).dataSectors)
         /\ Range(HdrOf(d, i).dataSectors) \subseteq Own(d, i)
         /\ Own(d, i) \cap SystemSectors = {}
         /\ Own(d, i) \subseteq Sectors
<1>1. EntryOK(d, i) /\ i \in Entries
  BY DEF FilesOK, UsedOn
<1>2. DirOf(d)[i] \in DirectoryEntry
  BY <1>1, DirType
<1>3. DirOf(d)[i].sector \in Sectors /\ DirOf(d)[i].sector \in Own(d, i)
  BY <1>2 DEF DirectoryEntry, Own
<1>4. GoodHdr(HdrOf(d, i)) /\ HdrOf(d, i).dataSectors \in Seq(Sectors)
  BY <1>1 DEF EntryOK, GoodHdr, FileHeader
<1>5. Range(HdrOf(d, i).dataSectors) \subseteq Sectors
  BY <1>4 DEF Range
<1> QED
  BY <1>1, <1>3, <1>4, <1>5 DEF EntryOK, Own

\* Entries whose headers are the same on two disks.
LEMMA SameEntry ==
  ASSUME NEW d, NEW e, NEW i, DirOf(e)[i].sector = DirOf(d)[i].sector,
         e[DirOf(d)[i].sector] = d[DirOf(d)[i].sector]
  PROVE  /\ HdrOf(e, i) = HdrOf(d, i) /\ Own(e, i) = Own(d, i)
         /\ EntryOK(d, i) => EntryOK(e, i)
<1>1. HdrOf(e, i) = HdrOf(d, i)
  BY DEF HdrOf
<1>2. Own(e, i) = Own(d, i)
  BY <1>1 DEF Own
<1> QED
  BY <1>1, <1>2 DEF EntryOK

\* The entries J are the same on two disks, with their headers.
Kept(d, e, J) ==
  \A j \in J : /\ DirOf(e)[j] = DirOf(d)[j]
               /\ HdrOf(e, j) = HdrOf(d, j) /\ Own(e, j) = Own(d, j)

\* The files of two disks are the same ones.
SameFiles(d, e) ==
  /\ HasDir(e) <=> HasDir(d)
  /\ DirOf(e) = DirOf(d)
  /\ UsedOn(e) = UsedOn(d)
  /\ Owned(e) = Owned(d)
  /\ \A i \in UsedOn(d) : HdrOf(e, i) = HdrOf(d, i) /\ Own(e, i) = Own(d, i)

\* Two disks with the same sectors of the directory.
LEMMA SameDir ==
  ASSUME NEW d, NEW e, e[DirData[1]] = d[DirData[1]], e[DirData[2]] = d[DirData[2]]
  PROVE  (HasDir(e) <=> HasDir(d)) /\ DirOf(e) = DirOf(d) /\ UsedOn(e) = UsedOn(d)
<1>1. ASSUME NEW i \in Entries
      PROVE  /\ e[DirData[HeadAt[i]]] = d[DirData[HeadAt[i]]]
             /\ e[DirData[NameAt[i]]] = d[DirData[NameAt[i]]]
  BY PlaceFacts
<1>2. DirOf(e) = DirOf(d)
  BY <1>1, Zenon DEF DirOf, DirectoryOn
<1> QED
  BY <1>2 DEF HasDir, UsedOn

\* The names are a matter of the directory alone.
LEMMA SameNames ==
  ASSUME NEW d, NEW e, DirOf(e) = DirOf(d), UsedOn(e) = UsedOn(d)
  PROVE  (\A x : NamesOK(d, x) => NamesOK(e, x)) /\ (Behind(d) => Behind(e))
BY Zenon DEF NamesOK, Behind

\* Names that are in order are so but for an entry, and are as Format needs them.
LEMMA NamesFacts ==
  ASSUME NEW d
  PROVE  /\ NamesOK(d, 0) => (\A x : NamesOK(d, x)) /\ Behind(d)
         /\ \A x : NamesOK(d, x) /\ HeadAt[x] # 2 => Behind(d)
<1>1. UsedOn(d) \subseteq Entries /\ 0 \notin Entries
  BY DiskFSAssumption DEF UsedOn, Entries
<1>2. ASSUME NamesOK(d, 0), NEW x PROVE NamesOK(d, x)
  BY <1>1, <1>2 DEF NamesOK
<1>3. ASSUME NEW x, NamesOK(d, x), x = 0 \/ HeadAt[x] # 2 PROVE Behind(d)
  BY <1>1, <1>3 DEF NamesOK, Behind
<1> QED
  BY <1>2, <1>3

\* A write that misses the directory and the headers in use.
LEMMA WriteAway ==
  ASSUME NEW d \in [Sectors -> Content], NEW s, NEW v, HasDir(d) => FilesOK(d),
         s \notin DirSectors, HasDir(d) => \A i \in UsedOn(d) : DirOf(d)[i].sector # s,
         NEW e, e = [d EXCEPT ![s] = v]
  PROVE  /\ HasDir(e) <=> HasDir(d)
         /\ HasDir(d) => SameFiles(d, e) /\ FilesOK(e)
         /\ GoodDir(d) => GoodDir(e)
         /\ \A x : NamesOK(d, x) => NamesOK(e, x)
<1>1. e[DirData[1]] = d[DirData[1]] /\ e[DirData[2]] = d[DirData[2]]
  BY SystemFacts
<1>2. (HasDir(e) <=> HasDir(d)) /\ DirOf(e) = DirOf(d) /\ UsedOn(e) = UsedOn(d)
  BY <1>1, SameDir, Zenon
<1>3. ASSUME HasDir(d) PROVE SameFiles(d, e) /\ FilesOK(e)
  <2>1. ASSUME NEW i \in UsedOn(d)
        PROVE  /\ HdrOf(e, i) = HdrOf(d, i) /\ Own(e, i) = Own(d, i)
               /\ EntryOK(d, i) => EntryOK(e, i)
    <3>1. e[DirOf(d)[i].sector] = d[DirOf(d)[i].sector]
      BY <1>3, EntryFacts
    <3> QED
      BY <1>2, <3>1, SameEntry
  <2>2. {Own(e, i) : i \in UsedOn(e)} = {Own(d, i) : i \in UsedOn(d)}
    BY <1>2, <2>1
  <2>3. Owned(e) = Owned(d)
    BY <2>2 DEF Owned
  <2>4. SameFiles(d, e)
    BY <1>2, <2>1, <2>3 DEF SameFiles
  <2>5. FilesOK(e)
    <3>1. \A i \in UsedOn(e) : EntryOK(e, i)
      BY <1>2, <1>3, <2>1 DEF FilesOK
    <3>2. ASSUME NEW i \in UsedOn(d), NEW j \in UsedOn(d), i # j PROVE Apart(e, i, j)
      <4>1. Apart(d, i, j)
        BY <1>3, <3>2 DEF FilesOK
      <4> QED
        BY <1>2, <2>1, <4>1 DEF Apart
    <3> QED
      BY <1>2, <3>1, <3>2 DEF FilesOK
  <2> QED
    BY <2>4, <2>5
<1>4. (\A x : NamesOK(d, x) => NamesOK(e, x)) /\ (Behind(d) => Behind(e))
  BY <1>2, SameNames, Zenon
<1>5. GoodDir(d) => GoodDir(e)
  BY <1>1, <1>2, <1>3, <1>4, Zenon DEF GoodDir
<1> QED
  BY <1>2, <1>3, <1>4, <1>5

\* Writes of a header that no file has, of the bitmap, and of a file's bytes.
FreeWrite(d, e, s, v) ==
  /\ d \in [Sectors -> Content]
  /\ HasDir(d) => FilesOK(d)
  /\ s \notin DirSectors
  /\ HasDir(d) => s \in SystemSectors \/ s \notin Owned(d)
  /\ e = [d EXCEPT ![s] = v]

Unchanged(d, e) ==
  /\ HasDir(e) <=> HasDir(d)
  /\ HasDir(d) => SameFiles(d, e) /\ FilesOK(e)
  /\ GoodDir(d) => GoodDir(e)
  /\ \A x : NamesOK(d, x) => NamesOK(e, x)

LEMMA WriteFree ==
  ASSUME NEW d, NEW e, NEW s, NEW v, FreeWrite(d, e, s, v)
  PROVE  Unchanged(d, e)
<1> USE DEF FreeWrite
<1>1. ASSUME HasDir(d), NEW i \in UsedOn(d) PROVE DirOf(d)[i].sector # s
  <2>1. DirOf(d)[i].sector \notin SystemSectors /\ DirOf(d)[i].sector \in Own(d, i)
    BY <1>1, EntryFacts
  <2>2. DirOf(d)[i].sector \in Owned(d)
    BY <2>1 DEF Owned
  <2> QED
    BY <1>1, <2>1, <2>2
<1> QED
  BY <1>1, WriteAway, Zenon DEF Unchanged

\* WriteAt writes a data sector of one file: the files stay where they are.
BytesWrite(d, e, i, s, v) ==
  /\ d \in [Sectors -> Content] /\ HasDir(d) /\ FilesOK(d)
  /\ i \in UsedOn(d) /\ s \in Range(HdrOf(d, i).dataSectors)
  /\ e = [d EXCEPT ![s] = v]

LEMMA WriteBytes ==
  ASSUME NEW d, NEW e, NEW i, NEW s, NEW v, BytesWrite(d, e, i, s, v)
  PROVE  s \notin SystemSectors /\ Unchanged(d, e)
<1> USE DEF BytesWrite
<1>1. s \in Own(d, i) /\ s \notin SystemSectors /\ DirOf(d)[i].sector # s
  BY EntryFacts
<1>2. ASSUME NEW j \in UsedOn(d) PROVE DirOf(d)[j].sector # s
  <2>1. CASE j = i
    BY <1>1, <2>1
  <2>2. CASE j # i
    <3>1. Own(d, i) \cap Own(d, j) = {}
      BY <2>2 DEF FilesOK, Apart
    <3>2. DirOf(d)[j].sector \in Own(d, j)
      BY EntryFacts
    <3> QED
      BY <1>1, <3>1, <3>2
  <2> QED
    BY <2>1, <2>2
<1>3. s \notin DirSectors
  BY <1>1, SystemFacts
<1>4. Unchanged(d, e)
  BY <1>2, <1>3, WriteAway, Zenon DEF Unchanged
<1> QED
  BY <1>1, <1>4

\* The sectors that are owned, one by one.
LEMMA OwnedIs ==
  ASSUME NEW d
  PROVE  \A x : x \in Owned(d) <=> x \in SystemSectors \/ \E i \in UsedOn(d) : x \in Own(d, i)
BY Zenon DEF Owned

\* Two disks with directories that agree outside of these.
Off(d, e) ==
  /\ d \in [Sectors -> Content] /\ e \in [Sectors -> Content]
  /\ HasDir(d) /\ HasDir(e) /\ FilesOK(d)
  /\ \A r \in Sectors : r \notin DirSectors => e[r] = d[r]

\* Entries of e that are entries of d, perhaps under another name.
LEMMA HeadsKept ==
  ASSUME NEW d, NEW e, Off(d, e), NEW J \in SUBSET UsedOn(d),
         \A j \in J : DirOf(e)[j].sector = DirOf(d)[j].sector
  PROVE  /\ \A j \in J : /\ HdrOf(e, j) = HdrOf(d, j) /\ Own(e, j) = Own(d, j)
                         /\ EntryOK(e, j)
         /\ \A i, j \in J : i # j => Apart(e, i, j)
         /\ UsedOn(e) = J => FilesOK(e)
<1>1. ASSUME NEW j \in J
      PROVE  /\ HdrOf(e, j) = HdrOf(d, j) /\ Own(e, j) = Own(d, j)
             /\ EntryOK(e, j)
  <2>1. DirOf(d)[j].sector \in Sectors \ SystemSectors /\ EntryOK(d, j)
    BY EntryFacts DEF Off, FilesOK
  <2>2. DirOf(d)[j].sector \notin DirSectors
    BY <2>1, SystemFacts
  <2>3. e[DirOf(d)[j].sector] = d[DirOf(d)[j].sector]
    BY <2>1, <2>2 DEF Off
  <2> QED
    BY <2>1, <2>3, SameEntry
<1>2. ASSUME NEW i \in J, NEW j \in J, i # j PROVE Apart(e, i, j)
  <2>1. Apart(d, i, j)
    BY <1>2 DEF Off, FilesOK
  <2> QED
    BY <1>1, <2>1 DEF Apart
<1> QED
  BY <1>1, <1>2 DEF FilesOK

\* The files are the same ones, perhaps under another name.
LEMMA HeadsSame ==
  ASSUME NEW d, NEW e, Off(d, e), UsedOn(e) = UsedOn(d),
         \A j \in UsedOn(d) : DirOf(e)[j].sector = DirOf(d)[j].sector
  PROVE  /\ FilesOK(e) /\ Owned(e) = Owned(d)
         /\ \A j \in UsedOn(d) : HdrOf(e, j) = HdrOf(d, j) /\ Own(e, j) = Own(d, j)
<1>1. UsedOn(d) \in SUBSET UsedOn(d)
  OBVIOUS
<1>2. /\ \A j \in UsedOn(d) : HdrOf(e, j) = HdrOf(d, j) /\ Own(e, j) = Own(d, j)
      /\ FilesOK(e)
  BY <1>1, HeadsKept
<1>3. {Own(e, i) : i \in UsedOn(e)} = {Own(d, i) : i \in UsedOn(d)}
  BY <1>2
<1> QED
  BY <1>2, <1>3 DEF Owned

\* Entry i has a new file, with the header h in sector s.
Added(d, e, i, s, h) ==
  /\ Off(d, e)
  /\ NewFile(d, i, s, h) /\ d[s] = Hdr(h)
  /\ DirOf(e)[i].inUse = TRUE /\ DirOf(e)[i].sector = s
  /\ \A j \in Entries \ {i} : DirOf(e)[j] = DirOf(d)[j]

LEMMA HeadsAdded ==
  ASSUME NEW d, NEW e, NEW i, NEW s, NEW h, Added(d, e, i, s, h)
  PROVE  /\ FilesOK(e)
         /\ UsedOn(e) = UsedOn(d) \cup {i}
         /\ HdrOf(e, i) = h
         /\ Own(e, i) = {s} \cup Range(h.dataSectors)
         /\ Kept(d, e, UsedOn(d))
         /\ Owned(e) = NewMap(d, s, h)
         /\ Owned(d) = Owned(e) \ Own(e, i)
<1>1. /\ i \in Entries /\ i \notin UsedOn(d) /\ s \in Sectors
      /\ GoodHdr(h) /\ s \notin Range(h.dataSectors)
      /\ ({s} \cup Range(h.dataSectors)) \cap Owned(d) = {}
  BY DEF NewFile, Added
<1>2. /\ Off(d, e) /\ d[s] = Hdr(h)
      /\ DirOf(e)[i].inUse = TRUE /\ DirOf(e)[i].sector = s
      /\ \A j \in Entries \ {i} : DirOf(e)[j] = DirOf(d)[j]
  BY DEF Added
<1>3. UsedOn(e) = UsedOn(d) \cup {i}
  <2>1. \A j \in Entries : j \in UsedOn(e) <=> DirOf(e)[j].inUse
    BY DEF UsedOn
  <2>2. \A j \in Entries : j \in UsedOn(d) <=> DirOf(d)[j].inUse
    BY DEF UsedOn
  <2>3. UsedOn(e) \subseteq Entries /\ UsedOn(d) \subseteq Entries
    BY DEF UsedOn
  <2> QED
    BY <1>1, <1>2, <2>1, <2>2, <2>3, ZenonT(60)
<1>4. s \notin SystemSectors /\ s \notin DirSectors
  BY <1>1, SystemFacts DEF Owned
<1>5. /\ HdrOf(e, i) = h
      /\ Own(e, i) = {s} \cup Range(h.dataSectors)
      /\ EntryOK(e, i)
  <2>1. e[s] = Hdr(h)
    BY <1>1, <1>2, <1>4 DEF Off
  <2>2. HdrOf(e, i) = h /\ e[s][1] = "hdr"
    BY <1>2, <2>1 DEF HdrOf, Hdr
  <2>3. Own(e, i) = {s} \cup Range(h.dataSectors)
    BY <1>2, <2>2 DEF Own
  <2>4. Own(e, i) \cap SystemSectors = {}
    BY <1>1, <2>3 DEF Owned
  <2> QED
    BY <1>1, <1>2, <2>2, <2>3, <2>4 DEF EntryOK
<1>6. \A j \in UsedOn(d) : j # i /\ j \in Entries /\ DirOf(e)[j] = DirOf(d)[j]
  BY <1>1, <1>2 DEF UsedOn
<1>7. /\ \A j \in UsedOn(d) : /\ HdrOf(e, j) = HdrOf(d, j) /\ Own(e, j) = Own(d, j)
                              /\ EntryOK(e, j)
      /\ \A j, k \in UsedOn(d) : j # k => Apart(e, j, k)
  <2>1. UsedOn(d) \in SUBSET UsedOn(d)
    OBVIOUS
  <2>2. \A j \in UsedOn(d) : DirOf(e)[j].sector = DirOf(d)[j].sector
    BY <1>6
  <2> QED
    BY <1>2, <2>1, <2>2, HeadsKept
<1>8. \A j \in UsedOn(d) : Own(d, j) \subseteq Owned(d)
  BY Zenon DEF Owned
<1>9. FilesOK(e)
  <2>1. \A j \in UsedOn(e) : EntryOK(e, j)
    BY <1>3, <1>5, <1>7
  <2>2. ASSUME NEW j \in UsedOn(d)
        PROVE  Apart(e, i, j) /\ Apart(e, j, i)
    BY <1>1, <1>5, <1>7, <1>8 DEF Apart
  <2> QED
    BY <1>3, <1>7, <2>1, <2>2 DEF FilesOK
<1>10. Owned(e) = NewMap(d, s, h)
  <2>1. \A x : x \in Owned(e) <=> x \in SystemSectors \/ \E j \in UsedOn(e) : x \in Own(e, j)
    BY OwnedIs
  <2>2. \A x : x \in Owned(d) <=> x \in SystemSectors \/ \E j \in UsedOn(d) : x \in Own(d, j)
    BY OwnedIs
  <2>3. \A x : x \in Owned(e) <=> x \in Owned(d) \/ x \in Own(e, i)
    BY <1>3, <1>7, <2>1, <2>2, Zenon
  <2> QED
    BY <1>5, <2>3, Zenon DEF NewMap
<1>11. Owned(d) = Owned(e) \ Own(e, i)
  BY <1>1, <1>5, <1>10 DEF NewMap
<1>12. Kept(d, e, UsedOn(d))
  BY <1>6, <1>7 DEF Kept
<1> QED
  BY <1>3, <1>5, <1>9, <1>10, <1>11, <1>12

\* Entry i is free.
Freed(d, e, i) ==
  /\ Off(d, e)
  /\ i \in UsedOn(d)
  /\ DirOf(e)[i].inUse = FALSE
  /\ \A j \in Entries \ {i} : DirOf(e)[j] = DirOf(d)[j]

LEMMA HeadsFreed ==
  ASSUME NEW d, NEW e, NEW i, Freed(d, e, i)
  PROVE  /\ FilesOK(e)
         /\ UsedOn(e) = UsedOn(d) \ {i}
         /\ Kept(d, e, UsedOn(e))
         /\ Owned(e) = Owned(d) \ Own(d, i)
<1>1. /\ Off(d, e) /\ i \in UsedOn(d) /\ i \in Entries
      /\ DirOf(e)[i].inUse = FALSE
      /\ \A j \in Entries \ {i} : DirOf(e)[j] = DirOf(d)[j]
  BY DEF Freed, UsedOn
<1>2. UsedOn(e) = UsedOn(d) \ {i}
  BY <1>1 DEF UsedOn
<1>3. \A j \in UsedOn(e) : j \in UsedOn(d) /\ DirOf(e)[j] = DirOf(d)[j]
  BY <1>1, <1>2 DEF UsedOn
<1>4. /\ \A j \in UsedOn(e) : HdrOf(e, j) = HdrOf(d, j) /\ Own(e, j) = Own(d, j)
      /\ FilesOK(e)
  <2>1. UsedOn(e) \in SUBSET UsedOn(d)
    BY <1>2
  <2>2. \A j \in UsedOn(e) : DirOf(e)[j].sector = DirOf(d)[j].sector
    BY <1>3
  <2> QED
    BY <1>1, <2>1, <2>2, HeadsKept
<1>5. Owned(e) = Owned(d) \ Own(d, i)
  <2>1. ASSUME NEW j \in UsedOn(e) PROVE Own(e, j) \cap Own(d, i) = {} /\ Own(e, j) = Own(d, j)
    <3>1. j \in UsedOn(d) /\ j # i
      BY <1>2
    <3>2. Apart(d, j, i)
      BY <1>1, <3>1 DEF Off, FilesOK
    <3> QED
      BY <1>4, <3>2 DEF Apart
  <2>2. Own(d, i) \cap SystemSectors = {}
    BY <1>1, EntryFacts DEF Off
  <2>3. ASSUME NEW x \in Owned(e) PROVE x \in Owned(d) \ Own(d, i)
    <3>1. CASE x \in SystemSectors
      BY <2>2, <3>1 DEF Owned
    <3>2. CASE x \notin SystemSectors
      <4>1. PICK j \in UsedOn(e) : x \in Own(e, j)
        BY <3>2 DEF Owned
      <4> QED
        BY <1>2, <2>1, <4>1 DEF Owned
    <3> QED
      BY <3>1, <3>2
  <2>4. ASSUME NEW x \in Owned(d) \ Own(d, i) PROVE x \in Owned(e)
    <3>1. CASE x \in SystemSectors
      BY <3>1 DEF Owned
    <3>2. CASE x \notin SystemSectors
      <4>1. PICK j \in UsedOn(d) : x \in Own(d, j)
        BY <3>2 DEF Owned
      <4>2. j \in UsedOn(e) /\ x \in Own(e, j)
        BY <1>2, <1>4, <4>1
      <4> QED
        BY <4>2 DEF Owned
    <3> QED
      BY <3>1, <3>2
  <2> QED
    BY <2>3, <2>4
<1>6. Kept(d, e, UsedOn(e))
  BY <1>3, <1>4 DEF Kept
<1> QED
  BY <1>2, <1>4, <1>5, <1>6

\* Create writes one sector of the directory: the fields of entry i in it are new.
NewPart(d, e, n, i, s, k) ==
  /\ d \in [Sectors -> Content] /\ HasDir(d) /\ FilesOK(d)
  /\ n \in Names /\ i \in Entries /\ s \in Sectors /\ k \in {1, 2}
  /\ e = [d EXCEPT ![DirData[k]] = Dir(Part(NewDir(d, n, i, s), k))]

LEMMA NewDirFacts ==
  ASSUME NEW d \in [Sectors -> Content], HasDir(d), NEW n \in Names, NEW i \in Entries,
         NEW s \in Sectors
  PROVE  /\ NewDir(d, n, i, s) \in [Entries -> DirectoryEntry]
         /\ NewDir(d, n, i, s)[i].inUse = TRUE
         /\ NewDir(d, n, i, s)[i].sector = s /\ NewDir(d, n, i, s)[i].name = n
         /\ \A j \in Entries \ {i} : NewDir(d, n, i, s)[j] = DirOf(d)[j]
<1> DEFINE new == [inUse |-> TRUE, name |-> n, sector |-> s]
<1>1. new \in DirectoryEntry /\ new.inUse = TRUE /\ new.sector = s /\ new.name = n
  BY DEF DirectoryEntry
<1>2. NewDir(d, n, i, s) = [DirOf(d) EXCEPT ![i] = new]
  BY DEF NewDir
<1>3. DirOf(d) \in [Entries -> DirectoryEntry]
  BY DirType
<1> HIDE DEF new
<1> QED
  BY <1>1, <1>2, <1>3

NewPartDone(d, e, n, i, s, k) ==
  /\ Dir(Part(NewDir(d, n, i, s), k)) \in Content
  /\ Off(d, e) /\ e[MapData] = d[MapData]
  /\ \A j \in Entries \ {i} : DirOf(e)[j] = DirOf(d)[j]
  /\ HeadAt[i] = k => DirOf(e)[i].inUse = TRUE /\ DirOf(e)[i].sector = s
  /\ HeadAt[i] # k => /\ DirOf(e)[i].inUse = DirOf(d)[i].inUse
                      /\ DirOf(e)[i].sector = DirOf(d)[i].sector
  /\ NameAt[i] = k => DirOf(e)[i].name = n
  /\ NameAt[i] # k => DirOf(e)[i].name = DirOf(d)[i].name
  /\ NewDir(e, n, i, s) = NewDir(d, n, i, s)

LEMMA WriteNewPart ==
  ASSUME NEW d, NEW e, NEW n, NEW i, NEW s, NEW k, NewPart(d, e, n, i, s, k)
  PROVE  NewPartDone(d, e, n, i, s, k)
<1> USE DEF NewPartDone
<1> DEFINE dir == NewDir(d, n, i, s)
<1>1. /\ d \in [Sectors -> Content] /\ HasDir(d) /\ FilesOK(d)
      /\ n \in Names /\ i \in Entries /\ s \in Sectors /\ k \in {1, 2}
  BY DEF NewPart
<1>10. e = [d EXCEPT ![DirData[k]] = Dir(Part(dir, k))]
  BY DEF NewPart
<1>2. /\ dir \in [Entries -> DirectoryEntry]
      /\ dir[i].inUse = TRUE /\ dir[i].sector = s /\ dir[i].name = n
      /\ \A j \in Entries \ {i} : dir[j] = DirOf(d)[j]
  <2>1. \A m \in Names, j \in Entries, r \in Sectors :
          /\ NewDir(d, m, j, r) \in [Entries -> DirectoryEntry]
          /\ NewDir(d, m, j, r)[j].inUse = TRUE
          /\ NewDir(d, m, j, r)[j].sector = r /\ NewDir(d, m, j, r)[j].name = m
          /\ \A l \in Entries \ {j} : NewDir(d, m, j, r)[l] = DirOf(d)[l]
    BY <1>1, NewDirFacts
  <2>2. /\ dir \in [Entries -> DirectoryEntry]
        /\ dir[i].inUse = TRUE
        /\ dir[i].sector = s /\ dir[i].name = n
        /\ \A l \in Entries \ {i} : dir[l] = DirOf(d)[l]
    BY <1>1, <2>1
  <2> HIDE DEF dir
  <2> QED
    BY <2>2
<1> HIDE DEF dir
<1>3. PartWrite(d, e, dir, k)
  BY <1>1, <1>2, <1>10 DEF PartWrite
<1>11. PartDone(d, e, dir, k)
  BY <1>3, PartWritten
<1>4. /\ e \in [Sectors -> Content] /\ HasDir(e) /\ e[MapData] = d[MapData]
      /\ \A r \in Sectors : r \notin DirSectors => e[r] = d[r]
      /\ \A j \in Entries : NewFields(d, e, dir, k, j)
  BY <1>1, <1>11, Zenon DEF PartDone
<1>5. Off(d, e)
  BY <1>1, <1>4 DEF Off
<1>6. ASSUME NEW j \in Entries \ {i} PROVE DirOf(e)[j] = DirOf(d)[j]
  <2>1. NewFields(d, e, dir, k, j) /\ dir[j] = DirOf(d)[j]
    BY <1>2, <1>4
  <2>2. /\ DirOf(e)[j].inUse = DirOf(d)[j].inUse
        /\ DirOf(e)[j].sector = DirOf(d)[j].sector
        /\ DirOf(e)[j].name = DirOf(d)[j].name
    BY <2>1, Zenon DEF NewFields
  <2>3. DirOf(e)[j] = [inUse |-> DirOf(e)[j].inUse, sector |-> DirOf(e)[j].sector,
                       name |-> DirOf(e)[j].name]
    BY EntryIs, Zenon
  <2>4. DirOf(d)[j] = [inUse |-> DirOf(d)[j].inUse, sector |-> DirOf(d)[j].sector,
                       name |-> DirOf(d)[j].name]
    BY EntryIs, Zenon
  <2> QED
    BY <2>2, <2>3, <2>4, Zenon
<1>7. /\ HeadAt[i] = k => DirOf(e)[i].inUse = TRUE /\ DirOf(e)[i].sector = s
      /\ HeadAt[i] # k => /\ DirOf(e)[i].inUse = DirOf(d)[i].inUse
                          /\ DirOf(e)[i].sector = DirOf(d)[i].sector
      /\ NameAt[i] = k => DirOf(e)[i].name = n
      /\ NameAt[i] # k => DirOf(e)[i].name = DirOf(d)[i].name
  <2>1. NewFields(d, e, dir, k, i)
    BY <1>1, <1>4
  <2> QED
    BY <1>2, <2>1, Zenon DEF NewFields
<1>8. NewDir(e, n, i, s) = dir
  <2> DEFINE new == [inUse |-> TRUE, name |-> n, sector |-> s]
  <2>1. NewDir(e, n, i, s) = [DirOf(e) EXCEPT ![i] = new] /\ dir = [DirOf(d) EXCEPT ![i] = new]
    BY DEF NewDir, dir
  <2>2. DirOf(e) \in [Entries -> DirectoryEntry] /\ DirOf(d) \in [Entries -> DirectoryEntry]
    BY <1>1, <1>4, DirType
  <2> HIDE DEF new
  <2> QED
    BY <1>1, <1>6, <2>1, <2>2
<1>9. Dir(Part(dir, k)) \in Content
  BY <1>2, PartType, ContentType
<1> QED
  BY <1>4, <1>5, <1>6, <1>7, <1>8, <1>9 DEF dir

\* Entry i, which is the first free one, gets a name: the names stay in order,
\* but for entry i as long as it has not got the new one.
LEMMA NamesAdded ==
  ASSUME NEW d, NEW e, NEW n, NEW i, NewName(d, n, i), NamesOK(d, i),
         \A j \in Entries \ {i} : DirOf(e)[j] = DirOf(d)[j],
         DirOf(e)[i].name \in {n, DirOf(d)[i].name}
  PROVE  /\ NewName(e, n, i) /\ NamesOK(e, i)
         /\ DirOf(e)[i].name = n => NamesOK(e, 0)
<1>1. /\ n \in Names /\ i \in Entries
      /\ \A j \in UsedOn(d) \ {i} : DirOf(d)[j].name # n
      /\ \A j \in Entries : j < i => j \in UsedOn(d)
  BY DEF NewName
<1>2. /\ UsedOn(e) \subseteq Entries /\ UsedOn(d) \subseteq Entries /\ 0 \notin Entries
      /\ \A j \in Entries \ {i} : j \in UsedOn(e) <=> j \in UsedOn(d)
  BY DiskFSAssumption DEF UsedOn, Entries
<1>3. \A j \in Entries : ~(j < j) /\ j \in Int
  BY DiskFSAssumption DEF Entries
<1>4. NewName(e, n, i)
  <2>1. \A j \in UsedOn(e) \ {i} : DirOf(e)[j].name # n
    BY <1>1, <1>2
  <2>2. \A j \in Entries : j < i => j \in UsedOn(e)
    BY <1>1, <1>2, <1>3
  <2> QED
    BY <1>1, <2>1, <2>2 DEF NewName
<1>5. ASSUME NEW j \in UsedOn(e) \ {i}
      PROVE  /\ DirOf(e)[j].name \in Names
             /\ \A k \in Entries : k < j => DirOf(e)[k].name # DirOf(e)[j].name
  <2>1. j \in UsedOn(d) \ {i} /\ DirOf(e)[j] = DirOf(d)[j] /\ DirOf(d)[j].name # n
    BY <1>1, <1>2
  <2>2. /\ DirOf(d)[j].name \in Names
        /\ \A k \in Entries : k < j => DirOf(d)[k].name # DirOf(d)[j].name
    BY <2>1 DEF NamesOK
  <2>3. ASSUME NEW k \in Entries, k < j PROVE DirOf(e)[k].name # DirOf(e)[j].name
    BY <2>1, <2>2, <2>3
  <2> QED
    BY <2>1, <2>2, <2>3
<1>6. NamesOK(e, i)
  BY <1>5 DEF NamesOK
<1>7. ASSUME DirOf(e)[i].name = n PROVE NamesOK(e, 0)
  <2>1. ASSUME NEW k \in Entries, k < i PROVE DirOf(e)[k].name # n
    BY <1>1, <1>2, <1>3, <2>1
  <2>2. ASSUME NEW j \in UsedOn(e) \ {0}
        PROVE  /\ DirOf(e)[j].name \in Names
               /\ \A k \in Entries : k < j => DirOf(e)[k].name # DirOf(e)[j].name
    BY <1>1, <1>5, <1>7, <2>1
  <2> QED
    BY <2>2 DEF NamesOK
<1> QED
  BY <1>4, <1>6, <1>7

\* An entry is freed, and the names stay as they are.
LEMMA NamesFreed ==
  ASSUME NEW d, NEW e, NamesOK(d, 0), UsedOn(e) \subseteq UsedOn(d),
         \A j \in Entries : DirOf(e)[j].name = DirOf(d)[j].name
  PROVE  NamesOK(e, 0)
<1>1. UsedOn(d) \subseteq Entries
  BY DEF UsedOn
<1> QED
  BY <1>1 DEF NamesOK

\* Remove writes one sector of the directory.
RemovedPart(d, e, i, k) ==
  /\ d \in [Sectors -> Content] /\ HasDir(d) /\ FilesOK(d)
  /\ i \in Entries /\ k \in {1, 2}
  /\ e = [d EXCEPT ![DirData[k]] = Dir(Part(Removed(d, i), k))]

LEMMA RemovedFacts ==
  ASSUME NEW d \in [Sectors -> Content], HasDir(d), NEW i \in Entries
  PROVE  /\ Removed(d, i) \in [Entries -> DirectoryEntry]
         /\ Removed(d, i)[i].inUse = FALSE
         /\ Removed(d, i)[i].sector = DirOf(d)[i].sector
         /\ Removed(d, i)[i].name = DirOf(d)[i].name
         /\ \A j \in Entries \ {i} : Removed(d, i)[j] = DirOf(d)[j]
         /\ Removed(d, i)[i] = [inUse |-> FALSE, sector |-> DirOf(d)[i].sector,
                                name |-> DirOf(d)[i].name]
<1> DEFINE r == [DirOf(d)[i] EXCEPT !.inUse = FALSE]
<1>1. DirOf(d) \in [Entries -> DirectoryEntry]
  BY DirType
<1>2. DirOf(d)[i] \in DirectoryEntry
  BY <1>1
<1>3. /\ r \in DirectoryEntry /\ r.inUse = FALSE
      /\ r.sector = DirOf(d)[i].sector /\ r.name = DirOf(d)[i].name
  BY <1>2 DEF DirectoryEntry
<1>5. r = [inUse |-> FALSE, sector |-> DirOf(d)[i].sector, name |-> DirOf(d)[i].name]
  <2>1. r = [inUse |-> r.inUse, name |-> r.name, sector |-> r.sector]
    <3> HIDE DEF r
    <3> QED
      BY <1>3 DEF DirectoryEntry
  <2> HIDE DEF r
  <2> QED
    BY <1>3, <2>1
<1>4. Removed(d, i) = [DirOf(d) EXCEPT ![i] = r]
  BY DEF Removed
<1> HIDE DEF r
<1> QED
  BY <1>1, <1>3, <1>4, <1>5

RemovedPartDone(d, e, i, k) ==
  /\ Dir(Part(Removed(d, i), k)) \in Content
  /\ Off(d, e) /\ e[MapData] = d[MapData]
  /\ \A j \in Entries \ {i} : DirOf(e)[j] = DirOf(d)[j]
  /\ HeadAt[i] = k => DirOf(e)[i].inUse = FALSE
  /\ HeadAt[i] # k => DirOf(e)[i].inUse = DirOf(d)[i].inUse
  /\ DirOf(e)[i].sector = DirOf(d)[i].sector /\ DirOf(e)[i].name = DirOf(d)[i].name
  /\ Removed(e, i) = Removed(d, i)

LEMMA WriteRemovedPart ==
  ASSUME NEW d, NEW e, NEW i, NEW k, RemovedPart(d, e, i, k)
  PROVE  RemovedPartDone(d, e, i, k)
<1> USE DEF RemovedPartDone
<1> DEFINE dir == Removed(d, i)
<1>1. /\ d \in [Sectors -> Content] /\ HasDir(d) /\ FilesOK(d)
      /\ i \in Entries /\ k \in {1, 2}
  BY DEF RemovedPart
<1>10. e = [d EXCEPT ![DirData[k]] = Dir(Part(dir, k))]
  BY DEF RemovedPart
<1>2. /\ dir \in [Entries -> DirectoryEntry]
      /\ dir[i].inUse = FALSE
      /\ dir[i].sector = DirOf(d)[i].sector /\ dir[i].name = DirOf(d)[i].name
      /\ \A j \in Entries \ {i} : dir[j] = DirOf(d)[j]
      /\ dir[i] = [inUse |-> FALSE, sector |-> DirOf(d)[i].sector, name |-> DirOf(d)[i].name]
  BY <1>1, RemovedFacts, Zenon
<1> HIDE DEF dir
<1>3. PartWrite(d, e, dir, k)
  BY <1>1, <1>2, <1>10 DEF PartWrite
<1>11. PartDone(d, e, dir, k)
  BY <1>3, PartWritten
<1>4. /\ e \in [Sectors -> Content] /\ HasDir(e) /\ e[MapData] = d[MapData]
      /\ \A r \in Sectors : r \notin DirSectors => e[r] = d[r]
      /\ \A j \in Entries : NewFields(d, e, dir, k, j)
  BY <1>1, <1>11, Zenon DEF PartDone
<1>5. Off(d, e)
  BY <1>1, <1>4 DEF Off
<1>6. ASSUME NEW j \in Entries \ {i} PROVE DirOf(e)[j] = DirOf(d)[j]
  <2>1. NewFields(d, e, dir, k, j) /\ dir[j] = DirOf(d)[j]
    BY <1>2, <1>4
  <2>2. /\ DirOf(e)[j].inUse = DirOf(d)[j].inUse
        /\ DirOf(e)[j].sector = DirOf(d)[j].sector
        /\ DirOf(e)[j].name = DirOf(d)[j].name
    BY <2>1, Zenon DEF NewFields
  <2>3. DirOf(e)[j] = [inUse |-> DirOf(e)[j].inUse, sector |-> DirOf(e)[j].sector,
                       name |-> DirOf(e)[j].name]
    BY EntryIs, Zenon
  <2>4. DirOf(d)[j] = [inUse |-> DirOf(d)[j].inUse, sector |-> DirOf(d)[j].sector,
                       name |-> DirOf(d)[j].name]
    BY EntryIs, Zenon
  <2> QED
    BY <2>2, <2>3, <2>4, Zenon
<1>7. /\ HeadAt[i] = k => DirOf(e)[i].inUse = FALSE
      /\ HeadAt[i] # k => DirOf(e)[i].inUse = DirOf(d)[i].inUse
      /\ DirOf(e)[i].sector = DirOf(d)[i].sector /\ DirOf(e)[i].name = DirOf(d)[i].name
  <2>1. NewFields(d, e, dir, k, i)
    BY <1>1, <1>4
  <2> QED
    BY <1>2, <2>1, Zenon DEF NewFields
<1>8. Removed(e, i) = dir
  <2>1. /\ Removed(e, i) \in [Entries -> DirectoryEntry]
        /\ \A j \in Entries \ {i} : Removed(e, i)[j] = DirOf(e)[j]
        /\ Removed(e, i)[i] = [inUse |-> FALSE, sector |-> DirOf(e)[i].sector,
                               name |-> DirOf(e)[i].name]
    BY <1>1, <1>4, RemovedFacts
  <2>2. \A j \in Entries : Removed(e, i)[j] = dir[j]
    <3>1. Removed(e, i)[i] = dir[i]
      BY <1>2, <1>7, <2>1, Zenon
    <3>2. \A j \in Entries \ {i} : Removed(e, i)[j] = dir[j]
      BY <1>2, <1>6, <2>1
    <3> QED
      BY <3>1, <3>2
  <2> QED
    BY <1>2, <2>1, <2>2
<1>9. Dir(Part(dir, k)) \in Content
  BY <1>2, PartType, ContentType
<1> QED
  BY <1>4, <1>5, <1>6, <1>7, <1>8, <1>9 DEF dir

\* Format makes a directory without files.
LEMMA EmptyFacts ==
  ASSUME NEW names \in Garbage
  PROVE  /\ EmptyDirectory(names) \in [Entries -> DirectoryEntry]
         /\ \A i \in Entries : EmptyDirectory(names)[i].inUse = FALSE
<1>1. names \in [Entries -> Names \cup {NULL}]
  BY DiskFSAssumption
<1> QED
  BY <1>1, SectorsFinite DEF EmptyDirectory, DirectoryEntry

\* The two sectors of an empty directory have no entry in use.
LEMMA EmptyParts ==
  ASSUME NEW e, NEW dir, \A i \in Entries : dir[i].inUse = FALSE,
         e[DirData[1]][2] = Part(dir, 1), e[DirData[2]][2] = Part(dir, 2)
  PROVE  UsedOn(e) = {}
<1>1. ASSUME NEW j \in UsedOn(e) PROVE FALSE
  <2>1. j \in Entries /\ DirOf(e)[j].inUse
    BY <1>1 DEF UsedOn
  <2>2. DirOf(e)[j].inUse = e[DirData[HeadAt[j]]][2][j].inUse
    BY <2>1, EntryIs, Zenon
  <2>3. e[DirData[HeadAt[j]]][2] = Part(dir, HeadAt[j])
    BY <2>1, PlaceFacts
  <2>4. Part(dir, HeadAt[j])[j].inUse = FALSE
    BY <2>1 DEF Part
  <2> QED
    BY <2>1, <2>2, <2>3, <2>4, Zenon
<1> QED
  BY <1>1

\* Format writes the first sector of the directory: the files whose entries
\* are in the second one stay.
EmptyFirst(d, e, names) ==
  /\ d \in [Sectors -> Content] /\ GoodDir(d) /\ names \in Garbage
  /\ e = [d EXCEPT ![DirData[1]] = Dir(Part(EmptyDirectory(names), 1))]

EmptiedFirst(d, e, names) ==
  /\ Dir(Part(EmptyDirectory(names), 1)) \in Content
  /\ e[DirData[1]] = Dir(Part(EmptyDirectory(names), 1))
  /\ GoodDir(e) /\ e[MapData] = d[MapData]
  /\ HasDir(e) => /\ Off(d, e)
                  /\ \A j \in UsedOn(e) : /\ j \in UsedOn(d) /\ HeadAt[j] = 2
                                          /\ DirOf(e)[j] = DirOf(d)[j]

LEMMA WriteEmptyFirst ==
  ASSUME NEW d, NEW e, NEW names, EmptyFirst(d, e, names)
  PROVE  EmptiedFirst(d, e, names)
<1> USE DEF EmptyFirst, EmptiedFirst
<1> DEFINE dir == EmptyDirectory(names)
<1>1. dir \in [Entries -> DirectoryEntry] /\ \A i \in Entries : dir[i].inUse = FALSE
  BY EmptyFacts
<1>2. e = [d EXCEPT ![DirData[1]] = Dir(Part(dir, 1))]
  OBVIOUS
<1>3. Dir(Part(dir, 1)) \in Content
  BY <1>1, PartType, ContentType
<1> HIDE DEF dir
<1>4. PartWrite(d, e, dir, 1)
  BY <1>1, <1>2 DEF PartWrite
<1>20. PartDone(d, e, dir, 1)
  BY <1>4, PartWritten
<1>5. /\ e \in [Sectors -> Content] /\ e[MapData] = d[MapData]
      /\ e[DirData[1]] = Dir(Part(dir, 1)) /\ e[DirData[1]][1] = "dir"
      /\ \A r \in Sectors : r # DirData[1] => e[r] = d[r]
      /\ \A r \in Sectors : r \notin DirSectors => e[r] = d[r]
      /\ \A j \in Entries : NewFields(d, e, dir, 1, j)
  BY <1>20, Zenon DEF PartDone
<1>6. e[DirData[2]] = d[DirData[2]]
  <2>1. DirData[2] \in Sectors /\ DirData[2] # DirData[1]
    BY SystemFacts
  <2> QED
    BY <1>5, <2>1
<1>7. ASSUME e[DirData[2]][1] = "dir"
      PROVE  /\ HasDir(d) /\ FilesOK(d) /\ Behind(d) /\ HasDir(e) /\ Off(d, e)
  <2>1. HasDir(d) /\ FilesOK(d) /\ Behind(d)
    BY <1>6, <1>7 DEF GoodDir
  <2>2. HasDir(e)
    BY <1>5, <1>7 DEF HasDir
  <2> QED
    BY <1>5, <2>1, <2>2 DEF Off
<1>8. ASSUME NEW j \in UsedOn(e)
      PROVE  j \in UsedOn(d) /\ HeadAt[j] = 2 /\ DirOf(e)[j] = DirOf(d)[j]
  <2>1. j \in Entries /\ DirOf(e)[j].inUse
    BY <1>8 DEF UsedOn
  <2>2. NewFields(d, e, dir, 1, j) /\ dir[j].inUse = FALSE
    BY <1>1, <1>5, <2>1
  <2>3. HeadAt[j] # 1
    BY <2>1, <2>2, Zenon DEF NewFields
  <2>4. HeadAt[j] = 2 /\ NameAt[j] = 2
    BY <2>1, <2>3, PlaceFacts
  <2>5. /\ DirOf(e)[j].inUse = DirOf(d)[j].inUse
        /\ DirOf(e)[j].sector = DirOf(d)[j].sector
        /\ DirOf(e)[j].name = DirOf(d)[j].name
    <3>1. NameAt[j] # 1
      BY <2>4
    <3> QED
      BY <2>2, <2>3, <3>1, Zenon DEF NewFields
  <2>6. DirOf(e)[j] = [inUse |-> DirOf(e)[j].inUse, sector |-> DirOf(e)[j].sector,
                       name |-> DirOf(e)[j].name]
    BY <2>1, EntryIs, Zenon
  <2>7. DirOf(d)[j] = [inUse |-> DirOf(d)[j].inUse, sector |-> DirOf(d)[j].sector,
                       name |-> DirOf(d)[j].name]
    BY <2>1, EntryIs, Zenon
  <2>8. DirOf(e)[j] = DirOf(d)[j]
    BY <2>5, <2>6, <2>7, Zenon
  <2>9. DirOf(d)[j].inUse
    BY <2>1, <2>5, Zenon
  <2> QED
    BY <2>1, <2>4, <2>8, <2>9, Zenon DEF UsedOn
<1>9. GoodDir(e)
  <2>1. ASSUME e[DirData[2]][1] = "dir" PROVE FilesOK(e) /\ Behind(e)
    <3>1. UsedOn(e) \in SUBSET UsedOn(d)
      BY <1>8
    <3>2. \A j \in UsedOn(e) : DirOf(e)[j].sector = DirOf(d)[j].sector
      BY <1>8
    <3>3. FilesOK(e)
      BY <1>7, <2>1, <3>1, <3>2, HeadsKept
    <3>4. Behind(e)
      <4>1. ASSUME NEW i \in UsedOn(e), NEW j \in UsedOn(e), HeadAt[j] = 2, i < j
            PROVE  DirOf(e)[i].name # DirOf(e)[j].name
        <5>1. DirOf(d)[i].name # DirOf(d)[j].name
          BY <1>7, <1>8, <2>1, <4>1 DEF Behind
        <5>2. DirOf(e)[i] = DirOf(d)[i] /\ DirOf(e)[j] = DirOf(d)[j]
          BY <1>8
        <5> QED
          BY <5>1, <5>2
      <4> QED
        BY <4>1 DEF Behind
    <3> QED
      BY <3>3, <3>4
  <2> QED
    BY <1>7, <2>1 DEF GoodDir
<1>10. HasDir(e) => e[DirData[2]][1] = "dir"
  BY DEF HasDir
<1> QED
  BY <1>3, <1>5, <1>7, <1>8, <1>9, <1>10 DEF dir

\* Format writes the second sector of the directory: there are no files.
EmptySecond(d, e, names) ==
  /\ d \in [Sectors -> Content] /\ names \in Garbage
  /\ d[DirData[1]] = Dir(Part(EmptyDirectory(names), 1))
  /\ e = [d EXCEPT ![DirData[2]] = Dir(Part(EmptyDirectory(names), 2))]

EmptiedSecond(d, e, names) ==
  /\ Dir(Part(EmptyDirectory(names), 2)) \in Content
  /\ GoodDir(e) /\ HasDir(e) /\ UsedOn(e) = {} /\ NamesOK(e, 0)
  /\ Owned(e) = SystemSectors /\ e[MapData] = d[MapData]

LEMMA WriteEmptySecond ==
  ASSUME NEW d, NEW e, NEW names, EmptySecond(d, e, names)
  PROVE  EmptiedSecond(d, e, names)
<1> USE DEF EmptySecond, EmptiedSecond
<1> DEFINE dir == EmptyDirectory(names)
<1>1. dir \in [Entries -> DirectoryEntry] /\ \A i \in Entries : dir[i].inUse = FALSE
  BY EmptyFacts
<1>2. e = [d EXCEPT ![DirData[2]] = Dir(Part(dir, 2))] /\ d[DirData[1]] = Dir(Part(dir, 1))
  OBVIOUS
<1>3. Dir(Part(dir, 2)) \in Content
  BY <1>1, PartType, ContentType
<1> HIDE DEF dir
<1>4. PartWrite(d, e, dir, 2)
  BY <1>1, <1>2 DEF PartWrite
<1>20. PartDone(d, e, dir, 2)
  BY <1>4, PartWritten
<1>5. /\ e \in [Sectors -> Content] /\ e[MapData] = d[MapData]
      /\ e[DirData[2]] = Dir(Part(dir, 2)) /\ e[DirData[2]][1] = "dir"
      /\ \A r \in Sectors : r # DirData[2] => e[r] = d[r]
  BY <1>20, Zenon DEF PartDone
<1>6. e[DirData[1]] = Dir(Part(dir, 1))
  <2>1. DirData[1] \in Sectors /\ DirData[2] # DirData[1]
    BY SystemFacts
  <2> QED
    BY <1>2, <1>5, <2>1
<1>7. HasDir(e)
  BY <1>5, <1>6 DEF HasDir, Dir
<1>9. UsedOn(e) = {}
  <2>1. e[DirData[1]][2] = Part(dir, 1) /\ e[DirData[2]][2] = Part(dir, 2)
    BY <1>5, <1>6 DEF Dir
  <2> QED
    BY <1>1, <2>1, EmptyParts, Zenon
<1>10. Owned(e) = SystemSectors
  BY <1>9 DEF Owned
<1>11. FilesOK(e) /\ Behind(e) /\ NamesOK(e, 0)
  BY <1>9 DEF FilesOK, Behind, NamesOK
<1> QED
  BY <1>3, <1>5, <1>7, <1>9, <1>10, <1>11 DEF GoodDir, dir

-----------------------------------------------------------------------------
(* The directory in memory.                                                *)

\* First returns the least index that satisfies P, or -1.
LEMMA FirstFacts ==
  ASSUME NEW P
  PROVE  IF \E i \in Entries : P[i]
         THEN /\ First(P) \in Entries /\ P[First(P)]
              /\ \A j \in Entries : j < First(P) => ~P[j]
         ELSE First(P) = -1
<1>1. CASE \E i \in Entries : P[i]
  <2> DEFINE T == {i \in Entries : P[i]}
  <2>1. T # {} /\ T \in SUBSET Nat /\ T \subseteq Entries
    BY <1>1, DiskFSAssumption DEF Entries
  <2>2. PICK i \in T : \A j \in T : i <= j
    <3> HIDE DEF T
    <3> QED
      BY <2>1, LeastNumber
  <2>3. i \in Entries /\ P[i] /\ i \in Nat
    BY <2>1, <2>2
  <2>4. ASSUME NEW j \in 1..(i - 1), P[j] PROVE FALSE
    <3>1. j \in Entries /\ j < i
      BY <2>3, DiskFSAssumption DEF Entries
    <3>2. i <= j
      BY <2>2, <2>4, <3>1
    <3> QED
      BY <2>3, <3>1, <3>2
  <2>5. \E k \in Entries : P[k] /\ \A j \in 1..(k - 1) : ~P[j]
    BY <2>3, <2>4
  <2>6. First(P) = CHOOSE k \in Entries : P[k] /\ \A j \in 1..(k - 1) : ~P[j]
    BY <1>1, Zenon DEF First
  <2>7. /\ First(P) \in Entries /\ P[First(P)]
        /\ \A j \in 1..(First(P) - 1) : ~P[j]
    BY <1>1, <2>5, <2>6, Zenon
  <2>8. ASSUME NEW j \in Entries, j < First(P) PROVE ~P[j]
    <3>1. j \in 1..(First(P) - 1)
      BY <2>7, <2>8, DiskFSAssumption DEF Entries
    <3> QED
      BY <2>7, <3>1
  <2> QED
    BY <1>1, <2>7, <2>8
<1>2. CASE ~(\E i \in Entries : P[i])
  BY <1>2, Zenon DEF First
<1> QED
  BY <1>1, <1>2

\* -1, with which the code says "none", is no entry and no sector.
LEMMA EntriesArePositive == -1 \notin Entries /\ -1 \notin Sectors /\ \A s \in Sectors : s >= 0
BY SectorsFinite, DiskFSAssumption DEF Entries, Sectors

\* FindIndex finds the first entry of a name.
LEMMA FindFirst ==
  ASSUME NEW d, NEW n
  PROVE  /\ (\E i \in UsedOn(d) : DirOf(d)[i].name = n) =>
              /\ FindIndex(DirOf(d), n) \in UsedOn(d)
              /\ DirOf(d)[FindIndex(DirOf(d), n)].name = n
              /\ \A j \in UsedOn(d) : j < FindIndex(DirOf(d), n) => DirOf(d)[j].name # n
              /\ Find(DirOf(d), n) = DirOf(d)[FindIndex(DirOf(d), n)].sector
         /\ (\A i \in UsedOn(d) : DirOf(d)[i].name # n) =>
              FindIndex(DirOf(d), n) = -1 /\ Find(DirOf(d), n) = -1
<1> DEFINE P == [i \in Entries |-> DirOf(d)[i].inUse /\ DirOf(d)[i].name = n]
           x == FindIndex(DirOf(d), n)
<1>1. x = First(P)
  BY DEF FindIndex
<1>2. \A i \in Entries : P[i] <=> i \in UsedOn(d) /\ DirOf(d)[i].name = n
  BY Zenon DEF UsedOn
<1>3. UsedOn(d) \subseteq Entries
  BY DEF UsedOn
<1> HIDE DEF P, x
<1>4. ASSUME NEW i \in UsedOn(d), DirOf(d)[i].name = n
      PROVE  /\ x \in UsedOn(d) /\ DirOf(d)[x].name = n
             /\ \A j \in UsedOn(d) : j < x => DirOf(d)[j].name # n
  <2>1. \E k \in Entries : P[k]
    BY <1>2, <1>3, <1>4
  <2>2. x \in Entries /\ P[x] /\ \A j \in Entries : j < x => ~P[j]
    BY <1>1, <2>1, FirstFacts
  <2> QED
    BY <1>2, <1>3, <2>2
<1>5. ASSUME \A i \in UsedOn(d) : DirOf(d)[i].name # n
      PROVE  x = -1
  <2>1. ~(\E k \in Entries : P[k])
    BY <1>2, <1>5
  <2> QED
    BY <1>1, <2>1, FirstFacts
<1>6. Find(DirOf(d), n) = IF x = -1 THEN -1 ELSE DirOf(d)[x].sector
  BY DEF Find, x
<1>7. -1 \notin UsedOn(d)
  BY <1>3, EntriesArePositive
<1> QED
  BY <1>4, <1>5, <1>6, <1>7 DEF x

\* A file is found under its own name.
LEMMA FindNamed ==
  ASSUME NEW d, NEW x, NamesOK(d, x), NEW i \in UsedOn(d) \ {x}
  PROVE  /\ FindIndex(DirOf(d), DirOf(d)[i].name) = i
         /\ Find(DirOf(d), DirOf(d)[i].name) = DirOf(d)[i].sector
<1> DEFINE n == DirOf(d)[i].name
           f == FindIndex(DirOf(d), n)
<1>1. /\ f \in UsedOn(d) /\ DirOf(d)[f].name = n
      /\ \A j \in UsedOn(d) : j < f => DirOf(d)[j].name # n
      /\ Find(DirOf(d), n) = DirOf(d)[f].sector
  BY FindFirst
<1>2. UsedOn(d) \subseteq Entries /\ Entries \subseteq Int
  BY DiskFSAssumption DEF UsedOn, Entries
<1>3. \A j \in Entries : j < i => DirOf(d)[j].name # n
  BY DEF NamesOK
<1> HIDE DEF n, f
<1>4. f \in Int /\ i \in Int
  BY <1>1, <1>2
<1>5. ~(f < i)
  BY <1>1, <1>2, <1>3
<1>6. ~(i < f)
  BY <1>1 DEF n
<1>7. f = i
  BY <1>4, <1>5, <1>6
<1> QED
  BY <1>1, <1>7 DEF n, f

\* When the names are in order, a file that is there is found, where it is.
LEMMA FindFacts ==
  ASSUME NEW d, NamesOK(d, 0), NEW n
  PROVE  /\ \A i \in UsedOn(d) : DirOf(d)[i].name = n =>
              FindIndex(DirOf(d), n) = i /\ Find(DirOf(d), n) = DirOf(d)[i].sector
         /\ (\A i \in UsedOn(d) : DirOf(d)[i].name # n) =>
              FindIndex(DirOf(d), n) = -1 /\ Find(DirOf(d), n) = -1
<1>1. 0 \notin UsedOn(d)
  BY DiskFSAssumption DEF UsedOn, Entries
<1>2. ASSUME NEW i \in UsedOn(d), DirOf(d)[i].name = n
      PROVE  FindIndex(DirOf(d), n) = i /\ Find(DirOf(d), n) = DirOf(d)[i].sector
  <2>1. i \in UsedOn(d) \ {0}
    BY <1>1
  <2> QED
    BY <1>2, <2>1, FindNamed, Zenon
<1> QED
  BY <1>2, FindFirst

\* The entry that Create takes is the first free one.
LEMMA FreeEntryFacts ==
  ASSUME NEW d
  PROVE  IF \E i \in Entries : ~DirOf(d)[i].inUse
         THEN /\ FreeEntry(DirOf(d)) \in Entries \ UsedOn(d) /\ FreeEntry(DirOf(d)) # -1
              /\ \A j \in Entries : j < FreeEntry(DirOf(d)) => j \in UsedOn(d)
         ELSE FreeEntry(DirOf(d)) = -1
<1> DEFINE P == [j \in Entries |-> ~DirOf(d)[j].inUse]
           x == First(P)
           room == \E i \in Entries : ~DirOf(d)[i].inUse
<1>1. \A i \in Entries : P[i] <=> i \notin UsedOn(d)
  BY Zenon DEF UsedOn
<1>2. room <=> \E i \in Entries : P[i]
  BY Zenon
<1>3. x = FreeEntry(DirOf(d))
  BY DEF FreeEntry
<1> HIDE DEF P
<1>4. ASSUME room
      PROVE  x \in Entries \ UsedOn(d) /\ x # -1 /\ \A j \in Entries : j < x => j \in UsedOn(d)
  <2>1. x \in Entries /\ P[x] /\ \A j \in Entries : j < x => ~P[j]
    BY <1>2, <1>4, FirstFacts
  <2> HIDE DEF x
  <2> QED
    BY <1>1, <2>1, EntriesArePositive
<1>5. ASSUME ~room PROVE x = -1
  BY <1>2, <1>5, FirstFacts
<1> HIDE DEF x
<1> QED
  BY <1>3, <1>4, <1>5

\* Directory::Add succeeds when the name is new and an entry is free.
LEMMA DirAddFacts ==
  ASSUME NEW d \in [Sectors -> Content], HasDir(d), NamesOK(d, 0), NEW n \in Names,
         NEW s \in Sectors
  PROVE  IF (\A i \in UsedOn(d) : DirOf(d)[i].name # n) /\ (\E i \in Entries : ~DirOf(d)[i].inUse)
         THEN /\ DirAdd(DirOf(d), n, s) # NULL
              /\ FreeEntry(DirOf(d)) \in Entries \ UsedOn(d)
              /\ NewName(d, n, FreeEntry(DirOf(d)))
              /\ DirAdd(DirOf(d), n, s) = NewDir(d, n, FreeEntry(DirOf(d)), s)
         ELSE DirAdd(DirOf(d), n, s) = NULL
<1> DEFINE x == FreeEntry(DirOf(d))
           none == \A i \in UsedOn(d) : DirOf(d)[i].name # n
           room == \E i \in Entries : ~DirOf(d)[i].inUse
<1>2. /\ room => /\ x \in Entries \ UsedOn(d) /\ x # -1
                 /\ \A j \in Entries : j < x => j \in UsedOn(d)
      /\ ~room => x = -1
  BY FreeEntryFacts, Zenon
<1>3. none <=> FindIndex(DirOf(d), n) = -1
  <2>1. CASE none
    BY <2>1, FindFacts
  <2>2. CASE ~none
    <3>1. PICK i \in UsedOn(d) : DirOf(d)[i].name = n
      BY <2>2
    <3>2. FindIndex(DirOf(d), n) = i /\ i \in Entries
      BY <3>1, FindFacts DEF UsedOn
    <3> QED
      BY <2>2, <3>2, EntriesArePositive
  <2> QED
    BY <2>1, <2>2
<1>4. DirAdd(DirOf(d), n, s) = IF FindIndex(DirOf(d), n) # -1 \/ x = -1 THEN NULL
                               ELSE NewDir(d, n, x, s)
  BY Zenon DEF DirAdd, NewDir
<1>5. ASSUME NEW i \in Entries PROVE NewDir(d, n, i, s) # NULL
  <2>1. NewDir(d, n, i, s) \in [Entries -> DirectoryEntry]
    BY NewDirFacts
  <2> QED
    BY <2>1, DiskFSAssumption
<1> HIDE DEF x, none, room
<1>6. CASE none /\ room
  <2>1. x \in Entries \ UsedOn(d) /\ x # -1
    BY <1>2, <1>6
  <2>2. NewName(d, n, x)
    BY <1>2, <1>6 DEF NewName, none
  <2>3. DirAdd(DirOf(d), n, s) = NewDir(d, n, x, s)
    BY <1>3, <1>4, <1>6, <2>1
  <2>4. DirAdd(DirOf(d), n, s) # NULL
    BY <1>5, <2>1, <2>3
  <2> QED
    BY <1>6, <2>1, <2>2, <2>3, <2>4 DEF none, room, x
<1>7. CASE ~(none /\ room)
  BY <1>2, <1>3, <1>4, <1>7 DEF none, room
<1> QED
  BY <1>6, <1>7

-----------------------------------------------------------------------------
(* The steps that write nothing.                                           *)

\* A disk on which nothing was written yet satisfies the invariant.
LEMMA InitInv == Init => IInv /\ CallInv
<1> SUFFICES ASSUME Init PROVE IInv /\ CallInv
  OBVIOUS
<1>1. Unwritten \in Content /\ Unwritten[1] = "data"
  BY DEF Unwritten, Data, Content
<1>2. disk \in [Sectors -> Content] /\ GoodDir(disk)
  <2>1. disk[DirData[2]] = Unwritten
    BY SystemFacts DEF Init
  <2> QED
    BY <1>1, <2>1 DEF Init, GoodDir
<1>3. Typed
  <2>1. up = FALSE /\ todo = <<>> /\ call = NoCall /\ handle = [h \in Handles |-> NULL]
    BY DEF Init
  <2>2. handle \in [Handles -> OpenFiles \cup {NULL}] /\ \A h \in Handles : handle[h] = NULL
    BY <2>1
  <2>3. todo \in Seq(Sectors \X Content)
    BY <2>1
  <2> QED
    BY <1>2, <2>1, <2>2, <2>3, Zenon DEF Typed
<1>4. Phase
  BY DEF Phase, Init
<1>5. call.op = "none"
  BY DEF Init, NoCall
<1>6. \A h \in Handles : handle[h] = NULL
  BY DEF Init
<1> QED
  BY <1>2, <1>3, <1>4, <1>5, <1>6 DEF IInv, CallInv

\* What a good directory and the names on it give.
LEMMA GoodFacts ==
  ASSUME NEW d
  PROVE  /\ GoodDir(d) => (HasDir(d) => FilesOK(d))
         /\ FilesOK(d) /\ HasDir(d) /\ NamesOK(d, 0) => GoodDir(d)
BY NamesFacts DEF GoodDir, HasDir

\* When the next operation is called, the disk is exact.
LEMMA IdleFacts ==
  ASSUME IInv, Idle
  PROVE  /\ disk \in [Sectors -> Content] /\ up = TRUE /\ todo = <<>> /\ torn = Whole
         /\ handle \in [Handles -> OpenFiles \cup {NULL}]
         /\ HasDir(disk) /\ FilesOK(disk) /\ Exact(disk) /\ NamesOK(disk, 0)
         /\ Directory = DirOf(disk) /\ FreeMap = Owned(disk)
         /\ \A h \in Handles : handle[h] # NULL => Holds(disk, handle[h])
<1>1. /\ disk \in [Sectors -> Content] /\ up = TRUE /\ todo = <<>>
      /\ handle \in [Handles -> OpenFiles \cup {NULL}]
      /\ HasDir(disk) => FilesOK(disk)
      /\ \A h \in Handles : handle[h] # NULL => Holds(disk, handle[h])
  BY GoodFacts DEF IInv, Typed, Idle
<1>2. torn = Whole /\ Exact(disk) /\ NamesOK(disk, 0)
  <2>1. Phase
    BY DEF IInv
  <2>2. ~Formatting /\ ~CreateStarts /\ ~CreateBetween /\ ~CreateEnds /\ ~Removing /\ ~Writing
    BY <1>1 DEF Formatting, CreateStarts, CreateBetween, CreateEnds, Removing, Writing
  <2> QED
    BY <1>1, <2>1, <2>2 DEF Phase
<1>3. HasDir(disk) /\ disk[MapData] = Map(Owned(disk))
  BY <1>2 DEF Exact
<1> QED
  BY <1>1, <1>2, <1>3 DEF Directory, DirOf, FreeMap, Map

\* The open files may change between two operations, the disk does not.
LEMMA QuietInv ==
  ASSUME IInv, Idle, disk' = disk, up' = up, torn' = torn, todo' = <<>>,
         handle' \in [Handles -> OpenFiles \cup {NULL}],
         \A h \in Handles : handle'[h] # NULL => Holds(disk, handle'[h])
  PROVE  IInv'
<1>1. /\ disk \in [Sectors -> Content] /\ up = TRUE /\ todo = <<>> /\ torn = Whole
      /\ HasDir(disk) /\ Exact(disk) /\ NamesOK(disk, 0)
  BY IdleFacts
<1>2. Typed'
  BY <1>1 DEF Typed
<1>3. Phase'
  BY <1>1 DEF Phase
<1>4. GoodDir(disk)'
  BY DEF IInv
<1>5. \A h \in Handles : handle'[h] # NULL => HasDir(disk') /\ Holds(disk', handle'[h])
  BY <1>1
<1> QED
  BY <1>2, <1>3, <1>4, <1>5 DEF IInv

\* What a handle that is open holds.
LEMMA HandleFacts ==
  ASSUME IInv, Idle, NEW h \in Handles, handle[h] # NULL
  PROVE  /\ handle[h] \in OpenFiles /\ Holds(disk, handle[h]) /\ GoodHdr(handle[h].hdr)
         /\ handle[h].seekPosition \in 0..MaxFileSize
<1>1. handle[h] \in OpenFiles /\ Holds(disk, handle[h])
  BY IdleFacts
<1>2. PICK i \in UsedOn(disk) : handle[h].hdr = HdrOf(disk, i)
  BY <1>1 DEF Holds
<1>3. GoodHdr(HdrOf(disk, i))
  BY IdleFacts, EntryFacts
<1> QED
  BY <1>1, <1>2, <1>3 DEF OpenFiles

\* Moving the seek position of an open file leaves it the same file.
LEMMA SeekHandle ==
  ASSUME IInv, Idle, NEW h \in Handles, handle[h] # NULL, NEW p \in 0..MaxFileSize,
         handle' = [handle EXCEPT ![h].seekPosition = p]
  PROVE  /\ handle' \in [Handles -> OpenFiles \cup {NULL}]
         /\ \A g \in Handles : handle'[g] # NULL => Holds(disk, handle'[g])
         /\ handle'[h].sector = handle[h].sector /\ handle'[h].hdr = handle[h].hdr
<1> DEFINE f == [handle[h] EXCEPT !.seekPosition = p]
<1>1. handle[h] \in OpenFiles /\ handle \in [Handles -> OpenFiles \cup {NULL}]
  BY HandleFacts, IdleFacts
<1>2. f \in OpenFiles /\ f.sector = handle[h].sector /\ f.hdr = handle[h].hdr
  BY <1>1 DEF OpenFiles
<1>3. handle' = [handle EXCEPT ![h] = f]
  OBVIOUS
<1> HIDE DEF f
<1>4. Holds(disk, f)
  BY <1>2, HandleFacts DEF Holds
<1>5. \A g \in Handles : handle'[g] = IF g = h THEN f ELSE handle[g]
  BY <1>1, <1>3
<1> QED
  BY <1>1, <1>2, <1>3, <1>4, <1>5, IdleFacts

\* FileSystem::Open brings the header of a file in use into memory.
LEMMA OpenInv ==
  ASSUME IInv, NEW h \in Handles, NEW n \in Names, Open(h, n)
  PROVE  IInv'
<1> DEFINE sector == Find(Directory, n)
<1>1. /\ Idle /\ handle[h] = NULL
      /\ disk' = disk /\ up' = up /\ torn' = torn /\ todo' = todo
      /\ handle' = [handle EXCEPT ![h] = IF sector < 0 THEN NULL ELSE OpenFile(sector)]
  BY DEF Open
<1>2. /\ disk \in [Sectors -> Content] /\ todo = <<>> /\ HasDir(disk) /\ FilesOK(disk)
      /\ NamesOK(disk, 0)
      /\ handle \in [Handles -> OpenFiles \cup {NULL}] /\ Directory = DirOf(disk)
      /\ \A g \in Handles : handle[g] # NULL => Holds(disk, handle[g])
  BY <1>1, IdleFacts
<1>3. CASE \E i \in UsedOn(disk) : DirOf(disk)[i].name = n
  <2>1. PICK i \in UsedOn(disk) : DirOf(disk)[i].name = n
    BY <1>3
  <2>2. sector = DirOf(disk)[i].sector
    BY <1>2, <2>1, FindFacts
  <2>3. sector \in Sectors /\ GoodHdr(HdrOf(disk, i)) /\ ~(sector < 0)
    <3>1. DirOf(disk)[i].sector \in Sectors /\ GoodHdr(HdrOf(disk, i))
      BY <1>2, EntryFacts
    <3>2. \A s \in Sectors : s \in Int /\ s >= 0
      BY EntriesArePositive, SectorsFinite
    <3> HIDE DEF sector
    <3>3. sector \in Sectors
      BY <2>2, <3>1
    <3> QED
      BY <3>1, <3>2, <3>3
  <2>4. OpenFile(sector) \in OpenFiles /\ Holds(disk, OpenFile(sector))
    <3>1. FetchHdr(sector) = HdrOf(disk, i) /\ FetchHdr(sector) \in FileHeader
      BY <2>2, <2>3 DEF FetchHdr, HdrOf, GoodHdr
    <3>2. 0 \in 0..MaxFileSize
      BY DiskFSAssumption DEF MaxFileSize
    <3> HIDE DEF sector
    <3>3. OpenFile(sector) = [sector |-> sector, hdr |-> HdrOf(disk, i), seekPosition |-> 0]
      BY <3>1 DEF OpenFile
    <3>4. OpenFile(sector) \in OpenFiles
      BY <2>3, <3>1, <3>2, <3>3 DEF OpenFiles
    <3> QED
      BY <2>2, <3>3, <3>4 DEF Holds
  <2>5. handle' = [handle EXCEPT ![h] = OpenFile(sector)]
    BY <1>1, <2>3
  <2> HIDE DEF sector
  <2> QED
    BY <1>1, <1>2, <2>4, <2>5, QuietInv
<1>4. CASE ~(\E i \in UsedOn(disk) : DirOf(disk)[i].name = n)
  <2>1. sector = -1
    BY <1>2, <1>4, FindFacts
  <2>2. handle' = [handle EXCEPT ![h] = NULL]
    BY <1>1, <2>1
  <2> HIDE DEF sector
  <2> QED
    BY <1>1, <1>2, <2>2, QuietInv
<1> QED
  BY <1>3, <1>4

\* ~OpenFile leaves the disk alone.
LEMMA CloseInv ==
  ASSUME IInv, NEW h \in Handles, Close(h)
  PROVE  IInv'
<1>1. /\ Idle /\ disk' = disk /\ up' = up /\ torn' = torn /\ todo' = todo
      /\ handle' = [handle EXCEPT ![h] = NULL]
  BY DEF Close
<1>2. /\ todo = <<>> /\ handle \in [Handles -> OpenFiles \cup {NULL}]
      /\ \A g \in Handles : handle[g] # NULL => Holds(disk, handle[g])
  BY <1>1, IdleFacts
<1> QED
  BY <1>1, <1>2, QuietInv

\* FileSystem::List and FileSystem::Print only read.
LEMMA ListInv ==
  ASSUME IInv, List \/ PrintAll
  PROVE  IInv'
<1>1. Idle /\ disk' = disk /\ up' = up /\ torn' = torn /\ todo' = todo /\ handle' = handle
  BY DEF List, PrintAll
<1> QED
  BY <1>1, IdleFacts, QuietInv

\* OpenFile::Seek moves the position within the largest file.
LEMMA SeekInv ==
  ASSUME IInv, NEW h \in Handles, NEW p \in 0..MaxFileSize, Seek(h, p)
  PROVE  IInv'
<1>1. /\ Idle /\ disk' = disk /\ up' = up /\ torn' = torn /\ todo' = todo /\ handle[h] # NULL
      /\ handle' = [handle EXCEPT ![h].seekPosition = p]
  BY DEF Seek
<1>2. todo = <<>>
  BY <1>1, IdleFacts
<1>3. /\ handle' \in [Handles -> OpenFiles \cup {NULL}]
      /\ \A g \in Handles : handle'[g] # NULL => Holds(disk, handle'[g])
  BY <1>1, SeekHandle
<1> QED
  BY <1>1, <1>2, <1>3, QuietInv

\* The part of a request that lies in the file.
LEMMA ClampFacts ==
  ASSUME NEW f \in OpenFiles, NEW m \in Nat
  PROVE  /\ f.hdr \in FileHeader /\ f.hdr.numBytes \in 0..MaxFileSize /\ MaxFileSize \in Nat
         /\ f.seekPosition \in 0..MaxFileSize
         /\ Clamp(f.hdr, m, f.seekPosition) \in Nat
         /\ Clamp(f.hdr, m, f.seekPosition) <= m
         /\ f.seekPosition < f.hdr.numBytes =>
              f.seekPosition + Clamp(f.hdr, m, f.seekPosition) <= f.hdr.numBytes
         /\ f.seekPosition >= f.hdr.numBytes => Clamp(f.hdr, m, f.seekPosition) = 0
         /\ f.seekPosition + Clamp(f.hdr, m, f.seekPosition) \in 0..MaxFileSize
         /\ \/ Clamp(f.hdr, m, f.seekPosition) = m
            \/ Clamp(f.hdr, m, f.seekPosition) = 0 /\ f.seekPosition >= f.hdr.numBytes
            \/ f.seekPosition + Clamp(f.hdr, m, f.seekPosition) = f.hdr.numBytes
<1>1. MaxFileSize \in Nat
  BY DiskFSAssumption DEF MaxFileSize
<1>2. /\ f.hdr \in FileHeader /\ f.hdr.numBytes \in 0..MaxFileSize
      /\ f.seekPosition \in 0..MaxFileSize
  BY DEF OpenFiles, FileHeader
<1>3. Clamp(f.hdr, m, f.seekPosition) =
        IF m <= 0 \/ f.seekPosition >= f.hdr.numBytes THEN 0
        ELSE IF m < f.hdr.numBytes - f.seekPosition THEN m
        ELSE f.hdr.numBytes - f.seekPosition
  BY DEF Clamp, MinOf, FileLength
<1> DEFINE c == Clamp(f.hdr, m, f.seekPosition)
           p == f.seekPosition
           N == f.hdr.numBytes
<1>4. /\ N \in 0..MaxFileSize /\ p \in 0..MaxFileSize
      /\ c = IF m <= 0 \/ p >= N THEN 0 ELSE IF m < N - p THEN m ELSE N - p
  BY <1>2, <1>3
<1> HIDE DEF c, p, N
<1>5. c \in Nat /\ c <= m /\ (p < N => p + c <= N) /\ (p >= N => c = 0)
  BY <1>1, <1>4
<1>6. p + c \in 0..MaxFileSize /\ (c = m \/ (c = 0 /\ p >= N) \/ p + c = N)
  BY <1>1, <1>4
<1> QED
  BY <1>1, <1>2, <1>5, <1>6 DEF c, p, N

\* OpenFile::Read moves the position by what it read, not past the end.
LEMMA ReadInv ==
  ASSUME IInv, NEW h \in Handles, NEW m \in Sizes, Read(h, m)
  PROVE  IInv'
<1> DEFINE f == handle[h]
           into == ReadAt(f.hdr, m, f.seekPosition)
<1>1. /\ Idle /\ disk' = disk /\ up' = up /\ torn' = torn /\ todo' = todo /\ handle[h] # NULL
      /\ handle' = [handle EXCEPT ![h].seekPosition = @ + Len(into)]
  BY DEF Read
<1>2. todo = <<>>
  BY <1>1, IdleFacts
<1>3. f \in OpenFiles /\ m \in Nat
  BY <1>1, HandleFacts, DiskFSAssumption DEF MaxFileSize
<1>4. Len(into) = Clamp(f.hdr, m, f.seekPosition)
  <2>1. Clamp(f.hdr, m, f.seekPosition) \in Nat
    BY <1>3, ClampFacts
  <2>2. DOMAIN into = 1..Clamp(f.hdr, m, f.seekPosition)
    BY DEF ReadAt
  <2>3. into \in Seq({into[i] : i \in DOMAIN into})
    <3>1. into = [i \in DOMAIN into |-> into[i]]
      BY DEF ReadAt
    <3> HIDE DEF into
    <3> QED
      BY <2>1, <2>2, <3>1
  <2> HIDE DEF into
  <2> QED
    BY <2>1, <2>2, <2>3
<1>5. f.seekPosition + Len(into) \in 0..MaxFileSize
  BY <1>3, <1>4, ClampFacts
<1>6. handle' = [handle EXCEPT ![h].seekPosition = f.seekPosition + Len(into)]
  BY <1>1
<1> HIDE DEF into, f
<1>7. /\ handle' \in [Handles -> OpenFiles \cup {NULL}]
      /\ \A g \in Handles : handle'[g] # NULL => Holds(disk, handle'[g])
  BY <1>1, <1>5, <1>6, SeekHandle
<1> QED
  BY <1>1, <1>2, <1>7, QuietInv

\* FileSystem(FALSE) finds a disk that no crash left torn.
LEMMA MountInv ==
  ASSUME IInv, Mount, ~MountTorn
  PROVE  IInv'
<1>1. /\ ~up /\ torn = Whole /\ up' = TRUE
      /\ disk' = disk /\ todo' = todo /\ handle' = handle /\ call' = call /\ torn' = torn
  BY DEF Mount
<1>2. Typed /\ todo = <<>> /\ GoodDir(disk) /\ \A h \in Handles : handle[h] = NULL
  BY <1>1 DEF IInv, Typed
<1>3. Exact(disk) /\ NamesOK(disk, 0)
  <2>1. torn # Unformatted /\ torn \notin UsedOn(disk)
    BY <1>1, DiskFSAssumption DEF Whole, Unformatted, UsedOn, Entries
  <2> QED
    BY <1>1, <2>1 DEF IInv, Phase
<1>4. Typed'
  BY <1>1, <1>2 DEF Typed
<1>5. Phase'
  BY <1>1, <1>2, <1>3 DEF Phase
<1> QED
  BY <1>1, <1>2, <1>4, <1>5 DEF IInv

\* FileSystem(TRUE) starts its four writes, whatever the disk holds.
LEMMA FormatInv ==
  ASSUME IInv, Format
  PROVE  IInv'
<1>1. /\ ~up /\ up' = TRUE /\ disk' = disk /\ handle' = handle /\ torn' = Whole
      /\ call' = [op |-> "format"]
  BY DEF Format
<1>2. PICK names \in Garbage :
        todo' = << WriteBackHdr(FreeMapSector, MapHdr), WriteBackHdr(DirectorySector, DirHdr),
                   WriteBackMap(SystemSectors) >> \o WriteBackDir(EmptyDirectory(names))
  BY DEF Format
<1> DEFINE dir == EmptyDirectory(names)
<1>3. todo' = << WriteBackHdr(FreeMapSector, MapHdr), WriteBackHdr(DirectorySector, DirHdr),
                 WriteBackMap(SystemSectors), WritePart(dir, 1), WritePart(dir, 2) >>
  <2>1. WriteBackDir(dir) = << WritePart(dir, 1), WritePart(dir, 2) >>
    BY DEF WriteBackDir, WritePart
  <2> DEFINE a == WriteBackHdr(FreeMapSector, MapHdr)
             b == WriteBackHdr(DirectorySector, DirHdr)
             c == WriteBackMap(SystemSectors)
             u == WritePart(dir, 1)
             v == WritePart(dir, 2)
  <2>2. todo' = <<a, b, c>> \o <<u, v>>
    BY <1>2, <2>1
  <2> HIDE DEF a, b, c, u, v
  <2>3. Joined(a, b, c, u, v)
    BY Concatenations, Zenon
  <2> QED
    BY <2>2, <2>3, Zenon DEF Joined, a, b, c, u, v
<1>4. Typed /\ GoodDir(disk) /\ \A h \in Handles : handle[h] = NULL
  BY <1>1 DEF IInv, Typed
<1>5. todo' \in Seq(Sectors \X Content)
  <2>1. dir \in [Entries -> DirectoryEntry]
    BY EmptyFacts
  <2>2. /\ WriteBackHdr(FreeMapSector, MapHdr) \in Sectors \X Content
        /\ WriteBackHdr(DirectorySector, DirHdr) \in Sectors \X Content
    BY SystemFacts, SectorsFinite, ContentType DEF WriteBackHdr, FreeMapSector, DirectorySector
  <2>3. WriteBackMap(SystemSectors) \in Sectors \X Content
    BY SystemFacts, ContentType DEF WriteBackMap, Bitmap
  <2> HIDE DEF dir
  <2>4. WritePart(dir, 1) \in Sectors \X Content /\ WritePart(dir, 2) \in Sectors \X Content
    BY <2>1, PartWriteType
  <2> DEFINE q == << WriteBackHdr(FreeMapSector, MapHdr), WriteBackHdr(DirectorySector, DirHdr),
                     WriteBackMap(SystemSectors), WritePart(dir, 1), WritePart(dir, 2) >>
  <2>5. q \in Seq(Sectors \X Content)
    BY <2>2, <2>3, <2>4
  <2> QED
    BY <1>3, <2>5
<1>6. Typed'
  BY <1>1, <1>4, <1>5 DEF Typed
<1>7. Formatting'
  BY <1>1, <1>3, <1>4 DEF Formatting
<1>8. Phase'
  BY <1>1, <1>7 DEF Phase
<1> QED
  BY <1>1, <1>4, <1>6, <1>8 DEF IInv

-----------------------------------------------------------------------------
(* Crash, Create and Remove.                                               *)

\* Is an entry at odds with the bitmap?
LEMMA MarkedFacts ==
  ASSUME NEW i \in Entries
  PROVE  /\ SectorsOf(i) = Own(disk, i)
         /\ Exact(disk) /\ i \in UsedOn(disk) => SectorsOf(i) \subseteq FreeMap
         /\ AllBut(disk, i) => ~(SectorsOf(i) \subseteq FreeMap)
         /\ Directory[i].inUse <=> i \in UsedOn(disk)
<1>1. SectorsOf(i) = Own(disk, i)
  BY DEF SectorsOf, Own, HdrOf, FetchHdr, Directory, DirOf
<1>2. Exact(disk) => FreeMap = Owned(disk)
  BY DEF Exact, FreeMap, Map
<1>3. AllBut(disk, i) => FreeMap = Owned(disk) \ Own(disk, i)
  BY DEF AllBut, FreeMap, Map
<1>4. i \in UsedOn(disk) => Own(disk, i) \subseteq Owned(disk)
  BY DEF Owned
<1>5. DirOf(disk)[i].sector \in Own(disk, i)
  BY DEF Own
<1>6. Directory[i].inUse <=> i \in UsedOn(disk)
  BY Zenon DEF UsedOn, Directory, DirOf
<1> QED
  BY <1>1, <1>2, <1>3, <1>4, <1>5, <1>6

\* Nachos exits in the middle of any operation.
LEMMA CrashInv ==
  ASSUME IInv, Crash
  PROVE  IInv'
<1> DEFINE odd == /\ call.op \in {"create", "remove"}
                  /\ Directory[call.entry].inUse
                  /\ ~(SectorsOf(call.entry) \subseteq FreeMap)
<1>1. /\ up = TRUE /\ up' = FALSE /\ todo' = <<>> /\ call' = NoCall /\ disk' = disk
      /\ handle' = [h \in Handles |-> NULL]
  BY DEF Crash, IInv, Typed
<1>2. /\ todo = <<>> => torn' = torn
      /\ todo # <<>> /\ call.op = "format" => torn' = Unformatted
      /\ todo # <<>> /\ odd => torn' = call.entry
      /\ todo # <<>> /\ call.op # "format" /\ ~odd => torn' = torn
  <2>1. torn' = IF todo = <<>> THEN torn
                ELSE CASE call.op = "format" -> Unformatted
                       [] odd -> call.entry
                       [] OTHER -> torn
    BY DEF Crash
  <2>2. odd => call.op # "format"
    OBVIOUS
  <2> HIDE DEF odd
  <2> QED
    BY <2>1, <2>2
<1>3. disk \in [Sectors -> Content] /\ GoodDir(disk)
  BY DEF IInv, Typed
<1>4. handle' \in [Handles -> OpenFiles \cup {NULL}] /\ \A h \in Handles : handle'[h] = NULL
  BY <1>1
<1>5. <<>> \in Seq(Sectors \X Content)
  OBVIOUS
<1>6. Typed'
  BY <1>1, <1>3, <1>4, <1>5, Zenon DEF Typed
<1> DEFINE After == \/ torn' = Unformatted
                    \/ torn' = Whole /\ Exact(disk) /\ NamesOK(disk, 0)
                    \/ torn' \in UsedOn(disk) /\ AllBut(disk, torn') /\ NamesOK(disk, torn')
<1>7. ASSUME torn = Whole, todo # <<>>, call.op \in {"create", "remove"},
             call.entry \in Entries, Exact(disk), NamesOK(disk, 0)
      PROVE  After
  <2>1. ~odd /\ call.op # "format"
    BY <1>7, MarkedFacts
  <2> HIDE DEF odd
  <2> QED
    BY <1>2, <1>7, <2>1
<1>8. ASSUME todo # <<>>, call.op \in {"create", "remove"},
             call.entry \in UsedOn(disk), AllBut(disk, call.entry), NamesOK(disk, call.entry)
      PROVE  After
  <2>1. call.entry \in Entries
    BY <1>8 DEF UsedOn
  <2>2. odd
    BY <1>8, <2>1, MarkedFacts
  <2> HIDE DEF odd
  <2> QED
    BY <1>2, <1>8, <2>2
<1> HIDE DEF odd
<1>9. NamesOK(disk, 0) => \A x : NamesOK(disk, x)
  BY NamesFacts
<1>10. After
  <2>1. CASE torn = Whole /\ todo = <<>> /\ Exact(disk) /\ NamesOK(disk, 0)
    BY <1>2, <2>1
  <2>2. CASE Formatting
    <3>1. todo # <<>> /\ call.op = "format"
      BY <2>2 DEF Formatting
    <3> QED
      BY <1>2, <3>1
  <2>3. CASE torn = Whole /\ CreateStarts
    <3>1. Exact(disk) /\ NamesOK(disk, 0) /\ call.op = "create" /\ call.entry \in Entries
      BY <2>3, Zenon DEF CreateStarts, NewName
    <3>2. todo # <<>>
      <4>1. \E a, b, c, x : todo = <<a, b, c, x>> \/ todo = <<b, c, x>>
        BY <2>3, Zenon DEF CreateStarts
      <4> QED
        BY <4>1
    <3> HIDE DEF After
    <3> QED
      BY <1>7, <2>3, <3>1, <3>2
  <2>4. CASE torn = Whole /\ CreateBetween
    <3>1. call.op = "create" /\ call.entry \in Entries /\ todo # <<>>
      BY <2>4 DEF CreateBetween, NewName
    <3>2. \/ Exact(disk) /\ NamesOK(disk, 0)
          \/ /\ call.entry \in UsedOn(disk)
             /\ AllBut(disk, call.entry) /\ NamesOK(disk, call.entry)
      BY <2>4 DEF CreateBetween
    <3> QED
      BY <1>7, <1>8, <2>4, <3>1, <3>2
  <2>5. CASE CreateEnds
    <3>1. /\ call.op = "create" /\ todo # <<>> /\ call.entry \in UsedOn(disk)
          /\ AllBut(disk, call.entry) /\ NamesOK(disk, 0)
      BY <2>5 DEF CreateEnds
    <3> HIDE DEF After
    <3> QED
      BY <1>8, <1>9, <3>1
  <2>6. CASE torn = Whole /\ Removing
    <3>1. call.op = "remove" /\ call.entry \in Entries /\ NamesOK(disk, 0)
      BY <2>6, Zenon DEF Removing
    <3>2. todo # <<>>
      <4>1. \E a, b, c : todo = <<a, b, c>> \/ todo = <<b, c>> \/ todo = <<c>>
        BY <2>6, Zenon DEF Removing
      <4> QED
        BY <4>1
    <3>3. Exact(disk) \/ (call.entry \in UsedOn(disk) /\ AllBut(disk, call.entry))
      BY <2>6 DEF Removing
    <3> QED
      BY <1>7, <1>8, <1>9, <2>6, <3>1, <3>2, <3>3
  <2>7. CASE torn = Whole /\ Writing
    <3>1. Exact(disk) /\ NamesOK(disk, 0) /\ call.op = "write" /\ todo # <<>>
      BY <2>7 DEF Writing
    <3>2. ~odd
      BY <3>1 DEF odd
    <3> QED
      BY <1>2, <2>7, <3>1, <3>2
  <2>8. Phase
    BY DEF IInv
  <2> HIDE DEF After
  <2> QED
    BY <1>1, <2>1, <2>2, <2>3, <2>4, <2>5, <2>6, <2>7, <2>8 DEF Phase
<1>11. Phase'
  BY <1>1, <1>10 DEF Phase
<1> QED
  BY <1>1, <1>3, <1>4, <1>6, <1>11 DEF IInv

\* The writes of a Create that succeeds.
CreateTodo(n, i, s, h) ==
  /\ NewFile(disk, i, s, h)
  /\ todo' = << WriteBackHdr(s, h), WritePart(NewDir(disk, n, i, s), 1),
                WritePart(NewDir(disk, n, i, s), 2), WriteBackMap(NewMap(disk, s, h)) >>

\* What Create finds out before it writes.
LEMMA CreateFacts ==
  ASSUME IInv, NEW n \in Names, NEW size \in Sizes, Create(n, size)
  PROVE  /\ disk' = disk /\ up' = up /\ handle' = handle /\ torn' = torn
         /\ call' = [op |-> "create", name |-> n, size |-> size, before |-> disk,
                     entry |-> FreeEntry(DirOf(disk)), answer |-> call'.answer]
         /\ call'.answer \in BOOLEAN
         /\ call'.answer <=>
              /\ \A i \in UsedOn(disk) : DirOf(disk)[i].name # n
              /\ \E i \in Entries : ~DirOf(disk)[i].inUse
              /\ Cardinality(Sectors \ Owned(disk)) >= 1 + DivRoundUp(size, SectorSize)
         /\ ~call'.answer => todo' = <<>>
         /\ call'.answer =>
              /\ NewName(disk, n, FreeEntry(DirOf(disk)))
              /\ \E s \in Sectors, h \in FileHeader : CreateTodo(n, FreeEntry(DirOf(disk)), s, h)
<1> DEFINE sector == FindAndSet(FreeMap)
           marked == FreeMap \cup {sector}
           dir == DirAdd(Directory, n, sector)
           hdr == Allocate(marked, size)
           success == /\ Find(Directory, n) = -1
                      /\ sector # -1
                      /\ dir # NULL
                      /\ hdr # NULL
           new == \A j \in UsedOn(disk) : DirOf(disk)[j].name # n
           free == \E j \in Entries : ~DirOf(disk)[j].inUse
           need == DivRoundUp(size, SectorSize)
           i == FreeEntry(DirOf(disk))
<1>1. /\ Idle /\ disk' = disk /\ up' = up /\ handle' = handle /\ torn' = torn
      /\ todo' = IF success
                 THEN CreateWrites(sector, hdr, dir, marked \cup Range(hdr.dataSectors))
                 ELSE <<>>
  BY DEF Create
<1>2. /\ call' = [op |-> "create", name |-> n, size |-> size, before |-> disk,
                  entry |-> FreeEntry(DirOf(disk)), answer |-> success]
      /\ call'.answer = success
  BY Zenon DEF Create, Directory, DirOf
<1>3. /\ disk \in [Sectors -> Content] /\ HasDir(disk) /\ FilesOK(disk) /\ NamesOK(disk, 0)
      /\ Directory = DirOf(disk) /\ FreeMap = Owned(disk)
  BY <1>1, IdleFacts
<1>4. size \in 0..MaxFileSize /\ size \in Nat /\ need \in Nat
  <2>1. size \in 0..MaxFileSize /\ size \in Nat /\ SectorSize \in Nat \ {0}
    BY DiskFSAssumption DEF MaxFileSize
  <2> QED
    BY <2>1, RoundUp
<1>5. NumClear(Owned(disk)) \in Nat
  BY ClearFacts
<1>6. Find(Directory, n) = -1 <=> new
  <2>1. CASE new
    BY <1>3, <2>1, FindFacts
  <2>2. CASE ~new
    <3>1. PICK j \in UsedOn(disk) : DirOf(disk)[j].name = n
      BY <2>2
    <3>2. Find(Directory, n) = DirOf(disk)[j].sector
      BY <1>3, <3>1, FindFacts
    <3>3. DirOf(disk)[j].sector # -1
      BY <1>3, EntryFacts, EntriesArePositive
    <3> QED
      BY <2>2, <3>2, <3>3
  <2> QED
    BY <2>1, <2>2
<1> HIDE DEF new, free, need, i
<1>7. sector # -1 => sector \in Sectors \ Owned(disk)
  BY <1>3, FindAndSetFacts
<1>8. sector # -1 <=> NumClear(Owned(disk)) >= 1
  BY <1>3, FindAndSetFacts, ClearFacts
<1> HIDE DEF sector
<1>9. ASSUME sector # -1
      PROVE  /\ NumClear(marked) = NumClear(Owned(disk)) - 1
             /\ hdr # NULL <=> NumClear(Owned(disk)) >= 1 + need
             /\ dir # NULL <=> new /\ free
             /\ hdr # NULL => /\ GoodHdr(hdr) /\ Range(hdr.dataSectors) \cap marked = {}
             /\ dir # NULL => /\ dir = NewDir(disk, n, i, sector) /\ NewName(disk, n, i)
                              /\ i \in Entries \ UsedOn(disk)
  <2>1. NumClear(marked) = NumClear(Owned(disk)) - 1
    BY <1>3, <1>7, <1>9, ClearFacts
  <2>2. IF NumClear(marked) < need THEN hdr = NULL
        ELSE hdr # NULL /\ GoodHdr(hdr) /\ Range(hdr.dataSectors) \cap marked = {}
    <3> HIDE DEF marked
    <3> QED
      BY <1>4, AllocateFacts DEF need
  <2>3. hdr # NULL <=> NumClear(Owned(disk)) >= 1 + need
    <3> HIDE DEF marked, hdr
    <3> QED
      BY <1>4, <1>5, <2>1, <2>2
  <2>4. IF new /\ free
        THEN /\ dir # NULL /\ i \in Entries \ UsedOn(disk)
             /\ dir = NewDir(disk, n, i, sector) /\ NewName(disk, n, i)
        ELSE dir = NULL
    BY <1>3, <1>7, <1>9, DirAddFacts DEF new, free, i
  <2> HIDE DEF marked, hdr, dir
  <2> QED
    BY <2>1, <2>2, <2>3, <2>4
<1>10. success <=> new /\ free /\ NumClear(Owned(disk)) >= 1 + need
  <2>1. NumClear(Owned(disk)) >= 1 + need => NumClear(Owned(disk)) >= 1
    BY <1>4, <1>5
  <2> HIDE DEF hdr, dir
  <2> QED
    BY <1>6, <1>8, <1>9, <2>1
<1>11. ASSUME success
       PROVE  NewName(disk, n, i) /\ \E s \in Sectors, h \in FileHeader : CreateTodo(n, i, s, h)
  <2>1. sector # -1 /\ dir # NULL /\ hdr # NULL
    BY <1>11
  <2>2. dir = NewDir(disk, n, i, sector) /\ NewName(disk, n, i) /\ i \in Entries \ UsedOn(disk)
    BY <1>9, <2>1
  <2>3. /\ GoodHdr(hdr) /\ Range(hdr.dataSectors) \cap marked = {} /\ hdr \in FileHeader
        /\ sector \in Sectors \ Owned(disk)
    BY <1>7, <1>9, <2>1 DEF GoodHdr
  <2>4. marked = Owned(disk) \cup {sector}
    BY <1>3
  <2>5. todo' = CreateWrites(sector, hdr, dir, marked \cup Range(hdr.dataSectors))
    BY <1>1, <1>11
  <2> HIDE DEF dir, hdr, marked
  <2>6. NewFile(disk, i, sector, hdr)
    BY <2>2, <2>3, <2>4 DEF NewFile
  <2>7. marked \cup Range(hdr.dataSectors) = NewMap(disk, sector, hdr)
    BY <2>4 DEF NewMap
  <2>8. todo' = << WriteBackHdr(sector, hdr), WritePart(dir, 1), WritePart(dir, 2),
                   WriteBackMap(NewMap(disk, sector, hdr)) >>
    <3> DEFINE a == WriteBackHdr(sector, hdr)
               b == WriteBackMap(NewMap(disk, sector, hdr))
               u == WritePart(dir, 1)
               v == WritePart(dir, 2)
    <3>1. todo' = <<a>> \o <<u, v>> \o <<b>>
      BY <2>5, <2>7 DEF CreateWrites, WriteBackDir, WritePart
    <3> HIDE DEF a, b, u, v
    <3>2. Joined(a, b, b, u, v)
      BY Concatenations, Zenon
    <3> QED
      BY <3>1, <3>2, Zenon DEF Joined, a, b, u, v
  <2>9. CreateTodo(n, i, sector, hdr)
    BY <2>2, <2>6, <2>8, Zenon DEF CreateTodo
  <2> QED
    BY <2>2, <2>3, <2>9
<1> HIDE DEF success
<1>12. call'.answer \in BOOLEAN
  <2>1. success \in BOOLEAN
    BY Zenon DEF success
  <2> QED
    BY <1>2, <2>1, Zenon
<1>13. call'.answer <=> success
  BY <1>2, Zenon
<1>14. call' = [op |-> "create", name |-> n, size |-> size, before |-> disk,
                entry |-> i, answer |-> call'.answer]
  BY <1>2, Zenon DEF i
<1>15. NumClear(Owned(disk)) = Cardinality(Sectors \ Owned(disk))
  BY DEF NumClear
<1>16. ~success => todo' = <<>>
  BY <1>1
<1> HIDE DEF sector, dir, hdr, marked
<1> QED
  BY <1>1, <1>10, <1>11, <1>12, <1>13, <1>14, <1>15, <1>16, Zenon DEF new, free, need, i

\* FileSystem::Create starts its four writes, or refuses.
LEMMA CreateInv ==
  ASSUME IInv, NEW n \in Names, NEW size \in Sizes, Create(n, size)
  PROVE  IInv'
<1> DEFINE i == FreeEntry(DirOf(disk))
<1>1. Idle
  BY DEF Create
<1>2. /\ disk' = disk /\ up' = up /\ handle' = handle /\ torn' = torn
      /\ call' = [op |-> "create", name |-> n, size |-> size, before |-> disk,
                  entry |-> i, answer |-> call'.answer]
  BY CreateFacts
<1>3. /\ disk \in [Sectors -> Content] /\ HasDir(disk) /\ FilesOK(disk) /\ Exact(disk)
      /\ NamesOK(disk, 0)
      /\ up = TRUE /\ torn = Whole /\ handle \in [Handles -> OpenFiles \cup {NULL}]
      /\ \A h \in Handles : handle[h] # NULL => Holds(disk, handle[h])
  BY <1>1, IdleFacts
<1>4. CASE ~call'.answer
  <2>1. todo' = <<>>
    BY <1>4, CreateFacts
  <2> QED
    BY <1>1, <1>2, <1>3, <2>1, QuietInv
<1>5. CASE call'.answer
  <2>1. NewName(disk, n, i)
    BY <1>5, CreateFacts
  <2>2. PICK s \in Sectors, h \in FileHeader : CreateTodo(n, i, s, h)
    BY <1>5, CreateFacts
  <2> HIDE DEF i
  <2> DEFINE dir == NewDir(disk, n, i, s)
             map == NewMap(disk, s, h)
  <2>3. /\ NewFile(disk, i, s, h)
        /\ todo' = << WriteBackHdr(s, h), WritePart(dir, 1), WritePart(dir, 2),
                      WriteBackMap(map) >>
    BY <2>2 DEF CreateTodo
  <2>4. todo' \in Seq(Sectors \X Content)
    <3>1. WriteBackHdr(s, h) \in Sectors \X Content
      BY ContentType DEF WriteBackHdr
    <3>2. dir \in [Entries -> DirectoryEntry]
      BY <1>3, <2>1, NewDirFacts DEF NewName
    <3>3. WritePart(dir, 1) \in Sectors \X Content /\ WritePart(dir, 2) \in Sectors \X Content
      BY <3>2, PartWriteType
    <3>4. Owned(disk) \subseteq Sectors
      BY <1>3, OwnedIs, EntryFacts, SystemFacts
    <3>5. Range(h.dataSectors) \subseteq Sectors
      BY DEF FileHeader, Range
    <3>6. WriteBackMap(map) \in Sectors \X Content
      BY <3>4, <3>5, SystemFacts, ContentType DEF WriteBackMap, NewMap, Bitmap
    <3> HIDE DEF dir, map
    <3> QED
      BY <2>3, <3>1, <3>3, <3>6
  <2>5. Typed'
    BY <1>2, <1>3, <2>4 DEF Typed
  <2>6. call'.op = "create" /\ call'.name = n /\ call'.entry = i
    BY <1>2
  <2>7. CreateStarts'
    BY <1>2, <1>3, <2>1, <2>3, <2>6 DEF CreateStarts
  <2>8. Phase'
    BY <1>2, <1>3, <2>7 DEF Phase
  <2> QED
    BY <1>2, <1>3, <2>5, <2>8, GoodFacts DEF IInv
<1> QED
  BY <1>4, <1>5

\* FileSystem::Remove starts its three writes; the file is not open.
LEMMA RemoveInv ==
  ASSUME IInv, NEW n \in Names, Remove(n), ~RemoveOpen
  PROVE  IInv'
<1> DEFINE sector == Find(Directory, n)
<1>1. /\ Idle /\ disk' = disk /\ up' = up /\ handle' = handle /\ torn' = torn
      /\ \A h \in Handles : handle[h] # NULL => handle[h].sector # sector
      /\ todo' = IF sector = -1 THEN <<>>
                 ELSE << WriteBackMap(RemoveMap(FreeMap, sector, FetchHdr(sector))) >>
                        \o WriteBackDir(DirRemove(Directory, n))
      /\ call'.op = "remove" /\ call'.entry = FindIndex(Directory, n)
  BY DEF Remove
<1>2. /\ disk \in [Sectors -> Content] /\ HasDir(disk) /\ FilesOK(disk) /\ Exact(disk)
      /\ NamesOK(disk, 0)
      /\ up = TRUE /\ torn = Whole /\ handle \in [Handles -> OpenFiles \cup {NULL}]
      /\ Directory = DirOf(disk) /\ FreeMap = Owned(disk)
      /\ \A h \in Handles : handle[h] # NULL => Holds(disk, handle[h])
  BY <1>1, IdleFacts
<1>3. CASE \A i \in UsedOn(disk) : DirOf(disk)[i].name # n
  <2>1. sector = -1
    BY <1>2, <1>3, FindFacts
  <2>2. todo' = <<>>
    BY <1>1, <2>1
  <2> HIDE DEF sector
  <2> QED
    BY <1>1, <1>2, <2>2, QuietInv
<1>4. CASE ~(\A i \in UsedOn(disk) : DirOf(disk)[i].name # n)
  <2>1. PICK i \in UsedOn(disk) : DirOf(disk)[i].name = n
    BY <1>4
  <2>2. /\ sector = DirOf(disk)[i].sector /\ FindIndex(Directory, n) = i
        /\ i \in Entries /\ i # -1 /\ sector # -1
    <3>1. sector = DirOf(disk)[i].sector /\ FindIndex(Directory, n) = i
      BY <1>2, <2>1, FindFacts
    <3>2. i \in Entries /\ i # -1 /\ DirOf(disk)[i].sector # -1
      BY <1>2, EntryFacts, EntriesArePositive
    <3> QED
      BY <3>1, <3>2
  <2> DEFINE dir == Removed(disk, i)
             map == Owned(disk) \ Own(disk, i)
  <2>3. DirRemove(Directory, n) = dir
    BY <1>2, <2>2 DEF DirRemove, Removed
  <2>4. RemoveMap(FreeMap, sector, FetchHdr(sector)) = map
    <3>1. FetchHdr(sector) = HdrOf(disk, i)
      BY <2>2 DEF FetchHdr, HdrOf
    <3> HIDE DEF sector
    <3> QED
      BY <1>2, <2>2, <3>1 DEF RemoveMap, Clear, Deallocate, Own
  <2>5. todo' = << WriteBackMap(map), WritePart(dir, 1), WritePart(dir, 2) >>
    <3> DEFINE a == WriteBackMap(map)
               u == WritePart(dir, 1)
               v == WritePart(dir, 2)
    <3>1. todo' = <<a>> \o <<u, v>>
      BY <1>1, <2>2, <2>3, <2>4 DEF WriteBackDir, WritePart
    <3> HIDE DEF a, u, v
    <3>2. Joined(a, a, a, u, v)
      BY Concatenations, Zenon
    <3> QED
      BY <3>1, <3>2, Zenon DEF Joined, a, u, v
  <2> HIDE DEF sector
  <2>6. todo' \in Seq(Sectors \X Content)
    <3>1. dir \in [Entries -> DirectoryEntry]
      BY <1>2, <2>2, RemovedFacts
    <3>2. WritePart(dir, 1) \in Sectors \X Content /\ WritePart(dir, 2) \in Sectors \X Content
      BY <3>1, PartWriteType
    <3>3. Owned(disk) \subseteq Sectors
      BY <1>2, OwnedIs, EntryFacts, SystemFacts
    <3>4. WriteBackMap(map) \in Sectors \X Content
      BY <3>3, SystemFacts, ContentType DEF WriteBackMap, Bitmap
    <3> HIDE DEF dir, map
    <3> QED
      BY <2>5, <3>2, <3>4
  <2>7. Typed'
    BY <1>1, <1>2, <2>6 DEF Typed
  <2>8. Removing'
    <3>1. call'.entry = i
      BY <1>1, <2>2
    <3> QED
      BY <1>1, <1>2, <2>2, <2>5, <3>1 DEF Removing
  <2>9. Phase'
    BY <1>1, <1>2, <2>8 DEF Phase
  <2> QED
    BY <1>1, <1>2, <2>7, <2>9, GoodFacts DEF IInv
<1> QED
  BY <1>3, <1>4

-----------------------------------------------------------------------------
(* The writes of the running operation.                                    *)

\* Disks with the same files have the same owners and the same open files.
LEMMA SameFacts ==
  ASSUME NEW d, NEW e, SameFiles(d, e)
  PROVE  /\ HasDir(e) <=> HasDir(d)
         /\ \A f : Holds(d, f) => Holds(e, f)
         /\ Exact(d) /\ e[MapData] = d[MapData] => Exact(e)
<1>1. /\ DirOf(e) = DirOf(d) /\ UsedOn(e) = UsedOn(d)
      /\ Owned(e) = Owned(d) /\ \A i \in UsedOn(d) : HdrOf(e, i) = HdrOf(d, i)
  BY DEF SameFiles
<1>2. HasDir(e) <=> HasDir(d)
  BY DEF SameFiles
<1>3. ASSUME NEW f, Holds(d, f) PROVE Holds(e, f)
  BY <1>1, <1>3 DEF Holds
<1> QED
  BY <1>1, <1>2, <1>3 DEF Exact

\* The first write of a list, and the rest of it.
Split(a, b, c, u, v) ==
  /\ Head(<<a, b, c, u, v>>) = a /\ Tail(<<a, b, c, u, v>>) = <<b, c, u, v>>
  /\ Head(<<a, b, c, u>>) = a /\ Tail(<<a, b, c, u>>) = <<b, c, u>>
  /\ Head(<<a, b, c>>) = a /\ Tail(<<a, b, c>>) = <<b, c>>
  /\ Head(<<a, b>>) = a /\ Tail(<<a, b>>) = <<b>>
  /\ Head(<<a>>) = a /\ Tail(<<a>>) = <<>>

LEMMA Splits ==
  ASSUME NEW a, NEW b, NEW c, NEW u, NEW v
  PROVE  Split(a, b, c, u, v)
<1>1. Head(<<a, b, c, u, v>>) = a /\ Tail(<<a, b, c, u, v>>) = <<b, c, u, v>>
  OBVIOUS
<1>2. Head(<<a, b, c, u>>) = a /\ Tail(<<a, b, c, u>>) = <<b, c, u>>
  OBVIOUS
<1>3. Head(<<a, b, c>>) = a /\ Tail(<<a, b, c>>) = <<b, c>>
  OBVIOUS
<1>4. Head(<<a, b>>) = a /\ Tail(<<a, b>>) = <<b>>
  OBVIOUS
<1>5. Head(<<a>>) = a /\ Tail(<<a>>) = <<>>
  OBVIOUS
<1> QED
  BY <1>1, <1>2, <1>3, <1>4, <1>5 DEF Split

\* A sector is written only while one of the operations is under way.
LEMMA WriteSectorFacts ==
  ASSUME IInv, WriteSector
  PROVE  /\ todo # <<>> /\ up = TRUE /\ torn = Whole /\ disk \in [Sectors -> Content]
         /\ Head(todo) \in Sectors \X Content
         /\ disk' = [disk EXCEPT ![Head(todo)[1]] = Head(todo)[2]]
         /\ todo' = Tail(todo) /\ up' = up /\ handle' = handle /\ call' = call /\ torn' = torn
         /\ GoodDir(disk) /\ (HasDir(disk) => FilesOK(disk))
         /\ \/ Formatting \/ CreateStarts \/ CreateBetween \/ CreateEnds
            \/ Removing \/ Writing
         /\ Typed'
<1>1. /\ todo # <<>> /\ todo' = Tail(todo) /\ up' = up /\ handle' = handle /\ call' = call
      /\ torn' = torn /\ disk' = [disk EXCEPT ![Head(todo)[1]] = Head(todo)[2]]
  BY DEF WriteSector
<1>2. /\ disk \in [Sectors -> Content] /\ todo \in Seq(Sectors \X Content)
      /\ handle \in [Handles -> OpenFiles \cup {NULL}]
  BY DEF IInv, Typed
<1>3. up = TRUE
  BY <1>1 DEF IInv, Typed
<1>4. Head(todo) \in Sectors \X Content /\ Tail(todo) \in Seq(Sectors \X Content)
  BY <1>1, <1>2
<1>5. disk' \in [Sectors -> Content]
  <2>1. Head(todo)[2] \in Content
    BY <1>4
  <2> QED
    BY <1>1, <1>2, <2>1
<1>6. Typed'
  BY <1>1, <1>2, <1>3, <1>4, <1>5 DEF Typed
<1>7. /\ torn = Whole
      /\ Formatting \/ CreateStarts \/ CreateBetween \/ CreateEnds \/ Removing \/ Writing
  BY <1>1, <1>3 DEF IInv, Phase
<1> QED
  BY <1>1, <1>2, <1>3, <1>4, <1>6, <1>7, GoodFacts DEF IInv

\* A write after which the files are the same.
LEMMA SameFilesInv ==
  ASSUME IInv, WriteSector, HasDir(disk), SameFiles(disk, disk'), GoodDir(disk'), Phase'
  PROVE  IInv'
<1>1. Typed' /\ handle' = handle
  BY WriteSectorFacts
<1>2. \A h \in Handles : handle[h] # NULL => Holds(disk, handle[h])
  BY DEF IInv
<1>3. HasDir(disk') /\ \A f : Holds(disk, f) => Holds(disk', f)
  BY SameFacts
<1> QED
  BY <1>1, <1>2, <1>3 DEF IInv

\* A write of the directory after which the open files are what they were.
LEMMA DirWriteInv ==
  ASSUME IInv, WriteSector, HasDir(disk'), GoodDir(disk'), Phase',
         \A h \in Handles : handle[h] # NULL => Holds(disk', handle[h])
  PROVE  IInv'
<1>1. Typed' /\ handle' = handle
  BY WriteSectorFacts
<1> QED
  BY <1>1 DEF IInv

\* A write of the directory that changes no more than the name of entry i.
Similar(d, e, i) ==
  /\ Off(d, e) /\ e[MapData] = d[MapData]
  /\ \A j \in Entries \ {i} : DirOf(e)[j] = DirOf(d)[j]
  /\ i \in Entries
  /\ DirOf(e)[i].inUse = DirOf(d)[i].inUse /\ DirOf(e)[i].sector = DirOf(d)[i].sector

LEMMA SimilarFacts ==
  ASSUME NEW d, NEW e, NEW i, Similar(d, e, i)
  PROVE  /\ HasDir(e) /\ UsedOn(e) = UsedOn(d) /\ FilesOK(e) /\ Owned(e) = Owned(d)
         /\ \A j \in UsedOn(d) : HdrOf(e, j) = HdrOf(d, j) /\ Own(e, j) = Own(d, j)
         /\ \A f : Holds(d, f) => Holds(e, f)
         /\ Exact(d) => Exact(e)
         /\ i \in UsedOn(d) /\ AllBut(d, i) => AllBut(e, i)
         /\ DirOf(e)[i].name = DirOf(d)[i].name => DirOf(e) = DirOf(d)
<1>1. Off(d, e) /\ HasDir(e) /\ e[MapData] = d[MapData]
  BY DEF Similar, Off
<1>2. UsedOn(e) = UsedOn(d)
  <2>1. ASSUME NEW j \in Entries PROVE DirOf(e)[j].inUse = DirOf(d)[j].inUse
    BY Zenon DEF Similar
  <2> QED
    BY <2>1, Zenon DEF UsedOn
<1>3. \A j \in UsedOn(d) : DirOf(e)[j].sector = DirOf(d)[j].sector
  BY DEF Similar, UsedOn
<1>4. /\ FilesOK(e) /\ Owned(e) = Owned(d)
      /\ \A j \in UsedOn(d) : HdrOf(e, j) = HdrOf(d, j) /\ Own(e, j) = Own(d, j)
  BY <1>1, <1>2, <1>3, HeadsSame
<1>5. \A f : Holds(d, f) => Holds(e, f)
  BY <1>2, <1>3, <1>4 DEF Holds
<1>6. Exact(d) => Exact(e)
  BY <1>1, <1>4 DEF Exact
<1>7. i \in UsedOn(d) /\ AllBut(d, i) => AllBut(e, i)
  BY <1>1, <1>4 DEF AllBut
<1>8. ASSUME DirOf(e)[i].name = DirOf(d)[i].name PROVE DirOf(e) = DirOf(d)
  <2>1. DirOf(e)[i] = DirOf(d)[i]
    <3>1. DirOf(e)[i] = [inUse |-> DirOf(e)[i].inUse, sector |-> DirOf(e)[i].sector,
                           name |-> DirOf(e)[i].name]
      BY EntryIs, Zenon DEF Similar
    <3>2. DirOf(d)[i] = [inUse |-> DirOf(d)[i].inUse, sector |-> DirOf(d)[i].sector,
                           name |-> DirOf(d)[i].name]
      BY EntryIs, Zenon DEF Similar
    <3> QED
      BY <1>8, <3>1, <3>2, Zenon DEF Similar
  <2>2. \A j \in Entries : DirOf(e)[j] = DirOf(d)[j]
    BY <2>1, Zenon DEF Similar
  <2>3. /\ DirOf(e) = [j \in Entries |-> DirOf(e)[j]]
        /\ DirOf(d) = [j \in Entries |-> DirOf(d)[j]]
    BY DEF DirOf, DirectoryOn
  <2> QED
    BY <2>2, <2>3, Zenon
<1> QED
  BY <1>1, <1>2, <1>4, <1>5, <1>6, <1>7, <1>8

\* What a new entry, or one less, leaves of the open files.
LEMMA KeptHolds ==
  ASSUME NEW d, NEW e, NEW f, NEW j \in UsedOn(d), j \in UsedOn(e), Kept(d, e, {j}),
         f.sector = DirOf(d)[j].sector, f.hdr = HdrOf(d, j)
  PROVE  Holds(e, f)
BY DEF Holds, Kept

\* A write of Format: the old files stay whole until the directory is empty.
LEMMA FormattingInv ==
  ASSUME IInv, WriteSector, Formatting
  PROVE  IInv'
<1>1. /\ up = TRUE /\ up' = up /\ torn = Whole /\ torn' = torn /\ disk \in [Sectors -> Content]
      /\ disk' = [disk EXCEPT ![Head(todo)[1]] = Head(todo)[2]]
      /\ todo' = Tail(todo) /\ handle' = handle /\ call' = call
      /\ GoodDir(disk) /\ (HasDir(disk) => FilesOK(disk))
      /\ Typed'
  BY WriteSectorFacts
<1>2. call.op = "format" /\ \A h \in Handles : handle[h] = NULL
  BY DEF Formatting
<1> DEFINE a == WriteBackHdr(FreeMapSector, MapHdr)
           b == WriteBackHdr(DirectorySector, DirHdr)
           c == WriteBackMap(SystemSectors)
           u(names) == WritePart(EmptyDirectory(names), 1)
           v(names) == WritePart(EmptyDirectory(names), 2)
<1>3. PICK names \in Garbage :
        \/ todo = <<a, b, c, u(names), v(names)>>
        \/ todo = <<b, c, u(names), v(names)>>
        \/ todo = <<c, u(names), v(names)>>
        \/ todo = <<u(names), v(names)>> /\ disk[MapData] = Map(SystemSectors)
        \/ /\ todo = <<v(names)>> /\ disk[MapData] = Map(SystemSectors)
           /\ disk[DirData[1]] = Dir(Part(EmptyDirectory(names), 1))
  BY Zenon DEF Formatting
<1>4. /\ a[1] = 0 /\ b[1] = 1 /\ c[1] = MapData /\ c[2] = Map(SystemSectors)
      /\ u(names)[1] = DirData[1] /\ u(names)[2] = Dir(Part(EmptyDirectory(names), 1))
      /\ v(names)[1] = DirData[2] /\ v(names)[2] = Dir(Part(EmptyDirectory(names), 2))
  BY DEF WriteBackHdr, WriteBackMap, WritePart, FreeMapSector, DirectorySector
<1>5. ASSUME Formatting', GoodDir(disk')
      PROVE  IInv'
  <2>1. Phase'
    BY <1>1, <1>5 DEF Phase
  <2> QED
    BY <1>1, <1>2, <1>5, <2>1 DEF IInv
<1>6. ASSUME Head(todo)[1] \in {0, 1, MapData}
      PROVE  GoodDir(disk')
  <2>1. Head(todo)[1] \notin DirSectors /\ Head(todo)[1] \in SystemSectors
    BY <1>6, SystemFacts
  <2>2. HasDir(disk) =>
          Head(todo)[1] \in SystemSectors \/ Head(todo)[1] \notin Owned(disk)
    BY <2>1
  <2>3. disk \in [Sectors -> Content] /\ (HasDir(disk) => FilesOK(disk))
    BY <1>1
  <2>4. disk' = [disk EXCEPT ![Head(todo)[1]] = Head(todo)[2]]
    BY <1>1
  <2>5. GoodDir(disk) => GoodDir(disk')
    <3>1. FreeWrite(disk, disk', Head(todo)[1], Head(todo)[2])
      BY <2>1, <2>2, <2>3, <2>4 DEF FreeWrite
    <3>2. Unchanged(disk, disk')
      BY <3>1, WriteFree
    <3> QED
      BY <3>2 DEF Unchanged
  <2> QED
    BY <1>1, <2>5
<1>8. CASE todo = <<a, b, c, u(names), v(names)>>
  <2>1. Split(a, b, c, u(names), v(names))
    BY Splits, Zenon
  <2> HIDE DEF a, b, c, u, v
  <2>2. Head(todo) = a /\ todo' = <<b, c, u(names), v(names)>>
    BY <1>1, <1>8, <2>1, Zenon DEF Split
  <2>3. Formatting'
    BY <1>1, <1>2, <2>2, Zenon DEF Formatting, b, c, u, v
  <2> QED
    BY <1>4, <1>5, <1>6, <2>2, <2>3
<1>9. CASE todo = <<b, c, u(names), v(names)>>
  <2>1. Split(b, c, u(names), v(names), a)
    BY Splits, Zenon
  <2> HIDE DEF a, b, c, u, v
  <2>2. Head(todo) = b /\ todo' = <<c, u(names), v(names)>>
    BY <1>1, <1>9, <2>1, Zenon DEF Split
  <2>3. Formatting'
    BY <1>1, <1>2, <2>2, Zenon DEF Formatting, c, u, v
  <2> QED
    BY <1>4, <1>5, <1>6, <2>2, <2>3
<1>10. CASE todo = <<c, u(names), v(names)>>
  <2>1. Split(c, u(names), v(names), a, b)
    BY Splits, Zenon
  <2> HIDE DEF a, b, c, u, v
  <2>2. Head(todo) = c /\ todo' = <<u(names), v(names)>>
    BY <1>1, <1>10, <2>1, Zenon DEF Split
  <2>3. disk'[MapData] = Map(SystemSectors)
    BY <1>1, <1>4, <2>2, SystemFacts
  <2>4. Formatting'
    BY <1>1, <1>2, <2>2, <2>3, Zenon DEF Formatting, u, v
  <2> QED
    BY <1>4, <1>5, <1>6, <2>2, <2>4
<1>11. CASE todo = <<u(names), v(names)>> /\ disk[MapData] = Map(SystemSectors)
  <2>1. Split(u(names), v(names), a, b, c)
    BY Splits, Zenon
  <2> HIDE DEF a, b, c, u, v
  <2>2. Head(todo) = u(names) /\ todo' = <<v(names)>>
    BY <1>1, <1>11, <2>1, Zenon DEF Split
  <2>3. disk' = [disk EXCEPT ![DirData[1]] = Dir(Part(EmptyDirectory(names), 1))]
    BY <1>1, <1>4, <2>2, Zenon
  <2>4. /\ disk'[DirData[1]] = Dir(Part(EmptyDirectory(names), 1))
        /\ GoodDir(disk') /\ disk'[MapData] = disk[MapData]
    <3>1. EmptyFirst(disk, disk', names)
      BY <1>1, <2>3 DEF EmptyFirst
    <3> QED
      BY <3>1, WriteEmptyFirst, Zenon DEF EmptiedFirst
  <2>5. Formatting'
    BY <1>1, <1>2, <1>11, <2>2, <2>4, Zenon DEF Formatting, v
  <2> QED
    BY <1>5, <2>4, <2>5
<1>12. CASE /\ todo = <<v(names)>> /\ disk[MapData] = Map(SystemSectors)
            /\ disk[DirData[1]] = Dir(Part(EmptyDirectory(names), 1))
  <2>1. Split(v(names), a, a, b, c)
    BY Splits, Zenon
  <2> HIDE DEF a, b, c, u, v
  <2>2. Head(todo) = v(names) /\ todo' = <<>>
    BY <1>1, <1>12, <2>1, Zenon DEF Split
  <2>3. disk' = [disk EXCEPT ![DirData[2]] = Dir(Part(EmptyDirectory(names), 2))]
    BY <1>1, <1>4, <2>2, Zenon
  <2>4. /\ GoodDir(disk') /\ HasDir(disk') /\ NamesOK(disk', 0)
        /\ Owned(disk') = SystemSectors /\ disk'[MapData] = disk[MapData]
    <3>1. EmptySecond(disk, disk', names)
      BY <1>1, <1>12, <2>3 DEF EmptySecond
    <3> QED
      BY <3>1, WriteEmptySecond, Zenon DEF EmptiedSecond
  <2>5. Exact(disk')
    BY <1>12, <2>4 DEF Exact
  <2>6. Phase'
    BY <1>1, <2>2, <2>4, <2>5 DEF Phase
  <2> QED
    BY <1>1, <1>2, <2>4, <2>6 DEF IInv
<1> QED
  BY <1>3, <1>8, <1>9, <1>10, <1>11, <1>12

\* A write of Create: the header, and the first sector of the directory.
LEMMA CreateStartsInv ==
  ASSUME IInv, WriteSector, CreateStarts
  PROVE  IInv'
<1>1. /\ up = TRUE /\ up' = up /\ torn = Whole /\ torn' = torn /\ disk \in [Sectors -> Content]
      /\ disk' = [disk EXCEPT ![Head(todo)[1]] = Head(todo)[2]]
      /\ todo' = Tail(todo) /\ handle' = handle /\ call' = call
      /\ GoodDir(disk) /\ (HasDir(disk) => FilesOK(disk))
      /\ Typed'
  BY WriteSectorFacts
<1> DEFINE n == call.name
           i == call.entry
<1>2. /\ call.op = "create" /\ Exact(disk) /\ HasDir(disk) /\ disk[MapData] = Map(Owned(disk))
      /\ NamesOK(disk, 0) /\ NewName(disk, n, i)
  BY DEF CreateStarts, Exact
<1> DEFINE u(d, s) == WritePart(NewDir(d, n, i, s), 1)
           v(d, s) == WritePart(NewDir(d, n, i, s), 2)
           m(d, s, h) == WriteBackMap(NewMap(d, s, h))
<1>3. PICK s \in Sectors, h \in FileHeader :
       /\ NewFile(disk, i, s, h)
       /\ \/ todo = << WriteBackHdr(s, h), u(disk, s), v(disk, s), m(disk, s, h) >>
          \/ /\ todo = << u(disk, s), v(disk, s), m(disk, s, h) >>
             /\ disk[s] = Hdr(h)
  BY Zenon DEF CreateStarts
<1>4. s \notin Owned(disk) /\ s \notin DirSectors /\ s # MapData
  <2>1. s \notin Owned(disk)
    BY <1>3 DEF NewFile
  <2> QED
    BY <2>1, SystemFacts DEF Owned
<1>5. CASE todo = << WriteBackHdr(s, h), u(disk, s), v(disk, s), m(disk, s, h) >>
  <2>1. Split(WriteBackHdr(s, h), u(disk, s), v(disk, s), m(disk, s, h), n)
    BY Splits, Zenon
  <2>2. /\ Head(todo) = WriteBackHdr(s, h)
        /\ todo' = << u(disk, s), v(disk, s), m(disk, s, h) >>
    BY <1>1, <1>5, <2>1, Zenon DEF Split
  <2>3. disk' = [disk EXCEPT ![s] = Hdr(h)]
    <3>1. Head(todo)[1] = s /\ Head(todo)[2] = Hdr(h)
      BY <2>2 DEF WriteBackHdr
    <3> QED
      BY <1>1, <3>1, Zenon
  <2>4. Unchanged(disk, disk')
    <3>1. FreeWrite(disk, disk', s, Hdr(h))
      BY <1>1, <1>4, <2>3 DEF FreeWrite
    <3> QED
      BY <3>1, WriteFree
  <2>5. /\ HasDir(disk') /\ SameFiles(disk, disk') /\ FilesOK(disk')
        /\ GoodDir(disk') /\ NamesOK(disk', 0)
    BY <1>1, <1>2, <2>4 DEF Unchanged
  <2>6. disk'[MapData] = disk[MapData] /\ disk'[s] = Hdr(h)
    BY <1>1, <1>4, <2>3, SystemFacts
  <2>7. Exact(disk')
    BY <1>2, <2>5, <2>6, SameFacts
  <2>8. DirOf(disk') = DirOf(disk) /\ UsedOn(disk') = UsedOn(disk) /\ Owned(disk') = Owned(disk)
    BY <2>5 DEF SameFiles
  <2>9. /\ NewFile(disk', i, s, h) /\ NewName(disk', n, i)
        /\ u(disk', s) = u(disk, s) /\ v(disk', s) = v(disk, s) /\ m(disk', s, h) = m(disk, s, h)
    BY <1>2, <1>3, <2>8, Zenon DEF NewFile, NewName, NewDir, NewMap
  <2> HIDE DEF u, v, m
  <2>10. todo' = << u(disk', s), v(disk', s), m(disk', s, h) >>
    BY <2>2, <2>9
  <2>11. CreateStarts'
    BY <1>1, <1>2, <2>5, <2>6, <2>7, <2>9, <2>10, Zenon DEF CreateStarts, u, v, m
  <2>12. Phase'
    BY <1>1, <2>11 DEF Phase
  <2> QED
    BY <1>2, <2>5, <2>12, SameFilesInv
<1>6. CASE todo = << u(disk, s), v(disk, s), m(disk, s, h) >> /\ disk[s] = Hdr(h)
  <2>1. Split(u(disk, s), v(disk, s), m(disk, s, h), n, n)
    BY Splits, Zenon
  <2>2. Head(todo) = u(disk, s) /\ todo' = << v(disk, s), m(disk, s, h) >>
    BY <1>1, <1>6, <2>1, Zenon DEF Split
  <2>3. disk' = [disk EXCEPT ![DirData[1]] = Dir(Part(NewDir(disk, n, i, s), 1))]
    <3>1. /\ Head(todo)[1] = DirData[1]
          /\ Head(todo)[2] = Dir(Part(NewDir(disk, n, i, s), 1))
      BY <2>2 DEF WritePart
    <3> QED
      BY <1>1, <3>1, Zenon
  <2>4. NewPart(disk, disk', n, i, s, 1) /\ i \in Entries
    BY <1>1, <1>2, <2>3 DEF NewPart, NewName
  <2> HIDE DEF n, i
  <2>5. /\ Off(disk, disk') /\ disk'[MapData] = disk[MapData]
        /\ \A j \in Entries \ {i} : DirOf(disk')[j] = DirOf(disk)[j]
        /\ HeadAt[i] = 1 => DirOf(disk')[i].inUse = TRUE /\ DirOf(disk')[i].sector = s
        /\ HeadAt[i] # 1 => /\ DirOf(disk')[i].inUse = DirOf(disk)[i].inUse
                            /\ DirOf(disk')[i].sector = DirOf(disk)[i].sector
        /\ NameAt[i] = 1 => DirOf(disk')[i].name = n
        /\ NameAt[i] # 1 => DirOf(disk')[i].name = DirOf(disk)[i].name
        /\ NewDir(disk', n, i, s) = NewDir(disk, n, i, s)
    <3>1. NewPartDone(disk, disk', n, i, s, 1)
      BY <2>4, WriteNewPart
    <3> QED
      BY <3>1, Zenon DEF NewPartDone
  <2>6. HeadAt[i] \in {1, 2} /\ NameAt[i] \in {1, 2} /\ (HeadAt[i] = 2 => NameAt[i] = 2)
    BY <2>4, PlaceFacts
  <2>7. v(disk', s) = v(disk, s) /\ disk'[s] = Hdr(h) /\ HasDir(disk')
    BY <1>4, <1>6, <2>5 DEF Off
  <2>8. \A g \in Handles : handle[g] # NULL => Holds(disk, handle[g])
    BY DEF IInv
  <2>9. CASE HeadAt[i] = 1
    <3>1. Added(disk, disk', i, s, h)
      BY <1>3, <1>6, <2>5, <2>9 DEF Added, i
    <3>2. /\ FilesOK(disk') /\ UsedOn(disk') = UsedOn(disk) \cup {i}
          /\ Own(disk', i) = {s} \cup Range(h.dataSectors)
          /\ Kept(disk, disk', UsedOn(disk))
          /\ Owned(disk') = NewMap(disk, s, h)
          /\ Owned(disk) = Owned(disk') \ Own(disk', i)
      BY <3>1, HeadsAdded
    <3>3. NamesOK(disk, i) /\ NewName(disk, n, i)
      BY <1>2, NamesFacts DEF n, i
    <3>4. NewName(disk', n, i) /\ NamesOK(disk', i)
      <4>1. DirOf(disk')[i].name \in {n, DirOf(disk)[i].name}
        BY <2>5, <2>6
      <4> QED
        BY <2>5, <3>3, <4>1, NamesAdded
    <3>5. GoodDir(disk')
      <4>1. Behind(disk')
        BY <2>9, <3>4, NamesFacts
      <4> QED
        BY <2>7, <3>2, <4>1 DEF GoodDir
    <3>6. m(disk', s, h) = m(disk, s, h)
      <4>1. NewMap(disk', s, h) = NewMap(disk, s, h)
        BY <3>2 DEF NewMap
      <4> QED
        BY <4>1
    <3>7. AllBut(disk', i)
      BY <1>2, <2>5, <2>7, <3>2 DEF AllBut
    <3>8. todo' = << v(disk', s), m(disk', s, h) >>
      BY <2>2, <2>7, <3>6, Zenon
    <3>9. DirOf(disk')[i].sector = s /\ (NameAt[i] = 1 => DirOf(disk')[i].name = n)
      BY <2>5, <2>9
    <3>10. i \in UsedOn(disk')
      BY <3>2
    <3>11. CreateBetween'
      BY <1>1, <1>2, <2>7, <2>9, <3>4, <3>7, <3>8, <3>9, <3>10, Zenon DEF CreateBetween, n, i
    <3>12. Phase'
      BY <1>1, <3>11 DEF Phase
    <3>13. \A f : Holds(disk, f) => Holds(disk', f)
      BY <3>2 DEF Holds, Kept
    <3> QED
      BY <2>7, <2>8, <3>5, <3>12, <3>13, DirWriteInv
  <2>10. CASE HeadAt[i] = 2
    <3>1. Similar(disk, disk', i) /\ DirOf(disk')[i].name = DirOf(disk)[i].name
      BY <2>4, <2>5, <2>6, <2>10 DEF Similar
    <3>2. /\ UsedOn(disk') = UsedOn(disk) /\ FilesOK(disk') /\ Owned(disk') = Owned(disk)
          /\ \A f : Holds(disk, f) => Holds(disk', f)
          /\ Exact(disk') /\ DirOf(disk') = DirOf(disk)
      BY <1>2, <3>1, SimilarFacts
    <3>3. NamesOK(disk', 0)
      BY <1>2, <3>2, SameNames
    <3>4. GoodDir(disk')
      BY <2>7, <3>2, <3>3, GoodFacts
    <3>5. NewFile(disk', i, s, h) /\ NewName(disk', n, i) /\ m(disk', s, h) = m(disk, s, h)
      <4>1. NewFile(disk, i, s, h) /\ NewName(disk, n, i)
        BY <1>2, <1>3 DEF n, i
      <4> QED
        BY <3>2, <4>1, Zenon DEF NewFile, NewName, NewMap
    <3>6. todo' = << v(disk', s), m(disk', s, h) >>
      BY <2>2, <2>7, <3>5, Zenon
    <3>7. CreateBetween'
      BY <1>1, <1>2, <2>7, <2>10, <3>2, <3>3, <3>5, <3>6, Zenon DEF CreateBetween, n, i
    <3>8. Phase'
      BY <1>1, <3>7 DEF Phase
    <3> QED
      BY <2>7, <2>8, <3>2, <3>4, <3>8, DirWriteInv
  <2> QED
    BY <2>6, <2>9, <2>10
<1> QED
  BY <1>3, <1>5, <1>6

\* A write of Create: the second sector of the directory.
LEMMA CreateBetweenInv ==
  ASSUME IInv, WriteSector, CreateBetween
  PROVE  IInv'
<1>1. /\ up = TRUE /\ up' = up /\ torn = Whole /\ torn' = torn /\ disk \in [Sectors -> Content]
      /\ disk' = [disk EXCEPT ![Head(todo)[1]] = Head(todo)[2]]
      /\ todo' = Tail(todo) /\ handle' = handle /\ call' = call
      /\ GoodDir(disk) /\ (HasDir(disk) => FilesOK(disk))
      /\ Typed'
  BY WriteSectorFacts
<1> DEFINE n == call.name
           i == call.entry
<1>2. call.op = "create" /\ NewName(disk, n, i)
  BY DEF CreateBetween
<1> DEFINE v(s) == WritePart(NewDir(disk, n, i, s), 2)
           m(s, h) == WriteBackMap(NewMap(disk, s, h))
           Ahead(s, h) == /\ HeadAt[i] = 2
                          /\ Exact(disk) /\ NamesOK(disk, 0)
                          /\ NewFile(disk, i, s, h)
           Half(s, h) == /\ HeadAt[i] = 1
                         /\ i \in UsedOn(disk) /\ DirOf(disk)[i].sector = s
                         /\ NameAt[i] = 1 => DirOf(disk)[i].name = n
                         /\ AllBut(disk, i) /\ NamesOK(disk, i)
<1>3. PICK s \in Sectors, h \in FileHeader :
        /\ todo = << v(s), m(s, h) >> /\ disk[s] = Hdr(h)
        /\ Ahead(s, h) \/ Half(s, h)
  BY Zenon DEF CreateBetween
<1>4. HasDir(disk)
  BY <1>3 DEF Exact, AllBut
<1>5. Head(todo) = v(s) /\ todo' = << m(s, h) >>
  <2>1. Split(v(s), m(s, h), n, n, n)
    BY Splits, Zenon
  <2> QED
    BY <1>1, <1>3, <2>1, Zenon DEF Split
<1>6. disk' = [disk EXCEPT ![DirData[2]] = Dir(Part(NewDir(disk, n, i, s), 2))]
  <2>1. /\ Head(todo)[1] = DirData[2]
        /\ Head(todo)[2] = Dir(Part(NewDir(disk, n, i, s), 2))
    BY <1>5 DEF WritePart
  <2> QED
    BY <1>1, <2>1, Zenon
<1>7. NewPart(disk, disk', n, i, s, 2) /\ i \in Entries
  BY <1>1, <1>2, <1>4, <1>6 DEF NewPart, NewName
<1> HIDE DEF n, i
<1>8. /\ Off(disk, disk') /\ disk'[MapData] = disk[MapData]
      /\ \A j \in Entries \ {i} : DirOf(disk')[j] = DirOf(disk)[j]
      /\ HeadAt[i] = 2 => DirOf(disk')[i].inUse = TRUE /\ DirOf(disk')[i].sector = s
      /\ HeadAt[i] # 2 => /\ DirOf(disk')[i].inUse = DirOf(disk)[i].inUse
                          /\ DirOf(disk')[i].sector = DirOf(disk)[i].sector
      /\ NameAt[i] = 2 => DirOf(disk')[i].name = n
      /\ NameAt[i] # 2 => DirOf(disk')[i].name = DirOf(disk)[i].name
  <2>1. NewPartDone(disk, disk', n, i, s, 2)
    BY <1>7, WriteNewPart
  <2> QED
    BY <2>1, Zenon DEF NewPartDone
<1>9. HeadAt[i] \in {1, 2} /\ NameAt[i] \in {1, 2} /\ (HeadAt[i] = 2 => NameAt[i] = 2)
  BY <1>7, PlaceFacts
<1>10. HasDir(disk')
  BY <1>8 DEF Off
<1>11. DirOf(disk')[i].name = n
  BY <1>3, <1>8, <1>9
<1>12. NamesOK(disk', 0)
  <2>1. NamesOK(disk, i)
    BY <1>3, NamesFacts
  <2> QED
    BY <1>2, <1>8, <1>11, <2>1, NamesAdded DEF n, i
<1>13. /\ FilesOK(disk') /\ i \in UsedOn(disk') /\ AllBut(disk', i)
       /\ NewMap(disk, s, h) = Owned(disk')
       /\ \A f : Holds(disk, f) => Holds(disk', f)
  <2>1. CASE Ahead(s, h)
    <3>1. Added(disk, disk', i, s, h)
      BY <1>3, <1>8, <2>1 DEF Added
    <3>2. /\ FilesOK(disk') /\ UsedOn(disk') = UsedOn(disk) \cup {i}
          /\ Kept(disk, disk', UsedOn(disk))
          /\ Owned(disk') = NewMap(disk, s, h)
          /\ Owned(disk) = Owned(disk') \ Own(disk', i)
      BY <3>1, HeadsAdded
    <3>3. \A f : Holds(disk, f) => Holds(disk', f)
      BY <3>2 DEF Holds, Kept
    <3>4. AllBut(disk', i)
      BY <1>8, <1>10, <2>1, <3>2 DEF AllBut, Exact
    <3> QED
      BY <3>2, <3>3, <3>4
  <2>2. CASE Half(s, h)
    <3>1. Similar(disk, disk', i)
      BY <1>7, <1>8, <2>2 DEF Similar
    <3>2. /\ UsedOn(disk') = UsedOn(disk) /\ FilesOK(disk') /\ Owned(disk') = Owned(disk)
          /\ \A f : Holds(disk, f) => Holds(disk', f)
          /\ AllBut(disk', i)
      BY <2>2, <3>1, SimilarFacts
    <3>3. {s} \cup Range(h.dataSectors) = Own(disk, i)
      <4>1. HdrOf(disk, i) = h
        BY <1>3, <2>2 DEF HdrOf, Hdr
      <4> QED
        BY <2>2, <4>1 DEF Own
    <3>4. Own(disk, i) \subseteq Owned(disk)
      BY <2>2 DEF Owned
    <3>5. NewMap(disk, s, h) = Owned(disk)
      BY <3>3, <3>4 DEF NewMap
    <3> QED
      BY <2>2, <3>2, <3>5
  <2> HIDE DEF Ahead, Half
  <2> QED
    BY <1>3, <2>1, <2>2
<1>14. CreateEnds'
  <2>1. todo' = << WriteBackMap(Owned(disk')) >>
    BY <1>5, <1>13
  <2> QED
    BY <1>1, <1>2, <1>11, <1>12, <1>13, <2>1, Zenon DEF CreateEnds, n, i
<1>15. Phase'
  BY <1>1, <1>14 DEF Phase
<1>16. GoodDir(disk')
  BY <1>10, <1>12, <1>13, GoodFacts
<1>17. \A g \in Handles : handle[g] # NULL => Holds(disk, handle[g])
  BY DEF IInv
<1> QED
  BY <1>10, <1>13, <1>15, <1>16, <1>17, DirWriteInv

\* The last write of Create: the bitmap catches up with the directory.
LEMMA CreateEndsInv ==
  ASSUME IInv, WriteSector, CreateEnds
  PROVE  IInv'
<1>1. /\ up = TRUE /\ up' = up /\ torn = Whole /\ torn' = torn /\ disk \in [Sectors -> Content]
      /\ disk' = [disk EXCEPT ![Head(todo)[1]] = Head(todo)[2]]
      /\ todo' = Tail(todo)
      /\ GoodDir(disk) /\ (HasDir(disk) => FilesOK(disk))
  BY WriteSectorFacts
<1>2. HasDir(disk) /\ NamesOK(disk, 0) /\ todo = << WriteBackMap(Owned(disk)) >>
  BY DEF CreateEnds, AllBut
<1>3. Head(todo)[1] = MapData /\ Head(todo)[2] = Map(Owned(disk)) /\ todo' = <<>>
  BY <1>1, <1>2 DEF WriteBackMap
<1>4. disk' = [disk EXCEPT ![MapData] = Map(Owned(disk))]
  BY <1>1, <1>3
<1>5. MapData \notin DirSectors /\ MapData \in SystemSectors /\ MapData \in Sectors
  BY SystemFacts
<1>6. Unchanged(disk, disk')
  <2>1. FreeWrite(disk, disk', MapData, Map(Owned(disk)))
    BY <1>1, <1>4, <1>5 DEF FreeWrite
  <2> QED
    BY <2>1, WriteFree
<1>7. HasDir(disk') /\ SameFiles(disk, disk') /\ GoodDir(disk') /\ NamesOK(disk', 0)
  BY <1>1, <1>2, <1>6 DEF Unchanged
<1>8. disk'[MapData] = Map(Owned(disk'))
  BY <1>1, <1>4, <1>5, <1>7 DEF SameFiles
<1>9. Phase'
  <2>1. Exact(disk')
    BY <1>7, <1>8 DEF Exact
  <2> QED
    BY <1>1, <1>3, <1>7, <2>1 DEF Phase
<1> QED
  BY <1>2, <1>7, <1>9, SameFilesInv

\* A write of Remove: the bitmap first, then the directory.
LEMMA RemovingInv ==
  ASSUME IInv, WriteSector, Removing
  PROVE  IInv'
<1>1. /\ up = TRUE /\ up' = up /\ torn = Whole /\ torn' = torn /\ disk \in [Sectors -> Content]
      /\ disk' = [disk EXCEPT ![Head(todo)[1]] = Head(todo)[2]]
      /\ todo' = Tail(todo) /\ handle' = handle /\ call' = call
      /\ GoodDir(disk) /\ (HasDir(disk) => FilesOK(disk))
      /\ Typed'
  BY WriteSectorFacts
<1> DEFINE i == call.entry
<1>2. /\ call.op = "remove" /\ HasDir(disk) /\ NamesOK(disk, 0) /\ i \in Entries
      /\ \A h \in Handles : handle[h] # NULL => handle[h].sector # DirOf(disk)[i].sector
  BY Zenon DEF Removing
<1> DEFINE m == WriteBackMap(Owned(disk) \ Own(disk, i))
           u(d) == WritePart(Removed(d, i), 1)
           v(d) == WritePart(Removed(d, i), 2)
<1>3. \/ todo = << m, u(disk), v(disk) >> /\ i \in UsedOn(disk) /\ Exact(disk)
      \/ todo = << u(disk), v(disk) >> /\ i \in UsedOn(disk) /\ AllBut(disk, i)
      \/ /\ todo = << v(disk) >>
         /\ \/ HeadAt[i] = 1 /\ i \notin UsedOn(disk) /\ Exact(disk)
            \/ HeadAt[i] = 2 /\ i \in UsedOn(disk) /\ AllBut(disk, i)
  BY Zenon DEF Removing
<1>4. \A g \in Handles : handle[g] # NULL => Holds(disk, handle[g])
  BY DEF IInv
<1>5. CASE todo = << m, u(disk), v(disk) >> /\ i \in UsedOn(disk) /\ Exact(disk)
  <2>1. Split(m, u(disk), v(disk), i, i)
    BY Splits, Zenon
  <2>2. Head(todo) = m /\ todo' = << u(disk), v(disk) >>
    BY <1>1, <1>5, <2>1, Zenon DEF Split
  <2>3. disk' = [disk EXCEPT ![MapData] = Map(Owned(disk) \ Own(disk, i))]
    <3>1. Head(todo)[1] = MapData /\ Head(todo)[2] = Map(Owned(disk) \ Own(disk, i))
      BY <2>2 DEF WriteBackMap
    <3> QED
      BY <1>1, <3>1, Zenon
  <2>4. MapData \notin DirSectors /\ MapData \in SystemSectors /\ MapData \in Sectors
    BY SystemFacts
  <2>5. Unchanged(disk, disk')
    <3>1. FreeWrite(disk, disk', MapData, Map(Owned(disk) \ Own(disk, i)))
      BY <1>1, <2>3, <2>4 DEF FreeWrite
    <3> QED
      BY <3>1, WriteFree
  <2>6. HasDir(disk') /\ SameFiles(disk, disk') /\ GoodDir(disk') /\ NamesOK(disk', 0)
    BY <1>1, <1>2, <2>5 DEF Unchanged
  <2>7. /\ DirOf(disk') = DirOf(disk) /\ UsedOn(disk') = UsedOn(disk)
        /\ Owned(disk') = Owned(disk) /\ Own(disk', i) = Own(disk, i)
    BY <1>5, <2>6 DEF SameFiles
  <2>8. disk'[MapData] = Map(Owned(disk) \ Own(disk, i))
    BY <1>1, <2>3, <2>4
  <2>9. AllBut(disk', i) /\ u(disk') = u(disk) /\ v(disk') = v(disk)
    BY <2>6, <2>7, <2>8 DEF AllBut, Removed
  <2> HIDE DEF u, v
  <2>10. todo' = << u(disk'), v(disk') >>
    BY <2>2, <2>9
  <2>11. \A h \in Handles : handle[h] # NULL => handle[h].sector # DirOf(disk')[i].sector
    BY <1>2, <2>7
  <2>12. i \in UsedOn(disk')
    BY <1>5, <2>7
  <2>13. Removing'
    BY <1>1, <1>2, <2>6, <2>9, <2>10, <2>11, <2>12, Zenon DEF Removing, u, v
  <2>14. Phase'
    BY <1>1, <2>13 DEF Phase
  <2> QED
    BY <1>2, <2>6, <2>14, SameFilesInv
<1>6. ASSUME NEW k \in {1, 2}, Head(todo) = WritePart(Removed(disk, i), k)
      PROVE  /\ RemovedPartDone(disk, disk', i, k) /\ HasDir(disk')
             /\ \A h \in Handles : handle[h] # NULL => handle[h].sector # DirOf(disk')[i].sector
  <2>1. disk' = [disk EXCEPT ![DirData[k]] = Dir(Part(Removed(disk, i), k))]
    <3>1. Head(todo)[1] = DirData[k] /\ Head(todo)[2] = Dir(Part(Removed(disk, i), k))
      BY <1>6 DEF WritePart
    <3> QED
      BY <1>1, <3>1, Zenon
  <2>2. RemovedPart(disk, disk', i, k)
    BY <1>1, <1>2, <2>1 DEF RemovedPart
  <2> HIDE DEF i
  <2>3. RemovedPartDone(disk, disk', i, k)
    BY <2>2, WriteRemovedPart
  <2>4. DirOf(disk')[i].sector = DirOf(disk)[i].sector /\ HasDir(disk')
    BY <2>3, Zenon DEF RemovedPartDone, Off
  <2> QED
    BY <1>2, <2>3, <2>4
<1>7. ASSUME NEW k \in {1, 2}, RemovedPartDone(disk, disk', i, k), HeadAt[i] = k,
             i \in UsedOn(disk), AllBut(disk, i)
      PROVE  /\ Exact(disk') /\ NamesOK(disk', 0) /\ GoodDir(disk') /\ i \notin UsedOn(disk')
             /\ \A g \in Handles : handle[g] # NULL => Holds(disk', handle[g])
  <2> HIDE DEF i
  <2>1. /\ Off(disk, disk') /\ disk'[MapData] = disk[MapData] /\ HasDir(disk')
        /\ \A j \in Entries \ {i} : DirOf(disk')[j] = DirOf(disk)[j]
        /\ DirOf(disk')[i].inUse = FALSE /\ DirOf(disk')[i].name = DirOf(disk)[i].name
    BY <1>7, Zenon DEF RemovedPartDone, Off
  <2>2. Freed(disk, disk', i)
    BY <1>7, <2>1, Zenon DEF Freed
  <2>3. /\ FilesOK(disk') /\ UsedOn(disk') = UsedOn(disk) \ {i}
        /\ Kept(disk, disk', UsedOn(disk')) /\ Owned(disk') = Owned(disk) \ Own(disk, i)
    BY <2>2, HeadsFreed
  <2>4. Exact(disk')
    BY <1>7, <2>1, <2>3 DEF Exact, AllBut
  <2>5. NamesOK(disk', 0)
    <3>1. \A j \in Entries : DirOf(disk')[j].name = DirOf(disk)[j].name
      BY <2>1, Zenon
    <3> QED
      BY <1>2, <2>3, <3>1, NamesFreed
  <2>6. ASSUME NEW h \in Handles, handle[h] # NULL PROVE Holds(disk', handle[h])
    <3>1. PICK j \in UsedOn(disk) :
            handle[h].sector = DirOf(disk)[j].sector /\ handle[h].hdr = HdrOf(disk, j)
      BY <1>4, <2>6 DEF Holds
    <3>2. j # i
      BY <1>2, <2>6, <3>1
    <3> QED
      BY <2>3, <3>1, <3>2 DEF Holds, Kept
  <2> QED
    BY <2>1, <2>3, <2>4, <2>5, <2>6, GoodFacts
<1>8. ASSUME NEW k \in {1, 2}, RemovedPartDone(disk, disk', i, k),
             HeadAt[i] # k \/ i \notin UsedOn(disk)
      PROVE  /\ Exact(disk) => Exact(disk')
             /\ i \in UsedOn(disk) /\ AllBut(disk, i) => AllBut(disk', i)
             /\ NamesOK(disk', 0) /\ GoodDir(disk') /\ UsedOn(disk') = UsedOn(disk)
             /\ \A g \in Handles : handle[g] # NULL => Holds(disk', handle[g])
  <2> HIDE DEF i
  <2>1. /\ Off(disk, disk') /\ disk'[MapData] = disk[MapData] /\ HasDir(disk')
        /\ \A j \in Entries \ {i} : DirOf(disk')[j] = DirOf(disk)[j]
        /\ DirOf(disk')[i].sector = DirOf(disk)[i].sector
        /\ DirOf(disk')[i].name = DirOf(disk)[i].name
        /\ HeadAt[i] = k => DirOf(disk')[i].inUse = FALSE
        /\ HeadAt[i] # k => DirOf(disk')[i].inUse = DirOf(disk)[i].inUse
    BY <1>8, Zenon DEF RemovedPartDone, Off
  <2>2. DirOf(disk')[i].inUse = DirOf(disk)[i].inUse
    <3>1. DirOf(disk)[i].inUse \in BOOLEAN
      BY <1>1, <1>2, DirType DEF DirectoryEntry
    <3>2. i \notin UsedOn(disk) => ~DirOf(disk)[i].inUse
      BY <1>2, Zenon DEF UsedOn
    <3> QED
      BY <1>8, <2>1, <3>1, <3>2, Zenon
  <2>3. Similar(disk, disk', i)
    BY <1>2, <2>1, <2>2, Zenon DEF Similar
  <2>4. /\ UsedOn(disk') = UsedOn(disk) /\ FilesOK(disk')
        /\ \A f : Holds(disk, f) => Holds(disk', f)
        /\ Exact(disk) => Exact(disk')
        /\ i \in UsedOn(disk) /\ AllBut(disk, i) => AllBut(disk', i)
        /\ DirOf(disk') = DirOf(disk)
    BY <2>1, <2>3, SimilarFacts
  <2>5. NamesOK(disk', 0)
    BY <1>2, <2>4, SameNames
  <2> QED
    BY <1>4, <2>1, <2>4, <2>5, GoodFacts
<1>9. HeadAt[i] \in {1, 2}
  BY <1>2, PlaceFacts
<1>10. CASE todo = << u(disk), v(disk) >> /\ i \in UsedOn(disk) /\ AllBut(disk, i)
  <2>1. Split(u(disk), v(disk), i, i, i)
    BY Splits, Zenon
  <2>2. Head(todo) = u(disk) /\ todo' = << v(disk) >>
    BY <1>1, <1>10, <2>1, Zenon DEF Split
  <2>3. /\ RemovedPartDone(disk, disk', i, 1) /\ HasDir(disk')
        /\ \A h \in Handles : handle[h] # NULL => handle[h].sector # DirOf(disk')[i].sector
    BY <1>6, <2>2
  <2>4. v(disk') = v(disk)
    BY <2>3, Zenon DEF RemovedPartDone
  <2> HIDE DEF u, v
  <2>5. todo' = << v(disk') >>
    BY <2>2, <2>4
  <2>6. CASE HeadAt[i] = 1
    <3>1. /\ Exact(disk') /\ NamesOK(disk', 0) /\ GoodDir(disk') /\ i \notin UsedOn(disk')
          /\ \A g \in Handles : handle[g] # NULL => Holds(disk', handle[g])
      BY <1>7, <1>10, <2>3, <2>6
    <3>2. Removing'
      BY <1>1, <1>2, <2>3, <2>5, <2>6, <3>1, Zenon DEF Removing, v
    <3>3. Phase'
      BY <1>1, <3>2 DEF Phase
    <3> QED
      BY <2>3, <3>1, <3>3, DirWriteInv
  <2>7. CASE HeadAt[i] = 2
    <3>1. /\ AllBut(disk', i) /\ NamesOK(disk', 0) /\ GoodDir(disk') /\ i \in UsedOn(disk')
          /\ \A g \in Handles : handle[g] # NULL => Holds(disk', handle[g])
      BY <1>8, <1>10, <2>3, <2>7
    <3>2. Removing'
      BY <1>1, <1>2, <2>3, <2>5, <2>7, <3>1, Zenon DEF Removing, v
    <3>3. Phase'
      BY <1>1, <3>2 DEF Phase
    <3> QED
      BY <2>3, <3>1, <3>3, DirWriteInv
  <2> QED
    BY <1>9, <2>6, <2>7
<1>11. CASE /\ todo = << v(disk) >>
            /\ \/ HeadAt[i] = 1 /\ i \notin UsedOn(disk) /\ Exact(disk)
               \/ HeadAt[i] = 2 /\ i \in UsedOn(disk) /\ AllBut(disk, i)
  <2>1. Split(v(disk), i, i, i, i)
    BY Splits, Zenon
  <2>2. Head(todo) = v(disk) /\ todo' = <<>>
    BY <1>1, <1>11, <2>1, Zenon DEF Split
  <2>3. RemovedPartDone(disk, disk', i, 2) /\ HasDir(disk')
    BY <1>6, <2>2
  <2> HIDE DEF u, v, i
  <2>4. /\ Exact(disk') /\ NamesOK(disk', 0) /\ GoodDir(disk')
        /\ \A g \in Handles : handle[g] # NULL => Holds(disk', handle[g])
    BY <1>7, <1>8, <1>11, <2>3
  <2>5. Phase'
    BY <1>1, <2>2, <2>4 DEF Phase
  <2> QED
    BY <2>3, <2>4, <2>5, DirWriteInv
<1> HIDE DEF u, v, m, i
<1> QED
  BY <1>3, <1>5, <1>10, <1>11

\* A write of WriteAt.
LEMMA WritingInv ==
  ASSUME IInv, WriteSector, Writing
  PROVE  IInv'
<1>1. /\ up = TRUE /\ up' = up /\ torn = Whole /\ torn' = torn /\ disk \in [Sectors -> Content]
      /\ disk' = [disk EXCEPT ![Head(todo)[1]] = Head(todo)[2]]
      /\ todo' = Tail(todo) /\ call' = call /\ todo # <<>>
      /\ GoodDir(disk) /\ (HasDir(disk) => FilesOK(disk))
  BY WriteSectorFacts
<1>2. /\ call.op = "write" /\ Exact(disk) /\ NamesOK(disk, 0)
      /\ call.file \in OpenFiles /\ Holds(disk, call.file)
      /\ \A k \in 1..Len(todo) :
           /\ todo[k][1] \in Range(call.file.hdr.dataSectors)
           /\ todo[k][2] \in {"data"} \X [0..(SectorSize - 1) -> Bytes \cup {Junk}]
  BY DEF Writing
<1>3. todo \in Seq(Sectors \X Content)
  BY DEF IInv, Typed
<1>4. Head(todo) = todo[1] /\ 1 \in 1..Len(todo)
  BY <1>1, <1>3
<1>5. PICK i \in UsedOn(disk) : call.file.hdr = HdrOf(disk, i)
  BY <1>2 DEF Holds
<1>6. Head(todo)[1] \in Range(HdrOf(disk, i).dataSectors) /\ HasDir(disk)
  BY <1>2, <1>4, <1>5 DEF Exact
<1>7. /\ Head(todo)[1] \notin SystemSectors /\ SameFiles(disk, disk')
      /\ GoodDir(disk') /\ NamesOK(disk', 0)
  <2>1. BytesWrite(disk, disk', i, Head(todo)[1], Head(todo)[2])
    BY <1>1, <1>6 DEF BytesWrite
  <2>2. Head(todo)[1] \notin SystemSectors /\ Unchanged(disk, disk')
    BY <2>1, WriteBytes
  <2> QED
    BY <1>1, <1>2, <1>6, <2>2 DEF Unchanged
<1>8. disk'[MapData] = disk[MapData]
  BY <1>1, <1>7, SystemFacts
<1>9. Exact(disk') /\ Holds(disk', call.file)
  BY <1>2, <1>7, <1>8, SameFacts
<1>10. \A k \in 1..Len(todo') :
         /\ todo'[k][1] \in Range(call.file.hdr.dataSectors)
         /\ todo'[k][2] \in {"data"} \X [0..(SectorSize - 1) -> Bytes \cup {Junk}]
  <2>1. ASSUME NEW k \in 1..Len(Tail(todo))
        PROVE  Tail(todo)[k] = todo[k + 1] /\ k + 1 \in 1..Len(todo)
    BY <1>1, <1>3
  <2> QED
    BY <1>1, <1>2, <2>1
<1>11. Phase'
  <2>1. CASE todo' = <<>>
    BY <1>1, <1>7, <1>9, <2>1 DEF Phase
  <2>2. CASE todo' # <<>>
    <3>1. Writing'
      BY <1>1, <1>2, <1>7, <1>9, <1>10, <2>2 DEF Writing
    <3> QED
      BY <1>1, <3>1 DEF Phase
  <2> QED
    BY <2>1, <2>2
<1> QED
  BY <1>6, <1>7, <1>11, SameFilesInv

\* SynchDisk::WriteSector keeps the invariant, whichever operation calls it.
LEMMA WriteSectorInv ==
  ASSUME IInv, WriteSector
  PROVE  IInv'
BY WriteSectorFacts, FormattingInv, CreateStartsInv, CreateBetweenInv, CreateEndsInv,
   RemovingInv, WritingInv

-----------------------------------------------------------------------------
(* ReadAt and WriteAt.                                                     *)

\* Adding whole sectors does not change the place in a sector.
LEMMA WholeSectors ==
  ASSUME NEW s \in Nat \ {0}, NEW a \in Int, NEW k \in Int
  PROVE  (a * s + k) % s = k % s
<1> DEFINE q == k \div s
           r == k % s
<1>1. q \in Int /\ r \in 0..(s - 1) /\ k = s * q + r
  BY Division
<1> HIDE DEF q, r
<1>2. a * s + k = s * (a + q) + r /\ a + q \in Int /\ a * s + k \in Int
  BY <1>1
<1>3. (a * s + k) % s = r
  <2> DEFINE x == a * s + k
             y == a + q
  <2>1. x = s * y + r /\ y \in Int /\ x \in Int
    BY <1>2
  <2> HIDE DEF x, y
  <2>2. x % s = r
    BY <1>1, <2>1, DivisionUnique
  <2> QED
    BY <2>2 DEF x
<1> QED
  BY <1>3 DEF r

\* The sector of a byte of a file, and the byte.
LEMMA ByteFacts ==
  ASSUME NEW d \in [Sectors -> Content], NEW hdr, GoodHdr(hdr),
         NEW off \in 0..(hdr.numBytes - 1)
  PROVE  /\ off \div SectorSize + 1 \in DOMAIN hdr.dataSectors
         /\ off \div SectorSize \in Nat /\ off % SectorSize \in 0..(SectorSize - 1)
         /\ ByteToSector(hdr, off) = hdr.dataSectors[off \div SectorSize + 1]
         /\ ByteToSector(hdr, off) \in Sectors
         /\ PlaceOf(hdr, off + 1) = ByteToSector(hdr, off)
         /\ BytesOf(d, hdr)[off + 1] = ByteIn(d[ByteToSector(hdr, off)], off % SectorSize)
         /\ BytesOf(d, hdr)[off + 1] \in Bytes \cup {Junk}
<1>1. /\ hdr.numBytes \in Nat /\ SectorSize \in Nat \ {0} /\ off \in Nat /\ off \in Int
      /\ hdr.dataSectors \in Seq(Sectors)
      /\ DOMAIN hdr.dataSectors = 1..DivRoundUp(hdr.numBytes, SectorSize)
  BY DiskFSAssumption DEF GoodHdr, FileHeader, MaxFileSize
<1>2. off \div SectorSize + 1 \in DOMAIN hdr.dataSectors
  BY <1>1, RoundUp
<1>3. off \div SectorSize \in Nat
  <2>1. off \div SectorSize \in Int
    BY <1>1, Division
  <2>2. DivRoundUp(hdr.numBytes, SectorSize) \in Nat
    BY <1>1, RoundUp
  <2> QED
    BY <1>1, <1>2, <2>1, <2>2
<1>4. off % SectorSize \in 0..(SectorSize - 1)
  BY <1>1, Division
<1>5. ByteToSector(hdr, off) = hdr.dataSectors[off \div SectorSize + 1]
  BY DEF ByteToSector
<1>6. ByteToSector(hdr, off) \in Sectors
  <2>1. \A ds \in Seq(Sectors) : \A x \in DOMAIN ds : ds[x] \in Sectors
    OBVIOUS
  <2> QED
    BY <1>1, <1>2, <1>5, <2>1, Zenon
<1>7. off + 1 - 1 = off /\ off + 1 \in 1..hdr.numBytes
  BY <1>1
<1>8. PlaceOf(hdr, off + 1) = ByteToSector(hdr, off)
  BY <1>5, <1>7 DEF PlaceOf
<1>9. BytesOf(d, hdr)[off + 1] = ByteIn(d[ByteToSector(hdr, off)], off % SectorSize)
  <2>1. BytesOf(d, hdr)[off + 1] =
          IF d[hdr.dataSectors[off \div SectorSize + 1]][1] = "data"
          THEN d[hdr.dataSectors[off \div SectorSize + 1]][2][off % SectorSize] ELSE Junk
    BY <1>7 DEF BytesOf
  <2> QED
    BY <1>5, <2>1 DEF ByteIn
<1>10. ByteIn(d[ByteToSector(hdr, off)], off % SectorSize) \in Bytes \cup {Junk}
  <2> DEFINE v == d[ByteToSector(hdr, off)]
             o == off % SectorSize
  <2>1. v \in Content /\ o \in 0..(SectorSize - 1)
    BY <1>4, <1>6
  <2> HIDE DEF v, o
  <2>2. v[1] = "data" => v[2] \in [0..(SectorSize - 1) -> Bytes \cup {Junk}]
    BY <2>1, ContentFacts
  <2>3. ByteIn(v, o) \in Bytes \cup {Junk}
    BY <2>1, <2>2 DEF ByteIn
  <2> QED
    BY <2>3 DEF v, o
<1> QED
  BY <1>2, <1>3, <1>4, <1>5, <1>6, <1>8, <1>9, <1>10

\* The bytes of a file are a sequence.
LEMMA BytesFacts ==
  ASSUME NEW d \in [Sectors -> Content], NEW hdr, GoodHdr(hdr)
  PROVE  /\ hdr.numBytes \in Nat
         /\ BytesOf(d, hdr) \in [1..hdr.numBytes -> Bytes \cup {Junk}]
         /\ BytesOf(d, hdr) \in Seq(Bytes \cup {Junk})
         /\ Len(BytesOf(d, hdr)) = hdr.numBytes
<1>1. hdr.numBytes \in Nat
  BY DiskFSAssumption DEF GoodHdr, FileHeader, MaxFileSize
<1>2. ASSUME NEW k \in 1..hdr.numBytes PROVE BytesOf(d, hdr)[k] \in Bytes \cup {Junk}
  <2>1. k - 1 \in 0..(hdr.numBytes - 1) /\ k - 1 + 1 = k
    BY <1>1
  <2> QED
    BY <2>1, ByteFacts
<1>3. BytesOf(d, hdr) \in [1..hdr.numBytes -> Bytes \cup {Junk}]
  <2> DEFINE g(k) == LET s == hdr.dataSectors[(k - 1) \div SectorSize + 1]
                     IN  IF d[s][1] = "data" THEN d[s][2][(k - 1) % SectorSize] ELSE Junk
  <2>1. BytesOf(d, hdr) = [k \in 1..hdr.numBytes |-> g(k)]
    BY DEF BytesOf
  <2> HIDE DEF g
  <2>2. \A k \in 1..hdr.numBytes : g(k) \in Bytes \cup {Junk}
    BY <1>2, <2>1
  <2> QED
    BY <2>1, <2>2
<1>4. BytesOf(d, hdr) \in Seq(Bytes \cup {Junk})
  BY <1>1, <1>3
<1>5. Len(BytesOf(d, hdr)) = hdr.numBytes
  <2>1. DOMAIN BytesOf(d, hdr) = 1..hdr.numBytes
    BY <1>3
  <2> QED
    BY <1>1, <1>4, <2>1
<1> QED
  BY <1>1, <1>3, <1>4, <1>5

\* The part of a request that lies in a file.
LEMMA ClampIs ==
  ASSUME NEW hdr, hdr.numBytes \in Nat, NEW m \in Nat, NEW p \in Nat
  PROVE  /\ Clamp(hdr, m, p) \in Nat
         /\ Clamp(hdr, m, p) = IF m = 0 \/ p >= hdr.numBytes THEN 0
                               ELSE IF m < hdr.numBytes - p THEN m ELSE hdr.numBytes - p
<1> DEFINE N == hdr.numBytes
<1>1. Clamp(hdr, m, p) =
        IF m <= 0 \/ p >= N THEN 0 ELSE IF m < N - p THEN m ELSE N - p
  BY DEF Clamp, MinOf, FileLength
<1>2. N \in Nat
  OBVIOUS
<1> HIDE DEF N
<1>3. Clamp(hdr, m, p) \in Nat
  BY <1>1, <1>2
<1>4. Clamp(hdr, m, p) =
        IF m = 0 \/ p >= N THEN 0 ELSE IF m < N - p THEN m ELSE N - p
  BY <1>1, <1>2
<1> QED
  BY <1>3, <1>4 DEF N

\* The n bytes of the file from the position on.
Reads(into, hdr, n, p) ==
  /\ n \in Nat /\ Len(into) = n
  /\ into \in [1..n -> Bytes \cup {Junk}] /\ into \in Seq(Bytes \cup {Junk})
  /\ \A i \in 1..n : p + i \in 1..hdr.numBytes /\ into[i] = BytesOf(disk, hdr)[p + i]

\* ReadAt returns the bytes of the file that lie in the request.
LEMMA ReadAtFacts ==
  ASSUME disk \in [Sectors -> Content], NEW hdr, GoodHdr(hdr), NEW m \in Nat, NEW p \in Nat
  PROVE  Reads(ReadAt(hdr, m, p), hdr, Clamp(hdr, m, p), p)
<1> DEFINE n == Clamp(hdr, m, p)
           first == FirstSector(p)
           into == ReadAt(hdr, m, p)
<1>1. SectorSize \in Nat \ {0} /\ hdr.numBytes \in Nat
  BY BytesFacts, DiskFSAssumption
<1>2. n \in Nat /\ n = IF m = 0 \/ p >= hdr.numBytes THEN 0
                       ELSE IF m < hdr.numBytes - p THEN m ELSE hdr.numBytes - p
  BY <1>1, ClampIs
<1>3. first \in Int
  BY <1>1, Division DEF FirstSector
<1>4. into = [i \in 1..n |-> BufferByte(hdr, first, p - first * SectorSize + i - 1)]
  BY DEF ReadAt
<1> HIDE DEF n, first, into
<1>5. ASSUME NEW i \in 1..n
      PROVE  /\ p + i \in 1..hdr.numBytes
             /\ BufferByte(hdr, first, p - first * SectorSize + i - 1)
                  = BytesOf(disk, hdr)[p + i]
             /\ BytesOf(disk, hdr)[p + i] \in Bytes \cup {Junk}
  <2> DEFINE off == p + i - 1
             fS == first * SectorSize
             k == p - fS + i - 1
  <2>1. fS \in Int
    BY <1>1, <1>3
  <2>2. off \in 0..(hdr.numBytes - 1) /\ off + 1 = p + i /\ fS + k = off /\ k \in Int
    <3> HIDE DEF fS
    <3> QED
      BY <1>1, <1>2, <2>1
  <2>3. off % SectorSize = k % SectorSize
    <3>1. (first * SectorSize + k) % SectorSize = k % SectorSize
      <4> HIDE DEF k
      <4> QED
        BY <1>1, <1>3, <2>2, WholeSectors
    <3> QED
      BY <2>2, <3>1
  <2>4. BufferByte(hdr, first, k) = SectorByte(ByteToSector(hdr, off), off % SectorSize)
    BY <2>2, <2>3 DEF BufferByte
  <2>5. SectorByte(ByteToSector(hdr, off), off % SectorSize)
          = ByteIn(disk[ByteToSector(hdr, off)], off % SectorSize)
    BY DEF SectorByte, ByteIn
  <2> HIDE DEF off
  <2>6. /\ BytesOf(disk, hdr)[off + 1]
             = ByteIn(disk[ByteToSector(hdr, off)], off % SectorSize)
        /\ BytesOf(disk, hdr)[off + 1] \in Bytes \cup {Junk}
    BY <2>2, ByteFacts
  <2>7. p + i \in 1..hdr.numBytes
    BY <1>1, <2>2
  <2> QED
    BY <2>2, <2>4, <2>5, <2>6, <2>7
<1>6. into \in [1..n -> Bytes \cup {Junk}] /\ \A i \in 1..n : into[i] = BytesOf(disk, hdr)[p + i]
  BY <1>4, <1>5
<1>7. into \in Seq(Bytes \cup {Junk}) /\ DOMAIN into = 1..n
  BY <1>2, <1>6
<1>8. Len(into) = n
  BY <1>2, <1>7
<1> QED
  <2>1. Reads(into, hdr, n, p)
    BY <1>2, <1>5, <1>6, <1>7, <1>8 DEF Reads
  <2> QED
    BY <2>1 DEF n, into

\* The numbers of WriteAt: sizes in bytes of whole sectors.
LEMMA SpanFacts ==
  ASSUME NEW s \in Nat \ {0}, NEW p \in Nat, NEW n \in Nat \ {0}
  PROVE  LET first == p \div s
             last == (p + n - 1) \div s
         IN  /\ first \in Nat /\ last \in Nat /\ first <= last
             /\ first * s \in Nat /\ last * s \in Nat /\ first * s <= last * s
             /\ first < last => first * s + s <= last * s
             /\ p - first * s \in 0..(s - 1)
             /\ p + n - 1 - last * s \in 0..(s - 1)
             /\ (last - first) * s = last * s - first * s
             /\ (last - first + 1) * s = last * s - first * s + s
             /\ (last + 1) * s = last * s + s
<1> DEFINE first == p \div s
           last == (p + n - 1) \div s
           x == p + n - 1
           a == p % s
           b == (p + n - 1) % s
<1>1. p \in Int /\ x \in Int /\ x >= 0 /\ p >= 0 /\ p <= x
  OBVIOUS
<1>2. first \in Int /\ a \in 0..(s - 1) /\ p = s * first + a
  BY Division
<1>3. last \in Int /\ b \in 0..(s - 1) /\ x = s * last + b
  BY <1>1, Division
<1> HIDE DEF first, last, a, b
<1>4. first >= 0 /\ last >= 0
  <2>1. ASSUME NEW c \in Int, c < 0 PROVE s * c + s <= 0 /\ s * c \in Int
    BY <2>1, Multiples
  <2>2. ~(first < 0)
    BY <1>1, <1>2, <2>1
  <2>3. ~(last < 0)
    BY <1>1, <1>3, <2>1
  <2> QED
    BY <1>2, <1>3, <2>2, <2>3
<1>5. first <= last
  <2>1. ASSUME last < first PROVE FALSE
    <3>1. s * last + s <= s * first /\ s * last \in Int /\ s * first \in Int
      BY <1>2, <1>3, <2>1, Multiples
    <3> HIDE DEF x
    <3> QED
      BY <1>1, <1>2, <1>3, <3>1
  <2> QED
    BY <1>2, <1>3, <2>1
<1>6. /\ first * s = s * first /\ last * s = s * last
      /\ first * s \in Nat /\ last * s \in Nat
      /\ (last - first) * s = last * s - first * s
      /\ (last - first + 1) * s = last * s - first * s + s
      /\ (last + 1) * s = last * s + s
  BY <1>2, <1>3, <1>4
<1>7. s * first <= s * last /\ (first < last => s * first + s <= s * last)
  BY <1>2, <1>3, <1>5, Multiples
<1>8. p - first * s \in 0..(s - 1) /\ x - last * s \in 0..(s - 1)
  <2> DEFINE fS == first * s
             lS == last * s
  <2>1. fS \in Nat /\ lS \in Nat /\ p = fS + a /\ x = lS + b
    BY <1>2, <1>3, <1>6
  <2> HIDE DEF fS, lS, x
  <2>2. p - fS \in 0..(s - 1) /\ x - lS \in 0..(s - 1)
    BY <1>1, <1>2, <1>3, <2>1
  <2> QED
    BY <2>2 DEF fS, lS
<1>9. first \in Nat /\ last \in Nat
  BY <1>2, <1>3, <1>4
<1>10. first * s <= last * s /\ (first < last => first * s + s <= last * s)
  BY <1>6, <1>7
<1> QED
  BY <1>5, <1>6, <1>8, <1>9, <1>10 DEF first, last, x

\* Byte off of a file, once n bytes of from are written at p.
NewByte(hdr, from, n, p, off) ==
  IF off \in p..(p + n - 1) THEN from[off - p + 1] ELSE BytesOf(disk, hdr)[off + 1]

\* WriteBuffer holds the new bytes where they go, and what the file holds in the
\* rest of its first and last sectors.
LEMMA WriteBufferFacts ==
  ASSUME disk \in [Sectors -> Content], NEW hdr, GoodHdr(hdr), NEW from \in Seq(Bytes),
         NEW p \in Nat, NEW n \in Nat \ {0}, n <= Len(from), p + n <= hdr.numBytes
  PROVE  \A k \in 0..((LastSector(p, n) - FirstSector(p) + 1) * SectorSize - 1) :
           /\ WriteBuffer(hdr, from, n, p)[k] \in Bytes \cup {Junk}
           /\ FirstSector(p) * SectorSize + k < hdr.numBytes =>
                WriteBuffer(hdr, from, n, p)[k] =
                  NewByte(hdr, from, n, p, FirstSector(p) * SectorSize + k)
<1> DEFINE S == SectorSize
           N == hdr.numBytes
           first == FirstSector(p)
           last == LastSector(p, n)
           fS == first * S
           lS == last * S
           old == BytesOf(disk, hdr)
           buf == WriteBuffer(hdr, from, n, p)
           firstAligned == p = first * S
           lastAligned == p + n = (last + 1) * S
           start == IF firstAligned THEN <<>> ELSE ReadAt(hdr, S, first * S)
           end == IF lastAligned \/ (first = last /\ ~firstAligned) THEN <<>>
                  ELSE ReadAt(hdr, S, last * S)
           at == p - first * S
           tail == (last - first) * S
           size == (last - first + 1) * S
<1>1. S \in Nat \ {0} /\ N \in Nat
  BY BytesFacts, DiskFSAssumption
<1>2. /\ first \in Nat /\ last \in Nat /\ first <= last
      /\ fS \in Nat /\ lS \in Nat /\ fS <= lS
      /\ first < last => fS + S <= lS
      /\ p - fS \in 0..(S - 1)
      /\ p + n - 1 - lS \in 0..(S - 1)
      /\ tail = lS - fS
      /\ size = lS - fS + S
      /\ (last + 1) * S = lS + S
  BY <1>1, SpanFacts DEF FirstSector, LastSector
<1>3. buf = [k \in 0..(size - 1) |->
               CASE k \in at..(at + n - 1) -> from[k - at + 1]
                 [] k \notin at..(at + n - 1) /\ k < Len(start) -> start[k + 1]
                 [] k \notin at..(at + n - 1) /\ k >= Len(start)
                      /\ k >= tail /\ k - tail < Len(end) -> end[k - tail + 1]
                 [] OTHER -> Junk]
  BY DEF WriteBuffer
<1>4. at = p - fS /\ (firstAligned <=> p = fS) /\ (lastAligned <=> p + n = lS + S)
  BY <1>2
<1>5. p + n <= N /\ n <= Len(from) /\ Len(from) \in Nat
      /\ \A i \in 1..Len(from) : from[i] \in Bytes
  OBVIOUS
<1>6. /\ start \in Seq(Bytes \cup {Junk}) /\ Len(start) \in Nat
      /\ \A i \in 1..Len(start) : start[i] \in Bytes \cup {Junk} /\ start[i] = old[fS + i]
      /\ p # fS => Len(start) = IF S < N - fS THEN S ELSE N - fS
      /\ p = fS => Len(start) = 0
  <2>1. CASE p = fS
    <3>1. start = <<>>
      BY <1>4, <2>1
    <3> HIDE DEF start
    <3> QED
      BY <2>1, <3>1
  <2>2. CASE p # fS
    <3>1. start = ReadAt(hdr, S, fS)
      BY <1>4, <2>2
    <3> HIDE DEF start, fS, S
    <3>2. S \in Nat /\ fS \in Nat
      BY <1>1, <1>2
    <3>3. Reads(ReadAt(hdr, S, fS), hdr, Clamp(hdr, S, fS), fS)
      BY <3>2, ReadAtFacts
    <3>4. /\ Len(start) = Clamp(hdr, S, fS) /\ Len(start) \in Nat
          /\ start \in [1..Len(start) -> Bytes \cup {Junk}] /\ start \in Seq(Bytes \cup {Junk})
          /\ \A i \in 1..Len(start) : start[i] = old[fS + i]
      BY <3>1, <3>3 DEF Reads
    <3>5. Clamp(hdr, S, fS) = IF S = 0 \/ fS >= N THEN 0
                              ELSE IF S < N - fS THEN S ELSE N - fS
      BY <1>1, <1>2, ClampIs
    <3>6. fS < N /\ S # 0
      <4> HIDE DEF N, lS
      <4> QED
        BY <1>1, <1>2, <1>5
    <3> HIDE DEF N, old
    <3>7. Len(start) = IF S < N - fS THEN S ELSE N - fS
      BY <1>1, <1>2, <3>4, <3>5, <3>6
    <3>8. \A i \in 1..Len(start) : start[i] \in Bytes \cup {Junk} /\ start[i] = old[fS + i]
      BY <3>4
    <3>9. start \in Seq(Bytes \cup {Junk}) /\ Len(start) \in Nat
      BY <3>4
    <3> QED
      BY <2>2, <3>7, <3>8, <3>9
  <2> QED
    BY <2>1, <2>2
<1>7. /\ end \in Seq(Bytes \cup {Junk}) /\ Len(end) \in Nat
      /\ \A i \in 1..Len(end) : end[i] \in Bytes \cup {Junk} /\ end[i] = old[lS + i]
      /\ p + n # lS + S /\ ~(first = last /\ p # fS) =>
           Len(end) = IF S < N - lS THEN S ELSE N - lS
  <2>1. CASE p + n = lS + S \/ (first = last /\ p # fS)
    <3>1. end = <<>>
      BY <1>4, <2>1
    <3> HIDE DEF end
    <3> QED
      BY <2>1, <3>1
  <2>2. CASE ~(p + n = lS + S \/ (first = last /\ p # fS))
    <3>1. end = ReadAt(hdr, S, lS)
      BY <1>4, <2>2
    <3> HIDE DEF end, lS, S
    <3>2. S \in Nat /\ lS \in Nat
      BY <1>1, <1>2
    <3>3. Reads(ReadAt(hdr, S, lS), hdr, Clamp(hdr, S, lS), lS)
      BY <3>2, ReadAtFacts
    <3>4. /\ Len(end) = Clamp(hdr, S, lS) /\ Len(end) \in Nat
          /\ end \in [1..Len(end) -> Bytes \cup {Junk}] /\ end \in Seq(Bytes \cup {Junk})
          /\ \A i \in 1..Len(end) : end[i] = old[lS + i]
      BY <3>1, <3>3 DEF Reads
    <3>5. Clamp(hdr, S, lS) = IF S = 0 \/ lS >= N THEN 0
                              ELSE IF S < N - lS THEN S ELSE N - lS
      BY <1>1, <1>2, ClampIs, ZenonT(60)
    <3>6. lS < N /\ S # 0
      <4> HIDE DEF N, fS
      <4> QED
        BY <1>1, <1>2, <1>5
    <3> HIDE DEF N, old, fS
    <3>7. Len(end) = IF S < N - lS THEN S ELSE N - lS
      BY <1>1, <1>2, <3>4, <3>5, <3>6
    <3>8. \A i \in 1..Len(end) : end[i] \in Bytes \cup {Junk} /\ end[i] = old[lS + i]
      BY <3>4
    <3>9. end \in Seq(Bytes \cup {Junk}) /\ Len(end) \in Nat
      BY <3>4
    <3> QED
      BY <2>2, <3>7, <3>8, <3>9
  <2> QED
    BY <2>1, <2>2
<1> HIDE DEF S, N, first, last, fS, lS, old, buf, start, end, at, tail, size
<1>8. ASSUME NEW k \in 0..(size - 1)
      PROVE  /\ buf[k] \in Bytes \cup {Junk}
             /\ fS + k < N => buf[k] = IF fS + k \in p..(p + n - 1) THEN from[(fS + k) - p + 1]
                                       ELSE old[fS + k + 1]
  <2>1. k \in Nat /\ k <= lS - fS + S - 1 /\ at \in Int /\ tail \in Nat
    BY <1>1, <1>2, <1>4
  <2>2. CASE k \in at..(at + n - 1)
    <3>1. buf[k] = from[k - at + 1]
      BY <1>3, <2>2
    <3>2. k - at + 1 = (fS + k) - p + 1 /\ k - at + 1 \in 1..Len(from) /\ fS + k \in p..(p + n - 1)
      BY <1>2, <1>4, <1>5, <2>1, <2>2
    <3> QED
      BY <1>5, <3>1, <3>2
  <2>3. CASE k \notin at..(at + n - 1)
    <3>1. fS + k \notin p..(p + n - 1)
      BY <1>2, <1>4, <2>1, <2>3
    <3>2. CASE k < Len(start)
      <4>1. buf[k] = start[k + 1]
        BY <1>3, <2>3, <3>2
      <4>2. k + 1 \in 1..Len(start) /\ fS + (k + 1) = fS + k + 1
        BY <1>2, <1>6, <2>1, <3>2
      <4>3. start[k + 1] \in Bytes \cup {Junk} /\ start[k + 1] = old[fS + (k + 1)]
        BY <1>6, <4>2
      <4> QED
        BY <3>1, <4>1, <4>2, <4>3
    <3>3. CASE ~(k < Len(start)) /\ k >= tail /\ k - tail < Len(end)
      <4>1. k >= Len(start)
        BY <1>6, <2>1, <3>3
      <4>2. buf[k] = end[k - tail + 1]
        BY <1>3, <2>3, <3>3, <4>1
      <4>3. k - tail + 1 \in 1..Len(end) /\ lS + (k - tail + 1) = fS + k + 1
        BY <1>2, <1>7, <2>1, <3>3
      <4>4. end[k - tail + 1] \in Bytes \cup {Junk} /\ end[k - tail + 1] = old[lS + (k - tail + 1)]
        BY <1>7, <4>3
      <4> QED
        BY <3>1, <4>2, <4>3, <4>4
    <3>4. CASE ~(k < Len(start)) /\ ~(k >= tail /\ k - tail < Len(end))
      <4>1. buf[k] = Junk
        BY <1>3, <2>3, <3>4
      <4>2. ~(fS + k < N)
        <5>1. SUFFICES ASSUME fS + k < N PROVE FALSE
          OBVIOUS
        <5>2. CASE k < at
          <6>1. p # fS
            BY <1>2, <1>4, <2>1, <5>2
          <6>2. Len(start) = IF S < N - fS THEN S ELSE N - fS
            BY <1>6, <6>1
          <6> QED
            BY <1>1, <1>2, <1>4, <2>1, <3>4, <5>1, <5>2, <6>2
        <5>3. CASE ~(k < at)
          <6>1. k >= at + n
            BY <2>1, <2>3, <5>3
          <6>2. p + n # lS + S /\ k >= tail
            BY <1>1, <1>2, <1>4, <2>1, <6>1
          <6>3. CASE first = last /\ p # fS
            <7>1. Len(start) = IF S < N - fS THEN S ELSE N - fS
              BY <1>6, <6>3
            <7>2. fS = lS
              BY <6>3 DEF fS, lS
            <7> QED
              BY <1>1, <1>2, <2>1, <3>4, <5>1, <7>1, <7>2
          <6>4. CASE ~(first = last /\ p # fS)
            <7>1. Len(end) = IF S < N - lS THEN S ELSE N - lS
              BY <1>7, <6>2, <6>4
            <7> QED
              BY <1>1, <1>2, <2>1, <3>4, <5>1, <6>2, <7>1
          <6> QED
            BY <6>3, <6>4
        <5> QED
          BY <5>2, <5>3
      <4> QED
        BY <4>1, <4>2
    <3> QED
      BY <3>2, <3>3, <3>4
  <2> QED
    BY <2>2, <2>3
<1>9. ASSUME NEW k \in 0..(size - 1)
      PROVE  /\ buf[k] \in Bytes \cup {Junk}
             /\ fS + k < N => buf[k] = NewByte(hdr, from, n, p, fS + k)
  <2> DEFINE byte == IF fS + k \in p..(p + n - 1) THEN from[(fS + k) - p + 1] ELSE old[fS + k + 1]
  <2>1. NewByte(hdr, from, n, p, fS + k) = byte
    BY DEF NewByte, old
  <2>2. buf[k] \in Bytes \cup {Junk} /\ (fS + k < N => buf[k] = byte)
    BY <1>8, <1>9
  <2> HIDE DEF byte
  <2> QED
    BY <2>1, <2>2
<1> QED
  BY <1>9, Zenon DEF S, N, first, last, fS, buf, size

\* The bytes of one sector.
SectorBytes == [0..(SectorSize - 1) -> Bytes \cup {Junk}]

\* The write that WriteAt does for piece i, and where piece i starts.
LEMMA PieceFacts ==
  ASSUME disk \in [Sectors -> Content], NEW hdr, GoodHdr(hdr), NEW from \in Seq(Bytes),
         NEW p \in Nat, NEW n \in Nat \ {0}, n <= Len(from), p + n <= hdr.numBytes,
         NEW i \in 1..(LastSector(p, n) - FirstSector(p) + 1)
  PROVE  LET Piece == [j \in 0..(SectorSize - 1) |->
                         WriteBuffer(hdr, from, n, p)[(i - 1) * SectorSize + j]]
             q == FirstSector(p) + i - 1
         IN  /\ q \in Nat /\ q + 1 \in DOMAIN hdr.dataSectors
             /\ ByteToSector(hdr, q * SectorSize) = hdr.dataSectors[q + 1]
             /\ Piece \in SectorBytes
             /\ \A o \in 0..(SectorSize - 1) :
                  q * SectorSize + o < hdr.numBytes =>
                    Piece[o] = NewByte(hdr, from, n, p, q * SectorSize + o)
<1> DEFINE S == SectorSize
           N == hdr.numBytes
           first == FirstSector(p)
           last == LastSector(p, n)
           q == first + i - 1
           buf == WriteBuffer(hdr, from, n, p)
           Piece == [j \in 0..(S - 1) |-> buf[(i - 1) * S + j]]
<1>1. S \in Nat \ {0} /\ N \in Nat /\ p + n <= N
  BY BytesFacts, DiskFSAssumption
<1>2. /\ first \in Nat /\ last \in Nat /\ first <= last
      /\ first * S \in Nat /\ last * S \in Nat
      /\ p + n - 1 - last * S \in 0..(S - 1)
      /\ (last - first + 1) * S = last * S - first * S + S
  BY <1>1, SpanFacts DEF FirstSector, LastSector
<1>3. \A k \in 0..((last - first + 1) * S - 1) :
        /\ buf[k] \in Bytes \cup {Junk}
        /\ first * S + k < N =>
             buf[k] = NewByte(hdr, from, n, p, first * S + k)
  BY WriteBufferFacts
<1> HIDE DEF S, N, first, last, buf
<1>4. q \in Nat /\ q <= last /\ i - 1 \in Nat /\ i \in 1..(last - first + 1)
  <2>1. i \in 1..(last - first + 1)
    BY DEF first, last
  <2> QED
    BY <1>2, <2>1
<1>5. /\ q * S = first * S + (i - 1) * S /\ (i - 1) * S \in Nat
      /\ q * S <= last * S /\ q * S \in Nat
  <2>1. q * S = first * S + (i - 1) * S /\ (i - 1) * S \in Nat /\ q * S \in Nat
    BY <1>1, <1>2, <1>4
  <2>2. S * q <= S * last
    <3> HIDE DEF q
    <3> QED
      BY <1>1, <1>2, <1>4, Multiples
  <2>3. S * q = q * S /\ S * last = last * S
    BY <1>1, <1>2, <1>4
  <2> QED
    BY <2>1, <2>2, <2>3
<1> DEFINE qS == q * S
           fS == first * S
           lS == last * S
           iS == (i - 1) * S
<1>6. qS = fS + iS /\ iS \in Nat /\ fS \in Nat /\ lS \in Nat /\ qS <= lS /\ qS \in Nat
  BY <1>2, <1>5
<1>7. ASSUME NEW o \in 0..(S - 1)
      PROVE  iS + o \in 0..((last - first + 1) * S - 1) /\ fS + (iS + o) = qS + o
  <2>1. (last - first + 1) * S = lS - fS + S
    BY <1>2
  <2> DEFINE size == (last - first + 1) * S
  <2> HIDE DEF qS, fS, lS, iS, size
  <2>2. iS + o \in 0..(size - 1) /\ fS + (iS + o) = qS + o
    BY <1>1, <1>6, <1>7, <2>1 DEF size
  <2> QED
    BY <2>2 DEF size
<1>8. ASSUME NEW o \in 0..(S - 1)
      PROVE  /\ Piece[o] = buf[iS + o] /\ buf[iS + o] \in Bytes \cup {Junk}
             /\ qS + o < N => buf[iS + o] = NewByte(hdr, from, n, p, qS + o)
  <2>1. Piece[o] = buf[iS + o]
    BY <1>8
  <2>2. /\ buf[iS + o] \in Bytes \cup {Junk}
        /\ fS + (iS + o) < N => buf[iS + o] = NewByte(hdr, from, n, p, fS + (iS + o))
    BY <1>3, <1>7, <1>8, Zenon
  <2>3. fS + (iS + o) = qS + o
    BY <1>7, <1>8
  <2> HIDE DEF qS, fS, iS, Piece
  <2>4. qS + o < N => buf[iS + o] = NewByte(hdr, from, n, p, qS + o)
    BY <2>2, <2>3, Zenon
  <2> QED
    BY <2>1, <2>2, <2>4
<1>9. Piece \in SectorBytes
  <2> HIDE DEF iS
  <2>1. Piece = [j \in 0..(S - 1) |-> buf[iS + j]]
    BY DEF iS
  <2> QED
    BY <1>8, <2>1 DEF SectorBytes, S
<1>10. qS < N
  <2> HIDE DEF qS, lS
  <2> QED
    BY <1>1, <1>2, <1>6 DEF lS
<1>11. qS \div S = q
  <2>1. qS = S * q + 0 /\ 0 \in 0..(S - 1) /\ qS \in Int /\ q \in Int
    BY <1>1, <1>4, <1>5
  <2> HIDE DEF qS, q
  <2> QED
    BY <1>1, <2>1, DivisionUnique
<1>12. q + 1 \in DOMAIN hdr.dataSectors /\ ByteToSector(hdr, qS) = hdr.dataSectors[q + 1]
  <2>1. qS \in 0..(hdr.numBytes - 1)
    <3> HIDE DEF qS
    <3> QED
      BY <1>1, <1>6, <1>10 DEF N
  <2> HIDE DEF qS, q
  <2>2. /\ qS \div SectorSize + 1 \in DOMAIN hdr.dataSectors
        /\ ByteToSector(hdr, qS) = hdr.dataSectors[qS \div SectorSize + 1]
    BY <2>1, ByteFacts
  <2> QED
    BY <1>11, <2>2 DEF S
<1>13. \A o \in 0..(S - 1) :
         qS + o < N => Piece[o] = NewByte(hdr, from, n, p, qS + o)
  <2> HIDE DEF qS, iS, Piece
  <2> QED
    BY <1>8
<1> QED
  BY <1>4, <1>9, <1>12, <1>13, Zenon DEF S, N, first, buf

\* What the writes of WriteAt are.
LEMMA WriteAtFacts ==
  ASSUME disk \in [Sectors -> Content], NEW hdr, GoodHdr(hdr), NEW from \in Seq(Bytes),
         NEW p \in Nat
  PROVE  LET w == WriteAt(hdr, from, Len(from), p)
             new == Overwritten(BytesOf(disk, hdr), from, p)
         IN  /\ w \in Seq(Sectors \X Content)
             /\ \A j \in 1..Len(w) : /\ w[j][1] \in Range(hdr.dataSectors)
                                     /\ w[j][2] \in {"data"} \X SectorBytes
             /\ \A k \in 1..hdr.numBytes :
                  /\ \A j \in 1..Len(w) :
                       w[j][1] = PlaceOf(hdr, k)
                         => ByteIn(w[j][2], (k - 1) % SectorSize) = new[k]
                  /\ (\A j \in 1..Len(w) : w[j][1] # PlaceOf(hdr, k))
                       => ByteIn(disk[PlaceOf(hdr, k)], (k - 1) % SectorSize) = new[k]
<1> DEFINE S == SectorSize
           N == hdr.numBytes
           m == Len(from)
           n == Clamp(hdr, m, p)
           w == WriteAt(hdr, from, Len(from), p)
           old == BytesOf(disk, hdr)
           new == Overwritten(old, from, p)
           first == FirstSector(p)
           last == LastSector(p, n)
           Piece(i) == [j \in 0..(S - 1) |-> WriteBuffer(hdr, from, n, p)[(i - 1) * S + j]]
<1>1. S \in Nat \ {0} /\ N \in Nat /\ m \in Nat
  BY BytesFacts, DiskFSAssumption
<1>2. n \in Nat /\ n = IF m = 0 \/ p >= N THEN 0 ELSE IF m < N - p THEN m ELSE N - p
  BY <1>1, ClampIs
<1>3. \A k \in 1..N : new[k] = IF k > p /\ k <= p + m THEN from[k - p] ELSE old[k]
  <2>1. Len(old) = N
    BY BytesFacts
  <2> HIDE DEF old
  <2> QED
    BY <2>1 DEF Overwritten
<1>4. ASSUME NEW k \in 1..N
      PROVE  /\ k - 1 \in 0..(N - 1)
             /\ (k - 1) \div S \in Nat /\ (k - 1) % S \in 0..(S - 1)
             /\ k - 1 = ((k - 1) \div S) * S + ((k - 1) % S)
             /\ (k - 1) \div S + 1 \in DOMAIN hdr.dataSectors
             /\ PlaceOf(hdr, k) = hdr.dataSectors[(k - 1) \div S + 1]
             /\ ByteIn(disk[PlaceOf(hdr, k)], (k - 1) % S) = old[k]
  <2> DEFINE off == k - 1
  <2>1. off \in 0..(N - 1) /\ off + 1 = k /\ off \in Int
    BY <1>1
  <2> HIDE DEF off
  <2>2. /\ off \div S + 1 \in DOMAIN hdr.dataSectors
        /\ off \div S \in Nat /\ off % S \in 0..(S - 1)
        /\ ByteToSector(hdr, off) = hdr.dataSectors[off \div S + 1]
        /\ PlaceOf(hdr, off + 1) = ByteToSector(hdr, off)
        /\ old[off + 1] = ByteIn(disk[ByteToSector(hdr, off)], off % S)
    BY <2>1, ByteFacts
  <2>3. off = S * (off \div S) + (off % S)
    BY <1>1, <2>1, Division
  <2>4. S * (off \div S) = (off \div S) * S
    BY <1>1, <2>2
  <2> QED
    BY <2>1, <2>2, <2>3, <2>4 DEF off
<1>5. CASE n = 0
  <2>1. w = <<>>
    BY <1>5 DEF WriteAt
  <2>2. \A k \in 1..N : new[k] = old[k]
    <3>1. m = 0 \/ p >= N
      <4> HIDE DEF n, N, m
      <4> QED
        BY <1>1, <1>2, <1>5
    <3> HIDE DEF n, N, m, new, old
    <3> QED
      BY <1>1, <1>3, <3>1
  <2>3. Len(w) = 0 /\ w \in Seq(Sectors \X Content)
    BY <2>1
  <2> HIDE DEF w, new, old
  <2> QED
    BY <1>4, <2>2, <2>3 DEF S, N, new, old, w
<1>6. CASE n # 0
  <2>1. /\ n \in Nat \ {0} /\ n <= m /\ p + n <= N /\ (n = m \/ p + n = N)
    <3> HIDE DEF n, N, m
    <3> QED
      BY <1>1, <1>2, <1>6
  <2>2. /\ first \in Nat /\ last \in Nat /\ first <= last
        /\ first * S \in Nat /\ last * S \in Nat
        /\ p - first * S \in 0..(S - 1)
        /\ p + n - 1 - last * S \in 0..(S - 1)
    <3> HIDE DEF n
    <3> QED
      BY <1>1, <2>1, SpanFacts DEF FirstSector, LastSector
  <2>3. w = [i \in 1..(last - first + 1) |->
               <<ByteToSector(hdr, (first + i - 1) * S), Data(Piece(i))>>]
    BY <1>6 DEF WriteAt
  <2>4. ASSUME NEW i \in 1..(last - first + 1)
        PROVE  /\ first + i - 1 \in Nat /\ first + i - 1 + 1 \in DOMAIN hdr.dataSectors
               /\ ByteToSector(hdr, (first + i - 1) * S) = hdr.dataSectors[first + i - 1 + 1]
               /\ Piece(i) \in SectorBytes
               /\ \A o \in 0..(S - 1) :
                    (first + i - 1) * S + o < N =>
                      Piece(i)[o] = NewByte(hdr, from, n, p, (first + i - 1) * S + o)
    <3>1. n \in Nat \ {0} /\ n <= Len(from) /\ p + n <= hdr.numBytes
      BY <2>1
    <3> HIDE DEF n
    <3> QED
      BY <3>1, PieceFacts
  <2> HIDE DEF Piece, w, n
  <2>5. Len(w) = last - first + 1 /\ DOMAIN w = 1..(last - first + 1)
        /\ last - first + 1 \in Nat
    <3>1. last - first + 1 \in Nat
      BY <2>2
    <3>2. DOMAIN w = 1..(last - first + 1)
      BY <2>3
    <3>3. w \in Seq(Range(w))
      <4>1. w = [x \in 1..(last - first + 1) |-> w[x]]
        BY <2>3
      <4> QED
        BY <3>1, <3>2, <4>1 DEF Range
    <3> QED
      BY <3>1, <3>2, <3>3
  <2>6. ASSUME NEW i \in 1..(last - first + 1)
        PROVE  /\ w[i] = <<hdr.dataSectors[first + i], Data(Piece(i))>>
               /\ first + i \in DOMAIN hdr.dataSectors
               /\ hdr.dataSectors[first + i] \in Sectors
               /\ Data(Piece(i)) \in {"data"} \X SectorBytes
               /\ Data(Piece(i)) \in Content
    <3>1. first + i - 1 + 1 = first + i
      BY <2>2
    <3>2. w[i] = <<ByteToSector(hdr, (first + i - 1) * S), Data(Piece(i))>>
      BY <2>3
    <3>3. first + i \in DOMAIN hdr.dataSectors /\ Piece(i) \in SectorBytes
      BY <2>4, <3>1
    <3>4. ByteToSector(hdr, (first + i - 1) * S) = hdr.dataSectors[first + i]
      BY <2>4, <3>1
    <3>5. hdr.dataSectors \in Seq(Sectors)
      BY DEF GoodHdr, FileHeader
    <3>6. \A ds \in Seq(Sectors) : \A x \in DOMAIN ds : ds[x] \in Sectors
      OBVIOUS
    <3>7. hdr.dataSectors[first + i] \in Sectors
      BY <3>3, <3>5, <3>6, Zenon
    <3>8. Data(Piece(i)) \in {"data"} \X SectorBytes
      BY <3>3 DEF Data
    <3>9. Data(Piece(i)) \in Content
      BY <3>8 DEF Content, SectorBytes
    <3> QED
      BY <3>2, <3>3, <3>4, <3>7, <3>8, <3>9
  <2>7. w \in Seq(Sectors \X Content)
    <3>1. \A i \in 1..(last - first + 1) : w[i] \in Sectors \X Content
      BY <2>6
    <3>2. w \in [1..(last - first + 1) -> Sectors \X Content]
      <4>1. w = [i \in 1..(last - first + 1) |-> w[i]]
        BY <2>3
      <4> QED
        BY <3>1, <4>1
    <3> QED
      BY <2>5, <3>2
  <2>8. ASSUME NEW j \in 1..Len(w)
        PROVE  w[j][1] \in Range(hdr.dataSectors) /\ w[j][2] \in {"data"} \X SectorBytes
    <3>1. j \in 1..(last - first + 1)
      BY <2>5
    <3>2. w[j][1] = hdr.dataSectors[first + j] /\ w[j][2] = Data(Piece(j))
      BY <2>6, <3>1
    <3> QED
      BY <2>6, <3>1, <3>2 DEF Range
  <2>9. ASSUME NEW k \in 1..N, NEW j \in 1..Len(w), w[j][1] = PlaceOf(hdr, k)
        PROVE  ByteIn(w[j][2], (k - 1) % S) = new[k]
    <3> DEFINE q == (k - 1) \div S
               o == (k - 1) % S
    <3>1. j \in 1..(last - first + 1)
      BY <2>5
    <3>2. w[j][1] = hdr.dataSectors[first + j] /\ w[j][2] = Data(Piece(j))
      BY <2>6, <3>1
    <3>3. /\ q \in Nat /\ o \in 0..(S - 1) /\ k - 1 = q * S + o
          /\ q + 1 \in DOMAIN hdr.dataSectors /\ PlaceOf(hdr, k) = hdr.dataSectors[q + 1]
          /\ k - 1 \in 0..(N - 1)
      BY <1>4
    <3> HIDE DEF q, o
    <3>4. first + j = q + 1
      <4>1. first + j \in DOMAIN hdr.dataSectors
        BY <2>6, <3>1
      <4>2. hdr.dataSectors[first + j] = hdr.dataSectors[q + 1]
        BY <2>9, <3>2, <3>3
      <4> QED
        BY <3>3, <4>1, <4>2 DEF GoodHdr
    <3>5. first + j - 1 = q
      <4>1. first \in Int /\ j \in Int /\ q \in Int
        BY <2>2, <3>3
      <4> QED
        BY <3>4, <4>1
    <3>6. ByteIn(w[j][2], o) = Piece(j)[o]
      BY <3>2 DEF ByteIn, Data
    <3>7. q * S + o < N => Piece(j)[o] = NewByte(hdr, from, n, p, q * S + o)
      BY <2>4, <3>1, <3>3, <3>5
    <3>8. Piece(j)[o] = IF k - 1 \in p..(p + n - 1) THEN from[k - 1 - p + 1]
                        ELSE old[k - 1 + 1]
      <4>1. q * S + o < N
        <5> HIDE DEF N
        <5> QED
          BY <1>1, <3>3
      <4>2. Piece(j)[o] = NewByte(hdr, from, n, p, k - 1)
        BY <3>3, <3>7, <4>1, Zenon
      <4> QED
        BY <4>2, Zenon DEF NewByte
    <3> HIDE DEF N, m, new, old
    <3>9. Piece(j)[o] = new[k]
      <4>1. k - 1 + 1 = k /\ k - 1 - p + 1 = k - p
        BY <1>1
      <4>2. k - 1 \in p..(p + n - 1) <=> k > p /\ k <= p + m
        BY <1>1, <2>1, <3>3
      <4> QED
        BY <1>3, <3>8, <4>1, <4>2
    <3> QED
      BY <3>6, <3>9 DEF o
  <2>10. ASSUME NEW k \in 1..N, \A j \in 1..Len(w) : w[j][1] # PlaceOf(hdr, k)
         PROVE  ByteIn(disk[PlaceOf(hdr, k)], (k - 1) % S) = new[k]
    <3> DEFINE q == (k - 1) \div S
               o == (k - 1) % S
    <3>1. /\ q \in Nat /\ o \in 0..(S - 1) /\ k - 1 = q * S + o
          /\ PlaceOf(hdr, k) = hdr.dataSectors[q + 1]
          /\ ByteIn(disk[PlaceOf(hdr, k)], o) = old[k]
          /\ k - 1 \in 0..(N - 1)
      BY <1>4
    <3> HIDE DEF q, o
    <3>2. ~(first <= q /\ q <= last)
      <4>1. ASSUME first <= q, q <= last PROVE FALSE
        <5>1. q - first + 1 \in 1..(last - first + 1) /\ first + (q - first + 1) = q + 1
          <6>1. first \in Int /\ last \in Int /\ q \in Int
            BY <2>2, <3>1
          <6> QED
            BY <4>1, <6>1
        <5>2. w[q - first + 1][1] = hdr.dataSectors[first + (q - first + 1)]
          BY <2>6, <5>1
        <5> QED
          BY <2>5, <2>10, <3>1, <5>1, <5>2
      <4> QED
        BY <4>1
    <3>3. k - 1 \notin p..(p + n - 1)
      <4> HIDE DEF first, last, S, N, m
      <4>1. CASE q < first
        <5>1. S * q + S <= S * first
          BY <1>1, <2>2, <3>1, <4>1, Multiples
        <5>2. q * S + S <= first * S /\ q * S \in Int
          BY <1>1, <2>2, <3>1, <5>1
        <5> QED
          BY <1>1, <2>1, <2>2, <3>1, <5>2
      <4>2. CASE last < q
        <5>1. S * last + S <= S * q
          BY <1>1, <2>2, <3>1, <4>2, Multiples
        <5>2. last * S + S <= q * S /\ q * S \in Int
          BY <1>1, <2>2, <3>1, <5>1
        <5> QED
          BY <1>1, <2>1, <2>2, <3>1, <5>2
      <4> QED
        BY <2>2, <3>1, <3>2, <4>1, <4>2
    <3> HIDE DEF N, m, new, old
    <3>4. ~(k > p /\ k <= p + m)
      BY <1>1, <2>1, <3>1, <3>3
    <3>5. new[k] = old[k]
      BY <1>3, <3>4
    <3> QED
      BY <3>1, <3>5 DEF o
  <2> QED
    BY <2>7, <2>8, <2>9, <2>10, Zenon DEF S, N, new, old, w
<1> QED
  BY <1>5, <1>6


-----------------------------------------------------------------------------
(* Every step keeps the invariant.                                         *)

\* What a Write starts with: the file, its place and the sectors to write.
LEMMA WriteFacts ==
  ASSUME IInv, NEW h \in Handles, NEW b \in Buffers, Write(h, b)
  PROVE  /\ Idle /\ disk' = disk /\ up' = up /\ torn' = torn
         /\ handle[h] # NULL /\ handle[h] \in OpenFiles
         /\ Holds(disk, handle[h]) /\ GoodHdr(handle[h].hdr)
         /\ handle[h].seekPosition \in Nat /\ b \in Seq(Bytes)
         /\ call' = [op |-> "write", file |-> handle[h], from |-> b, before |-> disk,
                     answer |-> Clamp(handle[h].hdr, Len(b), handle[h].seekPosition)]
         /\ todo' = WriteAt(handle[h].hdr, b, Len(b), handle[h].seekPosition)
<1>1. /\ Idle /\ disk' = disk /\ up' = up /\ torn' = torn /\ handle[h] # NULL
      /\ call' = [op |-> "write", file |-> handle[h], from |-> b, before |-> disk,
                  answer |-> Clamp(handle[h].hdr, Len(b), handle[h].seekPosition)]
      /\ todo' = WriteAt(handle[h].hdr, b, Len(b), handle[h].seekPosition)
  BY DEF Write
<1>2. /\ handle[h] \in OpenFiles /\ Holds(disk, handle[h]) /\ GoodHdr(handle[h].hdr)
      /\ handle[h].seekPosition \in 0..MaxFileSize
  BY <1>1, HandleFacts
<1>3. MaxFileSize \in Nat /\ b \in Seq(Bytes)
  BY DiskFSAssumption DEF MaxFileSize
<1> QED
  BY <1>1, <1>2, <1>3

\* OpenFile::Write starts to write sectors of its own file.
LEMMA WriteInv ==
  ASSUME IInv, NEW h \in Handles, NEW b \in Buffers, Write(h, b)
  PROVE  IInv'
<1> DEFINE f == handle[h]
           n == Clamp(f.hdr, Len(b), f.seekPosition)
           w == WriteAt(f.hdr, b, Len(b), f.seekPosition)
<1>1. /\ Idle /\ disk' = disk /\ up' = up /\ torn' = torn
      /\ f # NULL /\ f \in OpenFiles /\ Holds(disk, f) /\ GoodHdr(f.hdr)
      /\ f.seekPosition \in Nat /\ b \in Seq(Bytes)
      /\ call'.op = "write" /\ call'.file = f
      /\ todo' = w
  BY WriteFacts
<1>2. handle' = [handle EXCEPT ![h].seekPosition = f.seekPosition + n]
  BY DEF Write
<1>3. f.seekPosition + n \in 0..MaxFileSize
  <2>1. Len(b) \in Nat
    BY <1>1
  <2> QED
    BY <1>1, <2>1, ClampFacts
<1>4. /\ disk \in [Sectors -> Content] /\ up = TRUE /\ torn = Whole
      /\ HasDir(disk) /\ FilesOK(disk) /\ Exact(disk) /\ NamesOK(disk, 0)
  BY <1>1, IdleFacts
<1>5. /\ w \in Seq(Sectors \X Content)
      /\ \A j \in 1..Len(w) : /\ w[j][1] \in Range(f.hdr.dataSectors)
                              /\ w[j][2] \in {"data"} \X SectorBytes
  <2> HIDE DEF f
  <2> QED
    BY <1>1, <1>4, WriteAtFacts
<1> HIDE DEF n, w
<1>6. /\ handle' \in [Handles -> OpenFiles \cup {NULL}]
      /\ \A g \in Handles : handle'[g] # NULL => Holds(disk, handle'[g])
  BY <1>1, <1>2, <1>3, SeekHandle
<1> HIDE DEF f
<1>7. CASE w = <<>>
  BY <1>1, <1>6, <1>7, QuietInv
<1>8. CASE w # <<>>
  <2>1. Writing'
    BY <1>1, <1>4, <1>5, <1>8 DEF Writing, SectorBytes
  <2>2. Phase'
    BY <1>1, <1>4, <2>1 DEF Phase
  <2>3. Typed'
    BY <1>1, <1>4, <1>5, <1>6 DEF Typed
  <2>4. GoodDir(disk)'
    BY <1>1 DEF IInv
  <2>5. \A g \in Handles : handle'[g] # NULL => HasDir(disk') /\ Holds(disk', handle'[g])
    BY <1>1, <1>4, <1>6
  <2> QED
    BY <2>2, <2>3, <2>4, <2>5 DEF IInv
<1> QED
  BY <1>7, <1>8

\* Every step of a system in which open files are not removed and a torn disk
\* is not mounted keeps the invariant.
LEMMA StepInv ==
  ASSUME IInv, ~RemoveOpen, ~MountTorn, [Next]_vars
  PROVE  IInv'
<1>1. CASE UNCHANGED vars
  BY <1>1 DEF vars, IInv, Typed, Phase, Formatting, CreateStarts, CreateBetween, CreateEnds,
              Removing, Writing
<1>2. CASE Format
  BY <1>2, FormatInv
<1>3. CASE Mount
  BY <1>3, MountInv
<1>4. CASE WriteSector
  BY <1>4, WriteSectorInv
<1>5. CASE Crash
  BY <1>5, CrashInv
<1>6. CASE List \/ PrintAll
  BY <1>6, ListInv
<1>7. ASSUME NEW n \in Names, Remove(n) \/ \E size \in Sizes : Create(n, size) PROVE IInv'
  BY <1>7, RemoveInv, CreateInv
<1>8. ASSUME NEW h \in Handles,
             \/ Close(h)
             \/ \E n \in Names : Open(h, n)
             \/ \E p \in 0..MaxFileSize : Seek(h, p)
             \/ \E n \in Sizes : Read(h, n)
             \/ \E b \in Buffers : Write(h, b)
      PROVE  IInv'
  BY <1>8, CloseInv, OpenInv, SeekInv, ReadInv, WriteInv
<1> QED
  BY <1>1, <1>2, <1>3, <1>4, <1>5, <1>6, <1>7, <1>8 DEF Next


\* The invariant holds in every reachable state.
THEOREM InvariantHolds ==
  ASSUME ~RemoveOpen, ~MountTorn
  PROVE  Spec => []IInv
<1>1. Init => IInv
  BY InitInv
<1>2. IInv /\ [Next]_vars => IInv'
  BY StepInv
<1> QED
  BY <1>1, <1>2, PTL DEF Spec

-----------------------------------------------------------------------------
(* The bitmap, the directory and the headers agree.                        *)

\* Which sectors the bitmap marks on a disk that holds a file system.
LEMMA MarksFacts ==
  ASSUME IInv, Formatted
  PROVE  /\ disk \in [Sectors -> Content] /\ HasDir(disk) /\ FilesOK(disk)
         /\ NamesOK(disk, InFlux)
         /\ \/ FreeMap = Owned(disk)
            \/ InFlux \in UsedOn(disk) /\ FreeMap = Owned(disk) \ Own(disk, InFlux)
<1>1. /\ disk \in [Sectors -> Content] /\ Phase /\ GoodDir(disk)
      /\ ~up => todo = <<>>
  BY DEF IInv, Typed
<1> DEFINE Marks == /\ HasDir(disk) /\ NamesOK(disk, InFlux)
                    /\ \/ FreeMap = Owned(disk)
                       \/ InFlux \in UsedOn(disk) /\ FreeMap = Owned(disk) \ Own(disk, InFlux)
<1>2. ASSUME Exact(disk), NamesOK(disk, 0) PROVE Marks
  <2>1. HasDir(disk) /\ FreeMap = Owned(disk)
    BY <1>2 DEF Exact, FreeMap, Map
  <2> QED
    BY <1>2, <2>1, NamesFacts
<1>3. ASSUME InFlux \in UsedOn(disk), AllBut(disk, InFlux), NamesOK(disk, InFlux) PROVE Marks
  <2>1. HasDir(disk) /\ FreeMap = Owned(disk) \ Own(disk, InFlux)
    BY <1>3 DEF AllBut, FreeMap, Map
  <2> QED
    BY <1>3, <2>1
<1>4. ASSUME call.op \in {"create", "remove"}, todo # <<>> PROVE InFlux = call.entry
  BY <1>4 DEF InFlux
<1>5. NamesOK(disk, 0) => \A x : NamesOK(disk, x)
  BY NamesFacts
<1>6. Marks
  <2>1. CASE ~up /\ torn \in UsedOn(disk) /\ AllBut(disk, torn) /\ NamesOK(disk, torn)
    <3>1. InFlux = torn
      BY <1>1, <2>1 DEF InFlux
    <3> HIDE DEF Marks
    <3> QED
      BY <1>3, <2>1, <3>1
  <2>2. CASE torn = Whole /\ todo = <<>> /\ Exact(disk) /\ NamesOK(disk, 0)
    BY <1>2, <2>2
  <2>3. CASE CreateStarts
    BY <1>2, <2>3 DEF CreateStarts
  <2>4. CASE CreateBetween
    <3>1. call.op = "create" /\ todo # <<>>
      BY <2>4 DEF CreateBetween
    <3>2. \/ Exact(disk) /\ NamesOK(disk, 0)
          \/ /\ call.entry \in UsedOn(disk)
             /\ AllBut(disk, call.entry) /\ NamesOK(disk, call.entry)
      BY <2>4 DEF CreateBetween
    <3> HIDE DEF Marks
    <3> QED
      BY <1>2, <1>3, <1>4, <3>1, <3>2
  <2>5. CASE CreateEnds
    <3>1. /\ call.op = "create" /\ todo # <<>> /\ call.entry \in UsedOn(disk)
          /\ AllBut(disk, call.entry) /\ NamesOK(disk, 0)
      BY <2>5 DEF CreateEnds
    <3> HIDE DEF Marks
    <3> QED
      BY <1>3, <1>4, <1>5, <3>1
  <2>6. CASE Removing
    <3>1. call.op = "remove" /\ NamesOK(disk, 0)
      BY <2>6, Zenon DEF Removing
    <3>2. todo # <<>>
      <4>1. \E a, b, c : todo = <<a, b, c>> \/ todo = <<b, c>> \/ todo = <<c>>
        BY <2>6, Zenon DEF Removing
      <4> QED
        BY <4>1
    <3>3. Exact(disk) \/ (call.entry \in UsedOn(disk) /\ AllBut(disk, call.entry))
      BY <2>6, Zenon DEF Removing
    <3> HIDE DEF Marks
    <3> QED
      BY <1>2, <1>3, <1>4, <1>5, <3>1, <3>2, <3>3
  <2>7. CASE Writing
    BY <1>2, <2>7 DEF Writing
  <2>8. torn # Unformatted /\ ~Formatting
    <3>1. ASSUME Formatting PROVE todo # <<>>
      <4>1. \E a, b, c, u, v : \/ todo = <<a, b, c, u, v>> \/ todo = <<b, c, u, v>>
                               \/ todo = <<c, u, v>> \/ todo = <<u, v>> \/ todo = <<v>>
        BY <3>1, Zenon DEF Formatting
      <4> QED
        BY <4>1
    <3> QED
      BY <3>1 DEF Formatted, Formatting
  <2> HIDE DEF Marks
  <2> QED
    BY <1>1, <2>1, <2>2, <2>3, <2>4, <2>5, <2>6, <2>7, <2>8, Zenon DEF Phase
<1> QED
  BY <1>1, <1>6, GoodFacts

\* The invariant contains the types.
LEMMA InvTypeOK ==
  ASSUME IInv
  PROVE  TypeOK
<1>1. /\ disk \in [Sectors -> Content] /\ todo \in Seq(Sectors \X Content) /\ up \in BOOLEAN
      /\ handle \in [Handles -> OpenFiles \cup {NULL}]
      /\ Phase
  BY DEF IInv, Typed
<1>2. ASSUME NEW s \in Sectors
      PROVE  \/ disk[s][1] = "hdr" /\ disk[s][2].numBytes \in 0..MaxFileSize
                                   /\ Range(disk[s][2].dataSectors) \subseteq Sectors
             \/ disk[s][1] = "map" /\ disk[s][2] \in Bitmap
             \/ disk[s][1] = "dir" /\ disk[s][2] \in [Entries -> DirectoryEntry]
             \/ disk[s][1] = "data" /\ disk[s][2] \in [0..(SectorSize - 1) -> Bytes \cup {Junk}]
  <2>1. disk[s] \in Content
    BY <1>1
  <2>2. ASSUME disk[s] \in {"hdr"} \X FileHeader
        PROVE  /\ disk[s][1] = "hdr" /\ disk[s][2].numBytes \in 0..MaxFileSize
               /\ Range(disk[s][2].dataSectors) \subseteq Sectors
    <3>1. disk[s][1] = "hdr" /\ disk[s][2] \in FileHeader
      BY <2>2
    <3>2. disk[s][2].numBytes \in 0..MaxFileSize /\ disk[s][2].dataSectors \in Seq(Sectors)
      BY <3>1 DEF FileHeader
    <3>3. \A ds \in Seq(Sectors) : Range(ds) \subseteq Sectors
      BY DEF Range
    <3> QED
      BY <3>1, <3>2, <3>3
  <2> QED
    BY <2>1, <2>2 DEF Content
<1>3. \A i \in 1..Len(todo) : todo[i][1] \in Sectors
  BY <1>1
<1>4. \A h \in Handles : handle[h] # NULL => handle[h].seekPosition \in 0..MaxFileSize
  BY <1>1 DEF OpenFiles
<1>5. torn \in Entries \cup {Whole, Unformatted}
  BY <1>1 DEF Phase, UsedOn
<1> QED
  BY <1>1, <1>2, <1>3, <1>4, <1>5 DEF TypeOK

\* The invariant implies SectorsExact.
LEMMA InvSectorsExact ==
  ASSUME IInv
  PROVE  SectorsExact
<1>1. SUFFICES ASSUME Formatted
      PROVE  /\ FreeMap \subseteq SystemSectors \cup UNION {SectorsOf(i) : i \in Used}
             /\ \A i \in Used \ {InFlux} : SectorsOf(i) \subseteq FreeMap
             /\ SystemSectors \subseteq FreeMap
             /\ \A i \in Used : SectorsOf(i) \cap SystemSectors = {}
             /\ \A i, j \in Used : i # j => SectorsOf(i) \cap SectorsOf(j) = {}
             /\ \A i \in Used \ {InFlux} : FindIndex(Directory, Directory[i].name) = i
  BY InvTypeOK DEF SectorsExact
<1>2. /\ disk \in [Sectors -> Content] /\ HasDir(disk) /\ FilesOK(disk)
      /\ NamesOK(disk, InFlux)
  BY <1>1, MarksFacts
<1>3. Used = UsedOn(disk) /\ Directory = DirOf(disk)
  BY Zenon DEF Used, UsedOn, Directory, DirOf
<1>4. \A i \in UsedOn(disk) : SectorsOf(i) = Own(disk, i)
  BY DEF SectorsOf, Own, HdrOf, FetchHdr, Directory, DirOf
<1>5. \A i \in UsedOn(disk) : Own(disk, i) \cap SystemSectors = {}
  BY <1>2, EntryFacts
<1>6. \A i, j \in UsedOn(disk) : i # j => Own(disk, i) \cap Own(disk, j) = {}
  BY <1>2 DEF FilesOK, Apart
<1>7. \A i \in UsedOn(disk) \ {InFlux} : FindIndex(DirOf(disk), DirOf(disk)[i].name) = i
  BY <1>2, FindNamed
<1>8. \A x : x \in Owned(disk) <=> x \in SystemSectors \/ \E i \in UsedOn(disk) : x \in Own(disk, i)
  BY OwnedIs
<1>9. FreeMap \subseteq SystemSectors \cup UNION {SectorsOf(i) : i \in UsedOn(disk)}
  <2>1. FreeMap \subseteq Owned(disk)
    BY <1>1, MarksFacts
  <2> QED
    BY <1>4, <1>8, <2>1
<1>10. /\ SystemSectors \subseteq FreeMap
       /\ \A i \in UsedOn(disk) \ {InFlux} : SectorsOf(i) \subseteq FreeMap
  <2>1. CASE FreeMap = Owned(disk)
    BY <1>4, <1>8, <2>1
  <2>2. CASE InFlux \in UsedOn(disk) /\ FreeMap = Owned(disk) \ Own(disk, InFlux)
    <3>1. SystemSectors \subseteq FreeMap
      BY <1>5, <1>8, <2>2
    <3>2. ASSUME NEW i \in UsedOn(disk) \ {InFlux} PROVE SectorsOf(i) \subseteq FreeMap
      <4>1. Own(disk, InFlux) \cap Own(disk, i) = {} /\ SectorsOf(i) = Own(disk, i)
        BY <1>4, <1>6, <2>2
      <4> QED
        BY <1>8, <2>2, <4>1
    <3> QED
      BY <3>1, <3>2
  <2> QED
    BY <1>1, <2>1, <2>2, MarksFacts
<1> QED
  BY <1>3, <1>4, <1>5, <1>6, <1>7, <1>9, <1>10

(***************************************************************************)
(* SectorsExact holds for a disk, sectors and headers of any size, and for *)
(* any directory of two sectors, however its entries lie in them: whatever *)
(* sectors Create, Remove, Write and Format have written when Nachos exits *)
(* no sector belongs to two files, none is leaked, every file but that of  *)
(* the operation that was cut off owns marked sectors only and is found    *)
(* under its own name.                                                     *)
(***************************************************************************)
THEOREM SectorsStayExact ==
  ASSUME ~RemoveOpen, ~MountTorn
  PROVE  Spec => []SectorsExact
<1>1. IInv => SectorsExact
  BY InvSectorsExact
<1>2. Spec => []IInv
  BY InvariantHolds
<1> QED
  BY <1>1, <1>2, PTL


-----------------------------------------------------------------------------
(* Each call does what was asked.                                          *)

\* The answer of Create is TRUE exactly when there is a free entry and room.
LEMMA CreateCall ==
  ASSUME IInv, NEW n \in Names, NEW size \in Sizes, Create(n, size)
  PROVE  CallInv'
<1>1. Idle
  BY DEF Create
<1>2. /\ disk' = disk
      /\ call'.op = "create" /\ call'.name = n /\ call'.size = size /\ call'.before = disk
      /\ call'.answer <=>
           /\ \A i \in UsedOn(disk) : DirOf(disk)[i].name # n
           /\ \E i \in Entries : ~DirOf(disk)[i].inUse
           /\ Cardinality(Sectors \ Owned(disk)) >= 1 + DivRoundUp(size, SectorSize)
      /\ ~call'.answer => todo' = <<>>
      /\ call'.answer => todo' # <<>>
  <2>1. call' = [op |-> "create", name |-> n, size |-> size, before |-> disk,
                 entry |-> FreeEntry(DirOf(disk)), answer |-> call'.answer]
    BY CreateFacts
  <2>2. call'.op = "create" /\ call'.name = n /\ call'.size = size /\ call'.before = disk
    BY <2>1
  <2>3. call'.answer => todo' # <<>>
    <3> SUFFICES ASSUME call'.answer PROVE todo' # <<>>
      OBVIOUS
    <3>1. PICK s \in Sectors, h \in FileHeader : CreateTodo(n, FreeEntry(DirOf(disk)), s, h)
      BY CreateFacts
    <3>2. \E a, b, c, d : todo' = <<a, b, c, d>>
      BY <3>1, Zenon DEF CreateTodo
    <3> QED
      BY <3>2
  <2> QED
    BY <2>2, <2>3, CreateFacts
<1>3. disk[MapData][2] = Owned(disk)
  BY <1>1, IdleFacts DEF FreeMap
<1>4. (\A i \in UsedOn(disk) : DirOf(disk)[i].name # n)
        <=> \A i \in Entries : DirOf(disk)[i].inUse => DirOf(disk)[i].name # n
  BY DEF UsedOn
<1>5. CreateOK'
  BY <1>2, <1>3, <1>4 DEF CreateOK
<1> QED
  BY <1>2, <1>5 DEF CallInv

\* What Read returns is the stretch of the file at the seek position.
LEMMA ReadCall ==
  ASSUME IInv, NEW h \in Handles, NEW m \in Sizes, Read(h, m)
  PROVE  CallInv'
<1> DEFINE f == handle[h]
           hdr == f.hdr
           p == f.seekPosition
           N == hdr.numBytes
           into == ReadAt(hdr, m, p)
           old == BytesOf(disk, hdr)
           n == Clamp(hdr, m, p)
<1>1. /\ Idle /\ handle[h] # NULL /\ disk' = disk /\ todo' = todo
      /\ call' = [op |-> "read", file |-> f, size |-> m, answer |-> into]
  BY DEF Read
<1>2. disk \in [Sectors -> Content] /\ todo = <<>>
  BY <1>1, IdleFacts
<1>3. f \in OpenFiles /\ GoodHdr(hdr) /\ p \in Nat /\ m \in Nat
  BY <1>1, HandleFacts, DiskFSAssumption DEF MaxFileSize
<1> HIDE DEF f
<1>4. N \in Nat /\ old \in Seq(Bytes \cup {Junk}) /\ Len(old) = N
  BY <1>2, <1>3, BytesFacts
<1>5. /\ n \in Nat /\ into \in Seq(Bytes \cup {Junk}) /\ Len(into) = n
      /\ \A i \in 1..n : p + i \in 1..N /\ into[i] = old[p + i]
  <2>1. Reads(into, hdr, n, p)
    BY <1>2, <1>3, ReadAtFacts
  <2> QED
    BY <2>1 DEF Reads
<1>6. n = IF m = 0 \/ p >= N THEN 0 ELSE IF m < N - p THEN m ELSE N - p
  BY <1>3, <1>4, ClampIs
<1> HIDE DEF p, N, into, old, n
<1>7. into = SubSeq(old, p + 1, MinOf(p + m, Len(old)))
  <2> DEFINE e == MinOf(p + m, Len(old))
  <2>1. e = (IF p + m < N THEN p + m ELSE N) /\ e \in Nat
    BY <1>3, <1>4 DEF MinOf
  <2> HIDE DEF e
  <2>2. n = IF e >= p + 1 THEN e - p ELSE 0
    BY <1>3, <1>4, <1>6, <2>1
  <2> DEFINE a == p + 1
             sub == SubSeq(old, a, e)
  <2>3. a \in Int /\ e \in Int /\ a >= 1 /\ e <= Len(old) /\ a = p + 1
    BY <1>3, <1>4, <2>1
  <2> HIDE DEF a
  <2>4. \A i \in a..e : old[i] \in Bytes \cup {Junk}
    BY <1>4, <2>3
  <2>5. /\ sub \in Seq(Bytes \cup {Junk})
        /\ Len(sub) = (IF a <= e THEN e - a + 1 ELSE 0)
        /\ \A i \in 1..(e - a + 1) : sub[i] = old[a + i - 1]
    BY <2>3, <2>4, SubSeqProperties
  <2> HIDE DEF sub
  <2>6. Len(sub) = n /\ \A i \in 1..n : i \in 1..(e - a + 1) /\ a + i - 1 = p + i
    <3>1. n = IF a <= e THEN e - a + 1 ELSE 0
      BY <1>3, <2>2, <2>3
    <3>2. ASSUME NEW i \in 1..n PROVE i \in 1..(e - a + 1) /\ a + i - 1 = p + i
      BY <1>3, <1>5, <2>3, <3>1
    <3> QED
      BY <2>5, <3>1, <3>2
  <2>7. \A i \in 1..n : into[i] = sub[i]
    BY <1>5, <2>5, <2>6
  <2>8. into = sub
    BY <1>5, <2>5, <2>6, <2>7, SeqEqual
  <2> QED
    BY <2>8 DEF sub, e, a
<1>8. ReadOK'
  BY <1>1, <1>2, <1>7 DEF ReadOK, old, hdr, p
<1> QED
  BY <1>1, <1>8 DEF CallInv

\* When Write starts, each byte has its new value or is to be written with it.
LEMMA WriteCall ==
  ASSUME IInv, NEW h \in Handles, NEW b \in Buffers, Write(h, b)
  PROVE  CallInv'
<1> DEFINE hdr == handle[h].hdr
           p == handle[h].seekPosition
           w == WriteAt(hdr, b, Len(b), p)
           new == Overwritten(BytesOf(disk, hdr), b, p)
<1>1. /\ disk' = disk /\ todo' = w
      /\ call'.op = "write" /\ call'.file = handle[h] /\ call'.from = b /\ call'.before = disk
  BY WriteFacts
<1>2. /\ disk \in [Sectors -> Content] /\ GoodHdr(hdr) /\ p \in Nat /\ b \in Seq(Bytes)
  BY WriteFacts, IdleFacts
<1>3. hdr.numBytes \in Nat
  BY <1>2, BytesFacts
<1>4. \A k \in 1..hdr.numBytes : Written(disk, w, hdr, new, k)
  <2> HIDE DEF hdr, p
  <2> QED
    BY <1>2, WriteAtFacts DEF Written
<1>5. WriteOK'
  <2> HIDE DEF w
  <2> QED
    BY <1>1, <1>3, <1>4 DEF WriteOK
<1> QED
  BY <1>1, <1>5 DEF CallInv

\* One sector more is written: the byte keeps its value, or gets it.
LEMMA WrittenStep ==
  ASSUME NEW d, NEW w, d \in [Sectors -> Content], w \in Seq(Sectors \X Content), w # <<>>,
         NEW hdr, NEW new, NEW k, Written(d, w, hdr, new, k)
  PROVE  Written([d EXCEPT ![Head(w)[1]] = Head(w)[2]], Tail(w), hdr, new, k)
<1> DEFINE P == PlaceOf(hdr, k)
           o == (k - 1) % SectorSize
           e == [d EXCEPT ![Head(w)[1]] = Head(w)[2]]
<1>1. /\ Head(w) = w[1] /\ w[1][1] \in Sectors /\ Len(w) \in Nat /\ 1 \in 1..Len(w)
      /\ Len(Tail(w)) = Len(w) - 1
      /\ \A j \in 1..Len(Tail(w)) : Tail(w)[j] = w[j + 1] /\ j + 1 \in 1..Len(w)
      /\ \A j \in 1..Len(w) : j = 1 \/ (j - 1 \in 1..Len(Tail(w)) /\ Tail(w)[j - 1] = w[j])
  OBVIOUS
<1>2. /\ \A j \in 1..Len(w) : w[j][1] = P => ByteIn(w[j][2], o) = new[k]
      /\ (\A j \in 1..Len(w) : w[j][1] # P) => ByteIn(d[P], o) = new[k]
  BY DEF Written
<1>3. e[P] = IF P = w[1][1] THEN w[1][2] ELSE d[P]
  <2> HIDE DEF P
  <2> QED
    BY <1>1
<1> HIDE DEF P, o, e
<1>4. \A j \in 1..Len(Tail(w)) : Tail(w)[j][1] = P => ByteIn(Tail(w)[j][2], o) = new[k]
  BY <1>1, <1>2
<1>5. ASSUME \A j \in 1..Len(Tail(w)) : Tail(w)[j][1] # P PROVE ByteIn(e[P], o) = new[k]
  <2>1. CASE P = w[1][1]
    BY <1>1, <1>2, <1>3, <2>1
  <2>2. CASE P # w[1][1]
    <3>1. \A j \in 1..Len(w) : w[j][1] # P
      BY <1>1, <1>5, <2>2
    <3> QED
      BY <1>2, <1>3, <2>2, <3>1
  <2> QED
    BY <2>1, <2>2
<1> QED
  BY <1>4, <1>5 DEF Written, P, o, e

\* Each write brings the call nearer to what it answered.
LEMMA WriteSectorCall ==
  ASSUME IInv, CallInv, WriteSector
  PROVE  CallInv'
<1>1. /\ todo # <<>> /\ disk \in [Sectors -> Content] /\ todo \in Seq(Sectors \X Content)
      /\ disk' = [disk EXCEPT ![Head(todo)[1]] = Head(todo)[2]]
      /\ todo' = Tail(todo) /\ call' = call
      /\ \/ Formatting \/ CreateStarts \/ CreateBetween \/ CreateEnds
         \/ Removing \/ Writing
  BY WriteSectorFacts DEF IInv, Typed
<1>2. CASE call.op = "create"
  <2>1. CreateOK /\ (CreateStarts \/ CreateBetween \/ CreateEnds)
    BY <1>1, <1>2 DEF CallInv, Formatting, Removing, Writing
  <2>2. ~(~call.answer)
    BY <1>1, <2>1 DEF CreateOK
  <2>3. todo' # <<>> \/ \E i \in UsedOn(disk') : DirOf(disk')[i].name = call.name
    <3>1. CASE CreateStarts \/ CreateBetween
      <4>1. ASSUME NEW x, NEW y, NEW z, NEW w
            PROVE  /\ Tail(<<x, y, z, w>>) # <<>> /\ Tail(<<x, y, z>>) # <<>>
                   /\ Tail(<<x, y>>) # <<>>
        OBVIOUS
      <4>2. CreateStarts => \E x, y, z, w : todo = <<x, y, z, w>> \/ todo = <<x, y, z>>
        BY Zenon DEF CreateStarts
      <4>3. CreateBetween => \E x, y : todo = <<x, y>>
        BY Zenon DEF CreateBetween
      <4> QED
        BY <1>1, <3>1, <4>1, <4>2, <4>3
    <3>2. CASE CreateEnds
      <4>1. Head(todo)[1] = MapData
        BY <3>2 DEF CreateEnds, WriteBackMap
      <4>2. disk'[DirData[1]] = disk[DirData[1]] /\ disk'[DirData[2]] = disk[DirData[2]]
        BY <1>1, <4>1, SystemFacts
      <4>3. UsedOn(disk') = UsedOn(disk) /\ DirOf(disk') = DirOf(disk)
        BY <4>2, SameDir
      <4> QED
        BY <3>2, <4>3 DEF CreateEnds
    <3> QED
      BY <2>1, <3>1, <3>2
  <2>4. CreateOK'
    BY <1>1, <2>1, <2>2, <2>3 DEF CreateOK
  <2> QED
    BY <1>1, <1>2, <2>4 DEF CallInv
<1>3. CASE call.op = "write"
  <2>1. WriteOK
    BY <1>3 DEF CallInv
  <2> DEFINE hdr == call.file.hdr
             new == Overwritten(BytesOf(call.before, hdr), call.from, call.file.seekPosition)
  <2>2. hdr.numBytes \in Nat /\ \A k \in 1..hdr.numBytes : Written(disk, todo, hdr, new, k)
    BY <2>1 DEF WriteOK
  <2>3. \A k \in 1..hdr.numBytes : Written(disk', todo', hdr, new, k)
    <3> HIDE DEF hdr, new
    <3> QED
      BY <1>1, <2>2, WrittenStep
  <2>4. WriteOK'
    BY <1>1, <2>2, <2>3 DEF WriteOK
  <2> QED
    BY <1>1, <1>3, <2>4 DEF CallInv
<1>4. CASE call.op \notin {"create", "write"}
  BY <1>1, <1>4 DEF CallInv, ReadOK
<1> QED
  BY <1>2, <1>3, <1>4

\* Every step keeps CallInv.
LEMMA StepCall ==
  ASSUME IInv, CallInv, [Next]_vars
  PROVE  CallInv'
<1>1. CASE UNCHANGED vars
  BY <1>1 DEF vars, CallInv, CreateOK, ReadOK, WriteOK
<1>2. CASE Format
  BY <1>2 DEF Format, CallInv
<1>3. CASE Mount
  BY <1>3 DEF Mount, CallInv, IInv, Typed, NoCall
<1>4. CASE WriteSector
  BY <1>4, WriteSectorCall
<1>5. CASE Crash
  BY <1>5 DEF Crash, CallInv, NoCall
<1>6. CASE List \/ PrintAll
  BY <1>6 DEF List, PrintAll, CallInv
<1>7. ASSUME NEW n \in Names, Remove(n) PROVE CallInv'
  BY <1>7 DEF Remove, CallInv
<1>8. ASSUME NEW n \in Names, NEW size \in Sizes, Create(n, size) PROVE CallInv'
  BY <1>8, CreateCall
<1>9. ASSUME NEW h \in Handles, NEW n \in Names, Open(h, n) PROVE CallInv'
  BY <1>9 DEF Open, CallInv
<1>10. ASSUME NEW h \in Handles, Close(h) PROVE CallInv'
  BY <1>10 DEF Close, CallInv, NoCall
<1>11. ASSUME NEW h \in Handles, NEW p \in 0..MaxFileSize, Seek(h, p) PROVE CallInv'
  BY <1>11 DEF Seek, CallInv, NoCall
<1>12. ASSUME NEW h \in Handles, NEW n \in Sizes, Read(h, n) PROVE CallInv'
  BY <1>12, ReadCall
<1>13. ASSUME NEW h \in Handles, NEW b \in Buffers, Write(h, b) PROVE CallInv'
  BY <1>13, WriteCall
<1> QED
  BY <1>1, <1>2, <1>3, <1>4, <1>5, <1>6, <1>7, <1>8, <1>9, <1>10, <1>11, <1>12, <1>13 DEF Next


\* The bytes of a file are those that its sectors hold.
LEMMA BytesByPlace ==
  ASSUME NEW d, NEW hdr, hdr.numBytes \in Nat
  PROVE  /\ BytesOf(d, hdr) = [k \in 1..hdr.numBytes |-> BytesOf(d, hdr)[k]]
         /\ Len(BytesOf(d, hdr)) = hdr.numBytes
         /\ \A k \in 1..hdr.numBytes :
              BytesOf(d, hdr)[k] = ByteIn(d[PlaceOf(hdr, k)], (k - 1) % SectorSize)
<1> DEFINE old == BytesOf(d, hdr)
           N == hdr.numBytes
<1>1. old = [k \in 1..N |-> old[k]] /\ DOMAIN old = 1..N
  BY DEF BytesOf
<1>2. \A k \in 1..N : old[k] = ByteIn(d[PlaceOf(hdr, k)], (k - 1) % SectorSize)
  BY DEF BytesOf, ByteIn, PlaceOf
<1>3. Len(old) = N
  <2> HIDE DEF old, N
  <2>1. N \in Nat
    BY DEF N
  <2>2. old \in Seq({old[k] : k \in 1..N})
    BY <1>1, <2>1
  <2> QED
    BY <1>1, <2>1, <2>2
<1> QED
  BY <1>1, <1>2, <1>3

\* When the operation is over, CallInv says what CallsExact asks.
LEMMA InvCallsExact ==
  ASSUME IInv, CallInv
  PROVE  CallsExact
<1>1. SUFFICES ASSUME Idle, call.op \in {"create", "read", "write"} PROVE CallsExact
  BY DEF CallsExact
<1>2. todo = <<>>
  BY <1>1 DEF Idle
<1>3. CASE call.op = "create"
  <2>1. CreateOK
    BY <1>3 DEF CallInv
  <2>2. UsedOn(disk) = Used /\ DirOf(disk) = Directory
    BY DEF Used, UsedOn, DirOf, Directory
  <2> QED
    BY <1>2, <1>3, <2>1, <2>2 DEF CreateOK, CallsExact, DirOf
<1>4. CASE call.op = "read"
  BY <1>4 DEF CallInv, ReadOK, CallsExact
<1>5. CASE call.op = "write"
  <2> DEFINE hdr == call.file.hdr
             old == BytesOf(call.before, hdr)
             new == Overwritten(old, call.from, call.file.seekPosition)
  <2>1. hdr.numBytes \in Nat /\ \A k \in 1..hdr.numBytes : Written(disk, todo, hdr, new, k)
    BY <1>5 DEF CallInv, WriteOK
  <2>2. /\ BytesOf(disk, hdr) = [k \in 1..hdr.numBytes |-> BytesOf(disk, hdr)[k]]
        /\ \A k \in 1..hdr.numBytes :
             BytesOf(disk, hdr)[k] = ByteIn(disk[PlaceOf(hdr, k)], (k - 1) % SectorSize)
        /\ Len(old) = hdr.numBytes
    BY <2>1, BytesByPlace
  <2>3. new = [k \in 1..hdr.numBytes |-> new[k]]
    <3> HIDE DEF old
    <3> QED
      BY <2>2 DEF Overwritten
  <2> HIDE DEF new, old, hdr
  <2>4. ASSUME NEW k \in 1..hdr.numBytes PROVE BytesOf(disk, hdr)[k] = new[k]
    <3>1. Written(disk, todo, hdr, new, k)
      BY <2>1, <2>4
    <3>2. ByteIn(disk[PlaceOf(hdr, k)], (k - 1) % SectorSize) = new[k]
      BY <1>2, <3>1 DEF Written
    <3> QED
      BY <2>2, <2>4, <3>2
  <2>5. BytesOf(disk, hdr) = new
    BY <2>2, <2>3, <2>4
  <2> QED
    BY <1>5, <2>5 DEF CallsExact, new, old, hdr
<1> QED
  BY <1>1, <1>3, <1>4, <1>5

(***************************************************************************)
(* CallsExact holds for files of any length over sectors of any size:      *)
(* FileSystem::Create answers TRUE exactly when the name is new and there  *)
(* is room, OpenFile::Read returns the bytes of the file, and OpenFile::   *)
(* Write changes the bytes it was given and no others, though it reads and *)
(* writes whole sectors.                                                   *)
(***************************************************************************)
THEOREM CallsStayExact ==
  ASSUME ~RemoveOpen, ~MountTorn
  PROVE  Spec => []CallsExact
<1>1. Init => CallInv
  BY InitInv
<1>2. IInv /\ CallInv /\ [Next]_vars => CallInv'
  BY StepCall
<1>3. IInv /\ CallInv => CallsExact
  BY InvCallsExact
<1>4. Spec => []IInv
  BY InvariantHolds
<1> QED
  BY <1>1, <1>2, <1>3, <1>4, PTL DEF Spec


-----------------------------------------------------------------------------
(* The file system implements FileStore.                                   *)

\* The files that a disk d holds.
StoreOf(d) ==
  [n \in Names |->
     IF (\E k \in 1..2 : d[DirData[k]][1] # "dir") \/ Find(DirOf(d), n) = -1 THEN NULL
     ELSE BytesOf(d, d[Find(DirOf(d), n)][2])]

GoodDisk(d) == d \in [Sectors -> Content] /\ HasDir(d) /\ FilesOK(d)

\* The bytes of the file of an entry, and entry i is where name n is found.
FileAt(d, i) == BytesOf(d, HdrOf(d, i))
FoundAt(d, n, i) ==
  /\ i \in UsedOn(d) /\ DirOf(d)[i].name = n
  /\ \A j \in UsedOn(d) : j < i => DirOf(d)[j].name # n
Absent(d, n) == \A j \in UsedOn(d) : DirOf(d)[j].name # n

\* A name is found at one entry, or at none.
LEMMA FoundFacts ==
  ASSUME NEW d, NEW n
  PROVE  /\ \A i : FoundAt(d, n, i) => FindIndex(DirOf(d), n) = i
         /\ Absent(d, n) \/ FoundAt(d, n, FindIndex(DirOf(d), n))
         /\ Absent(d, n) => FindIndex(DirOf(d), n) = -1
<1> DEFINE f == FindIndex(DirOf(d), n)
<1>1. /\ ~Absent(d, n) => FoundAt(d, n, f)
      /\ Absent(d, n) => f = -1
  BY FindFirst DEF Absent, FoundAt
<1>2. UsedOn(d) \subseteq Int
  BY DiskFSAssumption DEF UsedOn, Entries
<1> HIDE DEF f
<1>3. ASSUME NEW i, FoundAt(d, n, i) PROVE f = i
  <2>1. i \in UsedOn(d) /\ DirOf(d)[i].name = n
    BY <1>3 DEF FoundAt
  <2>2. FoundAt(d, n, f)
    BY <1>1, <2>1 DEF Absent
  <2>3. f \in Int /\ i \in Int /\ ~(f < i) /\ ~(i < f)
    BY <1>2, <1>3, <2>2 DEF FoundAt
  <2> QED
    BY <2>3
<1> QED
  BY <1>1, <1>3 DEF f

\* The store holds the bytes of each file that is found, and NULL for other names.
LEMMA StoreFacts ==
  ASSUME NEW d, GoodDisk(d)
  PROVE  /\ \A i \in UsedOn(d) : /\ FileAt(d, i) \in Seq(Bytes \cup {Junk})
                                 /\ FileAt(d, i) # NULL
                                 /\ Len(FileAt(d, i)) = HdrOf(d, i).numBytes
         /\ \A n \in Names, i \in UsedOn(d) : FoundAt(d, n, i) => StoreOf(d)[n] = FileAt(d, i)
         /\ \A n \in Names : Absent(d, n) => StoreOf(d)[n] = NULL
<1>1. d \in [Sectors -> Content] /\ HasDir(d) /\ FilesOK(d)
  BY DEF GoodDisk
<1>2. ~(\E k \in 1..2 : d[DirData[k]][1] # "dir")
  BY <1>1 DEF HasDir
<1>3. ASSUME NEW i \in UsedOn(d)
      PROVE  /\ FileAt(d, i) \in Seq(Bytes \cup {Junk}) /\ FileAt(d, i) # NULL
             /\ Len(FileAt(d, i)) = HdrOf(d, i).numBytes
  <2>1. GoodHdr(HdrOf(d, i))
    BY <1>1, EntryFacts
  <2>2. FileAt(d, i) \in Seq(Bytes \cup {Junk}) /\ Len(FileAt(d, i)) = HdrOf(d, i).numBytes
    BY <1>1, <2>1, BytesFacts DEF FileAt
  <2> QED
    BY <2>2, DiskFSAssumption
<1>4. ASSUME NEW n \in Names, NEW i \in UsedOn(d), FoundAt(d, n, i)
      PROVE  StoreOf(d)[n] = FileAt(d, i)
  <2>1. FindIndex(DirOf(d), n) = i
    BY <1>4, FoundFacts
  <2>2. Find(DirOf(d), n) = DirOf(d)[i].sector
    BY <1>4, <2>1, FindFirst DEF FoundAt
  <2>3. DirOf(d)[i].sector # -1
    BY <1>1, EntryFacts, EntriesArePositive
  <2> QED
    BY <1>2, <2>2, <2>3, Zenon DEF StoreOf, HdrOf, FileAt
<1>5. ASSUME NEW n \in Names, Absent(d, n) PROVE StoreOf(d)[n] = NULL
  <2>1. Find(DirOf(d), n) = -1
    BY <1>5, FindFirst DEF Absent
  <2> QED
    BY <2>1, Zenon DEF StoreOf
<1> QED
  BY <1>3, <1>4, <1>5

\* A disk without a directory has no files; and a store is a function.
LEMMA NoStore ==
  ASSUME NEW d
  PROVE  /\ StoreOf(d) = [n \in Names |-> StoreOf(d)[n]]
         /\ ~HasDir(d) => \A n \in Names : StoreOf(d)[n] = NULL
<1>1. StoreOf(d) = [n \in Names |-> StoreOf(d)[n]]
  BY DEF StoreOf
<1>2. ~HasDir(d) => \E k \in 1..2 : d[DirData[k]][1] # "dir"
  BY DEF HasDir
<1> QED
  BY <1>1, <1>2, Zenon DEF StoreOf

\* Bytes in sectors that hold the same are the same.
LEMMA SameBytes ==
  ASSUME NEW d, NEW e, NEW hdr, GoodHdr(hdr),
         \A x \in Range(hdr.dataSectors) : e[x] = d[x]
  PROVE  BytesOf(e, hdr) = BytesOf(d, hdr)
<1>1. hdr.numBytes \in Nat /\ SectorSize \in Nat \ {0}
      /\ DOMAIN hdr.dataSectors = 1..DivRoundUp(hdr.numBytes, SectorSize)
  BY DiskFSAssumption DEF GoodHdr, FileHeader, MaxFileSize
<1>2. ASSUME NEW k \in 1..hdr.numBytes
      PROVE  e[hdr.dataSectors[(k - 1) \div SectorSize + 1]]
               = d[hdr.dataSectors[(k - 1) \div SectorSize + 1]]
  <2>1. k - 1 \in 0..(hdr.numBytes - 1)
    BY <1>1
  <2>2. (k - 1) \div SectorSize + 1 \in DOMAIN hdr.dataSectors
    BY <1>1, <2>1, RoundUp
  <2> QED
    BY <2>2 DEF Range
<1> QED
  BY <1>2 DEF BytesOf

\* The file of entry i is the same on two disks.
SameFile(d, e, i) ==
  /\ i \in UsedOn(d) /\ i \in UsedOn(e) /\ HdrOf(e, i) = HdrOf(d, i)
  /\ \A x \in Range(HdrOf(d, i).dataSectors) : e[x] = d[x]

\* Then its bytes are; and disks that differ in the directory only have the
\* same files in the entries with the same header.
LEMMA SameFileFacts ==
  ASSUME NEW d, NEW e, NEW i, GoodDisk(d)
  PROVE  /\ SameFile(d, e, i) => FileAt(e, i) = FileAt(d, i)
         /\ /\ Off(d, e) /\ i \in UsedOn(d) /\ i \in UsedOn(e) /\ HdrOf(e, i) = HdrOf(d, i)
            => SameFile(d, e, i)
<1>1. d \in [Sectors -> Content] /\ HasDir(d) /\ FilesOK(d)
  BY DEF GoodDisk
<1>2. ASSUME SameFile(d, e, i) PROVE FileAt(e, i) = FileAt(d, i)
  <2>1. GoodHdr(HdrOf(d, i))
    BY <1>1, <1>2, EntryFacts DEF SameFile
  <2> QED
    BY <1>2, <2>1, SameBytes DEF SameFile, FileAt
<1>3. ASSUME Off(d, e), i \in UsedOn(d), i \in UsedOn(e), HdrOf(e, i) = HdrOf(d, i)
      PROVE  SameFile(d, e, i)
  <2>1. ASSUME NEW x \in Range(HdrOf(d, i).dataSectors) PROVE e[x] = d[x]
    <3>1. x \in Sectors /\ x \notin SystemSectors
      BY <1>1, <1>3, EntryFacts
    <3>2. x \notin DirSectors
      BY <3>1, SystemFacts
    <3> QED
      BY <1>3, <3>1, <3>2 DEF Off
  <2> QED
    BY <1>3, <2>1 DEF SameFile
<1> QED
  BY <1>2, <1>3

\* A name under which two disks have the same file, or none.
LEMMA StoreAt ==
  ASSUME NEW d, NEW e, GoodDisk(d), GoodDisk(e), NEW n \in Names,
         \/ Absent(d, n) /\ Absent(e, n)
         \/ \E i \in UsedOn(d) : FoundAt(d, n, i) /\ FoundAt(e, n, i) /\ SameFile(d, e, i)
  PROVE  StoreOf(e)[n] = StoreOf(d)[n]
<1>1. CASE Absent(d, n) /\ Absent(e, n)
  BY <1>1, StoreFacts
<1>2. ASSUME NEW i \in UsedOn(d), FoundAt(d, n, i), FoundAt(e, n, i), SameFile(d, e, i)
      PROVE  StoreOf(e)[n] = StoreOf(d)[n]
  <2>1. i \in UsedOn(e) /\ FileAt(e, i) = FileAt(d, i)
    BY <1>2, SameFileFacts DEF SameFile
  <2> QED
    BY <1>2, <2>1, StoreFacts
<1> QED
  BY <1>1, <1>2

\* Two disks with the same directory and the same files, but for that of entry x.
Alike(d, e, x) ==
  /\ GoodDisk(d) /\ GoodDisk(e) /\ DirOf(e) = DirOf(d) /\ UsedOn(e) = UsedOn(d)
  /\ \A i \in UsedOn(d) \ {x} : SameFile(d, e, i)

LEMMA StoreAlike ==
  ASSUME NEW d, NEW e, NEW x, Alike(d, e, x)
  PROVE  \A n \in Names : ~FoundAt(d, n, x) => StoreOf(e)[n] = StoreOf(d)[n]
<1> USE DEF Alike
<1>1. ASSUME NEW n \in Names, ~FoundAt(d, n, x) PROVE StoreOf(e)[n] = StoreOf(d)[n]
  <2>1. CASE Absent(d, n)
    <3>1. Absent(e, n)
      BY <2>1 DEF Absent
    <3> QED
      BY <2>1, <3>1, StoreAt
  <2>2. CASE ~Absent(d, n)
    <3>1. PICK i : FoundAt(d, n, i)
      BY <2>2, FoundFacts
    <3>2. i \in UsedOn(d) /\ FoundAt(e, n, i) /\ SameFile(d, e, i)
      BY <1>1, <3>1 DEF FoundAt
    <3> QED
      BY <3>1, <3>2, StoreAt
  <2> QED
    BY <2>1, <2>2
<1> QED
  BY <1>1

\* With the names in order, a file in use is found where it is.
LEMMA FoundNamed ==
  ASSUME NEW d, NEW x, NamesOK(d, x), NEW i \in UsedOn(d) \ {x}
  PROVE  FoundAt(d, DirOf(d)[i].name, i)
<1>1. UsedOn(d) \subseteq Entries
  BY DEF UsedOn
<1> QED
  BY <1>1 DEF NamesOK, FoundAt

\* The disk e has one file more than d, in entry i, which may have the name of
\* another file.
OneMore(d, e, i) ==
  /\ GoodDisk(d) /\ GoodDisk(e) /\ NamesOK(d, 0) /\ NamesOK(e, i)
  /\ i \in Entries \ UsedOn(d) /\ UsedOn(e) = UsedOn(d) \cup {i}
  /\ \A j \in UsedOn(d) : DirOf(e)[j].name = DirOf(d)[j].name /\ SameFile(d, e, j)

OneMoreStored(d, e, i, m) ==
  /\ \A n \in Names : ~FoundAt(e, n, i) => StoreOf(e)[n] = StoreOf(d)[n]
  /\ m \in Names /\ FoundAt(e, m, i) => StoreOf(d)[m] = NULL /\ StoreOf(e)[m] = FileAt(e, i)

LEMMA StoreMore ==
  ASSUME NEW d, NEW e, NEW i, NEW m, OneMore(d, e, i)
  PROVE  OneMoreStored(d, e, i, m)
<1> USE DEF OneMore
<1>1. ASSUME NEW j \in UsedOn(d)
      PROVE  FoundAt(d, DirOf(d)[j].name, j) /\ FoundAt(e, DirOf(d)[j].name, j)
  <2>1. j \in UsedOn(d) \ {0} /\ j \in UsedOn(e) \ {i} /\ DirOf(e)[j].name = DirOf(d)[j].name
    BY DiskFSAssumption DEF UsedOn, Entries
  <2>2. FoundAt(d, DirOf(d)[j].name, j)
    BY <2>1, FoundNamed
  <2>3. FoundAt(e, DirOf(e)[j].name, j)
    BY <2>1, FoundNamed
  <2> QED
    BY <2>1, <2>2, <2>3
<1>2. ASSUME NEW n \in Names, ~FoundAt(e, n, i) PROVE StoreOf(e)[n] = StoreOf(d)[n]
  <2>1. CASE Absent(d, n)
    <3>1. Absent(e, n)
      <4>1. ASSUME ~Absent(e, n) PROVE FALSE
        <5>1. PICK j : FoundAt(e, n, j)
          BY <4>1, FoundFacts
        <5>2. j \in UsedOn(d) /\ DirOf(d)[j].name = n
          BY <1>2, <5>1 DEF FoundAt
        <5> QED
          BY <2>1, <5>2 DEF Absent
      <4> QED
        BY <4>1
    <3> QED
      BY <2>1, <3>1, StoreAt
  <2>2. CASE ~Absent(d, n)
    <3>1. PICK j \in UsedOn(d) : DirOf(d)[j].name = n
      BY <2>2 DEF Absent
    <3>2. FoundAt(d, n, j) /\ FoundAt(e, n, j) /\ SameFile(d, e, j)
      BY <1>1, <3>1
    <3> QED
      BY <3>2, StoreAt
  <2> QED
    BY <2>1, <2>2
<1>3. ASSUME m \in Names, FoundAt(e, m, i)
      PROVE  StoreOf(d)[m] = NULL /\ StoreOf(e)[m] = FileAt(e, i)
  <2>1. Absent(d, m)
    <3>1. ASSUME NEW j \in UsedOn(d), DirOf(d)[j].name = m PROVE FALSE
      <4>1. FoundAt(e, m, j)
        BY <1>1, <3>1
      <4>2. i = j
        BY <1>3, <4>1, FoundFacts
      <4> QED
        BY <4>2
    <3> QED
      BY <3>1 DEF Absent
  <2> QED
    BY <1>3, <2>1, StoreFacts
<1> QED
  BY <1>2, <1>3 DEF OneMoreStored

\* The disk e has the same files as d, but that of entry i has got the name n.
Renamed(d, e, i, n) ==
  /\ GoodDisk(d) /\ GoodDisk(e) /\ NamesOK(d, i) /\ NamesOK(e, 0)
  /\ n \in Names /\ i \in UsedOn(d) /\ UsedOn(e) = UsedOn(d) /\ DirOf(e)[i].name = n
  /\ \A j \in UsedOn(d) \ {i} : DirOf(e)[j].name = DirOf(d)[j].name
  /\ \A j \in UsedOn(d) : SameFile(d, e, j)

RenamedStored(d, e, i, n, m) ==
  /\ StoreOf(e)[n] = FileAt(d, i)
  /\ m # n => StoreOf(d)[n] = NULL
  /\ \A k \in Names : k # n /\ ~FoundAt(d, k, i) => StoreOf(e)[k] = StoreOf(d)[k]
  /\ m \in Names /\ FoundAt(d, m, i) =>
       StoreOf(d)[m] = FileAt(d, i) /\ (m # n => StoreOf(e)[m] = NULL)

LEMMA StoreRenamed ==
  ASSUME NEW d, NEW e, NEW i, NEW n, NEW m, m = DirOf(d)[i].name, Renamed(d, e, i, n)
  PROVE  RenamedStored(d, e, i, n, m)
<1> USE DEF Renamed
<1>1. ASSUME NEW j \in UsedOn(d) PROVE FoundAt(e, DirOf(e)[j].name, j)
  <2>1. j \in UsedOn(e) \ {0}
    BY DiskFSAssumption DEF UsedOn, Entries
  <2> QED
    BY <2>1, FoundNamed
<1>2. ASSUME NEW j \in UsedOn(d) \ {i}
      PROVE  /\ FoundAt(d, DirOf(d)[j].name, j) /\ FoundAt(e, DirOf(d)[j].name, j)
             /\ DirOf(d)[j].name # n
  <2>1. FoundAt(d, DirOf(d)[j].name, j)
    BY FoundNamed
  <2>2. FoundAt(e, DirOf(d)[j].name, j) /\ FoundAt(e, n, i)
    BY <1>1
  <2>3. DirOf(d)[j].name # n
    BY <2>2, FoundFacts
  <2> QED
    BY <2>1, <2>2, <2>3
<1>3. StoreOf(e)[n] = FileAt(d, i)
  <2>1. FoundAt(e, n, i) /\ i \in UsedOn(e)
    BY <1>1
  <2>2. StoreOf(e)[n] = FileAt(e, i)
    BY <2>1, StoreFacts
  <2>3. FileAt(e, i) = FileAt(d, i)
    BY SameFileFacts
  <2> QED
    BY <2>2, <2>3
<1>4. ASSUME m # n PROVE StoreOf(d)[n] = NULL
  <2>1. Absent(d, n)
    BY <1>2, <1>4 DEF Absent
  <2> QED
    BY <2>1, StoreFacts
<1>5. ASSUME NEW k \in Names, k # n, ~FoundAt(d, k, i) PROVE StoreOf(e)[k] = StoreOf(d)[k]
  <2>1. CASE \E j \in UsedOn(d) \ {i} : DirOf(d)[j].name = k
    BY <1>2, <2>1, StoreAt
  <2>2. CASE ~\E j \in UsedOn(d) \ {i} : DirOf(d)[j].name = k
    <3>1. Absent(e, k)
      BY <1>5, <2>2 DEF Absent
    <3>2. Absent(d, k)
      <4>1. i \in Int
        BY DiskFSAssumption DEF UsedOn, Entries
      <4> QED
        BY <1>5, <2>2, <4>1 DEF Absent, FoundAt
    <3> QED
      BY <3>1, <3>2, StoreAt
  <2> QED
    BY <2>1, <2>2
<1>6. ASSUME m \in Names, FoundAt(d, m, i)
      PROVE  StoreOf(d)[m] = FileAt(d, i) /\ (m # n => StoreOf(e)[m] = NULL)
  <2>1. StoreOf(d)[m] = FileAt(d, i)
    BY <1>6, StoreFacts
  <2>2. ASSUME m # n PROVE Absent(e, m)
    <3>1. ASSUME NEW j \in UsedOn(d) \ {i}, DirOf(e)[j].name = m PROVE FALSE
      <4>1. FoundAt(d, m, j)
        BY <1>2, <3>1
      <4> QED
        BY <1>6, <4>1, FoundFacts
    <3> QED
      BY <2>2, <3>1 DEF Absent
  <2> QED
    BY <1>6, <2>1, <2>2, StoreFacts
<1> QED
  BY <1>3, <1>4, <1>5, <1>6 DEF RenamedStored

\* The step of FileStore that leads from the files of disk d to those of e: one
\* file appears, disappears, has bytes overwritten or gets its name; a and b
\* are the names of the new file, before and after.
Changes(d, e, n, a, b) ==
  /\ a = NULL
  /\ \A m \in Names \ {n} : StoreOf(e)[m] = StoreOf(d)[m]
  /\ \/ StoreOf(d)[n] # NULL /\ StoreOf(e)[n] = NULL /\ b = NULL
     \/ StoreOf(d)[n] = NULL /\ StoreOf(e)[n] \in Seq(Bytes \cup {Junk}) /\ b \in {NULL, n}
     \/ /\ StoreOf(d)[n] # NULL /\ StoreOf(e)[n] \in Seq(Bytes \cup {Junk})
        /\ Len(StoreOf(e)[n]) = Len(StoreOf(d)[n])
        /\ b = NULL

Renames(d, e, n, a, b) ==
  /\ a \in Names \ {n} /\ b = NULL
  /\ \A m \in Names \ {n, a} : StoreOf(e)[m] = StoreOf(d)[m]
  /\ StoreOf(d)[n] = NULL /\ StoreOf(e)[n] = StoreOf(d)[a] /\ StoreOf(e)[a] = NULL

StoreStep(d, e, a, b) ==
  \/ StoreOf(e) = StoreOf(d) /\ b \in {a, NULL}
  \/ a = NULL /\ b = NULL /\ \A n \in Names : StoreOf(e)[n] \in {StoreOf(d)[n], NULL}
  \/ \E n \in Names : Changes(d, e, n, a, b) \/ Renames(d, e, n, a, b)

\* The name under which the file of entry i, which is to be n, is found.
NascentOf(d, n, i) ==
  IF /\ DirOf(d)[i].inUse /\ DirOf(d)[i].name \in Names \ {n}
     /\ FindIndex(DirOf(d), DirOf(d)[i].name) = i
  THEN DirOf(d)[i].name ELSE NULL

LEMMA NascentFacts ==
  ASSUME NEW d, NEW n, NEW i
  PROVE  /\ i \in Entries \ UsedOn(d) => NascentOf(d, n, i) = NULL
         /\ DirOf(d)[i].name = n => NascentOf(d, n, i) = NULL
         /\ \/ NascentOf(d, n, i) = NULL
            \/ /\ NascentOf(d, n, i) = DirOf(d)[i].name /\ DirOf(d)[i].name \in Names \ {n}
               /\ i \in Entries => FoundAt(d, DirOf(d)[i].name, i)
         /\ FoundAt(d, DirOf(d)[i].name, i) /\ DirOf(d)[i].name \in Names \ {n}
              => NascentOf(d, n, i) = DirOf(d)[i].name
<1>1. i \in Entries \ UsedOn(d) => NascentOf(d, n, i) = NULL
  BY Zenon DEF NascentOf, UsedOn
<1>2. DirOf(d)[i].name = n => NascentOf(d, n, i) = NULL
  BY Zenon DEF NascentOf
<1>3. \/ NascentOf(d, n, i) = NULL
      \/ /\ NascentOf(d, n, i) = DirOf(d)[i].name /\ DirOf(d)[i].name \in Names \ {n}
         /\ DirOf(d)[i].inUse /\ FindIndex(DirOf(d), DirOf(d)[i].name) = i
  BY Zenon DEF NascentOf
<1>4. ASSUME i \in Entries, DirOf(d)[i].inUse, FindIndex(DirOf(d), DirOf(d)[i].name) = i
      PROVE  FoundAt(d, DirOf(d)[i].name, i)
  <2>1. i \in UsedOn(d)
    BY <1>4, Zenon DEF UsedOn
  <2>2. ~Absent(d, DirOf(d)[i].name)
    BY <2>1 DEF Absent
  <2> QED
    BY <1>4, <2>2, FoundFacts
<1>5. ASSUME FoundAt(d, DirOf(d)[i].name, i), DirOf(d)[i].name \in Names \ {n}
      PROVE  NascentOf(d, n, i) = DirOf(d)[i].name
  <2>1. DirOf(d)[i].inUse
    BY <1>5, Zenon DEF FoundAt, UsedOn
  <2>2. FindIndex(DirOf(d), DirOf(d)[i].name) = i
    BY <1>5, FoundFacts
  <2> QED
    BY <1>5, <2>1, <2>2, Zenon DEF NascentOf
<1> QED
  BY <1>1, <1>2, <1>3, <1>4, <1>5

\* A store that has the same files is the same.
LEMMA SameStore ==
  ASSUME NEW d, NEW e, \A n \in Names : StoreOf(e)[n] = StoreOf(d)[n]
  PROVE  StoreOf(e) = StoreOf(d)
BY NoStore

\* A sector that no file owns is written: the store is the same.
LEMMA StoreFree ==
  ASSUME NEW d, NEW e, NEW s, NEW v, FreeWrite(d, e, s, v), e \in [Sectors -> Content]
  PROVE  StoreOf(e) = StoreOf(d)
<1>1. Unchanged(d, e)
  BY WriteFree
<1>2. CASE ~HasDir(d)
  <2>1. ~HasDir(e)
    BY <1>1, <1>2 DEF Unchanged
  <2> QED
    BY <1>2, <2>1, NoStore, SameStore
<1>3. CASE HasDir(d)
  <2>1. GoodDisk(d) /\ GoodDisk(e) /\ SameFiles(d, e)
    BY <1>1, <1>3 DEF Unchanged, FreeWrite, GoodDisk
  <2>2. /\ UsedOn(e) = UsedOn(d) /\ DirOf(e) = DirOf(d)
        /\ \A i \in UsedOn(d) : HdrOf(e, i) = HdrOf(d, i)
    BY <2>1 DEF SameFiles
  <2>3. ASSUME NEW i \in UsedOn(d), NEW x \in Range(HdrOf(d, i).dataSectors) PROVE e[x] = d[x]
    <3>1. x \in Own(d, i) /\ x \notin SystemSectors
      BY <2>1, EntryFacts DEF GoodDisk
    <3>2. x \in Owned(d)
      BY <3>1, OwnedIs
    <3>3. x # s
      BY <1>3, <3>1, <3>2 DEF FreeWrite
    <3> QED
      BY <3>3 DEF FreeWrite
  <2>4. Alike(d, e, 0)
    BY <2>1, <2>2, <2>3 DEF Alike, SameFile
  <2>5. 0 \notin UsedOn(d)
    BY DiskFSAssumption DEF UsedOn, Entries
  <2> QED
    BY <2>4, <2>5, StoreAlike, SameStore DEF FoundAt
<1> QED
  BY <1>2, <1>3

\* A sector of the directory is written with what it holds already.
LEMMA StoreSimilar ==
  ASSUME NEW d, NEW e, NEW i, Similar(d, e, i), DirOf(e)[i].name = DirOf(d)[i].name
  PROVE  StoreOf(e) = StoreOf(d)
<1>1. /\ HasDir(e) /\ UsedOn(e) = UsedOn(d) /\ FilesOK(e) /\ DirOf(e) = DirOf(d)
      /\ \A j \in UsedOn(d) : HdrOf(e, j) = HdrOf(d, j)
  BY SimilarFacts
<1>2. Off(d, e) /\ GoodDisk(d) /\ GoodDisk(e)
  BY <1>1 DEF Similar, Off, GoodDisk
<1>3. \A j \in UsedOn(d) : SameFile(d, e, j)
  BY <1>1, <1>2, SameFileFacts
<1>4. Alike(d, e, 0)
  BY <1>1, <1>2, <1>3 DEF Alike
<1>5. 0 \notin UsedOn(d)
  BY DiskFSAssumption DEF UsedOn, Entries
<1> QED
  BY <1>4, <1>5, StoreAlike, SameStore DEF FoundAt

\* Format empties one sector of the directory: files go, and the others stay.
LEMMA StoreEmptied ==
  ASSUME NEW d, NEW e, NEW names, EmptyFirst(d, e, names)
  PROVE  \A n \in Names : StoreOf(e)[n] \in {StoreOf(d)[n], NULL}
<1>1. EmptiedFirst(d, e, names)
  BY WriteEmptyFirst
<1>2. CASE ~HasDir(e)
  BY <1>2, NoStore
<1>3. CASE HasDir(e)
  <2>1. Off(d, e) /\ GoodDir(d) /\ GoodDir(e)
    BY <1>1, <1>3 DEF EmptiedFirst, EmptyFirst
  <2>2. \A j \in UsedOn(e) : j \in UsedOn(d) /\ HeadAt[j] = 2 /\ DirOf(e)[j] = DirOf(d)[j]
    BY <1>1, <1>3, Zenon DEF EmptiedFirst
  <2>3. GoodDisk(d) /\ GoodDisk(e) /\ Behind(d)
    BY <1>3, <2>1, GoodFacts DEF GoodDisk, Off, GoodDir, HasDir
  <2>4. ASSUME NEW n \in Names, ~Absent(e, n) PROVE StoreOf(e)[n] = StoreOf(d)[n]
    <3>1. PICK i : FoundAt(e, n, i)
      BY <2>4, FoundFacts
    <3>2. i \in UsedOn(e) /\ i \in UsedOn(d) /\ HeadAt[i] = 2 /\ DirOf(e)[i] = DirOf(d)[i]
          /\ DirOf(e)[i].name = n
      BY <2>2, <3>1 DEF FoundAt
    <3>3. FoundAt(d, n, i)
      BY <2>3, <3>2 DEF FoundAt, Behind
    <3>4. HdrOf(e, i) = HdrOf(d, i)
      <4>1. DirOf(d)[i].sector \in Sectors \ SystemSectors
        BY <2>3, <3>2, EntryFacts DEF GoodDisk
      <4>2. e[DirOf(d)[i].sector] = d[DirOf(d)[i].sector]
        BY <2>1, <4>1, SystemFacts DEF Off
      <4> QED
        BY <3>2, <4>2 DEF HdrOf
    <3>5. SameFile(d, e, i)
      BY <2>1, <2>3, <3>2, <3>4, SameFileFacts
    <3> QED
      BY <2>3, <3>1, <3>2, <3>3, <3>5, StoreAt
  <2> QED
    BY <2>3, <2>4, StoreFacts
<1> QED
  BY <1>2, <1>3

\* The refinement mapping, before and after a step.
LEMMA StoreIs == Store = StoreOf(disk) /\ Store' = StoreOf(disk')
BY DEF Store, StoreOf, Directory, DirOf, FetchHdr

LEMMA NascentIs ==
  /\ Nascent = IF call.op = "create" /\ todo # <<>>
               THEN NascentOf(disk, call.name, call.entry) ELSE NULL
  /\ Nascent' = IF call'.op = "create" /\ todo' # <<>>
                THEN NascentOf(disk', call'.name, call'.entry) ELSE NULL
BY Zenon DEF Nascent, NascentOf, Directory, DirOf

\* What is known of the disks before and after a sector is written.
LEMMA SectorWritten ==
  ASSUME IInv, WriteSector
  PROVE  /\ disk \in [Sectors -> Content] /\ disk' \in [Sectors -> Content]
         /\ GoodDir(disk) /\ (HasDir(disk) => FilesOK(disk))
         /\ disk' = [disk EXCEPT ![Head(todo)[1]] = Head(todo)[2]]
         /\ todo' = Tail(todo) /\ call' = call
         /\ call.op # "create" => Nascent = NULL /\ Nascent' = NULL
         /\ call.op = "create" => Nascent = NascentOf(disk, call.name, call.entry)
<1>1. /\ disk' = [disk EXCEPT ![Head(todo)[1]] = Head(todo)[2]] /\ todo # <<>>
      /\ todo' = Tail(todo) /\ call' = call /\ disk \in [Sectors -> Content]
      /\ GoodDir(disk) /\ (HasDir(disk) => FilesOK(disk)) /\ Typed'
  BY WriteSectorFacts
<1>2. disk' \in [Sectors -> Content]
  BY <1>1 DEF Typed
<1> QED
  BY <1>1, <1>2, NascentIs

\* A system sector that is not the directory's is written.
LEMMA SystemStep ==
  ASSUME IInv, WriteSector, Head(todo)[1] \in {0, 1, MapData}
  PROVE  StoreOf(disk') = StoreOf(disk)
<1>1. Head(todo)[1] \notin DirSectors /\ Head(todo)[1] \in SystemSectors
  BY SystemFacts
<1>2. FreeWrite(disk, disk', Head(todo)[1], Head(todo)[2])
  BY <1>1, SectorWritten DEF FreeWrite
<1>3. disk' \in [Sectors -> Content]
  BY SectorWritten
<1> QED
  BY <1>2, <1>3, StoreFree

\* Format leaves the store alone, until it writes the directory: files go with
\* its first sector, and the last of them with the second.
LEMMA FormatStep ==
  ASSUME IInv, WriteSector, Formatting
  PROVE  StoreStep(disk, disk', Nascent, Nascent')
<1>1. /\ disk \in [Sectors -> Content] /\ disk' \in [Sectors -> Content] /\ GoodDir(disk)
      /\ disk' = [disk EXCEPT ![Head(todo)[1]] = Head(todo)[2]]
      /\ Nascent = NULL /\ Nascent' = NULL
  BY SectorWritten DEF Formatting
<1> DEFINE a == WriteBackHdr(FreeMapSector, MapHdr)
           b == WriteBackHdr(DirectorySector, DirHdr)
           c == WriteBackMap(SystemSectors)
           u(names) == WritePart(EmptyDirectory(names), 1)
           v(names) == WritePart(EmptyDirectory(names), 2)
<1>2. PICK names \in Garbage :
        \/ todo = <<a, b, c, u(names), v(names)>>
        \/ todo = <<b, c, u(names), v(names)>>
        \/ todo = <<c, u(names), v(names)>>
        \/ todo = <<u(names), v(names)>>
        \/ todo = <<v(names)>> /\ disk[DirData[1]] = Dir(Part(EmptyDirectory(names), 1))
  BY Zenon DEF Formatting
<1>3. /\ a[1] = 0 /\ b[1] = 1 /\ c[1] = MapData
      /\ u(names)[1] = DirData[1] /\ u(names)[2] = Dir(Part(EmptyDirectory(names), 1))
      /\ v(names)[1] = DirData[2] /\ v(names)[2] = Dir(Part(EmptyDirectory(names), 2))
  BY DEF WriteBackHdr, WriteBackMap, WritePart, FreeMapSector, DirectorySector
<1>4. \/ Head(todo) \in {a, b, c}
      \/ Head(todo) = u(names)
      \/ Head(todo) = v(names) /\ disk[DirData[1]] = Dir(Part(EmptyDirectory(names), 1))
  <2>1. /\ Split(a, b, c, u(names), v(names)) /\ Split(b, c, u(names), v(names), a)
        /\ Split(c, u(names), v(names), a, b) /\ Split(u(names), v(names), a, b, c)
        /\ Split(v(names), a, a, b, c)
    BY Splits, Zenon
  <2> HIDE DEF a, b, c, u, v
  <2> QED
    BY <1>2, <2>1, Zenon DEF Split
<1>5. CASE Head(todo) \in {a, b, c}
  <2>1. Head(todo)[1] \in {0, 1, MapData}
    <3> HIDE DEF a, b, c, u, v
    <3> QED
      BY <1>3, <1>5
  <2>2. StoreOf(disk') = StoreOf(disk)
    BY <2>1, SystemStep
  <2> QED
    BY <1>1, <2>2 DEF StoreStep
<1>6. CASE Head(todo) = u(names)
  <2> HIDE DEF u
  <2>1. disk' = [disk EXCEPT ![DirData[1]] = Dir(Part(EmptyDirectory(names), 1))]
    BY <1>1, <1>3, <1>6, Zenon
  <2>2. EmptyFirst(disk, disk', names)
    BY <1>1, <2>1 DEF EmptyFirst
  <2>3. \A n \in Names : StoreOf(disk')[n] \in {StoreOf(disk)[n], NULL}
    BY <2>2, StoreEmptied
  <2> QED
    BY <1>1, <2>3 DEF StoreStep
<1>7. CASE Head(todo) = v(names) /\ disk[DirData[1]] = Dir(Part(EmptyDirectory(names), 1))
  <2> HIDE DEF v
  <2>1. disk' = [disk EXCEPT ![DirData[2]] = Dir(Part(EmptyDirectory(names), 2))]
    BY <1>1, <1>3, <1>7, Zenon
  <2>2. EmptySecond(disk, disk', names)
    BY <1>1, <1>7, <2>1 DEF EmptySecond
  <2>3. GoodDir(disk') /\ HasDir(disk') /\ UsedOn(disk') = {}
    BY <2>2, WriteEmptySecond, Zenon DEF EmptiedSecond
  <2>4. GoodDisk(disk')
    BY <1>1, <2>3, GoodFacts DEF GoodDisk
  <2>5. \A n \in Names : StoreOf(disk')[n] = NULL
    BY <2>3, <2>4, StoreFacts DEF Absent
  <2> QED
    BY <1>1, <2>5 DEF StoreStep
<1> QED
  BY <1>4, <1>5, <1>6, <1>7

\* A file more on the disk, whichever of the two sectors brings it: it appears
\* under the name of its entry, unless a file before it has that name.
LEMMA MoreStep ==
  ASSUME NEW d, NEW e, NEW i, OneMore(d, e, i), NEW m, m = DirOf(e)[i].name, NEW b,
         b = NULL \/ (b = m /\ m \in Names /\ FoundAt(e, m, i))
  PROVE  StoreStep(d, e, NULL, b)
<1>1. OneMoreStored(d, e, i, m)
  BY StoreMore
<1>2. /\ \A n \in Names : ~FoundAt(e, n, i) => StoreOf(e)[n] = StoreOf(d)[n]
      /\ m \in Names /\ FoundAt(e, m, i) => StoreOf(d)[m] = NULL /\ StoreOf(e)[m] = FileAt(e, i)
  BY <1>1 DEF OneMoreStored
<1>3. \A n : FoundAt(e, n, i) => n = m
  BY DEF FoundAt
<1>4. CASE m \in Names /\ FoundAt(e, m, i)
  <2>1. i \in UsedOn(e) /\ GoodDisk(e)
    BY DEF OneMore
  <2>2. FileAt(e, i) \in Seq(Bytes \cup {Junk})
    BY <2>1, StoreFacts
  <2>3. Changes(d, e, m, NULL, b)
    BY <1>2, <1>3, <1>4, <2>2 DEF Changes
  <2> QED
    BY <1>4, <2>3 DEF StoreStep
<1>5. CASE ~(m \in Names /\ FoundAt(e, m, i))
  <2>1. \A n \in Names : StoreOf(e)[n] = StoreOf(d)[n]
    BY <1>2, <1>3, <1>5
  <2>2. StoreOf(e) = StoreOf(d) /\ b = NULL
    BY <1>5, <2>1, SameStore
  <2> QED
    BY <2>2 DEF StoreStep
<1> QED
  BY <1>4, <1>5

\* The header of a new file is written; then the first sector of the directory,
\* with which it may appear.
LEMMA CreateStep ==
  ASSUME IInv, WriteSector, CreateStarts
  PROVE  StoreStep(disk, disk', Nascent, Nascent')
<1> DEFINE n == call.name
           i == call.entry
<1>1. /\ disk \in [Sectors -> Content] /\ disk' \in [Sectors -> Content]
      /\ disk' = [disk EXCEPT ![Head(todo)[1]] = Head(todo)[2]]
      /\ todo' = Tail(todo) /\ call' = call
      /\ HasDir(disk) => FilesOK(disk)
  BY SectorWritten
<1>2. /\ call.op = "create" /\ HasDir(disk) /\ NamesOK(disk, 0) /\ NewName(disk, n, i)
  BY DEF CreateStarts, Exact
<1> DEFINE u(s) == WritePart(NewDir(disk, n, i, s), 1)
           v(s) == WritePart(NewDir(disk, n, i, s), 2)
           m(s, h) == WriteBackMap(NewMap(disk, s, h))
<1>3. PICK s \in Sectors, h \in FileHeader :
       /\ NewFile(disk, i, s, h)
       /\ \/ todo = << WriteBackHdr(s, h), u(s), v(s), m(s, h) >>
          \/ /\ todo = << u(s), v(s), m(s, h) >>
             /\ disk[s] = Hdr(h)
  BY Zenon DEF CreateStarts
<1>4. s \notin Owned(disk) /\ s \notin DirSectors /\ i \in Entries \ UsedOn(disk)
  <2>1. s \notin Owned(disk) /\ i \in Entries \ UsedOn(disk)
    BY <1>3 DEF NewFile
  <2> QED
    BY <2>1, SystemFacts DEF Owned
<1>5. Nascent = NULL
  <2>1. Nascent = NascentOf(disk, n, i)
    BY <1>2, SectorWritten
  <2> HIDE DEF n, i
  <2> QED
    BY <1>4, <2>1, NascentFacts
<1>6. Nascent' \in {NULL, NascentOf(disk', n, i)}
  BY <1>1, NascentIs, Zenon
<1> HIDE DEF n, i
<1>7. ASSUME StoreOf(disk') = StoreOf(disk), UsedOn(disk') = UsedOn(disk)
      PROVE  StoreStep(disk, disk', Nascent, Nascent')
  <2>1. NascentOf(disk', n, i) = NULL
    BY <1>4, <1>7, NascentFacts
  <2> QED
    BY <1>5, <1>6, <1>7, <2>1 DEF StoreStep
<1>8. CASE todo = << WriteBackHdr(s, h), u(s), v(s), m(s, h) >>
  <2>1. Split(WriteBackHdr(s, h), u(s), v(s), m(s, h), n)
    BY Splits, Zenon
  <2>2. Head(todo) = WriteBackHdr(s, h)
    BY <1>8, <2>1, Zenon DEF Split
  <2>3. disk' = [disk EXCEPT ![s] = Hdr(h)]
    <3>1. Head(todo)[1] = s /\ Head(todo)[2] = Hdr(h)
      BY <2>2 DEF WriteBackHdr
    <3> QED
      BY <1>1, <3>1, Zenon
  <2>4. FreeWrite(disk, disk', s, Hdr(h))
    BY <1>1, <1>4, <2>3 DEF FreeWrite
  <2>5. StoreOf(disk') = StoreOf(disk)
    BY <1>1, <2>4, StoreFree
  <2>6. Unchanged(disk, disk')
    BY <2>4, WriteFree
  <2>7. UsedOn(disk') = UsedOn(disk)
    BY <1>2, <2>6 DEF Unchanged, SameFiles
  <2> QED
    BY <1>7, <2>5, <2>7
<1>9. CASE todo = << u(s), v(s), m(s, h) >> /\ disk[s] = Hdr(h)
  <2>1. Split(u(s), v(s), m(s, h), n, n)
    BY Splits, Zenon
  <2>2. Head(todo) = u(s)
    BY <1>9, <2>1, Zenon DEF Split
  <2>3. disk' = [disk EXCEPT ![DirData[1]] = Dir(Part(NewDir(disk, n, i, s), 1))]
    <3>1. /\ Head(todo)[1] = DirData[1]
          /\ Head(todo)[2] = Dir(Part(NewDir(disk, n, i, s), 1))
      BY <2>2 DEF WritePart
    <3> QED
      BY <1>1, <3>1, Zenon
  <2>4. NewPart(disk, disk', n, i, s, 1) /\ i \in Entries
    BY <1>1, <1>2, <2>3 DEF NewPart, NewName
  <2>5. /\ Off(disk, disk') /\ disk'[MapData] = disk[MapData]
        /\ \A j \in Entries \ {i} : DirOf(disk')[j] = DirOf(disk)[j]
        /\ HeadAt[i] = 1 => DirOf(disk')[i].inUse = TRUE /\ DirOf(disk')[i].sector = s
        /\ HeadAt[i] # 1 => /\ DirOf(disk')[i].inUse = DirOf(disk)[i].inUse
                            /\ DirOf(disk')[i].sector = DirOf(disk)[i].sector
        /\ NameAt[i] = 1 => DirOf(disk')[i].name = n
        /\ NameAt[i] # 1 => DirOf(disk')[i].name = DirOf(disk)[i].name
    <3>1. NewPartDone(disk, disk', n, i, s, 1)
      BY <2>4, WriteNewPart
    <3> QED
      BY <3>1, Zenon DEF NewPartDone
  <2>6. HeadAt[i] \in {1, 2} /\ NameAt[i] \in {1, 2} /\ (HeadAt[i] = 2 => NameAt[i] = 2)
    BY <2>4, PlaceFacts
  <2>7. CASE HeadAt[i] = 1
    <3>1. Added(disk, disk', i, s, h)
      BY <1>3, <1>9, <2>5, <2>7 DEF Added, i
    <3>2. /\ FilesOK(disk') /\ UsedOn(disk') = UsedOn(disk) \cup {i}
          /\ Kept(disk, disk', UsedOn(disk))
      BY <3>1, HeadsAdded
    <3>3. NamesOK(disk', i)
      <4>1. NamesOK(disk, i)
        BY <1>2, NamesFacts
      <4>2. DirOf(disk')[i].name \in {n, DirOf(disk)[i].name}
        BY <2>5, <2>6
      <4> QED
        BY <1>2, <2>5, <4>1, <4>2, NamesAdded
    <3>4. GoodDisk(disk) /\ GoodDisk(disk')
      BY <1>1, <1>2, <2>5, <3>2 DEF GoodDisk, Off
    <3>5. \A j \in UsedOn(disk) : DirOf(disk')[j].name = DirOf(disk)[j].name
                                  /\ SameFile(disk, disk', j)
      BY <2>5, <3>2, <3>4, SameFileFacts DEF Kept
    <3>6. OneMore(disk, disk', i)
      BY <1>2, <1>4, <3>2, <3>3, <3>4, <3>5 DEF OneMore
    <3>7. \/ Nascent' = NULL
          \/ /\ Nascent' = DirOf(disk')[i].name /\ DirOf(disk')[i].name \in Names
             /\ FoundAt(disk', DirOf(disk')[i].name, i)
      BY <1>6, <2>4, NascentFacts
    <3> QED
      BY <1>5, <3>6, <3>7, MoreStep
  <2>8. CASE HeadAt[i] = 2
    <3>1. Similar(disk, disk', i) /\ DirOf(disk')[i].name = DirOf(disk)[i].name
      BY <2>4, <2>5, <2>6, <2>8 DEF Similar
    <3>2. StoreOf(disk') = StoreOf(disk) /\ UsedOn(disk') = UsedOn(disk)
      BY <3>1, StoreSimilar, SimilarFacts
    <3> QED
      BY <1>7, <3>2
  <2> QED
    BY <2>6, <2>7, <2>8
<1> QED
  BY <1>3, <1>8, <1>9

\* The file of entry i gets its name: it was there under another one, or was
\* hidden by the file that has this name.
LEMMA RenameStep ==
  ASSUME NEW d, NEW e, NEW i, NEW n, i \in Entries, Renamed(d, e, i, n)
  PROVE  StoreStep(d, e, NascentOf(d, n, i), NULL)
<1> DEFINE m == DirOf(d)[i].name
           a == NascentOf(d, n, i)
<1>1. RenamedStored(d, e, i, n, m)
  BY StoreRenamed
<1>2. /\ \/ a = NULL
         \/ a = m /\ m \in Names \ {n} /\ FoundAt(d, m, i)
      /\ FoundAt(d, m, i) /\ m \in Names \ {n} => a = m
      /\ m = n => a = NULL
  BY NascentFacts
<1>3. \A k : FoundAt(d, k, i) => k = m
  BY DEF FoundAt
<1> HIDE DEF m, a
<1>4. /\ StoreOf(e)[n] = FileAt(d, i)
      /\ m # n => StoreOf(d)[n] = NULL
      /\ \A k \in Names : k # n /\ ~FoundAt(d, k, i) => StoreOf(e)[k] = StoreOf(d)[k]
      /\ m \in Names /\ FoundAt(d, m, i) =>
           StoreOf(d)[m] = FileAt(d, i) /\ (m # n => StoreOf(e)[m] = NULL)
  BY <1>1 DEF RenamedStored
<1>5. /\ n \in Names /\ FileAt(d, i) \in Seq(Bytes \cup {Junk}) /\ FileAt(d, i) # NULL
      /\ NULL \notin Names
  <2>1. GoodDisk(d) /\ i \in UsedOn(d) /\ n \in Names
    BY DEF Renamed
  <2> QED
    BY <2>1, StoreFacts, DiskFSAssumption
<1>6. CASE m = n
  <2>1. FoundAt(d, n, i)
    <3>1. DirOf(e)[i].name = n /\ NamesOK(e, 0) /\ UsedOn(e) = UsedOn(d) /\ i \in UsedOn(d)
          /\ \A j \in UsedOn(d) \ {i} : DirOf(e)[j].name = DirOf(d)[j].name
      BY DEF Renamed
    <3>2. i \in UsedOn(e) \ {0}
      BY <3>1, DiskFSAssumption DEF UsedOn, Entries
    <3>3. FoundAt(e, n, i)
      BY <3>1, <3>2, FoundNamed
    <3> QED
      BY <1>6, <3>1, <3>3 DEF FoundAt, m
  <2>2. \A k \in Names : StoreOf(e)[k] = StoreOf(d)[k]
    BY <1>3, <1>4, <1>5, <1>6, <2>1
  <2>3. StoreOf(e) = StoreOf(d)
    BY <2>2, SameStore
  <2> QED
    BY <2>3 DEF StoreStep
<1>7. CASE m # n /\ m \in Names /\ FoundAt(d, m, i)
  <2>1. a = m
    BY <1>2, <1>7
  <2>2. Renames(d, e, n, a, NULL)
    BY <1>3, <1>4, <1>5, <1>7, <2>1 DEF Renames
  <2> QED
    BY <1>5, <2>2 DEF StoreStep, a
<1>8. CASE m # n /\ ~(m \in Names /\ FoundAt(d, m, i))
  <2>1. a = NULL
    BY <1>2, <1>8
  <2>2. \A k \in Names \ {n} : StoreOf(e)[k] = StoreOf(d)[k]
    BY <1>3, <1>4, <1>8
  <2>3. Changes(d, e, n, a, NULL)
    BY <1>4, <1>5, <1>8, <2>1, <2>2 DEF Changes
  <2> QED
    BY <1>5, <2>3 DEF StoreStep, a
<1> QED
  BY <1>6, <1>7, <1>8

\* The second sector of the directory: the new file has its name.
LEMMA BetweenStep ==
  ASSUME IInv, WriteSector, CreateBetween
  PROVE  StoreStep(disk, disk', Nascent, Nascent')
<1> DEFINE n == call.name
           i == call.entry
<1>1. /\ disk \in [Sectors -> Content] /\ disk' \in [Sectors -> Content]
      /\ disk' = [disk EXCEPT ![Head(todo)[1]] = Head(todo)[2]]
      /\ todo' = Tail(todo) /\ call' = call
      /\ HasDir(disk) => FilesOK(disk)
  BY SectorWritten
<1>2. call.op = "create" /\ NewName(disk, n, i)
  BY DEF CreateBetween
<1>3. Nascent = NascentOf(disk, n, i) /\ Nascent' \in {NULL, NascentOf(disk', n, i)}
  <2>1. Nascent = NascentOf(disk, n, i)
    BY <1>2, SectorWritten
  <2>2. Nascent' \in {NULL, NascentOf(disk', n, i)}
    BY <1>1, NascentIs, Zenon
  <2> QED
    BY <2>1, <2>2
<1> DEFINE v(s) == WritePart(NewDir(disk, n, i, s), 2)
           m(s, h) == WriteBackMap(NewMap(disk, s, h))
           Ahead(s, h) == /\ HeadAt[i] = 2
                          /\ Exact(disk) /\ NamesOK(disk, 0)
                          /\ NewFile(disk, i, s, h)
           Half(s, h) == /\ HeadAt[i] = 1
                         /\ i \in UsedOn(disk) /\ DirOf(disk)[i].sector = s
                         /\ NameAt[i] = 1 => DirOf(disk)[i].name = n
                         /\ AllBut(disk, i) /\ NamesOK(disk, i)
<1>4. PICK s \in Sectors, h \in FileHeader :
        /\ todo = << v(s), m(s, h) >> /\ disk[s] = Hdr(h)
        /\ Ahead(s, h) \/ Half(s, h)
  BY Zenon DEF CreateBetween
<1>5. HasDir(disk)
  BY <1>4 DEF Exact, AllBut
<1>6. disk' = [disk EXCEPT ![DirData[2]] = Dir(Part(NewDir(disk, n, i, s), 2))]
  <2>1. Split(v(s), m(s, h), n, n, n)
    BY Splits, Zenon
  <2>2. Head(todo) = v(s)
    BY <1>4, <2>1, Zenon DEF Split
  <2>3. /\ Head(todo)[1] = DirData[2]
        /\ Head(todo)[2] = Dir(Part(NewDir(disk, n, i, s), 2))
    BY <2>2 DEF WritePart
  <2> QED
    BY <1>1, <2>3, Zenon
<1>7. NewPart(disk, disk', n, i, s, 2) /\ i \in Entries /\ n \in Names
  BY <1>1, <1>2, <1>5, <1>6 DEF NewPart, NewName
<1> HIDE DEF n, i
<1>8. /\ Off(disk, disk') /\ disk'[MapData] = disk[MapData]
      /\ \A j \in Entries \ {i} : DirOf(disk')[j] = DirOf(disk)[j]
      /\ HeadAt[i] = 2 => DirOf(disk')[i].inUse = TRUE /\ DirOf(disk')[i].sector = s
      /\ HeadAt[i] # 2 => /\ DirOf(disk')[i].inUse = DirOf(disk)[i].inUse
                          /\ DirOf(disk')[i].sector = DirOf(disk)[i].sector
      /\ NameAt[i] = 2 => DirOf(disk')[i].name = n
      /\ NameAt[i] # 2 => DirOf(disk')[i].name = DirOf(disk)[i].name
  <2>1. NewPartDone(disk, disk', n, i, s, 2)
    BY <1>7, WriteNewPart
  <2> QED
    BY <2>1, Zenon DEF NewPartDone
<1>9. HeadAt[i] \in {1, 2} /\ NameAt[i] \in {1, 2} /\ (HeadAt[i] = 2 => NameAt[i] = 2)
  BY <1>7, PlaceFacts
<1>10. DirOf(disk')[i].name = n
  BY <1>4, <1>8, <1>9
<1>11. Nascent' = NULL
  BY <1>3, <1>10, NascentFacts
<1>12. NamesOK(disk', 0)
  <2>1. NamesOK(disk, i)
    BY <1>4, NamesFacts
  <2> QED
    BY <1>2, <1>8, <1>10, <2>1, NamesAdded DEF n, i
<1>13. CASE Ahead(s, h)
  <2>1. Added(disk, disk', i, s, h)
    BY <1>4, <1>8, <1>13 DEF Added
  <2>2. /\ FilesOK(disk') /\ UsedOn(disk') = UsedOn(disk) \cup {i}
        /\ Kept(disk, disk', UsedOn(disk))
    BY <2>1, HeadsAdded
  <2>3. GoodDisk(disk) /\ GoodDisk(disk') /\ i \in Entries \ UsedOn(disk)
    BY <1>1, <1>5, <1>8, <1>13, <2>2 DEF GoodDisk, Off, NewFile
  <2>4. \A j \in UsedOn(disk) : DirOf(disk')[j].name = DirOf(disk)[j].name
                                /\ SameFile(disk, disk', j)
    BY <1>8, <2>2, <2>3, SameFileFacts DEF Kept
  <2>5. OneMore(disk, disk', i)
    BY <1>12, <1>13, <2>2, <2>3, <2>4, NamesFacts DEF OneMore
  <2>6. Nascent = NULL
    BY <1>3, <2>3, NascentFacts
  <2> QED
    BY <1>11, <2>5, <2>6, MoreStep
<1>14. CASE Half(s, h)
  <2>1. Similar(disk, disk', i)
    BY <1>7, <1>8, <1>14 DEF Similar
  <2>2. /\ UsedOn(disk') = UsedOn(disk) /\ FilesOK(disk')
        /\ \A j \in UsedOn(disk) : HdrOf(disk', j) = HdrOf(disk, j)
    BY <2>1, SimilarFacts
  <2>3. GoodDisk(disk) /\ GoodDisk(disk')
    BY <1>1, <1>5, <1>8, <2>2 DEF GoodDisk, Off
  <2>4. \A j \in UsedOn(disk) : SameFile(disk, disk', j)
    BY <1>8, <2>2, <2>3, SameFileFacts
  <2>5. \A j \in UsedOn(disk) \ {i} : DirOf(disk')[j].name = DirOf(disk)[j].name
    BY <1>8 DEF UsedOn
  <2>6. Renamed(disk, disk', i, n)
    BY <1>7, <1>10, <1>12, <1>14, <2>2, <2>3, <2>4, <2>5 DEF Renamed
  <2>7. StoreStep(disk, disk', NascentOf(disk, n, i), NULL)
    BY <1>7, <2>6, RenameStep
  <2> QED
    BY <1>3, <1>11, <2>7
<1> HIDE DEF Ahead, Half
<1> QED
  BY <1>4, <1>13, <1>14

\* The bitmap catches up: the store has the file already.
LEMMA EndStep ==
  ASSUME IInv, WriteSector, CreateEnds
  PROVE  StoreStep(disk, disk', Nascent, Nascent')
<1>1. call.op = "create" /\ DirOf(disk)[call.entry].name = call.name
      /\ todo = << WriteBackMap(Owned(disk)) >>
  BY DEF CreateEnds
<1>2. Head(todo)[1] = MapData /\ todo' = <<>>
  BY <1>1, SectorWritten DEF WriteBackMap
<1>3. StoreOf(disk') = StoreOf(disk)
  BY <1>2, SystemStep
<1>4. Nascent = NULL
  BY <1>1, SectorWritten, NascentFacts
<1>5. Nascent' = NULL
  BY <1>2, NascentIs
<1> QED
  BY <1>3, <1>4, <1>5 DEF StoreStep

\* The file disappears with the write of the sector its entry begins in.
LEMMA RemoveStep ==
  ASSUME IInv, WriteSector, Removing
  PROVE  StoreStep(disk, disk', Nascent, Nascent')
<1> DEFINE i == call.entry
           m == WriteBackMap(Owned(disk) \ Own(disk, i))
           u == WritePart(Removed(disk, i), 1)
           v == WritePart(Removed(disk, i), 2)
<1>1. /\ disk \in [Sectors -> Content] /\ disk' \in [Sectors -> Content]
      /\ disk' = [disk EXCEPT ![Head(todo)[1]] = Head(todo)[2]]
      /\ HasDir(disk) => FilesOK(disk)
      /\ Nascent = NULL /\ Nascent' = NULL
  BY SectorWritten DEF Removing
<1>2. HasDir(disk) /\ NamesOK(disk, 0) /\ i \in Entries
  BY Zenon DEF Removing
<1>3. \/ todo = << m, u, v >>
      \/ todo = << u, v >> /\ i \in UsedOn(disk)
      \/ todo = << v >> /\ (HeadAt[i] = 2 => i \in UsedOn(disk))
  <2>1. \/ todo = << m, u, v >> /\ i \in UsedOn(disk)
        \/ todo = << u, v >> /\ i \in UsedOn(disk)
        \/ todo = << v >> /\ (HeadAt[i] = 1 \/ i \in UsedOn(disk))
    BY Zenon DEF Removing
  <2> HIDE DEF m, u, v
  <2> QED
    BY <2>1
<1>4. \/ Head(todo) = m
      \/ Head(todo) = u /\ i \in UsedOn(disk)
      \/ Head(todo) = v /\ (HeadAt[i] = 2 => i \in UsedOn(disk))
  <2>1. Split(m, u, v, i, i) /\ Split(u, v, i, i, i) /\ Split(v, i, i, i, i)
    BY Splits, Zenon
  <2> HIDE DEF m, u, v, i
  <2> QED
    BY <1>3, <2>1, Zenon DEF Split
<1>5. CASE Head(todo) = m
  <2>1. Head(todo)[1] = MapData
    BY <1>5 DEF WriteBackMap
  <2>2. StoreOf(disk') = StoreOf(disk)
    BY <2>1, SystemStep
  <2> QED
    BY <1>1, <2>2 DEF StoreStep
<1>6. ASSUME NEW k \in {1, 2}, Head(todo) = WritePart(Removed(disk, i), k),
             HeadAt[i] = k => i \in UsedOn(disk)
      PROVE  StoreStep(disk, disk', Nascent, Nascent')
  <2>1. disk' = [disk EXCEPT ![DirData[k]] = Dir(Part(Removed(disk, i), k))]
    <3>1. Head(todo)[1] = DirData[k] /\ Head(todo)[2] = Dir(Part(Removed(disk, i), k))
      BY <1>6 DEF WritePart
    <3> QED
      BY <1>1, <3>1, Zenon
  <2>2. RemovedPart(disk, disk', i, k)
    BY <1>1, <1>2, <2>1 DEF RemovedPart
  <2> HIDE DEF i
  <2>3. /\ Off(disk, disk') /\ disk'[MapData] = disk[MapData] /\ HasDir(disk')
        /\ \A j \in Entries \ {i} : DirOf(disk')[j] = DirOf(disk)[j]
        /\ HeadAt[i] = k => DirOf(disk')[i].inUse = FALSE
        /\ HeadAt[i] # k => DirOf(disk')[i].inUse = DirOf(disk)[i].inUse
        /\ DirOf(disk')[i].sector = DirOf(disk)[i].sector
        /\ DirOf(disk')[i].name = DirOf(disk)[i].name
    <3>1. RemovedPartDone(disk, disk', i, k)
      BY <2>2, WriteRemovedPart
    <3> QED
      BY <3>1, Zenon DEF RemovedPartDone, Off
  <2>4. CASE HeadAt[i] # k
    <3>1. Similar(disk, disk', i)
      BY <1>2, <2>3, <2>4, Zenon DEF Similar
    <3>2. StoreOf(disk') = StoreOf(disk)
      BY <2>3, <3>1, StoreSimilar
    <3> QED
      BY <1>1, <3>2 DEF StoreStep
  <2>5. CASE HeadAt[i] = k
    <3>1. Freed(disk, disk', i)
      BY <1>6, <2>3, <2>5, Zenon DEF Freed
    <3>2. /\ FilesOK(disk') /\ UsedOn(disk') = UsedOn(disk) \ {i} /\ i \in UsedOn(disk)
          /\ Kept(disk, disk', UsedOn(disk'))
      BY <1>6, <2>5, <3>1, HeadsFreed
    <3>3. GoodDisk(disk) /\ GoodDisk(disk')
      BY <1>1, <1>2, <2>3, <3>2 DEF GoodDisk
    <3>4. NamesOK(disk', 0)
      <4>1. \A j \in Entries : DirOf(disk')[j].name = DirOf(disk)[j].name
        BY <2>3, Zenon
      <4> QED
        BY <1>2, <3>2, <4>1, NamesFreed
    <3>5. ASSUME NEW j \in UsedOn(disk')
          PROVE  DirOf(disk)[j].name = DirOf(disk')[j].name /\ SameFile(disk', disk, j)
      <4>1. SameFile(disk, disk', j) /\ DirOf(disk)[j].name = DirOf(disk')[j].name
        BY <2>3, <3>2, <3>3, SameFileFacts DEF Kept
      <4> QED
        BY <4>1 DEF SameFile
    <3>6. OneMore(disk', disk, i)
      BY <1>2, <3>2, <3>3, <3>4, <3>5, NamesFacts DEF OneMore
    <3> DEFINE n == DirOf(disk)[i].name
    <3>7. FoundAt(disk, n, i) /\ n \in Names
      <4>1. i \in UsedOn(disk) \ {0}
        BY <3>2, DiskFSAssumption DEF UsedOn, Entries
      <4> QED
        BY <1>2, <4>1, FoundNamed DEF NamesOK
    <3>8. \A k_1 \in Names \ {n} : ~FoundAt(disk, k_1, i)
      BY DEF FoundAt
    <3> HIDE DEF n
    <3>9. OneMoreStored(disk', disk, i, n)
      BY <3>6, StoreMore
    <3>10. /\ StoreOf(disk')[n] = NULL /\ StoreOf(disk)[n] = FileAt(disk, i)
           /\ \A k_1 \in Names \ {n} : StoreOf(disk')[k_1] = StoreOf(disk)[k_1]
      BY <3>7, <3>8, <3>9 DEF OneMoreStored
    <3>11. FileAt(disk, i) # NULL
      BY <3>2, <3>3, StoreFacts
    <3>12. Changes(disk, disk', n, Nascent, Nascent')
      BY <1>1, <3>10, <3>11 DEF Changes
    <3> QED
      BY <3>7, <3>12 DEF StoreStep
  <2> QED
    BY <2>4, <2>5
<1> QED
  BY <1>4, <1>5, <1>6

\* A sector of one file is written: its length stays, and so do the others.
LEMMA WriteStep ==
  ASSUME IInv, WriteSector, Writing
  PROVE  StoreStep(disk, disk', Nascent, Nascent')
<1> DEFINE s == Head(todo)[1]
<1>1. /\ disk \in [Sectors -> Content] /\ disk' \in [Sectors -> Content]
      /\ disk' = [disk EXCEPT ![s] = Head(todo)[2]]
      /\ HasDir(disk) => FilesOK(disk)
      /\ Nascent = NULL /\ Nascent' = NULL
  BY SectorWritten DEF Writing
<1>2. HasDir(disk) /\ FilesOK(disk) /\ NamesOK(disk, 0)
  BY <1>1 DEF Writing, Exact
<1>3. PICK i \in UsedOn(disk) : call.file.hdr = HdrOf(disk, i)
  BY DEF Writing, Holds
<1>4. s \in Range(HdrOf(disk, i).dataSectors)
  <2>1. todo \in Seq(Sectors \X Content) /\ todo # <<>>
    BY DEF IInv, Typed, Writing
  <2>2. Head(todo) = todo[1] /\ 1 \in 1..Len(todo)
    BY <2>1
  <2> QED
    BY <1>3, <2>2 DEF Writing
<1> HIDE DEF s
<1>5. Unchanged(disk, disk')
  <2>1. BytesWrite(disk, disk', i, s, Head(todo)[2])
    BY <1>1, <1>2, <1>4 DEF BytesWrite
  <2> QED
    BY <2>1, WriteBytes
<1>6. GoodDisk(disk) /\ GoodDisk(disk') /\ SameFiles(disk, disk')
  BY <1>1, <1>2, <1>5 DEF GoodDisk, Unchanged
<1>7. /\ UsedOn(disk') = UsedOn(disk) /\ DirOf(disk') = DirOf(disk)
      /\ \A j \in UsedOn(disk) : HdrOf(disk', j) = HdrOf(disk, j)
  BY <1>6 DEF SameFiles
<1>8. ASSUME NEW j \in UsedOn(disk) \ {i} PROVE SameFile(disk, disk', j)
  <2>1. Own(disk, i) \cap Own(disk, j) = {}
    BY <1>2, <1>8 DEF FilesOK, Apart
  <2>2. \A x \in Range(HdrOf(disk, j).dataSectors) : x # s
    BY <1>4, <2>1 DEF Own
  <2>3. \A x : x # s => disk'[x] = disk[x]
    BY <1>1
  <2> QED
    BY <1>7, <2>2, <2>3 DEF SameFile
<1>9. Alike(disk, disk', i)
  BY <1>6, <1>7, <1>8 DEF Alike
<1> DEFINE n == DirOf(disk)[i].name
<1>10. n \in Names /\ FoundAt(disk, n, i) /\ FoundAt(disk', n, i)
  <2>1. i \in UsedOn(disk) \ {0}
    BY DiskFSAssumption DEF UsedOn, Entries
  <2>2. n \in Names /\ FoundAt(disk, n, i)
    BY <1>2, <2>1, FoundNamed DEF NamesOK
  <2> QED
    BY <1>7, <2>2 DEF FoundAt
<1>11. \A m \in Names \ {n} : ~FoundAt(disk, m, i)
  BY DEF FoundAt
<1> HIDE DEF n
<1>12. \A m \in Names \ {n} : StoreOf(disk')[m] = StoreOf(disk)[m]
  BY <1>9, <1>11, StoreAlike
<1>13. /\ StoreOf(disk)[n] # NULL /\ Len(StoreOf(disk)[n]) = HdrOf(disk, i).numBytes
       /\ StoreOf(disk')[n] \in Seq(Bytes \cup {Junk})
       /\ Len(StoreOf(disk')[n]) = HdrOf(disk, i).numBytes
  BY <1>6, <1>7, <1>10, StoreFacts
<1>14. Changes(disk, disk', n, Nascent, Nascent')
  BY <1>1, <1>12, <1>13 DEF Changes
<1> QED
  BY <1>10, <1>14 DEF StoreStep

\* The calls and the exits, which write nothing: they start without a new file,
\* or lose it, and leave none.
LEMMA QuietStep ==
  ASSUME IInv, [Next]_vars, ~WriteSector
  PROVE  disk' = disk /\ Nascent' \in {Nascent, NULL}
<1>1. ~up => todo = <<>>
  BY DEF IInv, Typed
<1>2. todo = <<>> => Nascent = NULL
  BY NascentIs
<1>3. todo' = <<>> \/ call'.op # "create" => Nascent' = NULL
  BY NascentIs
<1>4. CASE UNCHANGED vars
  <2>1. disk' = disk /\ todo' = todo /\ call' = call
    BY <1>4 DEF vars
  <2> QED
    BY <2>1, NascentIs
<1>5. ASSUME NEW n \in Names, NEW size \in Sizes, Create(n, size)
      PROVE  disk' = disk /\ Nascent' = NULL
  <2>1. /\ disk' = disk
        /\ call' = [op |-> "create", name |-> n, size |-> size, before |-> disk,
                    entry |-> FreeEntry(DirOf(disk)), answer |-> call'.answer]
        /\ ~call'.answer => todo' = <<>>
        /\ call'.answer => \E i \in Entries : ~DirOf(disk)[i].inUse
    BY <1>5, CreateFacts
  <2>2. CASE ~call'.answer
    BY <1>3, <2>1, <2>2
  <2>3. CASE call'.answer
    <3>1. call'.name = n /\ call'.entry = FreeEntry(DirOf(disk))
      BY <2>1
    <3>2. FreeEntry(DirOf(disk)) \in Entries \ UsedOn(disk)
      BY <2>1, <2>3, FreeEntryFacts
    <3>3. NascentOf(disk', call'.name, call'.entry) = NULL
      BY <2>1, <3>1, <3>2, NascentFacts
    <3> QED
      BY <2>1, <3>3, NascentIs
  <2> QED
    BY <2>2, <2>3
<1>6. CASE Format
  <2>1. disk' = disk /\ call'.op = "format"
    BY <1>6 DEF Format
  <2> QED
    BY <1>3, <2>1
<1>7. CASE Mount
  BY <1>1, <1>3, <1>7 DEF Mount
<1>8. CASE Crash
  BY <1>3, <1>8 DEF Crash
<1>9. CASE List \/ PrintAll
  BY <1>3, <1>9 DEF List, PrintAll, Idle
<1>10. ASSUME NEW n \in Names, Remove(n) PROVE disk' = disk /\ Nascent' = NULL
  BY <1>3, <1>10 DEF Remove
<1>11. ASSUME NEW h \in Handles, NEW n \in Names, Open(h, n) PROVE disk' = disk /\ Nascent' = NULL
  BY <1>3, <1>11 DEF Open
<1>12. ASSUME NEW h \in Handles, Close(h) PROVE disk' = disk /\ Nascent' = NULL
  BY <1>3, <1>12 DEF Close, Idle
<1>13. ASSUME NEW h \in Handles, NEW p \in 0..MaxFileSize, Seek(h, p)
       PROVE  disk' = disk /\ Nascent' = NULL
  BY <1>3, <1>13 DEF Seek, Idle
<1>14. ASSUME NEW h \in Handles, NEW n \in Sizes, Read(h, n)
       PROVE  disk' = disk /\ Nascent' = NULL
  BY <1>3, <1>14 DEF Read, Idle
<1>15. ASSUME NEW h \in Handles, NEW b \in Buffers, Write(h, b)
       PROVE  disk' = disk /\ Nascent' = NULL
  BY <1>3, <1>15 DEF Write
<1> QED
  BY <1>4, <1>5, <1>6, <1>7, <1>8, <1>9, <1>10, <1>11, <1>12, <1>13, <1>14, <1>15 DEF Next

\* The step of FileStore that a change is.
LEMMA ChangeStep ==
  ASSUME NEW n \in Names,
         \/ Changes(disk, disk', n, Nascent, Nascent')
         \/ Renames(disk, disk', n, Nascent, Nascent')
  PROVE  Abstract!Change(n)
<1> DEFINE old == StoreOf(disk)
           new == StoreOf(disk')
           a == Nascent
           b == Nascent'
<1>1. old = [m \in Names |-> old[m]] /\ new = [m \in Names |-> new[m]]
  BY NoStore
<1>2. Store = old /\ Store' = new
  BY StoreIs
<1>3. CASE Changes(disk, disk', n, a, b)
  <2>1. /\ a = NULL
        /\ \A m \in Names \ {n} : new[m] = old[m]
        /\ \/ old[n] # NULL /\ new[n] = NULL /\ b = NULL
           \/ old[n] = NULL /\ new[n] \in Seq(Bytes \cup {Junk}) /\ b \in {NULL, n}
           \/ /\ old[n] # NULL /\ new[n] \in Seq(Bytes \cup {Junk})
              /\ Len(new[n]) = Len(old[n])
              /\ b = NULL
    BY <1>3 DEF Changes
  <2> HIDE DEF old, new, a, b
  <2>2. new = [old EXCEPT ![n] = new[n]]
    BY <1>1, <2>1
  <2>3. Nascent = a /\ Nascent' = b
    BY DEF a, b
  <2> QED
    BY <1>2, <2>1, <2>2, <2>3
       DEF Abstract!Change, Abstract!Create, Abstract!Remove, Abstract!Write
<1>4. CASE Renames(disk, disk', n, a, b)
  <2>1. /\ a \in Names \ {n} /\ b = NULL
        /\ \A m \in Names \ {n, a} : new[m] = old[m]
        /\ old[n] = NULL /\ new[n] = old[a] /\ new[a] = NULL
    BY <1>4 DEF Renames
  <2>2. a # NULL
    BY <2>1, DiskFSAssumption
  <2> HIDE DEF old, new, a, b
  <2>3. new = [old EXCEPT ![n] = old[a], ![a] = NULL]
    BY <1>1, <2>1
  <2>4. Nascent = a /\ Nascent' = b
    BY DEF a, b
  <2>5. Abstract!Rename(n)
    BY <1>2, <2>1, <2>2, <2>3, <2>4 DEF Abstract!Rename
  <2> QED
    BY <2>5 DEF Abstract!Change
<1> QED
  BY <1>3, <1>4

\* Every step is one of FileStore, or leaves its state alone.
LEMMA StepSimulation ==
  ASSUME IInv, [Next]_vars
  PROVE  [Abstract!Format \/ Abstract!Settle \/ \E n \in Names : Abstract!Change(n)]_<<Store, Nascent>>
<1>1. StoreStep(disk, disk', Nascent, Nascent')
  <2>1. CASE ~WriteSector
    <3>1. disk' = disk /\ Nascent' \in {Nascent, NULL}
      BY <2>1, QuietStep
    <3>2. StoreOf(disk') = StoreOf(disk)
      BY <3>1
    <3> QED
      BY <3>1, <3>2 DEF StoreStep
  <2>2. CASE WriteSector
    BY <2>2, WriteSectorFacts, FormatStep, CreateStep, BetweenStep, EndStep, RemoveStep, WriteStep
  <2> QED
    BY <2>1, <2>2
<1>2. CASE StoreOf(disk') = StoreOf(disk) /\ Nascent' \in {Nascent, NULL}
  <2>1. Store' = Store
    BY <1>2, StoreIs
  <2>2. CASE Nascent' = Nascent
    BY <2>1, <2>2
  <2>3. CASE Nascent' # Nascent
    <3>1. Abstract!Settle
      BY <1>2, <2>1, <2>3 DEF Abstract!Settle
    <3> QED
      BY <3>1
  <2> QED
    BY <2>2, <2>3
<1>3. CASE /\ Nascent = NULL /\ Nascent' = NULL
           /\ \A n \in Names : StoreOf(disk')[n] \in {StoreOf(disk)[n], NULL}
  <2>1. StoreOf(disk') = [n \in Names |-> StoreOf(disk')[n]]
    BY NoStore
  <2>2. /\ \A n \in Names : Store'[n] \in {Store[n], NULL}
        /\ Store' = [n \in Names |-> Store'[n]]
    BY <1>3, <2>1, StoreIs, Zenon
  <2>3. Abstract!Format
    BY <1>3, <2>2, Zenon DEF Abstract!Format
  <2> QED
    BY <2>3
<1>4. CASE \E n \in Names : \/ Changes(disk, disk', n, Nascent, Nascent')
                            \/ Renames(disk, disk', n, Nascent, Nascent')
  <2>1. \E n \in Names : Abstract!Change(n)
    BY <1>4, ChangeStep
  <2> QED
    BY <2>1
<1> QED
  BY <1>1, <1>2, <1>3, <1>4 DEF StoreStep

(***************************************************************************)
(* The file system implements FileStore, for any sizes and in every crash: *)
(* a file comes and goes with the write of one of the two sectors of the   *)
(* directory, a new one perhaps first under the name its entry had before, *)
(* and no write of a sector, and no sector used again after a Remove,      *)
(* changes, hides or brings back the bytes of another file.                *)
(***************************************************************************)
THEOREM FileStoreImplemented ==
  ASSUME ~RemoveOpen, ~MountTorn
  PROVE  Spec => ImplementsFileStore
<1>1. Init => Abstract!Init
  <2> SUFFICES ASSUME Init PROVE Store = [n \in Names |-> NULL] /\ Nascent = NULL
    BY DEF Abstract!Init
  <2>1. DirData[1] \in Sectors
    BY SystemFacts
  <2>2. disk[DirData[1]][1] = "data"
    BY <2>1 DEF Init, Unwritten, Data
  <2>3. ~HasDir(disk)
    BY <2>2 DEF HasDir
  <2>4. Store = [n \in Names |-> NULL]
    BY <2>3, NoStore, StoreIs
  <2>5. Nascent = NULL
    BY NascentIs DEF Init
  <2> QED
    BY <2>4, <2>5
<1>2. IInv /\ [Next]_vars =>
        [Abstract!Format \/ Abstract!Settle \/ \E n \in Names : Abstract!Change(n)]_<<Store, Nascent>>
  BY StepSimulation
<1>3. Spec => []IInv
  BY InvariantHolds
<1> QED
  BY <1>1, <1>2, <1>3, PTL DEF Spec, ImplementsFileStore, Abstract!Spec

=============================================================================
