--------------------------- MODULE Devices_proofs ---------------------------
(***************************************************************************)
(* Proofs about the simulated hardware and the synchronous devices, for    *)
(* any number of threads, any geometry of the disk and any times, with and *)
(* without a random timer: that interrupts come in order and on time, that *)
(* the devices' ASSERTs hold, that each request gets its own wakeup, and   *)
(* that the disk's times are those of its head.                            *)
(***************************************************************************)
EXTENDS Devices, FiniteSetTheorems, NaturalsInduction, TLAPS

-----------------------------------------------------------------------------
(* Numbers.                                                                *)

\* Every non-empty set of natural numbers has a least element.
LEMMA LeastNumber ==
  ASSUME NEW T \in SUBSET Nat, T # {}
  PROVE  \E n \in T : \A m \in T : n <= m
<1> DEFINE R == {ss \in Nat \X Nat : ss[1] < ss[2]}
<1>1. IsWellFoundedOn(R, Nat)
  BY NatLessThanWellFounded DEF OpToRel
<1>2. \E x \in T : \A y \in T : ~(<<y, x>> \in R)
  <2> HIDE DEF R
  <2> QED
    BY <1>1, WFMin
<1>3. PICK x \in T : \A y \in T : ~(<<y, x>> \in R)
  BY <1>2
<1>4. ASSUME NEW y \in T PROVE x <= y
  <2>1. ~(<<y, x>> \in R) /\ x \in Nat /\ y \in Nat
    BY <1>3
  <2> QED
    BY <2>1
<1> QED
  BY <1>4

\* What the remainder and the quotient of a division are.
LEMMA Division ==
  ASSUME NEW a \in Int, NEW n \in Nat \ {0}
  PROVE  a % n \in 0..(n - 1) /\ a \div n \in Int /\ a = n * (a \div n) + (a % n)
OBVIOUS

\* The quotient and the remainder are the only numbers of that kind.
LEMMA DivisionUnique ==
  ASSUME NEW a \in Int, NEW n \in Nat \ {0}, NEW q \in Int, NEW r \in 0..(n - 1),
         a = n * q + r
  PROVE  a % n = r /\ a \div n = q
OBVIOUS

\* Products of natural numbers.
LEMMA Products ==
  ASSUME NEW a \in Nat, NEW b \in Nat
  PROVE  a * b \in Nat /\ (a # 0 /\ b # 0 => a * b # 0)
OBVIOUS

-----------------------------------------------------------------------------
(* The list of pending interrupts.                                         *)

Who == Units \cup {"timer"}
Item == [left : Int, who : Who]

\* An interrupt of the device is pending; at most one of each device is.
Has(list, w) == \E i \in 1..Len(list) : list[i].who = w
Once(list) ==
  \A i, j \in 1..Len(list) : list[i].who = list[j].who => i = j

Sorted(list) == \A i, j \in 1..Len(list) : i < j => list[i].left <= list[j].left
Above(list, b) == \A i \in 1..Len(list) : list[i].left > b

\* The items of list, in order and each once, all later than b.
ListInv(list, b) == list \in Seq(Item) /\ Once(list) /\ Sorted(list) /\ Above(list, b)

\* Insert's place: behind the items that are not bigger, before a bigger one.
LEMMA InsertPlaceFacts ==
  ASSUME NEW list \in Seq(Item), NEW item \in Item, NEW k, k = InsertPlace(list, item)
  PROVE  /\ k \in 1..(Len(list) + 1)
         /\ k <= Len(list) => item.left < list[k].left
         /\ \A j \in 1..(k - 1) : item.left >= list[j].left
<1> DEFINE T == {j \in 1..(Len(list) + 1) : j <= Len(list) => Before(item, list[j])}
<1>1. Len(list) + 1 \in T /\ T \in SUBSET Nat
  OBVIOUS
<1>2. PICK n \in T : \A m \in T : n <= m
  BY <1>1, LeastNumber
<1>3. \A j \in 1..(n - 1) : ~Before(item, list[j])
  BY <1>2
<1>4. /\ k \in 1..(Len(list) + 1)
      /\ k <= Len(list) => Before(item, list[k])
      /\ \A j \in 1..(k - 1) : ~Before(item, list[j])
  BY <1>2, <1>3 DEF InsertPlace
<1>5. \A j \in 1..Len(list) : list[j] \in Item
  OBVIOUS
<1>6. item.left \in Int /\ \A j \in 1..Len(list) : list[j].left \in Int
  BY <1>5 DEF Item
<1>7. k - 1 <= Len(list)
  BY <1>4
<1> QED
  BY <1>4, <1>6, <1>7 DEF Before

\* What SortedList::Insert does to the list of pending interrupts.
LEMMA InsertFacts ==
  ASSUME NEW list, NEW b \in Int, ListInv(list, b), NEW w \in Who, NEW d \in Int,
         d > b, ~Has(list, w), NEW new, new = Schedule(list, w, d)
  PROVE  /\ ListInv(new, b)
         /\ \A x : Has(new, x) <=> x = w \/ Has(list, x)
<1> DEFINE item == [left |-> d, who |-> w]
           k == InsertPlace(list, item)
<1>1. list \in Seq(Item) /\ item \in Item
  BY DEF ListInv, Item
<1>2. /\ k \in 1..(Len(list) + 1)
      /\ k <= Len(list) => item.left < list[k].left
      /\ \A j \in 1..(k - 1) : item.left >= list[j].left
  BY <1>1, InsertPlaceFacts
<1>3. new = [i \in 1..(Len(list) + 1) |->
               IF i < k THEN list[i] ELSE IF i = k THEN item ELSE list[i - 1]]
  BY DEF Schedule, Insert
<1> HIDE DEF k
<1>4. /\ new \in Seq(Item) /\ Len(new) = Len(list) + 1 /\ new[k] = item
      /\ \A i \in 1..(k - 1) : i \in 1..Len(list) /\ new[i] = list[i]
      /\ \A i \in (k + 1)..(Len(list) + 1) :
           i - 1 \in 1..Len(list) /\ new[i] = list[i - 1]
  <2>1. \A i \in 1..(Len(list) + 1) : new[i] \in Item
    BY <1>1, <1>2, <1>3
  <2> QED
    BY <1>1, <1>2, <1>3, <2>1
<1> HIDE DEF item
<1>5. item.left = d /\ item.who = w
  BY DEF item
<1>6. Sorted(new)
  <2> SUFFICES ASSUME NEW i \in 1..Len(new), NEW j \in 1..Len(new), i < j
               PROVE  new[i].left <= new[j].left
    BY DEF Sorted
  <2>1. \A m, n \in 1..Len(list) : m < n => list[m].left <= list[n].left
    BY DEF ListInv, Sorted
  <2>2. \A m \in 1..Len(list) : list[m].left \in Int
    <3>1. \A m \in 1..Len(list) : list[m] \in Item
      BY <1>1
    <3> QED
      BY <3>1 DEF Item
  <2>3. \A m \in k..Len(list) : d <= list[m].left
    BY <1>1, <1>2, <1>5, <2>1, <2>2
  <2>4. \A m \in 1..(k - 1) : list[m].left <= d
    BY <1>2, <1>5, <2>2
  <2>5. CASE j < k
    BY <1>1, <1>2, <1>4, <2>1, <2>5
  <2>6. CASE j = k
    BY <1>1, <1>2, <1>4, <1>5, <2>4, <2>6
  <2>7. CASE j > k /\ i < k
    <3>1. /\ i \in 1..(k - 1) /\ j - 1 \in k..Len(list) /\ j - 1 \in 1..Len(list)
          /\ i \in 1..Len(list) /\ new[i] = list[i] /\ new[j] = list[j - 1]
      BY <1>1, <1>2, <1>4, <2>7
    <3>2. list[i].left <= d /\ d <= list[j - 1].left
      BY <2>3, <2>4, <3>1
    <3> QED
      BY <2>2, <3>1, <3>2
  <2>8. CASE j > k /\ i = k
    BY <1>1, <1>2, <1>4, <1>5, <2>3, <2>8
  <2>9. CASE i > k
    <3>1. /\ i - 1 \in 1..Len(list) /\ j - 1 \in 1..Len(list) /\ i - 1 < j - 1
          /\ new[i] = list[i - 1] /\ new[j] = list[j - 1]
      BY <1>1, <1>2, <1>4, <2>9
    <3> QED
      BY <2>1, <3>1
  <2> QED
    BY <1>1, <1>2, <1>4, <2>5, <2>6, <2>7, <2>8, <2>9
<1>7. Once(new)
  <2> SUFFICES ASSUME NEW i \in 1..Len(new), NEW j \in 1..Len(new),
                      new[i].who = new[j].who
               PROVE  i = j
    BY DEF Once
  <2>1. \A m, n \in 1..Len(list) : list[m].who = list[n].who => m = n
    BY DEF ListInv, Once
  <2>2. \A m \in 1..Len(list) : list[m].who # w
    BY DEF Has
  <2>3. i \in 1..(k - 1) \/ i = k \/ i \in (k + 1)..(Len(list) + 1)
    BY <1>1, <1>2, <1>4
  <2>4. j \in 1..(k - 1) \/ j = k \/ j \in (k + 1)..(Len(list) + 1)
    BY <1>1, <1>2, <1>4
  <2>5. CASE i = k
    BY <1>4, <1>5, <2>2, <2>4, <2>5
  <2>6. CASE i \in 1..(k - 1)
    <3>1. CASE j = k
      BY <1>4, <1>5, <2>2, <2>6, <3>1
    <3>2. CASE j \in 1..(k - 1)
      BY <1>4, <2>1, <2>6, <3>2
    <3>3. CASE j \in (k + 1)..(Len(list) + 1)
      <4>1. i = j - 1
        BY <1>4, <2>1, <2>6, <3>3
      <4> QED
        BY <1>1, <1>2, <2>6, <3>3, <4>1
    <3> QED
      BY <2>4, <3>1, <3>2, <3>3
  <2>7. CASE i \in (k + 1)..(Len(list) + 1)
    <3>1. CASE j = k
      BY <1>4, <1>5, <2>2, <2>7, <3>1
    <3>2. CASE j \in 1..(k - 1)
      <4>1. i - 1 = j
        BY <1>4, <2>1, <2>7, <3>2
      <4> QED
        BY <1>1, <1>2, <2>7, <3>2, <4>1
    <3>3. CASE j \in (k + 1)..(Len(list) + 1)
      <4>1. i - 1 = j - 1
        BY <1>4, <2>1, <2>7, <3>3
      <4> QED
        BY <1>1, <1>2, <2>7, <3>3, <4>1
    <3> QED
      BY <2>4, <3>1, <3>2, <3>3
  <2> QED
    BY <2>3, <2>5, <2>6, <2>7
<1>8. Above(new, b)
  <2> SUFFICES ASSUME NEW i \in 1..Len(new) PROVE new[i].left > b
    BY DEF Above
  <2>1. i \in 1..(k - 1) \/ i = k \/ i \in (k + 1)..(Len(list) + 1)
    BY <1>1, <1>2, <1>4
  <2>2. CASE i = k
    BY <1>4, <1>5, <2>2
  <2>3. CASE i # k
    <3>1. PICK j \in 1..Len(list) : new[i] = list[j]
      BY <1>4, <2>1, <2>3
    <3> QED
      BY <3>1 DEF Above, ListInv
  <2> QED
    BY <2>2, <2>3
<1>9. \A x : Has(new, x) <=> x = w \/ Has(list, x)
  <2>1. ASSUME NEW x, Has(new, x) PROVE x = w \/ Has(list, x)
    <3>1. PICK i \in 1..Len(new) : new[i].who = x
      BY <2>1 DEF Has
    <3>2. i \in 1..(k - 1) \/ i = k \/ i \in (k + 1)..(Len(list) + 1)
      BY <1>1, <1>2, <1>4
    <3>3. CASE i = k
      BY <1>4, <1>5, <3>1, <3>3
    <3>4. CASE i # k
      <4>1. PICK j \in 1..Len(list) : new[i] = list[j]
        BY <1>4, <3>2, <3>4
      <4> QED
        BY <3>1, <4>1 DEF Has
    <3> QED
      BY <3>3, <3>4
  <2>2. Has(new, w)
    BY <1>1, <1>2, <1>4, <1>5 DEF Has
  <2>3. ASSUME NEW x, Has(list, x) PROVE Has(new, x)
    <3>1. PICK i \in 1..Len(list) : list[i].who = x
      BY <2>3 DEF Has
    <3>2. CASE i < k
      BY <1>1, <1>2, <1>4, <3>1, <3>2 DEF Has
    <3>3. CASE i >= k
      <4>1. i + 1 \in (k + 1)..(Len(list) + 1) /\ new[i + 1] = list[(i + 1) - 1]
        BY <1>1, <1>2, <1>4, <3>3
      <4> QED
        BY <1>1, <1>4, <3>1, <4>1 DEF Has
    <3> QED
      BY <1>1, <1>2, <3>2, <3>3
  <2> QED
    BY <2>1, <2>2, <2>3
<1> QED
  BY <1>4, <1>6, <1>7, <1>8, <1>9 DEF ListInv

\* CheckIfDue takes the first interrupt off the list.
LEMMA TailFacts ==
  ASSUME NEW list, NEW b \in Int, ListInv(list, b), list # <<>>,
         NEW new, new = Tail(list)
  PROVE  /\ ListInv(new, b)
         /\ \A x : Has(new, x) <=> x # Head(list).who /\ Has(list, x)
<1>1. /\ list \in Seq(Item) /\ Len(list) >= 1 /\ Head(list) = list[1]
      /\ new \in Seq(Item) /\ Len(new) = Len(list) - 1
      /\ \A i \in 1..Len(new) : i + 1 \in 1..Len(list) /\ new[i] = list[i + 1]
  BY DEF ListInv
<1>2. Sorted(new)
  BY <1>1 DEF Sorted, ListInv
<1>3. Once(new)
  BY <1>1 DEF Once, ListInv
<1>4. Above(new, b)
  BY <1>1 DEF Above, ListInv
<1>5. \A x : Has(new, x) <=> x # Head(list).who /\ Has(list, x)
  <2>1. ASSUME NEW x, Has(new, x) PROVE x # Head(list).who /\ Has(list, x)
    <3>1. PICK i \in 1..Len(new) : new[i].who = x
      BY <2>1 DEF Has
    <3>2. i + 1 \in 1..Len(list) /\ list[i + 1].who = x /\ 1 \in 1..Len(list) /\ i + 1 # 1
      BY <1>1, <3>1
    <3> QED
      BY <1>1, <3>2 DEF Has, Once, ListInv
  <2>2. ASSUME NEW x, x # Head(list).who, Has(list, x) PROVE Has(new, x)
    <3>1. PICK i \in 1..Len(list) : list[i].who = x
      BY <2>2 DEF Has
    <3>2. i - 1 \in 1..Len(new) /\ new[i - 1] = list[(i - 1) + 1]
      BY <1>1, <2>2, <3>1
    <3>3. new[i - 1].who = x
      BY <1>1, <3>1, <3>2
    <3> QED
      BY <3>2, <3>3 DEF Has
  <2> QED
    BY <2>1, <2>2
<1> QED
  BY <1>1, <1>2, <1>3, <1>4, <1>5 DEF ListInv

\* new is list with every interrupt d closer.
Advanced(list, new, d) ==
  /\ Len(new) = Len(list)
  /\ \A i \in 1..Len(list) : new[i].left = list[i].left - d /\ new[i].who = list[i].who

\* The clock's advance by d moves every interrupt d closer.
LEMMA AdvanceFacts ==
  ASSUME NEW list, NEW b \in Int, ListInv(list, b), NEW d \in Int,
         NEW new, new = [i \in 1..Len(list) |-> [list[i] EXCEPT !.left = @ - d]]
  PROVE  /\ ListInv(new, b - d)
         /\ \A x : Has(new, x) <=> Has(list, x)
         /\ Advanced(list, new, d)
<1>1. list \in Seq(Item) /\ Len(list) \in Nat
  BY DEF ListInv
<1>2. \A i \in 1..Len(list) : list[i] \in Item
  BY <1>1
<1>3. \A i \in 1..Len(list) : /\ new[i] \in Item /\ new[i].left = list[i].left - d
                              /\ new[i].who = list[i].who
  BY <1>2 DEF Item
<1>4. new \in Seq(Item) /\ Len(new) = Len(list)
  BY <1>1, <1>3
<1>5. \A i \in 1..Len(list) : list[i].left \in Int
  BY <1>2 DEF Item
<1>6. Sorted(new)
  <2> SUFFICES ASSUME NEW i \in 1..Len(list), NEW j \in 1..Len(list), i < j
               PROVE  new[i].left <= new[j].left
    BY <1>4 DEF Sorted
  <2>1. list[i].left <= list[j].left
    BY DEF ListInv, Sorted
  <2>2. new[i].left = list[i].left - d /\ new[j].left = list[j].left - d
    BY <1>3, Zenon
  <2>3. \A x, y \in Int : x <= y => x - d <= y - d
    OBVIOUS
  <2>4. list[i].left \in Int /\ list[j].left \in Int
    BY <1>5, Zenon
  <2> QED
    BY <2>1, <2>2, <2>3, <2>4, Zenon
<1>7. Once(new)
  BY <1>1, <1>3, <1>4 DEF ListInv, Once
<1>8. Above(new, b - d)
  BY <1>1, <1>3, <1>4, <1>5 DEF ListInv, Above
<1>9. \A x : Has(new, x) <=> Has(list, x)
  BY <1>3, <1>4 DEF Has
<1> QED
  BY <1>3, <1>4, <1>6, <1>7, <1>8, <1>9 DEF ListInv, Advanced

\* When the first interrupt is not due, no interrupt is.
LEMMA NotDueFacts ==
  ASSUME NEW list, NEW b \in Int, ListInv(list, b), ~Due(list)
  PROVE  ListInv(list, 0)
<1>1. list \in Seq(Item) /\ (list # <<>> => Head(list) = list[1] /\ Len(list) >= 1)
  BY DEF ListInv
<1>2. \A i \in 1..Len(list) : list[i].left \in Int
  <2>1. \A i \in 1..Len(list) : list[i] \in Item
    BY <1>1
  <2> QED
    BY <2>1 DEF Item
<1>3. Above(list, 0)
  BY <1>1, <1>2 DEF Above, ListInv, Sorted, Due
<1> QED
  BY <1>3 DEF ListInv

-----------------------------------------------------------------------------
(* The inductive invariant.                                                *)

\* How late an interrupt that is still pending can be.
Bound == IF inHandler THEN -SystemTick ELSE 0

\* The pending interrupts, and what they say of the devices.
PendInv ==
  /\ ListInv(pending, Bound)
  /\ Has(pending, "disk") <=> active
  /\ Has(pending, "out") <=> putBusy
  /\ Has(pending, "timer")
  /\ yieldOnReturn => inHandler /\ status # "IdleMode"

\* The location p is between Acquire and Release of the unit's lock.
In(p, u) == p \in {<<"body", u>>, <<"wait", u>>, <<"done", u>>}

\* Who holds a unit's lock.
LockInv ==
  \A u \in Units :
    /\ lock[u] = 0 <=> \E t \in Threads : In(pc[t], u)
    /\ \A s, t \in Threads : In(pc[s], u) /\ In(pc[t], u) => s = t

\* The disk and the output: a request is pending, or its V is, for who waits.
WaitInv ==
  \A u \in {"disk", "out"} :
    /\ sem[u] = 1 => ~Has(pending, u)
    /\ sem[u] = 1 \/ Has(pending, u) <=> \E t \in Threads : pc[t] = <<"wait", u>>

\* A thread has been woken with the keyboard's character, and not taken it.
Taking == \E t \in Threads : pc[t] = <<"done", "in">>

\* The keyboard: a poll is pending, or what it found is there, or the input
\* has ended.
KeyInv ==
  /\ ~(sem["in"] = 1 /\ Taking)
  /\ sem["in"] = 1 \/ Taking =>
       ~Has(pending, "in") /\ polled # NULL /\ (incoming # NULL <=> polled = "char")
  /\ ~(sem["in"] = 1 \/ Taking) =>
       incoming = NULL /\ (Has(pending, "in") <=> polled \notin {"0xFF", "end"})

IInv == TypeOK /\ PendInv /\ LockInv /\ WaitInv /\ KeyInv

Locations == {User} \cup ({"lock", "body", "wait", "done"} \X Units)

-----------------------------------------------------------------------------
(* What the clock and the disk's times are.                                *)

\* The constants and the numbers made of them.
LEMMA Constants ==
  /\ UserTick \in Nat \ {0} /\ SystemTick \in Nat \ {0} /\ RotationTime \in Nat \ {0}
  /\ SeekTime \in Nat \ {0} /\ ConsoleTime \in Nat \ {0} /\ TimerTicks \in Nat \ {0}
  /\ SectorsPerTrack \in Nat \ {0} /\ NumTracks \in Nat \ {0}
  /\ UserTick <= SystemTick
  /\ Rotation \in Nat \ {0} /\ NumSectors \in Nat \ {0}
  /\ Delays \subseteq Nat \ {0}
  /\ NULL \notin {"char", "0xFF", "end"}
<1>1. /\ UserTick \in Nat \ {0} /\ SystemTick \in Nat \ {0} /\ RotationTime \in Nat \ {0}
      /\ SeekTime \in Nat \ {0} /\ ConsoleTime \in Nat \ {0} /\ TimerTicks \in Nat \ {0}
      /\ SectorsPerTrack \in Nat \ {0} /\ NumTracks \in Nat \ {0}
      /\ UserTick <= SystemTick
      /\ NULL \notin {"char", "0xFF", "end"}
  BY DevicesAssumption
<1>2. Rotation \in Nat \ {0} /\ NumSectors \in Nat \ {0}
  BY <1>1, Products DEF Rotation, NumSectors
<1>3. Delays \subseteq Nat \ {0}
  BY <1>1 DEF Delays
<1> QED
  BY <1>1, <1>2, <1>3

\* A sector's track and place on it are natural numbers.
LEMMA SeekFacts ==
  ASSUME TypeOK, NEW s \in Sectors
  PROVE  Seek(s) \in Nat /\ RotationAfter(s) \in 0..(RotationTime - 1)
<1> DEFINE a == s \div SectorsPerTrack
           b == lastSector \div SectorsPerTrack
<1>1. s \in Int /\ lastSector \in Int /\ phase \in Int
  BY Constants DEF TypeOK, Sectors
<1>2. a \in Int /\ b \in Int
  BY <1>1, Constants, Division
<1> HIDE DEF a, b
<1>3. AbsDiff(a, b) \in Nat
  BY <1>2 DEF AbsDiff
<1>4. Seek(s) \in Nat
  BY <1>3, Constants, Products DEF Seek, a, b
<1>5. (phase + Seek(s)) % RotationTime \in 0..(RotationTime - 1)
  <2>1. phase + Seek(s) \in Int
    BY <1>1, <1>4
  <2> QED
    BY <2>1, Constants, Division
<1> QED
  BY <1>4, <1>5, Constants DEF RotationAfter

\* ModuloDiff is the way from one sector of a track to another.
LEMMA ModuloDiffFacts ==
  ASSUME NEW a \in Int, NEW b \in Int
  PROVE  ModuloDiff(a, b) \in 0..(SectorsPerTrack - 1)
<1>1. a % SectorsPerTrack \in Int /\ b % SectorsPerTrack \in Int
  BY Constants, Division
<1> QED
  BY <1>1, Constants, Division DEF ModuloDiff

\* A request takes some time.
LEMMA LatencyFacts ==
  ASSUME TypeOK, NEW s \in Sectors, NEW w \in BOOLEAN
  PROVE  ComputeLatency(s, w) \in Nat \ {0}
<1>1. Seek(s) \in Nat /\ RotationAfter(s) \in Nat /\ s \in Int /\ phase \in Int
  BY SeekFacts, Constants DEF TypeOK, Sectors
<1> DEFINE m == ModuloDiff(s, (phase + Seek(s) + RotationAfter(s)) \div RotationTime)
<1>2. (phase + Seek(s) + RotationAfter(s)) \div RotationTime \in Int
  <2>1. phase + Seek(s) + RotationAfter(s) \in Int
    BY <1>1
  <2> QED
    BY <2>1, Constants, Division
<1>3. m \in Nat
  BY <1>1, <1>2, Constants, ModuloDiffFacts
<1> HIDE DEF m
<1>4. m * RotationTime \in Nat
  BY <1>3, Constants, Products
<1>5. ComputeLatency(s, w) = IF InTrackBuffer(s, w) THEN RotationTime
                             ELSE Seek(s) + RotationAfter(s) + RotationTime + m * RotationTime
  BY DEF ComputeLatency, m
<1> QED
  BY <1>1, <1>4, <1>5, Constants

\* The clock keeps its types when it moves on.
LEMMA ClockType ==
  ASSUME TypeOK, NEW list, NEW d \in Int, Advance(list, d)
  PROVE  phase' \in 0..(Rotation - 1) /\ age' \in Int /\ settled' \in Int
<1>1. phase + d \in Int /\ age + d \in Int /\ settled + d \in Int /\ Rotation \in Int
  BY Constants DEF TypeOK
<1> QED
  BY <1>1, Constants, Division DEF Advance, MinOf

\* OneTick, outside of the handlers: an interrupt is less than d late.
LEMMA TickFacts ==
  ASSUME TypeOK, NEW list, ListInv(list, 0), NEW d \in {UserTick, SystemTick},
         OneTick(list, d)
  PROVE  /\ ListInv(pending', Bound')
         /\ \A x : Has(pending', x) <=> Has(list, x)
         /\ phase' \in 0..(Rotation - 1) /\ age' \in Int /\ settled' \in Int
         /\ inHandler' \in BOOLEAN
<1>1. d \in Nat /\ d <= SystemTick
  BY Constants
<1>2. /\ Advance(list, d) /\ inHandler' = Due(pending')
      /\ pending' = [i \in 1..Len(list) |-> [list[i] EXCEPT !.left = @ - d]]
  BY DEF OneTick, Advance
<1>3. ListInv(pending', 0 - d) /\ \A x : Has(pending', x) <=> Has(list, x)
  <2>1. 0 \in Int /\ d \in Int
    BY <1>1
  <2> QED
    BY <1>2, <2>1, AdvanceFacts
<1>4. ListInv(pending', Bound')
  <2>1. CASE inHandler'
    <3>1. Above(pending', -SystemTick)
      <4>1. \A i \in 1..Len(pending') : pending'[i] \in Item /\ pending'[i].left > 0 - d
        BY <1>3 DEF ListInv, Above
      <4>2. \A i \in 1..Len(pending') : pending'[i].left \in Int
        BY <4>1 DEF Item
      <4> QED
        BY <1>1, <4>1, <4>2, Constants DEF Above
    <3> QED
      BY <1>3, <2>1, <3>1 DEF ListInv, Bound
  <2>2. CASE ~inHandler'
    BY <1>1, <1>2, <1>3, <2>2, NotDueFacts DEF Bound
  <2> QED
    BY <2>1, <2>2
<1>5. inHandler' \in BOOLEAN
  BY <1>2 DEF Due
<1> QED
  BY <1>1, <1>2, <1>3, <1>4, <1>5, ClockType

\* The first interrupt is taken off the list to call its handler.
LEMMA FireFacts ==
  ASSUME IInv, NEW w \in Who, Fire(w)
  PROVE  /\ inHandler /\ Has(pending, w) /\ Bound = -SystemTick /\ -SystemTick \in Int
         /\ ListInv(Tail(pending), -SystemTick)
         /\ \A x : Has(Tail(pending), x) <=> x # w /\ Has(pending, x)
<1>1. inHandler /\ pending # <<>> /\ Head(pending).who = w
  BY DEF Fire, Due
<1>2. Bound = -SystemTick /\ -SystemTick \in Int
  BY <1>1, Constants DEF Bound
<1>3. ListInv(pending, -SystemTick)
  BY <1>2 DEF IInv, PendInv
<1>4. Has(pending, w)
  <2>1. pending \in Seq(Item) /\ 1 \in 1..Len(pending) /\ pending[1].who = w
    BY <1>1, <1>3 DEF ListInv
  <2> QED
    BY <2>1 DEF Has
<1> QED
  BY <1>1, <1>2, <1>3, <1>4, TailFacts

-----------------------------------------------------------------------------
(* The inductive invariant holds at first, and every action keeps it.      *)

\* The constructors establish the invariant.
LEMMA InitInv ==
  ASSUME Init
  PROVE  IInv
<1> USE DEF Init, InterruptInit, ConsoleInputInit, ConsoleOutputInit, DiskInit, SynchInit
<1>1. PICK delay \in Delays :
        pending = Schedule(Schedule(<<>>, "timer", delay), "in", ConsoleTime)
  BY DEF PendingInit
<1> DEFINE one == Schedule(<<>>, "timer", delay)
<1>2. delay \in Int /\ delay > 0 /\ ConsoleTime \in Int /\ ConsoleTime > 0 /\ 0 \in Int
  BY Constants
<1>3. ListInv(<<>>, 0) /\ \A x : ~Has(<<>>, x)
  BY DEF ListInv, Once, Sorted, Above, Has
<1>4. "timer" \in Who /\ "in" \in Who /\ Units = {"disk", "in", "out"}
  BY DEF Who, Units
<1>5. ListInv(one, 0) /\ \A x : Has(one, x) <=> x = "timer" \/ Has(<<>>, x)
  BY <1>2, <1>3, <1>4, InsertFacts
<1>6. ~Has(one, "in")
  BY <1>3, <1>5
<1> HIDE DEF one
<1>7. pending = Schedule(one, "in", ConsoleTime)
  BY <1>1 DEF one
<1>8. ListInv(pending, 0) /\ \A x : Has(pending, x) <=> x = "in" \/ Has(one, x)
  BY <1>2, <1>4, <1>5, <1>6, <1>7, InsertFacts
<1>9. PendInv
  BY <1>3, <1>5, <1>8 DEF PendInv, Bound
<1>10. TypeOK
  <2>1. pending \in Seq([left : Int, who : Units \cup {"timer"}])
    BY <1>8 DEF ListInv, Item, Who
  <2>2. phase \in 0..(Rotation - 1) /\ lastSector \in Sectors
    BY Constants DEF Sectors
  <2>3. pc \in [Threads -> {User} \cup ({"lock", "body", "wait", "done"} \X Units)]
    OBVIOUS
  <2>4. lock \in [Units -> {0, 1}] /\ sem \in [Units -> {0, 1}]
    OBVIOUS
  <2>5. age \in Int /\ settled \in Int
    OBVIOUS
  <2> QED
    BY <2>1, <2>2, <2>3, <2>4, <2>5, Zenon DEF TypeOK
<1>11. \A t \in Threads : pc[t] = User
  OBVIOUS
<1>12. \A t \in Threads, u \in Units : /\ ~In(pc[t], u) /\ pc[t] # <<"wait", u>>
                                       /\ pc[t] # <<"done", u>>
  BY <1>11 DEF In, User
<1>13. LockInv
  BY <1>12 DEF LockInv
<1>14. WaitInv
  BY <1>3, <1>4, <1>5, <1>8, <1>12 DEF WaitInv
<1>15. KeyInv
  BY <1>4, <1>8, <1>12, Constants DEF KeyInv, Taking
<1> QED
  BY <1>9, <1>10, <1>13, <1>14, <1>15 DEF IInv

\* Interrupt::Idle.
LEMMA IdleInv ==
  ASSUME IInv, Idle
  PROVE  IInv'
<1> USE DEF IInv
<1>1. PICK d : d = Head(pending).left
  OBVIOUS
<1>2. /\ ~inHandler /\ pending # <<>> /\ Advance(pending, d) /\ inHandler' = TRUE
      /\ status' = "IdleMode"
      /\ UNCHANGED <<yieldOnReturn, disk, console, lock, sem, pc>>
  BY <1>1 DEF Idle
<1>3. ListInv(pending, 0) /\ pending \in Seq(Item)
  BY <1>2 DEF PendInv, Bound, ListInv
<1>4. d \in Int /\ d > 0 /\ d = pending[1].left /\ 1 \in 1..Len(pending)
  <2>1. 1 \in 1..Len(pending) /\ Head(pending) = pending[1] /\ pending[1] \in Item
    BY <1>2, <1>3
  <2> QED
    BY <1>1, <1>3, <2>1 DEF Item, ListInv, Above
<1>5. pending' = [i \in 1..Len(pending) |-> [pending[i] EXCEPT !.left = @ - d]]
  BY <1>2 DEF Advance
<1>6. /\ ListInv(pending', 0 - d) /\ \A x : Has(pending', x) <=> Has(pending, x)
      /\ Len(pending') = Len(pending)
      /\ \A i \in 1..Len(pending) : /\ pending'[i].left = pending[i].left - d
                                     /\ pending'[i].who = pending[i].who
  <2>1. 0 \in Int /\ d \in Int
    BY <1>4
  <2>2. ListInv(pending, 0)
    BY <1>3
  <2>3. ListInv(pending', 0 - d) /\ \A x : Has(pending', x) <=> Has(pending, x)
    BY <1>5, <2>1, <2>2, AdvanceFacts
  <2>4. Advanced(pending, pending', d)
    BY <1>5, <2>1, <2>2, AdvanceFacts
  <2> QED
    BY <2>3, <2>4 DEF Advanced
<1>7. Above(pending', -SystemTick)
  <2> SUFFICES ASSUME NEW i \in 1..Len(pending) PROVE pending'[i].left > -SystemTick
    BY <1>6 DEF Above
  <2>1. pending[i] \in Item
    BY <1>3
  <2>2. pending[i].left \in Int
    BY <2>1 DEF Item
  <2>3. pending[1].left <= pending[i].left
    BY <1>3, <1>4, <2>2 DEF ListInv, Sorted
  <2> QED
    BY <1>4, <1>6, <2>2, <2>3, Constants
<1>8. ListInv(pending', Bound')
  BY <1>2, <1>6, <1>7 DEF ListInv, Bound
<1>9. PendInv'
  BY <1>2, <1>6, <1>8 DEF PendInv, disk, console
<1>10. phase' \in 0..(Rotation - 1) /\ age' \in Int /\ settled' \in Int
  BY <1>2, <1>4, ClockType
<1>11. TypeOK'
  <2>1. pending' \in Seq([left : Int, who : Units \cup {"timer"}])
    BY <1>6 DEF ListInv, Item, Who
  <2> QED
    BY <1>2, <1>10, <2>1 DEF TypeOK, disk, console
<1>12. LockInv'
  BY <1>2 DEF LockInv
<1>13. WaitInv'
  BY <1>2, <1>6 DEF WaitInv
<1>14. KeyInv'
  BY <1>2, <1>6 DEF KeyInv, Taking, console
<1> QED
  BY <1>9, <1>11, <1>12, <1>13, <1>14

\* The end of CheckIfDue.
LEMMA HandlersDoneInv ==
  ASSUME IInv, HandlersDone
  PROVE  IInv'
<1> USE HandlersDone DEF IInv, HandlersDone, clock, disk, console
<1>1. -SystemTick \in Int
  BY Constants
<1>2. ListInv(pending, 0)
  BY <1>1, NotDueFacts DEF PendInv, Bound
<1>3. PendInv'
  BY <1>2 DEF PendInv, Bound
<1>4. TypeOK'
  BY DEF TypeOK
<1>5. LockInv' /\ WaitInv' /\ KeyInv'
  BY DEF LockInv, WaitInv, KeyInv, Taking
<1> QED
  BY <1>3, <1>4, <1>5

\* A flag that is set when c holds, and was set only then, says that c holds.
LEMMA YieldFacts ==
  ASSUME NEW new, NEW old, NEW c, new = (old \/ c), old => c
  PROVE  new => c
OBVIOUS

\* Timer::CallBack and Alarm::CallBack.
LEMMA TimerInterruptInv ==
  ASSUME IInv, TimerInterrupt
  PROVE  IInv'
<1> USE TimerInterrupt DEF IInv, TimerInterrupt, clock, disk, console
<1>1. PICK delay \in Delays : pending' = Schedule(Tail(pending), "timer", delay)
  OBVIOUS
<1>2. "timer" \in Who /\ delay \in Int /\ delay > -SystemTick /\ -SystemTick \in Int
  BY Constants DEF Who
<1>3. /\ inHandler /\ Has(pending, "timer") /\ Bound = -SystemTick
      /\ ListInv(Tail(pending), -SystemTick)
      /\ \A x : Has(Tail(pending), x) <=> x # "timer" /\ Has(pending, x)
  BY <1>2, FireFacts
<1>4. /\ ListInv(pending', -SystemTick)
      /\ \A x : Has(pending', x) <=> x = "timer" \/ Has(Tail(pending), x)
  BY <1>1, <1>2, <1>3, InsertFacts
<1>5. \A x : Has(pending', x) <=> Has(pending, x)
  BY <1>3, <1>4
<1>6. PendInv'
  <2>1. yieldOnReturn' => inHandler' /\ status' # "IdleMode"
    <3>1. /\ yieldOnReturn' = (yieldOnReturn \/ status # "IdleMode")
          /\ inHandler' = inHandler /\ status' = status
      BY DEF AlarmCallBack
    <3>2. (yieldOnReturn => status # "IdleMode") /\ inHandler
      BY <1>3 DEF PendInv
    <3>3. yieldOnReturn' => status # "IdleMode"
      BY <3>1, <3>2, YieldFacts
    <3> QED
      BY <3>1, <3>2, <3>3
  <2> QED
    BY <1>3, <1>4, <1>5, <2>1 DEF PendInv, Bound
<1>7. TypeOK'
  <2>1. pending' \in Seq([left : Int, who : Units \cup {"timer"}])
    BY <1>4 DEF ListInv, Item, Who
  <2> QED
    BY <2>1 DEF TypeOK, AlarmCallBack
<1>8. LockInv' /\ WaitInv' /\ KeyInv'
  BY <1>5 DEF LockInv, WaitInv, KeyInv, Taking
<1> QED
  BY <1>6, <1>7, <1>8

\* Disk::CallBack and SynchDisk::CallBack.
LEMMA DiskInterruptInv ==
  ASSUME IInv, DiskInterrupt
  PROVE  IInv'
<1> USE DiskInterrupt DEF IInv, DiskInterrupt, clock, console
<1>1. "disk" \in Who /\ Units = {"disk", "in", "out"}
  BY DEF Who, Units
<1>2. /\ inHandler /\ Has(pending, "disk") /\ Bound = -SystemTick
      /\ ListInv(pending', -SystemTick)
      /\ \A x : Has(pending', x) <=> x # "disk" /\ Has(pending, x)
  BY <1>1, FireFacts
<1>3. sem["disk"] = 0
  BY <1>1, <1>2 DEF WaitInv, TypeOK
<1>4. PendInv'
  BY <1>2 DEF PendInv, Bound
<1>5. sem' \in [Units -> {0, 1}] /\ sem'["disk"] = 1 /\ \A u \in {"in", "out"} : sem'[u] = sem[u]
  BY <1>1, <1>3 DEF TypeOK, CallBack
<1>6. TypeOK'
  <2>1. pending' \in Seq([left : Int, who : Units \cup {"timer"}])
    BY <1>2 DEF ListInv, Item, Who
  <2> QED
    BY <1>5, <2>1 DEF TypeOK
<1>7. LockInv' /\ WaitInv' /\ KeyInv'
  BY <1>1, <1>2, <1>5 DEF LockInv, WaitInv, KeyInv, Taking
<1> QED
  BY <1>4, <1>6, <1>7

\* ConsoleInput::CallBack finds nothing.
LEMMA NothingTypedInv ==
  ASSUME IInv, NothingTyped
  PROVE  IInv'
<1> USE NothingTyped DEF IInv, NothingTyped, clock, disk, console
<1>1. "in" \in Who /\ ConsoleTime \in Int /\ ConsoleTime > -SystemTick /\ -SystemTick \in Int
  BY Constants DEF Who, Units
<1>2. /\ inHandler /\ Has(pending, "in") /\ Bound = -SystemTick
      /\ ListInv(Tail(pending), -SystemTick)
      /\ \A x : Has(Tail(pending), x) <=> x # "in" /\ Has(pending, x)
  BY <1>1, FireFacts
<1>3. /\ ListInv(pending', -SystemTick)
      /\ \A x : Has(pending', x) <=> x = "in" \/ Has(Tail(pending), x)
  BY <1>1, <1>2, InsertFacts
<1>4. \A x : Has(pending', x) <=> Has(pending, x)
  BY <1>2, <1>3
<1>5. PendInv'
  BY <1>2, <1>3, <1>4 DEF PendInv, Bound
<1>6. TypeOK'
  <2>1. pending' \in Seq([left : Int, who : Units \cup {"timer"}])
    BY <1>3 DEF ListInv, Item, Who
  <2> QED
    BY <2>1 DEF TypeOK
<1>7. LockInv' /\ WaitInv' /\ KeyInv'
  BY <1>4 DEF LockInv, WaitInv, KeyInv, Taking
<1> QED
  BY <1>5, <1>6, <1>7

\* ConsoleInput::CallBack finds a character, or the end.
LEMMA InputInterruptInv ==
  ASSUME IInv, NEW c \in {"char", "0xFF", "end"}, InputInterrupt(c)
  PROVE  IInv'
<1> USE InputInterrupt(c) DEF IInv, InputInterrupt, clock, disk
<1>1. "in" \in Who /\ Units = {"disk", "in", "out"}
  BY DEF Who, Units
<1>2. /\ inHandler /\ Has(pending, "in") /\ Bound = -SystemTick
      /\ ListInv(pending', -SystemTick)
      /\ \A x : Has(pending', x) <=> x # "in" /\ Has(pending, x)
  BY <1>1, FireFacts
<1>3. sem["in"] = 0 /\ ~Taking
  BY <1>1, <1>2 DEF KeyInv, TypeOK
<1>4. PendInv'
  BY <1>2 DEF PendInv, Bound
<1>5. sem' \in [Units -> {0, 1}] /\ sem'["in"] = 1 /\ \A u \in {"disk", "out"} : sem'[u] = sem[u]
  BY <1>1, <1>3 DEF TypeOK, CallBack
<1>6. TypeOK'
  <2>1. pending' \in Seq([left : Int, who : Units \cup {"timer"}])
    BY <1>2 DEF ListInv, Item, Who
  <2> QED
    BY <1>5, <2>1 DEF TypeOK
<1>7. LockInv' /\ WaitInv'
  BY <1>1, <1>2, <1>5 DEF LockInv, WaitInv
<1>8. KeyInv'
  BY <1>2, <1>3, <1>5, Constants DEF KeyInv, Taking
<1> QED
  BY <1>4, <1>6, <1>7, <1>8

\* ConsoleOutput::CallBack and SynchConsoleOutput::CallBack.
LEMMA OutputInterruptInv ==
  ASSUME IInv, OutputInterrupt
  PROVE  IInv'
<1> USE OutputInterrupt DEF IInv, OutputInterrupt, clock, disk
<1>1. "out" \in Who /\ Units = {"disk", "in", "out"}
  BY DEF Who, Units
<1>2. /\ inHandler /\ Has(pending, "out") /\ Bound = -SystemTick
      /\ ListInv(pending', -SystemTick)
      /\ \A x : Has(pending', x) <=> x # "out" /\ Has(pending, x)
  BY <1>1, FireFacts
<1>3. sem["out"] = 0
  BY <1>1, <1>2 DEF WaitInv, TypeOK
<1>4. PendInv'
  BY <1>2 DEF PendInv, Bound
<1>5. sem' \in [Units -> {0, 1}] /\ sem'["out"] = 1 /\ \A u \in {"in", "disk"} : sem'[u] = sem[u]
  BY <1>1, <1>3 DEF TypeOK, CallBack
<1>6. TypeOK'
  <2>1. pending' \in Seq([left : Int, who : Units \cup {"timer"}])
    BY <1>2 DEF ListInv, Item, Who
  <2> QED
    BY <1>5, <2>1 DEF TypeOK
<1>7. LockInv' /\ WaitInv' /\ KeyInv'
  BY <1>1, <1>2, <1>5 DEF LockInv, WaitInv, KeyInv, Taking
<1> QED
  BY <1>4, <1>6, <1>7

\* The locations inside a unit's lock, and the others.
LEMMA Places ==
  ASSUME NEW u \in Units, NEW v \in Units
  PROVE  /\ ~In(User, v) /\ ~In(<<"lock", u>>, v)
         /\ In(<<"body", u>>, v) <=> u = v
         /\ In(<<"wait", u>>, v) <=> u = v
         /\ In(<<"done", u>>, v) <=> u = v
         /\ <<"wait", u>> = <<"wait", v>> => u = v
         /\ <<"done", u>> = <<"done", v>> => u = v
         /\ <<"wait", u>> \notin {User, <<"lock", v>>, <<"body", v>>, <<"done", v>>}
         /\ <<"done", u>> \notin {User, <<"lock", v>>, <<"body", v>>}
         /\ {<<"lock", u>>, <<"body", u>>, <<"wait", u>>, <<"done", u>>, User} \subseteq Locations
BY DEF In, User, Locations

\* One thread moves on.
LEMMA MoveFacts ==
  ASSUME TypeOK, NEW t \in Threads, NEW loc \in Locations, Goto(t, loc)
  PROVE  /\ pc' \in [Threads -> Locations] /\ pc'[t] = loc
         /\ \A s \in Threads : s # t => pc'[s] = pc[s]
BY DEF TypeOK, Goto, Locations

\* A user instruction.
LEMMA UserStepInv ==
  ASSUME IInv, NEW t \in Threads, UserStep(t)
  PROVE  IInv'
<1> USE UserStep(t) DEF IInv, UserStep, disk, console
<1>1. ListInv(pending, 0)
  BY DEF PendInv, Bound
<1>2. /\ ListInv(pending', Bound')
      /\ \A x : Has(pending', x) <=> Has(pending, x)
      /\ phase' \in 0..(Rotation - 1) /\ age' \in Int /\ settled' \in Int
      /\ inHandler' \in BOOLEAN
  BY <1>1, TickFacts
<1>3. ~yieldOnReturn'
  BY DEF PendInv
<1>4. PendInv'
  BY <1>2, <1>3 DEF PendInv
<1>5. TypeOK'
  <2>1. pending' \in Seq([left : Int, who : Units \cup {"timer"}])
    BY <1>2 DEF ListInv, Item, Who
  <2> QED
    BY <1>2, <2>1 DEF TypeOK
<1>6. LockInv' /\ WaitInv' /\ KeyInv'
  BY <1>2 DEF LockInv, WaitInv, KeyInv, Taking
<1> QED
  BY <1>4, <1>5, <1>6

\* A system call, up to Acquire.
LEMMA CallInv ==
  ASSUME IInv, NEW t \in Threads, NEW u \in Units, Call(t, u)
  PROVE  IInv'
<1> USE Call(t, u) DEF IInv, Call, clock, disk, console
<1>1. /\ pc' \in [Threads -> Locations] /\ pc'[t] = <<"lock", u>> /\ pc[t] = User
      /\ \A s \in Threads : s # t => pc'[s] = pc[s]
  BY MoveFacts, Places
<1>2. ~yieldOnReturn'
  BY DEF PendInv
<1>3. PendInv'
  BY <1>2 DEF PendInv, Bound
<1>4. TypeOK'
  BY <1>1 DEF TypeOK, Locations
<1>5. \A s \in Threads, v \in Units :
        /\ In(pc'[s], v) <=> In(pc[s], v)
        /\ pc'[s] = <<"wait", v>> <=> pc[s] = <<"wait", v>>
        /\ pc'[s] = <<"done", v>> <=> pc[s] = <<"done", v>>
  <2>1. \A v \in Units : /\ ~In(pc[t], v) /\ ~In(pc'[t], v)
                         /\ pc[t] # <<"wait", v>> /\ pc'[t] # <<"wait", v>>
                         /\ pc[t] # <<"done", v>> /\ pc'[t] # <<"done", v>>
    BY <1>1 DEF In, User
  <2> QED
    BY <1>1, <2>1
<1>6. LockInv'
  BY <1>5 DEF LockInv
<1>7. WaitInv' /\ KeyInv'
  BY <1>5 DEF WaitInv, KeyInv, Taking, Units
<1> QED
  BY <1>3, <1>4, <1>6, <1>7

\* Lock::Acquire.
LEMMA AcquireInv ==
  ASSUME IInv, NEW t \in Threads, NEW u \in Units, Acquire(t, u)
  PROVE  IInv'
<1> USE Acquire(t, u) DEF IInv, Acquire, disk, console
<1> DEFINE loc == <<IF u = "in" THEN "wait" ELSE "body", u>>
<1>1. loc \in {<<"wait", u>>, <<"body", u>>} /\ (loc = <<"wait", u>> <=> u = "in")
  OBVIOUS
<1> HIDE DEF loc
<1>2. /\ pc' \in [Threads -> Locations] /\ pc'[t] = loc /\ pc[t] = <<"lock", u>>
      /\ \A s \in Threads : s # t => pc'[s] = pc[s]
  BY <1>1, MoveFacts, Places DEF loc
<1>3. ListInv(pending, 0)
  BY DEF PendInv, Bound
<1>4. /\ ListInv(pending', Bound')
      /\ \A x : Has(pending', x) <=> Has(pending, x)
      /\ phase' \in 0..(Rotation - 1) /\ age' \in Int /\ settled' \in Int
      /\ inHandler' \in BOOLEAN
  BY <1>3, TickFacts DEF Enable
<1>5. ~yieldOnReturn'
  BY DEF PendInv
<1>6. PendInv'
  BY <1>4, <1>5 DEF PendInv
<1>7. lock[u] = 1 /\ lock' \in [Units -> {0, 1}] /\ lock'[u] = 0
      /\ \A v \in Units : v # u => lock'[v] = lock[v]
  BY DEF TypeOK
<1>8. TypeOK'
  <2>1. pending' \in Seq([left : Int, who : Units \cup {"timer"}])
    BY <1>4 DEF ListInv, Item, Who
  <2> QED
    BY <1>2, <1>4, <1>7, <2>1 DEF TypeOK, Locations, Enable
<1>9. \A s \in Threads, v \in Units :
        /\ In(pc'[s], v) <=> In(pc[s], v) \/ (s = t /\ v = u)
        /\ v # "in" => (pc'[s] = <<"wait", v>> <=> pc[s] = <<"wait", v>>)
        /\ pc'[s] = <<"done", v>> <=> pc[s] = <<"done", v>>
  <2>1. \A v \in Units : /\ ~In(pc[t], v) /\ (In(pc'[t], v) <=> v = u)
                         /\ pc[t] # <<"wait", v>> /\ (v # "in" => pc'[t] # <<"wait", v>>)
                         /\ pc[t] # <<"done", v>> /\ pc'[t] # <<"done", v>>
    BY <1>1, <1>2 DEF In
  <2> QED
    BY <1>2, <2>1
<1>10. \A s \in Threads : ~In(pc[s], u)
  BY <1>7 DEF LockInv
<1>11. LockInv'
  BY <1>7, <1>9, <1>10 DEF LockInv
<1>12. WaitInv' /\ KeyInv'
  BY <1>4, <1>9 DEF WaitInv, KeyInv, Taking, Units
<1> QED
  BY <1>6, <1>8, <1>11, <1>12

\* The P on the unit's semaphore returns.
LEMMA WokenInv ==
  ASSUME IInv, NEW t \in Threads, NEW u \in Units, Woken(t, u)
  PROVE  IInv'
<1> USE Woken(t, u) DEF IInv, Woken, disk, console
<1>1. /\ pc' \in [Threads -> Locations] /\ pc'[t] = <<"done", u>> /\ pc[t] = <<"wait", u>>
      /\ \A s \in Threads : s # t => pc'[s] = pc[s]
  BY MoveFacts, Places
<1>2. ListInv(pending, 0)
  BY DEF PendInv, Bound
<1>3. /\ ListInv(pending', Bound')
      /\ \A x : Has(pending', x) <=> Has(pending, x)
      /\ phase' \in 0..(Rotation - 1) /\ age' \in Int /\ settled' \in Int
      /\ inHandler' \in BOOLEAN
  BY <1>2, TickFacts DEF Enable
<1>4. ~yieldOnReturn'
  BY DEF PendInv
<1>5. PendInv'
  BY <1>3, <1>4 DEF PendInv
<1>6. sem[u] = 1 /\ sem' \in [Units -> {0, 1}] /\ sem'[u] = 0
      /\ \A v \in Units : v # u => sem'[v] = sem[v]
  BY DEF TypeOK
<1>7. TypeOK'
  <2>1. pending' \in Seq([left : Int, who : Units \cup {"timer"}])
    BY <1>3 DEF ListInv, Item, Who
  <2> QED
    BY <1>1, <1>3, <1>6, <2>1 DEF TypeOK, Locations, Enable
<1>8. \A s \in Threads, v \in Units :
        /\ In(pc'[s], v) <=> In(pc[s], v)
        /\ pc'[s] = <<"wait", v>> <=> pc[s] = <<"wait", v>> /\ s # t
        /\ pc'[s] = <<"done", v>> <=> pc[s] = <<"done", v>> \/ (s = t /\ v = u)
  <2>1. \A v \in Units : /\ In(pc[t], v) <=> v = u
                         /\ In(pc'[t], v) <=> v = u
                         /\ pc'[t] # <<"wait", v>> /\ pc[t] # <<"done", v>>
                         /\ pc'[t] = <<"done", v>> <=> v = u
    BY <1>1 DEF In
  <2> QED
    BY <1>1, <2>1
<1>9. LockInv'
  BY <1>8 DEF LockInv
<1>10. \A s \in Threads : pc[s] = <<"wait", u>> => s = t
  BY <1>1 DEF LockInv, In
<1>11. WaitInv'
  <2> SUFFICES ASSUME NEW v \in {"disk", "out"}
               PROVE  /\ sem'[v] = 1 => ~Has(pending', v)
                      /\ sem'[v] = 1 \/ Has(pending', v)
                           <=> \E s \in Threads : pc'[s] = <<"wait", v>>
    BY DEF WaitInv
  <2>1. v \in Units
    BY DEF Units
  <2>2. CASE v = u
    BY <1>3, <1>6, <1>8, <1>10, <2>1, <2>2 DEF WaitInv
  <2>3. CASE v # u
    <3>1. \A s \in Threads : pc'[s] = <<"wait", v>> <=> pc[s] = <<"wait", v>>
      BY <1>1, <1>8, <2>1, <2>3, Places
    <3> QED
      BY <1>3, <1>6, <2>1, <2>3, <3>1 DEF WaitInv
  <2> QED
    BY <2>2, <2>3
<1>12. KeyInv'
  <2>1. CASE u = "in"
    <3>1. Taking' /\ sem["in"] = 1 /\ sem'["in"] = 0
      BY <1>1, <1>6, <2>1 DEF Taking
    <3> QED
      BY <1>3, <3>1 DEF KeyInv
  <2>2. CASE u # "in"
    <3>1. sem'["in"] = sem["in"] /\ (Taking' <=> Taking)
      BY <1>6, <1>8, <2>2 DEF Taking, Units
    <3> QED
      BY <1>3, <3>1 DEF KeyInv
  <2> QED
    BY <2>1, <2>2
<1> QED
  BY <1>5, <1>7, <1>9, <1>11, <1>12

\* Disk::ReadRequest and WriteRequest.
LEMMA DiskRequestInv ==
  ASSUME IInv, NEW t \in Threads, NEW n \in Sectors, NEW w \in BOOLEAN, DiskRequest(t, n, w)
  PROVE  IInv'
<1> USE DiskRequest(t, n, w) DEF IInv, DiskRequest, console
<1>1. "disk" \in Units /\ "disk" \in Who /\ Units = {"disk", "in", "out"}
  BY DEF Units, Who
<1>2. /\ pc' \in [Threads -> Locations] /\ pc'[t] = <<"wait", "disk">>
      /\ pc[t] = <<"body", "disk">>
      /\ \A s \in Threads : s # t => pc'[s] = pc[s]
  BY <1>1, MoveFacts, Places
<1>3. ListInv(pending, 0)
  BY DEF PendInv, Bound
<1>4. \A s \in Threads : pc[s] # <<"wait", "disk">>
  BY <1>1, <1>2, Places DEF LockInv
<1>5. ~Has(pending, "disk") /\ sem["disk"] = 0
  BY <1>1, <1>4 DEF WaitInv, TypeOK
<1>6. ComputeLatency(n, w) \in Int /\ ComputeLatency(n, w) > 0 /\ 0 \in Int
  BY LatencyFacts
<1>7. /\ ListInv(pending', 0)
      /\ \A x : Has(pending', x) <=> x = "disk" \/ Has(pending, x)
  BY <1>1, <1>3, <1>5, <1>6, InsertFacts
<1>8. PendInv'
  BY <1>7 DEF PendInv, Bound
<1>9. TypeOK'
  <2>1. pending' \in Seq([left : Int, who : Units \cup {"timer"}])
    BY <1>7 DEF ListInv, Item, Who
  <2>2. Seek(n) \in Nat /\ RotationAfter(n) \in Int
    BY SeekFacts, Constants
  <2>3. age' \in Int /\ settled' \in Int /\ lastSector' \in Sectors
    BY <2>2 DEF TypeOK, UpdateLast
  <2>4. request' \in [sector : Sectors, buffered : BOOLEAN, seek : Nat]
    BY <2>2 DEF InTrackBuffer
  <2> QED
    BY <1>2, <2>1, <2>3, <2>4 DEF TypeOK, Locations
<1>10. \A s \in Threads, v \in Units :
        /\ In(pc'[s], v) <=> In(pc[s], v)
        /\ pc'[s] = <<"wait", v>> <=> pc[s] = <<"wait", v>> \/ (s = t /\ v = "disk")
        /\ pc'[s] = <<"done", v>> <=> pc[s] = <<"done", v>>
  BY <1>1, <1>2, Places
<1>11. LockInv'
  BY <1>10 DEF LockInv
<1>12. WaitInv' /\ KeyInv'
  BY <1>1, <1>5, <1>7, <1>10 DEF WaitInv, KeyInv, Taking
<1> QED
  BY <1>8, <1>9, <1>11, <1>12

\* ConsoleOutput::PutChar.
LEMMA PutCharInv ==
  ASSUME IInv, NEW t \in Threads, PutChar(t)
  PROVE  IInv'
<1> USE PutChar(t) DEF IInv, PutChar, clock, disk
<1>1. "out" \in Units /\ "out" \in Who /\ Units = {"disk", "in", "out"}
  BY DEF Units, Who
<1>2. /\ pc' \in [Threads -> Locations] /\ pc'[t] = <<"wait", "out">>
      /\ pc[t] = <<"body", "out">>
      /\ \A s \in Threads : s # t => pc'[s] = pc[s]
  BY <1>1, MoveFacts, Places
<1>3. ListInv(pending, 0)
  BY DEF PendInv, Bound
<1>4. \A s \in Threads : pc[s] # <<"wait", "out">>
  BY <1>1, <1>2, Places DEF LockInv
<1>5. ~Has(pending, "out") /\ sem["out"] = 0
  BY <1>1, <1>4 DEF WaitInv, TypeOK
<1>6. ConsoleTime \in Int /\ ConsoleTime > 0 /\ 0 \in Int
  BY Constants
<1>7. /\ ListInv(pending', 0)
      /\ \A x : Has(pending', x) <=> x = "out" \/ Has(pending, x)
  BY <1>1, <1>3, <1>5, <1>6, InsertFacts
<1>8. PendInv'
  BY <1>7 DEF PendInv, Bound
<1>9. TypeOK'
  <2>1. pending' \in Seq([left : Int, who : Units \cup {"timer"}])
    BY <1>7 DEF ListInv, Item, Who
  <2> QED
    BY <1>2, <2>1 DEF TypeOK, Locations
<1>10. \A s \in Threads, v \in Units :
        /\ In(pc'[s], v) <=> In(pc[s], v)
        /\ pc'[s] = <<"wait", v>> <=> pc[s] = <<"wait", v>> \/ (s = t /\ v = "out")
        /\ pc'[s] = <<"done", v>> <=> pc[s] = <<"done", v>>
  BY <1>1, <1>2, Places
<1>11. LockInv'
  BY <1>10 DEF LockInv
<1>12. WaitInv' /\ KeyInv'
  BY <1>1, <1>5, <1>7, <1>10 DEF WaitInv, KeyInv, Taking
<1> QED
  BY <1>8, <1>9, <1>11, <1>12

\* The end of a call: GetChar's next poll, and Lock::Release.
LEMMA FinishInv ==
  ASSUME IInv, NEW t \in Threads, NEW u \in Units, Finish(t, u)
  PROVE  IInv'
<1> USE Finish(t, u) DEF IInv, Finish, disk
<1>1. "in" \in Units /\ "in" \in Who /\ Units = {"disk", "in", "out"}
  BY DEF Units, Who
<1>2. /\ pc' \in [Threads -> Locations] /\ pc'[t] = User /\ pc[t] = <<"done", u>>
      /\ \A s \in Threads : s # t => pc'[s] = pc[s]
  BY MoveFacts, Places
<1>3. ListInv(pending, 0)
  BY DEF PendInv, Bound
<1>4. u = "in" => /\ Taking /\ sem["in"] = 0 /\ ~Has(pending, "in") /\ polled # NULL
                  /\ (incoming # NULL <=> polled = "char")
  BY <1>1, <1>2 DEF KeyInv, TypeOK, Taking
<1>5. PICK list : list = GetCharList(u)
  OBVIOUS
<1>6. /\ ListInv(list, 0)
      /\ \A x : Has(list, x) <=> (x = "in" /\ u = "in" /\ incoming # NULL) \/ Has(pending, x)
  <2>1. ConsoleTime \in Int /\ ConsoleTime > 0 /\ 0 \in Int
    BY Constants
  <2>2. CASE u = "in" /\ incoming # NULL
    <3>1. list = Schedule(pending, "in", ConsoleTime) /\ ~Has(pending, "in")
      BY <1>4, <1>5, <2>2 DEF GetCharList
    <3>2. /\ ListInv(list, 0)
          /\ \A x : Has(list, x) <=> x = "in" \/ Has(pending, x)
      BY <1>1, <1>3, <2>1, <3>1, InsertFacts
    <3> QED
      BY <2>2, <3>2
  <2>3. CASE ~(u = "in" /\ incoming # NULL)
    BY <1>3, <1>5, <2>3 DEF GetCharList
  <2> QED
    BY <2>2, <2>3
<1>7. status' = "SystemMode" /\ OneTick(list, SystemTick)
  BY <1>5 DEF Enable
<1>8. /\ ListInv(pending', Bound')
      /\ \A x : Has(pending', x) <=> Has(list, x)
      /\ phase' \in 0..(Rotation - 1) /\ age' \in Int /\ settled' \in Int
      /\ inHandler' \in BOOLEAN
  BY <1>6, <1>7, TickFacts
<1>9. ~yieldOnReturn'
  BY DEF PendInv
<1>10. PendInv'
  BY <1>6, <1>8, <1>9 DEF PendInv
<1>11. lock[u] = 0 /\ lock' \in [Units -> {0, 1}] /\ lock'[u] = 1
      /\ \A v \in Units : v # u => lock'[v] = lock[v]
  <2>1. lock[u] = 0
    BY <1>2 DEF LockInv, In
  <2> QED
    BY <2>1 DEF TypeOK
<1>12. TypeOK'
  <2>1. pending' \in Seq([left : Int, who : Units \cup {"timer"}])
    BY <1>8 DEF ListInv, Item, Who
  <2> QED
    BY <1>2, <1>7, <1>8, <1>11, <2>1 DEF TypeOK, Locations
<1>13. \A s \in Threads, v \in Units :
        /\ In(pc'[s], v) <=> In(pc[s], v) /\ s # t
        /\ pc'[s] = <<"wait", v>> <=> pc[s] = <<"wait", v>>
        /\ pc'[s] = <<"done", v>> <=> pc[s] = <<"done", v>> /\ s # t
  BY <1>2, Places
<1>14. \A s \in Threads : In(pc[s], u) => s = t
  <2>1. In(pc[t], u)
    BY <1>2 DEF In
  <2> QED
    BY <2>1 DEF LockInv
<1>15. LockInv'
  <2> SUFFICES ASSUME NEW v \in Units
               PROVE  /\ lock'[v] = 0 <=> \E s \in Threads : In(pc'[s], v)
                      /\ \A r, s \in Threads : In(pc'[r], v) /\ In(pc'[s], v) => r = s
    BY DEF LockInv
  <2>1. CASE v = u
    BY <1>11, <1>13, <1>14, <2>1 DEF LockInv
  <2>2. CASE v # u
    <3>1. \A s \in Threads : In(pc'[s], v) <=> In(pc[s], v)
      <4>1. ~In(pc[t], v)
        BY <1>2, <2>2 DEF In
      <4> QED
        BY <1>13, <4>1
    <3> QED
      BY <1>11, <2>2, <3>1 DEF LockInv
  <2> QED
    BY <2>1, <2>2
<1>16. WaitInv'
  BY <1>1, <1>6, <1>8, <1>13 DEF WaitInv
<1>17. KeyInv'
  <2>1. CASE u = "in"
    <3>1. ~Taking' /\ sem'["in"] = 0 /\ incoming' = NULL
      BY <1>1, <1>4, <1>13, <1>14, <2>1, Places DEF Taking
    <3>2. Has(pending', "in") <=> polled' \notin {"0xFF", "end"}
      BY <1>4, <1>6, <1>8, <2>1, Constants DEF TypeOK
    <3> QED
      BY <3>1, <3>2 DEF KeyInv
  <2>2. CASE u # "in"
    <3>1. (Taking' <=> Taking) /\ incoming' = incoming /\ sem' = sem /\ polled' = polled
      BY <1>1, <1>2, <1>13, <2>2, Places DEF Taking
    <3> QED
      BY <1>6, <1>8, <2>2, <3>1 DEF KeyInv
  <2> QED
    BY <2>1, <2>2
<1> QED
  BY <1>10, <1>12, <1>15, <1>16, <1>17

\* Every step of the system keeps the invariant.
LEMMA NextInv ==
  ASSUME IInv, [Next]_vars
  PROVE  IInv'
<1>1. CASE Next
  <2>1. CASE Handler
    BY <2>1, TimerInterruptInv, DiskInterruptInv, NothingTypedInv, InputInterruptInv,
       OutputInterruptInv, HandlersDoneInv DEF Handler, Input
  <2>2. CASE Idle
    BY <2>2, IdleInv
  <2>3. CASE \E t \in Threads : UserStep(t)
    BY <2>3, UserStepInv
  <2>4. CASE \E t \in Threads : Inside(t)
    BY <2>4, DiskRequestInv, PutCharInv, WokenInv, FinishInv DEF Inside
  <2>5. CASE \E t \in Threads, u \in Units : Call(t, u) \/ Acquire(t, u)
    BY <2>5, CallInv, AcquireInv
  <2> QED
    BY <1>1, <2>1, <2>2, <2>3, <2>4, <2>5 DEF Next
<1>2. CASE UNCHANGED vars
  BY <1>2 DEF vars, interrupt, clock, disk, console, synch, IInv, TypeOK, PendInv, LockInv,
              WaitInv, KeyInv, Taking, Bound
<1> QED
  BY <1>1, <1>2

(***************************************************************************)
(* The inductive invariant: the pending interrupts are sorted, one of each *)
(* device, and say which device is busy; the holder of each lock, and what *)
(* every waiting thread waits for.                                         *)
(***************************************************************************)
THEOREM InvariantHolds == Spec => []IInv
<1>1. Init => IInv
  BY InitInv
<1>2. IInv /\ [Next]_vars => IInv'
  BY NextInv
<1> QED
  BY <1>1, <1>2, PTL DEF Spec

(***************************************************************************)
(* Interrupts come in the order of their times, before a thread takes      *)
(* another step and less than a system tick late, and no yield is left     *)
(* over (Interrupt::OneTick, CheckIfDue and Idle, SortedList::Insert).     *)
(***************************************************************************)
THEOREM HandlersAreOnTime == Spec => []HandlersOnTime
<1>1. IInv => HandlersOnTime
  <2> SUFFICES ASSUME IInv PROVE HandlersOnTime
    OBVIOUS
  <2>1. Sorted(pending) /\ Above(pending, Bound)
    BY DEF IInv, PendInv, ListInv
  <2>2. yieldOnReturn => inHandler /\ status # "IdleMode"
    BY DEF IInv, PendInv
  <2> QED
    BY <2>1, <2>2 DEF HandlersOnTime, Sorted, Above, Bound
<1> QED
  BY <1>1, InvariantHolds, PTL

\* How many interrupts of a device are pending.
LEMMA PendingCount ==
  ASSUME IInv, NEW w
  PROVE  /\ PendingOf(w) = {} <=> ~Has(pending, w)
         /\ Cardinality(PendingOf(w)) = IF Has(pending, w) THEN 1 ELSE 0
<1>1. Once(pending)
  BY DEF IInv, PendInv, ListInv
<1>2. CASE Has(pending, w)
  <2>1. PICK i \in 1..Len(pending) : pending[i].who = w
    BY <1>2 DEF Has
  <2>2. PendingOf(w) = {i}
    BY <1>1, <2>1 DEF PendingOf, Once
  <2> QED
    BY <1>2, <2>2, FS_Singleton
<1>3. CASE ~Has(pending, w)
  <2>1. PendingOf(w) = {}
    BY <1>3 DEF PendingOf, Has
  <2> QED
    BY <1>3, <2>1, FS_EmptySet
<1> QED
  BY <1>2, <1>3

(***************************************************************************)
(* The ASSERTs of the disk, the console and the timer hold: a busy device  *)
(* has exactly one interrupt pending, and no request finds it busy         *)
(* (Disk::ReadRequest and WriteRequest, ConsoleOutput::PutChar, the        *)
(* CallBacks).                                                             *)
(***************************************************************************)
THEOREM DeviceAssertsHold == Spec => []DeviceAsserts
<1>1. IInv => DeviceAsserts
  <2> SUFFICES ASSUME IInv PROVE DeviceAsserts
    OBVIOUS
  <2>1. \A w : Cardinality(PendingOf(w)) = IF Has(pending, w) THEN 1 ELSE 0
    BY PendingCount
  <2>2. /\ Has(pending, "disk") <=> active
        /\ Has(pending, "out") <=> putBusy
        /\ Has(pending, "timer")
        /\ Has(pending, "in") => incoming = NULL
    BY DEF IInv, PendInv, KeyInv
  <2>3. ASSUME NEW t \in Threads, NEW u \in {"disk", "out"}, pc[t] = <<"body", u>>
        PROVE  ~Has(pending, u)
    <3>1. In(pc[t], u) /\ u \in Units
      BY <2>3 DEF In, Units
    <3>2. \A s \in Threads : pc[s] # <<"wait", u>>
      <4> SUFFICES ASSUME NEW s \in Threads, pc[s] = <<"wait", u>> PROVE FALSE
        OBVIOUS
      <4>1. In(pc[s], u)
        BY DEF In
      <4>2. s = t
        BY <3>1, <4>1 DEF IInv, LockInv
      <4> QED
        BY <2>3, <4>2
    <3> QED
      BY <3>2 DEF IInv, WaitInv
  <2>4. \A t \in Threads : /\ pc[t] = <<"body", "disk">> => ~active
                           /\ pc[t] = <<"body", "out">> => ~putBusy
    BY <2>2, <2>3
  <2>5. /\ Cardinality(PendingOf("disk")) = (IF active THEN 1 ELSE 0)
        /\ Cardinality(PendingOf("out")) = (IF putBusy THEN 1 ELSE 0)
        /\ Cardinality(PendingOf("timer")) = 1
        /\ Cardinality(PendingOf("in")) <= (IF incoming = NULL THEN 1 ELSE 0)
    BY <2>1, <2>2
  <2> QED
    BY <2>4, <2>5 DEF DeviceAsserts
<1> QED
  BY <1>1, InvariantHolds, PTL

(***************************************************************************)
(* A unit serves one thread at a time, each thread gets the wakeup of its  *)
(* own request, and only the end of the input leaves a reader without one  *)
(* (SynchDisk, SynchConsoleInput and SynchConsoleOutput).                  *)
(***************************************************************************)
THEOREM EachGetsItsWakeup == Spec => []OneWakeup
<1>1. IInv => OneWakeup
  <2> SUFFICES ASSUME IInv, NEW u \in Units
               PROVE
      LET inside == {t \in Threads : pc[t][2] = u /\ pc[t][1] \in {"body", "wait", "done"}}
          waiting == {t \in inside : pc[t][1] = "wait"}
      IN  /\ Cardinality(inside) + lock[u] = 1
          /\ u # "in" => sem[u] + Cardinality(PendingOf(u)) = Cardinality(waiting)
          /\ u = "in" => (sem[u] = 1 => PendingOf("in") = {})
          /\ u = "in" /\ incoming # NULL =>
               sem[u] = 1 \/ \E t \in inside : pc[t][1] = "done"
          /\ u = "in" /\ waiting # {} /\ sem[u] = 0 =>
               (PendingOf("in") = {} <=> polled \in {"0xFF", "end"})
    BY DEF OneWakeup, IInv
  <2> DEFINE inside == {t \in Threads : pc[t][2] = u /\ pc[t][1] \in {"body", "wait", "done"}}
             waiting == {t \in inside : pc[t][1] = "wait"}
  <2>1. \A t \in Threads : /\ t \in inside <=> In(pc[t], u)
                           /\ t \in waiting <=> pc[t] = <<"wait", u>>
                           /\ t \in inside /\ pc[t][1] = "done" <=> pc[t] = <<"done", u>>
    <3> SUFFICES ASSUME NEW t \in Threads
                 PROVE  /\ t \in inside <=> In(pc[t], u)
                        /\ t \in waiting <=> pc[t] = <<"wait", u>>
                        /\ t \in inside /\ pc[t][1] = "done" <=> pc[t] = <<"done", u>>
      OBVIOUS
    <3>1. pc[t] = <<"user", NULL>>
          \/ \E l \in {"lock", "body", "wait", "done"}, v \in Units : pc[t] = <<l, v>>
      BY DEF IInv, TypeOK, User
    <3> QED
      BY <3>1 DEF In
  <2>2. inside \subseteq Threads /\ waiting \subseteq Threads
    OBVIOUS
  <2> HIDE DEF inside, waiting
  <2>3. \A s, t \in inside : s = t
    BY <2>1, <2>2 DEF IInv, LockInv
  <2>4. lock[u] \in {0, 1} /\ sem[u] \in {0, 1} /\ (lock[u] = 0 <=> inside # {})
    <3>1. lock[u] = 0 <=> \E t \in Threads : In(pc[t], u)
      BY DEF IInv, LockInv
    <3> QED
      BY <2>1, <2>2, <3>1 DEF IInv, TypeOK
  <2>5. Cardinality(inside) = IF inside = {} THEN 0 ELSE 1
    <3>1. CASE inside = {}
      BY <3>1, FS_EmptySet
    <3>2. CASE inside # {}
      <4>1. PICK t : inside = {t}
        BY <2>3, <3>2
      <4> QED
        BY <3>2, <4>1, FS_Singleton
    <3> QED
      BY <3>1, <3>2
  <2>6. \A s, t \in waiting : s = t
    <3>1. waiting \subseteq inside
      BY DEF waiting
    <3> QED
      BY <2>3, <3>1
  <2>7. Cardinality(waiting) = IF waiting = {} THEN 0 ELSE 1
    <3>1. CASE waiting = {}
      BY <3>1, FS_EmptySet
    <3>2. CASE waiting # {}
      <4>1. PICK t : waiting = {t}
        BY <2>6, <3>2
      <4> QED
        BY <3>2, <4>1, FS_Singleton
    <3> QED
      BY <3>1, <3>2
  <2>8. /\ PendingOf(u) = {} <=> ~Has(pending, u)
        /\ Cardinality(PendingOf(u)) = IF Has(pending, u) THEN 1 ELSE 0
    BY PendingCount
  <2>9. Cardinality(inside) + lock[u] = 1
    BY <2>4, <2>5
  <2>10. u # "in" => sem[u] + Cardinality(PendingOf(u)) = Cardinality(waiting)
    <3> SUFFICES ASSUME u # "in"
                 PROVE  sem[u] + Cardinality(PendingOf(u)) = Cardinality(waiting)
      OBVIOUS
    <3>1. u \in {"disk", "out"}
      BY DEF Units
    <3>2. /\ sem[u] = 1 => ~Has(pending, u)
          /\ sem[u] = 1 \/ Has(pending, u) <=> waiting # {}
      BY <2>1, <2>2, <3>1 DEF IInv, WaitInv
    <3> QED
      BY <2>4, <2>7, <2>8, <3>2
  <2>11. u = "in" => /\ sem[u] = 1 => PendingOf("in") = {}
                     /\ incoming # NULL => sem[u] = 1 \/ \E t \in inside : pc[t][1] = "done"
    BY <2>1, <2>8 DEF IInv, KeyInv, Taking
  <2>12. u = "in" /\ waiting # {} /\ sem[u] = 0 =>
           (PendingOf("in") = {} <=> polled \in {"0xFF", "end"})
    <3> SUFFICES ASSUME u = "in", waiting # {}, sem[u] = 0
                 PROVE  PendingOf("in") = {} <=> polled \in {"0xFF", "end"}
      OBVIOUS
    <3>1. ~Taking
      <4> SUFFICES ASSUME NEW t \in Threads, pc[t] = <<"done", "in">> PROVE FALSE
        BY DEF Taking
      <4>1. PICK s \in waiting : s \in Threads /\ s \in inside
        BY <2>2 DEF waiting
      <4>2. t \in inside
        BY <2>1 DEF In
      <4>3. s = t
        BY <2>3, <4>1, <4>2
      <4> QED
        BY <2>1, <4>1, <4>3
    <3> QED
      BY <2>8, <3>1 DEF IInv, KeyInv
  <2> QED
    BY <2>9, <2>10, <2>11, <2>12 DEF inside, waiting
<1> QED
  BY <1>1, InvariantHolds, PTL

-----------------------------------------------------------------------------
(* The disk's times.                                                       *)

\* Whole turns do not change a remainder.
LEMMA Shift ==
  ASSUME NEW a \in Int, NEW n \in Nat \ {0}, NEW q \in Int
  PROVE  (a + n * q) % n = a % n /\ (a + n * q) \div n = (a \div n) + q
<1> DEFINE d == a \div n
           r == a % n
<1>1. r \in 0..(n - 1) /\ d \in Int /\ a = n * d + r
  BY Division
<1> HIDE DEF d, r
<1>2. a + n * q = n * (d + q) + r
  BY <1>1
<1>3. (a + n * q) % n = r /\ (a + n * q) \div n = d + q
  <2>1. a + n * q \in Int /\ d + q \in Int
    BY <1>1
  <2> QED
    BY <1>1, <1>2, <2>1, DivisionUnique
<1> QED
  BY <1>3 DEF d, r

\* The same number may be added to both sides of a congruence.
LEMMA Congruent ==
  ASSUME NEW a \in Int, NEW b \in Int, NEW c \in Int, NEW n \in Nat \ {0}, a % n = b % n
  PROVE  (a + c) % n = (b + c) % n
<1> DEFINE q == (a \div n) - (b \div n)
<1>1. a \div n \in Int /\ b \div n \in Int /\ a = n * (a \div n) + (a % n)
      /\ b = n * (b \div n) + (b % n) /\ b % n \in Int
  BY Division
<1>2. q \in Int /\ a = b + n * q
  BY <1>1
<1> HIDE DEF q
<1>3. a + c = (b + c) + n * q /\ b + c \in Int
  BY <1>2
<1>4. ((b + c) + n * q) % n = (b + c) % n
  BY <1>2, <1>3, Shift
<1> QED
  BY <1>3, <1>4

\* ModuloDiff sectors after one sector of a track comes the other.
LEMMA ModuloDiffMeaning ==
  ASSUME NEW to \in Int, NEW from \in Int
  PROVE  (from + ModuloDiff(to, from)) % SectorsPerTrack = to % SectorsPerTrack
<1> DEFINE n == SectorsPerTrack
           a == to % n
           b == from % n
           m == (a - b + n) % n
<1>1. n \in Nat \ {0} /\ a \in 0..(n - 1) /\ b \in 0..(n - 1)
  BY Constants, Division
<1> HIDE DEF n, a, b
<1>2. a - b + n \in Int /\ m \in Int /\ 0 \in Int /\ a \in Int /\ b \in Int
  <2>1. a - b + n \in Int /\ a \in Int /\ b \in Int
    BY <1>1
  <2> QED
    BY <1>1, <2>1, Division
<1> HIDE DEF m
<1>3. m % n = (a - b + n) % n
  <2>1. m \in 0..(n - 1) /\ m = n * 0 + m
    BY <1>1, <1>2, Division DEF m
  <2> QED
    BY <1>1, <1>2, <2>1, DivisionUnique DEF m
<1>4. b % n = from % n
  <2>1. b = n * 0 + b
    BY <1>1
  <2> QED
    BY <1>1, <1>2, <2>1, DivisionUnique DEF b, n
<1>5. (from + m) % n = (b + m) % n
  <2>1. n \in Nat \ {0} /\ b \in Int /\ m \in Int /\ from \in Int /\ from % n = b % n
    BY <1>1, <1>2, <1>4
  <2> QED
    BY <2>1, Congruent, ZenonT(60)
<1>6. (m + b) % n = ((a - b + n) + b) % n
  <2>1. n \in Nat \ {0} /\ b \in Int /\ m \in Int /\ a - b + n \in Int
    BY <1>1, <1>2
  <2> QED
    BY <1>3, <2>1, Congruent, ZenonT(60)
<1>7. (b + m) % n = (a + n * 1) % n
  <2>1. m + b = b + m /\ (a - b + n) + b = a + n * 1
    BY <1>1, <1>2
  <2> QED
    BY <1>6, <2>1
<1>8. (a + n * 1) % n = a % n
  <2>1. 1 \in Int
    OBVIOUS
  <2> QED
    BY <1>1, <1>2, <2>1, Shift
<1>9. a % n = a
  <2>1. a = n * 0 + a
    BY <1>1
  <2> QED
    BY <1>1, <1>2, <2>1, DivisionUnique
<1>10. (from + m) % n = a
  BY <1>5, <1>7, <1>8, <1>9
<1> QED
  BY <1>10 DEF m, a, b, n, ModuloDiff

\* ModuloDiff depends on the place in the track only.
LEMMA SamePlace ==
  ASSUME NEW to \in Int, NEW from \in Int, NEW other \in Int,
         from % SectorsPerTrack = other % SectorsPerTrack
  PROVE  (other + ModuloDiff(to, from)) % SectorsPerTrack = to % SectorsPerTrack
<1>1. PICK m \in Int : m = ModuloDiff(to, from)
  <2>1. ModuloDiff(to, from) \in 0..(SectorsPerTrack - 1)
    BY ModuloDiffFacts
  <2>2. \A x \in 0..(SectorsPerTrack - 1) : x \in Int
    OBVIOUS
  <2> QED
    BY <2>1, <2>2, Zenon
<1>2. m \in Int /\ SectorsPerTrack \in Nat \ {0}
  BY <1>1, Constants
<1>3. (from + m) % SectorsPerTrack = (other + m) % SectorsPerTrack
  BY <1>2, Congruent, ZenonT(60)
<1>4. (from + m) % SectorsPerTrack = to % SectorsPerTrack
  BY <1>1, ModuloDiffMeaning
<1> QED
  BY <1>1, <1>3, <1>4

Requests == [sector : Sectors, buffered : BOOLEAN, seek : Nat]

\* What DiskOnTime says of a request whose interrupt comes in l, when the disk
\* is at ph in its rotation and the head has been over its track for st.
OnTime(ph, st, r, l) ==
  /\ l < r.seek + Rotation + RotationTime
  /\ ~r.buffered =>
       /\ (ph + l) % RotationTime = 0
       /\ ((ph + l) \div RotationTime) % SectorsPerTrack = (r.sector + 1) % SectorsPerTrack
  /\ r.buffered =>
       \E k \in 1..SectorsPerTrack :
         /\ (((ph - st + 2 * Rotation) \div RotationTime) + k - 1) % SectorsPerTrack
              = r.sector % SectorsPerTrack
         /\ k * RotationTime < st + RotationTime

\* A turn of the disk is SectorsPerTrack sectors.
LEMMA Turns ==
  ASSUME NEW x \in Int, NEW q \in Int
  PROVE  /\ (x + Rotation * q) % RotationTime = x % RotationTime
         /\ ((x + Rotation * q) \div RotationTime) % SectorsPerTrack
              = (x \div RotationTime) % SectorsPerTrack
         /\ (x + Rotation * q) \div RotationTime
              = (x \div RotationTime) + SectorsPerTrack * q
<1>1. SectorsPerTrack * q \in Int /\ Rotation * q = RotationTime * (SectorsPerTrack * q)
  BY Constants DEF Rotation
<1>2. /\ (x + RotationTime * (SectorsPerTrack * q)) % RotationTime = x % RotationTime
      /\ (x + RotationTime * (SectorsPerTrack * q)) \div RotationTime
           = (x \div RotationTime) + SectorsPerTrack * q
  BY <1>1, Constants, Shift
<1>3. x \div RotationTime \in Int
  BY Constants, Division
<1>4. ((x \div RotationTime) + SectorsPerTrack * q) % SectorsPerTrack
        = (x \div RotationTime) % SectorsPerTrack
  BY <1>3, Constants, Shift
<1> QED
  BY <1>1, <1>2, <1>4

\* The clock's advance keeps a request on time.
LEMMA OnTimeAdvance ==
  ASSUME NEW ph \in Int, NEW st \in Int, NEW r \in Requests, NEW l \in Int, NEW d \in Nat,
         OnTime(ph, st, r, l)
  PROVE  OnTime((ph + d) % Rotation, MinOf(st + d, Rotation), r, l - d)
<1>1. r.seek \in Int /\ r.sector \in Int /\ Rotation \in Nat \ {0} /\ RotationTime \in Nat \ {0}
      /\ SectorsPerTrack \in Nat \ {0} /\ Rotation = RotationTime * SectorsPerTrack
  BY Constants DEF Requests, Sectors, Rotation
<1>2. PICK q \in Int, p \in Int : p = (ph + d) % Rotation /\ p = (ph + d) + Rotation * q
  <2> DEFINE q == -((ph + d) \div Rotation)
  <2>1. /\ (ph + d) \div Rotation \in Int /\ (ph + d) % Rotation \in Int
        /\ ph + d = Rotation * ((ph + d) \div Rotation) + ((ph + d) % Rotation)
    <3>1. ph + d \in Int
      OBVIOUS
    <3>2. (ph + d) % Rotation \in 0..(Rotation - 1)
      BY <1>1, <3>1, Division, Zenon
    <3>3. /\ (ph + d) \div Rotation \in Int
          /\ ph + d = Rotation * ((ph + d) \div Rotation) + ((ph + d) % Rotation)
      BY <1>1, <3>1, Division, Zenon
    <3> QED
      BY <1>1, <3>2, <3>3
  <2>2. q \in Int /\ (ph + d) % Rotation = (ph + d) + Rotation * q
    BY <1>1, <2>1
  <2> QED
    BY <2>1, <2>2
<1>3. PICK s \in Int : s = MinOf(st + d, Rotation)
  BY <1>1 DEF MinOf
<1>4. s <= Rotation /\ (s = st + d \/ s = Rotation) /\ s <= st + d
  BY <1>1, <1>3 DEF MinOf
<1>5. l - d < r.seek + Rotation + RotationTime
  BY <1>1 DEF OnTime
<1>6. ASSUME ~r.buffered
      PROVE  /\ (p + (l - d)) % RotationTime = 0
             /\ ((p + (l - d)) \div RotationTime) % SectorsPerTrack
                  = (r.sector + 1) % SectorsPerTrack
  <2>1. p + (l - d) = (ph + l) + Rotation * q /\ ph + l \in Int
    <3>1. Rotation * q \in Int
      BY <1>1
    <3> QED
      BY <1>2, <3>1
  <2>2. /\ ((ph + l) + Rotation * q) % RotationTime = (ph + l) % RotationTime
        /\ (((ph + l) + Rotation * q) \div RotationTime) % SectorsPerTrack
             = ((ph + l) \div RotationTime) % SectorsPerTrack
    BY <2>1, Turns
  <2> QED
    BY <1>6, <2>1, <2>2 DEF OnTime
<1>7. ASSUME r.buffered
      PROVE  \E k \in 1..SectorsPerTrack :
               /\ (((p - s + 2 * Rotation) \div RotationTime) + k - 1) % SectorsPerTrack
                    = r.sector % SectorsPerTrack
               /\ k * RotationTime < s + RotationTime
  <2>1. CASE s = st + d
    <3>1. PICK k \in 1..SectorsPerTrack :
            /\ (((ph - st + 2 * Rotation) \div RotationTime) + k - 1) % SectorsPerTrack
                 = r.sector % SectorsPerTrack
            /\ k * RotationTime < st + RotationTime
      BY <1>7 DEF OnTime
    <3> DEFINE x == ph - st + 2 * Rotation
    <3>2. x \in Int /\ p - s + 2 * Rotation = x + Rotation * q
      BY <1>1, <1>2, <2>1
    <3> HIDE DEF x
    <3>3. PICK y \in Int : y = x \div RotationTime
      BY <1>1, <3>2, Division
    <3>4. (x + Rotation * q) \div RotationTime = y + SectorsPerTrack * q
      BY <3>2, <3>3, Turns
    <3>5. (y + SectorsPerTrack * q) + k - 1 = (y + k - 1) + SectorsPerTrack * q
          /\ y + k - 1 \in Int
      BY <1>1, <3>3
    <3>6. ((y + k - 1) + SectorsPerTrack * q) % SectorsPerTrack = (y + k - 1) % SectorsPerTrack
      BY <1>1, <3>5, Shift, ZenonT(60)
    <3>7. (y + k - 1) % SectorsPerTrack = r.sector % SectorsPerTrack
      BY <3>1, <3>3 DEF x
    <3>8. k * RotationTime < s + RotationTime
      <4>1. k * RotationTime \in Int
        BY <1>1
      <4> QED
        BY <1>1, <2>1, <3>1, <4>1
    <3> QED
      BY <3>2, <3>4, <3>5, <3>6, <3>7, <3>8
  <2>2. CASE s = Rotation
    <3> DEFINE x == (p - s + 2 * Rotation) \div RotationTime
    <3>1. x \in Int
      <4>1. p - s + 2 * Rotation \in Int
        BY <1>1
      <4> QED
        BY <1>1, <4>1, Division
    <3> HIDE DEF x
    <3>2. PICK m \in 0..(SectorsPerTrack - 1) :
            (x + m) % SectorsPerTrack = r.sector % SectorsPerTrack
      BY <1>1, <3>1, ModuloDiffFacts, ModuloDiffMeaning
    <3>3. m + 1 \in 1..SectorsPerTrack /\ x + (m + 1) - 1 = x + m
      BY <1>1, <3>1
    <3>4. (m + 1) * RotationTime <= Rotation
      <4>1. (SectorsPerTrack - (m + 1)) * RotationTime \in Nat
        BY <1>1, <3>3, Products
      <4> QED
        BY <1>1, <4>1
    <3>5. (m + 1) * RotationTime < s + RotationTime
      <4>1. (m + 1) * RotationTime \in Int
        BY <1>1
      <4> QED
        BY <1>1, <2>2, <3>4, <4>1
    <3> QED
      BY <3>2, <3>3, <3>5 DEF x
  <2> QED
    BY <1>4, <2>1, <2>2
<1> QED
  BY <1>2, <1>3, <1>5, <1>6, <1>7 DEF OnTime

\* The interrupt of a request is on time when the request is made.
LEMMA OnTimeRequest ==
  ASSUME TypeOK, age = settled, NEW n \in Sectors, NEW w \in BOOLEAN, NEW st \in Int,
         InTrackBuffer(n, w) => st = settled
  PROVE  OnTime(phase, st, [sector |-> n, buffered |-> InTrackBuffer(n, w), seek |-> Seek(n)],
                ComputeLatency(n, w))
<1>1. /\ n \in Int /\ phase \in Int /\ age \in Int /\ Seek(n) \in Nat
      /\ RotationAfter(n) \in 0..(RotationTime - 1)
      /\ RotationTime \in Nat \ {0} /\ SectorsPerTrack \in Nat \ {0} /\ Rotation \in Nat \ {0}
      /\ Rotation = RotationTime * SectorsPerTrack
  BY SeekFacts, Constants DEF TypeOK, Sectors, Rotation
<1>2. CASE InTrackBuffer(n, w)
  <2> DEFINE x == phase - age + 2 * Rotation
             b == BufferPhase \div RotationTime
             m == ModuloDiff(n, b)
  <2>1. x \in Int
    BY <1>1
  <2>2. PICK q \in Int, y \in Int : y = BufferPhase /\ y = x + Rotation * q
    <3> HIDE DEF x
    <3> DEFINE q == -(x \div Rotation)
    <3>1. x \div Rotation \in Int /\ x = Rotation * (x \div Rotation) + (x % Rotation)
      BY <1>1, <2>1, Division, Zenon
    <3>2. x % Rotation \in 0..(Rotation - 1)
      BY <1>1, <2>1, Division, Zenon
    <3>3. q \in Int /\ x % Rotation = x + Rotation * q /\ x % Rotation \in Int
      <4>1. Rotation \in Int
        BY <1>1
      <4>2. PICK c \in Int : c = x \div Rotation
        BY <3>1
      <4>3. Rotation * (-c) = -(Rotation * c) /\ Rotation * c \in Int
        BY <4>1
      <4> QED
        BY <2>1, <3>1, <3>2, <4>2, <4>3
    <3> QED
      BY <3>3 DEF BufferPhase, x
  <2>3. b \in Int /\ b % SectorsPerTrack = (x \div RotationTime) % SectorsPerTrack
    <3> HIDE DEF x
    <3>1. /\ b = (x + Rotation * q) \div RotationTime
          /\ y \div RotationTime \in Int
      BY <1>1, <2>2, Division
    <3> QED
      BY <2>1, <2>2, <3>1, Turns
  <2>4. (RotationAfter(n) + age) \div RotationTime > m
    BY <1>2 DEF InTrackBuffer
  <2> HIDE DEF b
  <2>5. m \in 0..(SectorsPerTrack - 1)
    BY <1>1, <2>3, ModuloDiffFacts
  <2>6. PICK z \in Int : z = x \div RotationTime
    BY <1>1, <2>1, Division
  <2> HIDE DEF x
  <2>7. (z + m) % SectorsPerTrack = n % SectorsPerTrack
    BY <1>1, <2>3, <2>6, SamePlace
  <2> HIDE DEF m
  <2>8. m * RotationTime < age
    <3>1. PICK a \in Int : a = RotationAfter(n) + age
      BY <1>1
    <3>2. PICK c \in Int : c = a \div RotationTime /\ a >= RotationTime * c
      <4>1. /\ a % RotationTime \in 0..(RotationTime - 1) /\ a \div RotationTime \in Int
            /\ a = RotationTime * (a \div RotationTime) + (a % RotationTime)
        BY <1>1, Division, Zenon
      <4>2. PICK c \in Int : c = a \div RotationTime
        BY <4>1
      <4>3. RotationTime * c \in Int
        BY <1>1
      <4> QED
        BY <1>1, <4>1, <4>2, <4>3
    <3>3. c >= m + 1
      BY <2>4, <2>5, <3>1, <3>2
    <3>4. (c - (m + 1)) * RotationTime \in Nat
      BY <1>1, <2>5, <3>2, <3>3, Products
    <3>5. RotationTime * c >= m * RotationTime + RotationTime
      BY <1>1, <2>5, <3>2, <3>4
    <3>6. m * RotationTime \in Int /\ RotationTime * c \in Int
      BY <1>1, <2>5, <3>2
    <3> QED
      BY <1>1, <3>1, <3>2, <3>5, <3>6
  <2>9. m + 1 \in 1..SectorsPerTrack /\ z + (m + 1) - 1 = z + m
        /\ (m + 1) * RotationTime < age + RotationTime
    <3>1. (m + 1) * RotationTime = m * RotationTime + RotationTime
          /\ m * RotationTime \in Int
      BY <1>1, <2>5
    <3> QED
      BY <1>1, <2>5, <2>8, <3>1
  <2>10. st = age
    BY <1>2
  <2>11. \E k \in 1..SectorsPerTrack :
           /\ (((phase - st + 2 * Rotation) \div RotationTime) + k - 1) % SectorsPerTrack
                = n % SectorsPerTrack
           /\ k * RotationTime < st + RotationTime
    BY <2>6, <2>7, <2>9, <2>10 DEF x
  <2>12. ComputeLatency(n, w) = RotationTime
    BY <1>2 DEF ComputeLatency
  <2> QED
    BY <1>1, <1>2, <2>11, <2>12 DEF OnTime
<1>3. CASE ~InTrackBuffer(n, w)
  <2> DEFINE y == phase + Seek(n) + RotationAfter(n)
             e == y \div RotationTime
             m == ModuloDiff(n, e)
  <2>1. y \in Int /\ y = RotationTime * e /\ e \in Int
    <3>1. PICK a \in Int : a = phase + Seek(n)
      BY <1>1
    <3>2. PICK q \in Int, o \in 0..(RotationTime - 1) :
            o = a % RotationTime /\ a = RotationTime * q + o
      <4>1. /\ a % RotationTime \in 0..(RotationTime - 1) /\ a \div RotationTime \in Int
            /\ a = RotationTime * (a \div RotationTime) + (a % RotationTime)
        BY <1>1, Division, Zenon
      <4> QED
        BY <4>1
    <3>3. RotationAfter(n) = IF o > 0 THEN RotationTime - o ELSE 0
      BY <3>1, <3>2 DEF RotationAfter
    <3>4. PICK f \in Int : y = RotationTime * f + 0
      <4>1. CASE o > 0
        <5>1. y = RotationTime * (q + 1) + 0
          BY <1>1, <3>1, <3>2, <3>3, <4>1
        <5> QED
          BY <5>1
      <4>2. CASE o = 0
        <5>1. y = RotationTime * q + 0
          BY <1>1, <3>1, <3>2, <3>3, <4>2
        <5> QED
          BY <5>1
      <4> QED
        BY <1>1, <3>2, <4>1, <4>2
    <3>5. y \in Int /\ 0 \in 0..(RotationTime - 1)
      BY <1>1
    <3> HIDE DEF y
    <3>6. y \div RotationTime = f
      BY <1>1, <3>4, <3>5, DivisionUnique
    <3> QED
      BY <1>1, <3>4, <3>5, <3>6
  <2> HIDE DEF e
  <2>2. m \in 0..(SectorsPerTrack - 1) /\ (e + m) % SectorsPerTrack = n % SectorsPerTrack
    BY <1>1, <2>1, ModuloDiffFacts, ModuloDiffMeaning
  <2> HIDE DEF m
  <2>3. ComputeLatency(n, w) = Seek(n) + RotationAfter(n) + RotationTime + m * RotationTime
    BY <1>3 DEF ComputeLatency, m, e
  <2>4. ComputeLatency(n, w) < Seek(n) + Rotation + RotationTime
    <3>1. ((SectorsPerTrack - 1) - m) * RotationTime \in Nat
      BY <1>1, <2>2, Products
    <3>2. m * RotationTime \in Int /\ m * RotationTime <= Rotation - RotationTime
      BY <1>1, <2>2, <3>1
    <3> QED
      BY <1>1, <2>3, <3>2
  <2>5. PICK end \in Int : end = phase + ComputeLatency(n, w) /\ end = RotationTime * (e + m + 1) + 0
    <3>1. m * RotationTime \in Int /\ RotationTime * (e + m + 1)
            = RotationTime * e + m * RotationTime + RotationTime
      BY <1>1, <2>1, <2>2
    <3>2. phase + ComputeLatency(n, w) = RotationTime * (e + m + 1) + 0
      BY <1>1, <2>1, <2>3, <3>1
    <3>3. phase + ComputeLatency(n, w) \in Int
      BY <1>1, <2>3, <3>1
    <3> QED
      BY <3>2, <3>3
  <2>6. end % RotationTime = 0 /\ end \div RotationTime = e + m + 1
    <3>1. e + m + 1 \in Int /\ 0 \in 0..(RotationTime - 1)
      BY <1>1, <2>1, <2>2
    <3> QED
      BY <1>1, <2>5, <3>1, DivisionUnique
  <2>7. (e + m + 1) % SectorsPerTrack = (n + 1) % SectorsPerTrack
    <3>1. e + m \in Int /\ n \in Int /\ 1 \in Int /\ SectorsPerTrack \in Nat \ {0}
      BY <1>1, <2>1, <2>2
    <3> QED
      BY <2>2, <3>1, Congruent, ZenonT(60)
  <2>8. /\ (phase + ComputeLatency(n, w)) % RotationTime = 0
        /\ ((phase + ComputeLatency(n, w)) \div RotationTime) % SectorsPerTrack
             = (n + 1) % SectorsPerTrack
    BY <2>5, <2>6, <2>7
  <2> QED
    BY <1>3, <2>4, <2>8 DEF OnTime
<1> QED
  BY <1>2, <1>3

\* An interrupt of the device comes in l.
At(list, w, l) == \E i \in 1..Len(list) : list[i].who = w /\ list[i].left = l

\* The track buffer's clock is the head's, and the disk's interrupt is on time.
DiskInv ==
  /\ age = settled
  /\ active => request \in Requests
  /\ \A l \in Int : At(pending, "disk", l) => OnTime(phase, settled, request, l)

\* SortedList::Insert adds one interrupt and changes none.
LEMMA InsertAt ==
  ASSUME NEW list \in Seq(Item), NEW w \in Who, NEW d \in Int, NEW x, NEW l,
         At(Schedule(list, w, d), x, l)
  PROVE  (x = w /\ l = d) \/ At(list, x, l)
<1> DEFINE item == [left |-> d, who |-> w]
           k == InsertPlace(list, item)
           new == Schedule(list, w, d)
<1>1. item \in Item
  BY DEF Item
<1>2. k \in 1..(Len(list) + 1) /\ Len(list) \in Nat
  BY <1>1, InsertPlaceFacts
<1>3. new = [i \in 1..(Len(list) + 1) |->
               IF i < k THEN list[i] ELSE IF i = k THEN item ELSE list[i - 1]]
  BY DEF Schedule, Insert
<1> HIDE DEF k
<1>4. Len(new) = Len(list) + 1
  <2>1. \A i \in 1..(Len(list) + 1) : new[i] \in Item
    BY <1>1, <1>2, <1>3
  <2>2. new \in Seq(Item)
    BY <1>2, <1>3, <2>1
  <2> QED
    BY <1>2, <1>3, <2>2
<1>5. PICK i \in 1..(Len(list) + 1) : new[i].who = x /\ new[i].left = l
  BY <1>4 DEF At
<1>6. \/ new[i] = item
      \/ \E j \in 1..Len(list) : new[i] = list[j]
  <2>1. CASE i < k
    BY <1>2, <1>3, <2>1
  <2>2. CASE i = k
    BY <1>2, <1>3, <2>2
  <2>3. CASE i > k
    <3>1. i - 1 \in 1..Len(list) /\ new[i] = list[i - 1]
      BY <1>2, <1>3, <2>3
    <3> QED
      BY <3>1
  <2> QED
    BY <1>2, <2>1, <2>2, <2>3
<1> QED
  BY <1>5, <1>6 DEF At

\* Taking the first interrupt off the list changes no other.
LEMMA TailAt ==
  ASSUME NEW list \in Seq(Item), list # <<>>, NEW x, NEW l, At(Tail(list), x, l)
  PROVE  At(list, x, l)
<1>1. PICK i \in 1..Len(Tail(list)) : Tail(list)[i].who = x /\ Tail(list)[i].left = l
  BY DEF At
<1>2. i + 1 \in 1..Len(list) /\ Tail(list)[i] = list[i + 1]
  BY <1>1
<1> QED
  BY <1>1, <1>2 DEF At

\* The clock's advance, with the same interrupt of the disk in the list.
LEMMA AdvanceDisk ==
  ASSUME IInv, DiskInv, NEW list, ListInv(list, 0), NEW d \in Nat,
         Advance(list, d), UNCHANGED <<active, request>>,
         \A l \in Int : At(list, "disk", l) => At(pending, "disk", l)
  PROVE  DiskInv'
<1>1. /\ pending' = [i \in 1..Len(list) |-> [list[i] EXCEPT !.left = @ - d]]
      /\ phase' = (phase + d) % Rotation
      /\ age' = MinOf(age + d, Rotation) /\ settled' = MinOf(settled + d, Rotation)
  BY DEF Advance
<1>2. age' = settled' /\ (active' => request' \in Requests)
  BY <1>1 DEF DiskInv
<1>3. ASSUME NEW l \in Int, At(pending', "disk", l)
      PROVE  OnTime(phase', settled', request', l)
  <2>1. /\ Len(pending') = Len(list)
        /\ \A i \in 1..Len(list) : /\ pending'[i].left = list[i].left - d
                                   /\ pending'[i].who = list[i].who
    <3>1. d \in Int /\ 0 \in Int /\ pending' = [i \in 1..Len(list) |-> [list[i] EXCEPT !.left = @ - d]]
      BY <1>1
    <3>2. Advanced(list, pending', d)
      BY <3>1, AdvanceFacts
    <3> QED
      BY <3>2 DEF Advanced
  <2>2. PICK i \in 1..Len(list) : list[i].who = "disk" /\ list[i].left - d = l
    BY <1>3, <2>1 DEF At
  <2>3. PICK m \in Int : m = list[i].left
    <3>1. list[i] \in Item
      BY DEF ListInv
    <3> QED
      BY <3>1 DEF Item
  <2>4. At(pending, "disk", m) /\ l = m - d
    BY <2>2, <2>3 DEF At
  <2>5. OnTime(phase, settled, request, m) /\ request \in Requests
    <3>1. Has(pending, "disk")
      BY <2>4 DEF Has, At
    <3> QED
      BY <2>4, <3>1 DEF DiskInv, IInv, PendInv
  <2>6. phase \in Int /\ settled \in Int
    BY Constants DEF IInv, TypeOK
  <2>7. OnTime((phase + d) % Rotation, MinOf(settled + d, Rotation), request, m - d)
    BY <2>5, <2>6, OnTimeAdvance
  <2> QED
    BY <1>1, <2>4, <2>7
<1> QED
  BY <1>2, <1>3 DEF DiskInv

\* A step that does not touch the disk nor the clock.
LEMMA OtherDisk ==
  ASSUME DiskInv, UNCHANGED <<clock, active, request>>,
         \A l \in Int : At(pending', "disk", l) => At(pending, "disk", l)
  PROVE  DiskInv'
BY DEF DiskInv, clock

\* Every step keeps the disk on time.
LEMMA DiskNext ==
  ASSUME IInv, DiskInv, [Next]_vars
  PROVE  DiskInv'
<1>1. /\ pending \in Seq(Item) /\ {"disk", "in", "out", "timer"} \subseteq Who
      /\ ConsoleTime \in Int /\ Delays \subseteq Int
      /\ UserTick \in Nat /\ SystemTick \in Nat /\ 0 \in Int
  BY Constants DEF IInv, PendInv, ListInv, Who, Units
<1>2. CASE TimerInterrupt
  <2>1. PICK delay \in Delays : pending' = Schedule(Tail(pending), "timer", delay)
    BY <1>2 DEF TimerInterrupt
  <2>2. pending # <<>> /\ Tail(pending) \in Seq(Item) /\ delay \in Int
    BY <1>1, <1>2 DEF TimerInterrupt, Fire, Due
  <2>3. \A l \in Int : At(pending', "disk", l) => At(pending, "disk", l)
    BY <1>1, <2>1, <2>2, InsertAt, TailAt, ZenonT(60)
  <2> QED
    BY <1>2, <2>3, OtherDisk DEF TimerInterrupt, disk
<1>3. CASE DiskInterrupt
  <2>1. ~Has(pending', "disk")
    BY <1>1, <1>3, FireFacts DEF DiskInterrupt
  <2>2. \A l \in Int : ~At(pending', "disk", l)
    BY <2>1 DEF Has, At
  <2> QED
    BY <1>3, <2>2 DEF DiskInv, DiskInterrupt, clock
<1>4. CASE NothingTyped
  <2>1. pending # <<>> /\ Tail(pending) \in Seq(Item)
    BY <1>1, <1>4 DEF NothingTyped, Fire, Due
  <2>2. \A l \in Int : At(pending', "disk", l) => At(pending, "disk", l)
    BY <1>1, <1>4, <2>1, InsertAt, TailAt DEF NothingTyped
  <2> QED
    BY <1>4, <2>2, OtherDisk DEF NothingTyped, disk
<1>5. CASE Input \/ OutputInterrupt
  <2>1. pending # <<>> /\ pending' = Tail(pending) /\ UNCHANGED <<clock, active, request>>
    BY <1>1, <1>5 DEF Input, InputInterrupt, OutputInterrupt, Fire, Due, disk
  <2>2. \A l \in Int : At(pending', "disk", l) => At(pending, "disk", l)
    BY <1>1, <2>1, TailAt
  <2> QED
    BY <2>1, <2>2, OtherDisk
<1>6. CASE HandlersDone
  BY <1>6, OtherDisk DEF HandlersDone, disk
<1>7. CASE Idle
  <2>1. ListInv(pending, 0) /\ pending # <<>>
    BY <1>7 DEF IInv, PendInv, Bound, Idle
  <2>2. PICK d \in Nat : d = Head(pending).left
    <3>1. 1 \in 1..Len(pending) /\ Head(pending) = pending[1] /\ pending[1] \in Item
      BY <1>1, <2>1
    <3>2. pending[1].left \in Int /\ pending[1].left > 0
      BY <2>1, <3>1 DEF Item, ListInv, Above
    <3> QED
      BY <3>1, <3>2
  <2>3. Advance(pending, d) /\ UNCHANGED <<active, request>>
    BY <1>7, <2>2 DEF Idle, disk
  <2> QED
    BY <1>1, <2>1, <2>3, AdvanceDisk
<1>8. ASSUME NEW t \in Threads, UserStep(t) PROVE DiskInv'
  <2>1. ListInv(pending, 0) /\ Advance(pending, UserTick) /\ UNCHANGED <<active, request>>
    BY <1>8 DEF IInv, PendInv, Bound, UserStep, OneTick, disk
  <2> QED
    BY <1>1, <2>1, AdvanceDisk
<1>9. ASSUME NEW t \in Threads, NEW u \in Units, Call(t, u) PROVE DiskInv'
  BY <1>9, OtherDisk DEF Call, disk
<1>10. ASSUME NEW t \in Threads, NEW u \in Units, Acquire(t, u) \/ Woken(t, u) PROVE DiskInv'
  <2>1. ListInv(pending, 0) /\ Advance(pending, SystemTick) /\ UNCHANGED <<active, request>>
    BY <1>10 DEF IInv, PendInv, Bound, Acquire, Woken, Enable, OneTick, disk
  <2> QED
    BY <1>1, <2>1, AdvanceDisk
<1>11. ASSUME NEW t \in Threads, PutChar(t) PROVE DiskInv'
  <2>1. \A l \in Int : At(pending', "disk", l) => At(pending, "disk", l)
    BY <1>1, <1>11, InsertAt DEF PutChar
  <2> QED
    BY <1>11, <2>1, OtherDisk DEF PutChar, disk
<1>12. ASSUME NEW t \in Threads, NEW u \in Units, Finish(t, u) PROVE DiskInv'
  <2>1. PICK list : list = GetCharList(u)
    OBVIOUS
  <2>2. Advance(list, SystemTick) /\ UNCHANGED <<active, request>> /\ pc[t] = <<"done", u>>
        /\ ListInv(pending, 0)
    BY <1>12, <2>1 DEF Finish, Enable, OneTick, disk, IInv, PendInv, Bound
  <2>3. ListInv(list, 0) /\ \A l \in Int : At(list, "disk", l) => At(pending, "disk", l)
    <3>1. CASE u = "in" /\ incoming # NULL
      <4>1. list = Schedule(pending, "in", ConsoleTime)
        BY <2>1, <3>1 DEF GetCharList
      <4>2. ~Has(pending, "in")
        BY <2>2, <3>1 DEF IInv, KeyInv, Taking
      <4>3. ConsoleTime > 0
        BY Constants
      <4>4. ListInv(list, 0)
        BY <1>1, <2>2, <4>1, <4>2, <4>3, InsertFacts
      <4>5. \A l \in Int : At(list, "disk", l) => At(pending, "disk", l)
        BY <1>1, <4>1, InsertAt
      <4> QED
        BY <4>4, <4>5
    <3>2. CASE ~(u = "in" /\ incoming # NULL)
      BY <2>1, <2>2, <3>2 DEF GetCharList
    <3> QED
      BY <3>1, <3>2
  <2> QED
    BY <1>1, <2>2, <2>3, AdvanceDisk
<1>13. ASSUME NEW t \in Threads, NEW n \in Sectors, NEW w \in BOOLEAN, DiskRequest(t, n, w)
       PROVE  DiskInv'
  <2>1. TypeOK /\ age = settled /\ Seek(n) \in Nat /\ RotationAfter(n) \in Int
    BY Constants, SeekFacts DEF IInv, DiskInv
  <2>2. /\ settled' = IF Seek(n) > 0 THEN -(Seek(n) + RotationAfter(n)) ELSE settled
        /\ age' = IF Seek(n) # 0 THEN -(Seek(n) + RotationAfter(n)) ELSE age
        /\ request' = [sector |-> n, buffered |-> InTrackBuffer(n, w), seek |-> Seek(n)]
        /\ phase' = phase
        /\ pending' = Schedule(pending, "disk", ComputeLatency(n, w))
        /\ pc[t] = <<"body", "disk">>
    BY <1>13 DEF DiskRequest, UpdateLast
  <2>3. age' = settled' /\ settled' \in Int /\ (InTrackBuffer(n, w) => settled' = settled)
    BY <2>1, <2>2 DEF InTrackBuffer, TypeOK
  <2>4. request' \in Requests
    BY <2>1, <2>2 DEF Requests, InTrackBuffer
  <2>5. OnTime(phase', settled', request', ComputeLatency(n, w))
    BY <2>1, <2>2, <2>3, OnTimeRequest
  <2>6. ~Has(pending, "disk")
    <3>1. In(pc[t], "disk") /\ "disk" \in Units
      BY <2>2 DEF In, Units
    <3>2. \A s \in Threads : pc[s] # <<"wait", "disk">>
      <4> SUFFICES ASSUME NEW s \in Threads, pc[s] = <<"wait", "disk">> PROVE FALSE
        OBVIOUS
      <4>1. In(pc[s], "disk")
        BY DEF In
      <4>2. s = t
        BY <3>1, <4>1 DEF IInv, LockInv
      <4> QED
        BY <2>2, <4>2
    <3> QED
      BY <3>2 DEF IInv, WaitInv
  <2>7. \A l \in Int : At(pending', "disk", l) => l = ComputeLatency(n, w)
    <3>1. \A l : ~At(pending, "disk", l)
      BY <2>6 DEF Has, At
    <3>2. ComputeLatency(n, w) \in Int
      BY <2>1, LatencyFacts
    <3> QED
      BY <1>1, <2>2, <3>1, <3>2, InsertAt
  <2> QED
    BY <2>3, <2>4, <2>5, <2>7 DEF DiskInv
<1>14. CASE UNCHANGED vars
  BY <1>14 DEF vars, interrupt, clock, disk, DiskInv
<1> QED
  BY <1>2, <1>3, <1>4, <1>5, <1>6, <1>7, <1>8, <1>9, <1>10, <1>11, <1>12, <1>13, <1>14
     DEF Next, Handler, Inside

(***************************************************************************)
(* The disk interrupt comes just when the head has passed over the sector, *)
(* and only sectors that have passed under the head come from the track    *)
(* buffer, whatever the geometry and the times of the disk                 *)
(* (Disk::ComputeLatency, TimeToSeek, UpdateLast).                         *)
(***************************************************************************)
THEOREM DiskIsOnTime == Spec => []DiskOnTime
<1>1. Init => DiskInv
  <2> SUFFICES ASSUME Init PROVE DiskInv
    OBVIOUS
  <2>1. IInv /\ ~active /\ age = settled
    BY InitInv DEF Init, DiskInit
  <2>2. ~Has(pending, "disk")
    BY <2>1 DEF IInv, PendInv
  <2> QED
    BY <2>1, <2>2 DEF DiskInv, Has, At
<1>2. IInv /\ DiskInv /\ [Next]_vars => DiskInv'
  BY DiskNext
<1>3. IInv /\ DiskInv => DiskOnTime
  <2> SUFFICES ASSUME IInv, DiskInv, NEW i \in PendingOf("disk")
               PROVE  OnTime(phase, settled, request, pending[i].left)
    BY DEF DiskOnTime, OnTime
  <2>1. i \in 1..Len(pending) /\ pending[i].who = "disk" /\ pending[i] \in Item
    BY DEF PendingOf, IInv, PendInv, ListInv
  <2>2. pending[i].left \in Int /\ At(pending, "disk", pending[i].left)
    BY <2>1 DEF Item, At
  <2> QED
    BY <2>2 DEF DiskInv
<1> QED
  BY <1>1, <1>2, <1>3, InvariantHolds, PTL DEF Spec
=============================================================================
