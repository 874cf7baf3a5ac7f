-------------------------- MODULE SynchList_proofs --------------------------
(***************************************************************************)
(* Proofs about SynchList, for any finite sets of threads and of items:    *)
(* the linked list of LinkedList stands for a sequence, the lock is        *)
(* exclusive, no signal is missed, and the monitor is an atomic queue.     *)
(***************************************************************************)
EXTENDS SynchList, FiniteSetTheorems, TLAPS

-----------------------------------------------------------------------------
(* Linked lists.                                                           *)

\* A set of natural numbers that is not empty has a least one.
LEMMA LeastNumber ==
  ASSUME NEW T \in SUBSET Nat, T # {}
  PROVE  \E n \in T : \A m \in T : n <= m
<1> DEFINE R == {ss \in Nat \X Nat : ss[1] < ss[2]}
<1>1. IsWellFoundedOn(R, Nat)
  BY NatLessThanWellFounded DEF OpToRel
<1>2. \E x \in T : \A y \in T : ~(<<y, x>> \in R)
  <2> HIDE DEF R
  <2> QED
    BY <1>1, WFMin
<1>3. PICK x \in T : \A y \in T : ~(<<y, x>> \in R)
  BY <1>2
<1>4. ASSUME NEW y \in T PROVE x <= y
  <2>1. ~(<<y, x>> \in R) /\ x \in Nat /\ y \in Nat
    BY <1>3
  <2> QED
    BY <2>1
<1> QED
  BY <1>4

\* The list l holds the items of the sequence s, in that order, once each.
Represents(l, s) ==
  /\ s \in Seq(Items)
  /\ \A i, j \in 1..Len(s) : s[i] = s[j] => i = j
  /\ l.numInList = Len(s)
  /\ s = <<>> => l.first = NULL /\ l.last = NULL
  /\ s # <<>> => l.first = s[1] /\ l.last = s[Len(s)] /\ l.next[s[Len(s)]] = NULL
  /\ \A i \in 1..Len(s) : i < Len(s) => l.next[s[i]] = s[i + 1]

\* A list is no longer than there are items.
LEMMA ListBound ==
  ASSUME NEW l \in L!List, NEW s, Represents(l, s)
  PROVE  Len(s) \in Nat /\ Cardinality(Items) \in Nat /\ Len(s) <= Cardinality(Items)
<1>1. s \in Injection(1..Len(s), Items) /\ Len(s) \in Nat
  BY DEF Represents, Injection, IsInjective
<1>2. Cardinality(1..Len(s)) = Len(s) /\ IsFiniteSet(1..Len(s))
  <2>1. 1 \in Int /\ Len(s) \in Int
    BY <1>1
  <2>2. Cardinality(1..Len(s)) = IF 1 > Len(s) THEN 0 ELSE Len(s) - 1 + 1
    BY <2>1, FS_Interval
  <2>3. IsFiniteSet(1..Len(s))
    BY <2>1, FS_Interval
  <2> QED
    BY <1>1, <2>2, <2>3
<1>3. IsFiniteSet(Items)
  BY SynchListAssumption
<1> QED
  BY <1>1, <1>2, <1>3, FS_Injection, FS_CardinalityType

\* The pointers that a loop over the list goes through are those to its items.
LEMMA PtrIs ==
  ASSUME NEW l \in L!List, NEW s, Represents(l, s)
  PROVE  L!Ptr(l) = [n \in 0..Cardinality(Items) |-> IF n < Len(s) THEN s[n + 1] ELSE NULL]
<1> DEFINE C == Cardinality(Items)
           Loop(p) == p = [n \in 0..C |-> IF n = 0 THEN l.first
                             ELSE IF p[n - 1] = NULL THEN NULL ELSE l.next[p[n - 1]]]
           q == [n \in 0..C |-> IF n < Len(s) THEN s[n + 1] ELSE NULL]
<1>1. C \in Nat /\ Len(s) \in Nat /\ Len(s) <= C
  BY ListBound
<1>2. NULL \notin Items
  BY SynchListAssumption
<1>3. Loop(q)
  <2>1. ASSUME NEW n \in 0..C
        PROVE  q[n] = IF n = 0 THEN l.first
                      ELSE IF q[n - 1] = NULL THEN NULL ELSE l.next[q[n - 1]]
    <3> HIDE DEF C
    <3>1. CASE n = 0
      BY <1>1, <3>1 DEF Represents
    <3>2. CASE n # 0
      <4>1. n - 1 \in 0..C
        BY <1>1, <3>2
      <4>2. CASE n - 1 < Len(s)
        BY <1>1, <1>2, <3>2, <4>1, <4>2 DEF Represents
      <4>3. CASE ~(n - 1 < Len(s))
        BY <1>1, <3>2, <4>1, <4>3
      <4> QED
        BY <4>2, <4>3
    <3> QED
      BY <3>1, <3>2
  <2> QED
    BY <2>1
<1>4. ASSUME NEW p, Loop(p) PROVE p = q
  <2> DEFINE T == {n \in 0..C : p[n] # q[n]}
  <2>1. ASSUME T # {} PROVE FALSE
    <3>1. T \in SUBSET Nat
      BY <1>1
    <3>2. PICK n \in T : \A m \in T : n <= m
      <4> HIDE DEF T
      <4> QED
        BY <2>1, <3>1, LeastNumber
    <3> HIDE DEF C, q
    <3>3. n \in 0..C /\ p[n] # q[n]
      OBVIOUS
    <3>4. /\ p[n] = IF n = 0 THEN l.first
                     ELSE IF p[n - 1] = NULL THEN NULL ELSE l.next[p[n - 1]]
          /\ q[n] = IF n = 0 THEN l.first
                     ELSE IF q[n - 1] = NULL THEN NULL ELSE l.next[q[n - 1]]
      BY <1>3, <1>4, <3>3
    <3>5. n # 0
      BY <3>3, <3>4
    <3>6. n - 1 \in 0..C /\ ~(n <= n - 1)
      BY <1>1, <3>3, <3>5
    <3>7. n - 1 \notin T
      BY <3>2, <3>6
    <3>8. p[n - 1] = q[n - 1]
      BY <3>6, <3>7
    <3> QED
      BY <3>3, <3>4, <3>8
  <2>2. p = [n \in 0..C |-> p[n]]
    BY <1>4
  <2> QED
    BY <2>1, <2>2
<1>5. L!Ptr(l) = CHOOSE p : Loop(p)
  <2>1. L!Cardinality(Items) = Cardinality(Items)
    BY Zenon DEF L!Cardinality, Cardinality
  <2> QED
    BY <2>1, Zenon DEF L!Ptr
<1>6. Loop(CHOOSE p : Loop(p))
  <2> HIDE DEF Loop
  <2> QED
    BY <1>3
<1> QED
  BY <1>4, <1>5, <1>6

\* List::Apply visits the items in their order.
LEMMA ApplyIs ==
  ASSUME NEW l \in L!List, NEW s, Represents(l, s)
  PROVE  L!Apply(l) = s
<1> DEFINE C == Cardinality(Items)
           ptr == L!Ptr(l)
           N == {n \in DOMAIN ptr : ptr[n] # NULL}
<1>1. C \in Nat /\ Len(s) \in Nat /\ Len(s) <= C
  BY ListBound
<1>2. ptr = [n \in 0..C |-> IF n < Len(s) THEN s[n + 1] ELSE NULL]
  BY PtrIs
<1>3. NULL \notin Items /\ s \in Seq(Items)
  BY SynchListAssumption DEF Represents
<1>4. N = 0..(Len(s) - 1)
  <2> HIDE DEF C, ptr
  <2>1. ASSUME NEW n \in 0..(Len(s) - 1) PROVE n \in N
    <3>1. n \in 0..C /\ n < Len(s) /\ n + 1 \in 1..Len(s)
      BY <1>1
    <3> QED
      BY <1>2, <1>3, <3>1
  <2>2. ASSUME NEW n \in N PROVE n \in 0..(Len(s) - 1)
    BY <1>1, <1>2
  <2> QED
    BY <2>1, <2>2
<1>5. Cardinality(N) = Len(s)
  <2>1. 0 \in Int /\ Len(s) - 1 \in Int
    BY <1>1
  <2>2. Cardinality(0..(Len(s) - 1)) = IF 0 > Len(s) - 1 THEN 0 ELSE Len(s) - 1 - 0 + 1
    BY <2>1, FS_Interval
  <2>3. Cardinality(N) = Cardinality(0..(Len(s) - 1))
    BY <1>4
  <2> HIDE DEF N
  <2> QED
    BY <1>1, <2>2, <2>3
<1>6. L!Apply(l) = [i \in 1..Cardinality(N) |-> ptr[i - 1]]
  <2>1. L!Cardinality(N) = Cardinality(N)
    BY Zenon DEF L!Cardinality, Cardinality
  <2> QED
    BY <2>1, Zenon DEF L!Apply
<1>7. ASSUME NEW i \in 1..Len(s) PROVE ptr[i - 1] = s[i]
  <2> HIDE DEF C, ptr
  <2>1. i - 1 \in 0..C /\ i - 1 < Len(s) /\ i - 1 + 1 = i
    BY <1>1
  <2> QED
    BY <1>2, <2>1
<1> HIDE DEF N, ptr
<1> QED
  BY <1>1, <1>3, <1>5, <1>6, <1>7

\* What is on the list.
LEMMA OnList ==
  ASSUME NEW l \in L!List, NEW s, Represents(l, s), NEW x \in Items
  PROVE  L!IsInList(l, x) <=> \E i \in 1..Len(s) : s[i] = x
<1> DEFINE C == Cardinality(Items)
           ptr == L!Ptr(l)
<1>1. C \in Nat /\ Len(s) \in Nat /\ Len(s) <= C
  BY ListBound
<1>2. ptr = [n \in 0..C |-> IF n < Len(s) THEN s[n + 1] ELSE NULL]
  BY PtrIs
<1>3. NULL # x /\ (L!IsInList(l, x) <=> \E n \in DOMAIN ptr : ptr[n] = x)
  BY SynchListAssumption DEF L!IsInList
<1> HIDE DEF C, ptr
<1>4. ASSUME NEW i \in 1..Len(s), s[i] = x PROVE L!IsInList(l, x)
  <2>1. i - 1 \in 0..C /\ i - 1 < Len(s) /\ i - 1 + 1 = i
    BY <1>1
  <2>2. i - 1 \in DOMAIN ptr /\ ptr[i - 1] = x
    BY <1>2, <1>4, <2>1
  <2> QED
    BY <1>3, <2>2
<1>5. ASSUME L!IsInList(l, x) PROVE \E i \in 1..Len(s) : s[i] = x
  <2>1. PICK n \in 0..C : ptr[n] = x
    BY <1>2, <1>3, <1>5
  <2>2. n < Len(s) /\ s[n + 1] = x
    BY <1>2, <1>3, <2>1
  <2>3. n + 1 \in 1..Len(s)
    BY <1>1, <2>2
  <2> QED
    BY <2>2, <2>3
<1> QED
  BY <1>4, <1>5

\* A list that stands for a sequence passes its SanityCheck.
LEMMA Sane ==
  ASSUME NEW l \in L!List, NEW s, Represents(l, s)
  PROVE  L!SanityCheck(l)
<1> DEFINE C == Cardinality(Items)
           ptr == L!Ptr(l)
<1>1. C \in Nat /\ Len(s) \in Nat /\ Len(s) <= C
  BY ListBound
<1>2. ptr = [n \in 0..C |-> IF n < Len(s) THEN s[n + 1] ELSE NULL]
  BY PtrIs
<1>3. NULL \notin Items
  BY SynchListAssumption
<1>4. L!SanityCheck(l) <=> IF l.first = NULL
                           THEN l.numInList = 0 /\ l.last = NULL
                           ELSE /\ l.numInList - 1 \in DOMAIN ptr
                                /\ ptr[l.numInList - 1] = l.last
                                /\ l.next[l.last] = NULL
  BY DEF L!SanityCheck
<1> HIDE DEF C, ptr
<1>5. CASE s = <<>>
  BY <1>4, <1>5 DEF Represents
<1>6. CASE s # <<>>
  <2>1. Len(s) - 1 \in 0..C /\ Len(s) - 1 < Len(s) /\ Len(s) - 1 + 1 = Len(s) /\ 1 \in 1..Len(s)
    BY <1>1, <1>6 DEF Represents
  <2>2. ptr[Len(s) - 1] = s[Len(s)] /\ Len(s) - 1 \in DOMAIN ptr
    BY <1>2, <2>1
  <2>3. s[1] \in Items
    BY <2>1 DEF Represents
  <2> QED
    BY <1>3, <1>4, <1>6, <2>2, <2>3 DEF Represents
<1> QED
  BY <1>5, <1>6

\* List::List.
LEMMA EmptyFacts ==
  L!EmptyList \in L!List /\ Represents(L!EmptyList, <<>>)
  BY DEF L!List, L!EmptyList, Represents

\* An assignment to one field.
LEMMA SetField ==
  ASSUME NEW l \in L!List, NEW p \in Items \cup {NULL},
         NEW f \in [Items -> Items \cup {NULL}], NEW k \in Nat
  PROVE  /\ [l EXCEPT !.first = p] \in L!List
         /\ [l EXCEPT !.last = p] \in L!List
         /\ [l EXCEPT !.next = f] \in L!List
         /\ [l EXCEPT !.numInList = k] \in L!List
  BY DEF L!List

\* Assignments to three fields.
LEMMA SetThree ==
  ASSUME NEW l \in L!List, NEW q \in Items,
         NEW f \in [Items -> Items \cup {NULL}], NEW k \in Nat
  PROVE  /\ [l EXCEPT !.first = q, !.last = q, !.numInList = k] \in L!List
         /\ [l EXCEPT !.next = f, !.last = q, !.numInList = k] \in L!List
<1>1. /\ [l EXCEPT !.first = q, !.last = q, !.numInList = k]
           = [[[l EXCEPT !.first = q] EXCEPT !.last = q] EXCEPT !.numInList = k]
      /\ [l EXCEPT !.next = f, !.last = q, !.numInList = k]
           = [[[l EXCEPT !.next = f] EXCEPT !.last = q] EXCEPT !.numInList = k]
  BY DEF L!List
<1> DEFINE a == [l EXCEPT !.first = q]
           b == [a EXCEPT !.last = q]
           c == [l EXCEPT !.next = f]
           d == [c EXCEPT !.last = q]
<1>2. a \in L!List /\ c \in L!List
  BY SetField
<1> HIDE DEF a, c
<1>3. b \in L!List /\ d \in L!List
  BY <1>2, SetField
<1> HIDE DEF b, d
<1>4. [b EXCEPT !.numInList = k] \in L!List /\ [d EXCEPT !.numInList = k] \in L!List
  BY <1>3, SetField
<1> QED
  BY <1>1, <1>4 DEF a, b, c, d

\* Assignments to all four fields.
LEMMA SetFour ==
  ASSUME NEW l \in L!List, NEW p \in Items \cup {NULL}, NEW q \in Items \cup {NULL},
         NEW f \in [Items -> Items \cup {NULL}], NEW k \in Nat
  PROVE  [l EXCEPT !.first = p, !.last = q, !.next = f, !.numInList = k] \in L!List
<1>1. [l EXCEPT !.first = p, !.last = q, !.next = f, !.numInList = k]
        = [[[[l EXCEPT !.first = p] EXCEPT !.last = q] EXCEPT !.next = f]
             EXCEPT !.numInList = k]
  BY DEF L!List
<1> DEFINE a == [l EXCEPT !.first = p]
           b == [a EXCEPT !.last = q]
           c == [b EXCEPT !.next = f]
<1>2. a \in L!List
  BY SetField
<1> HIDE DEF a
<1>3. b \in L!List
  BY <1>2, SetField
<1> HIDE DEF b
<1>4. c \in L!List
  BY <1>3, SetField
<1> HIDE DEF c
<1>5. [c EXCEPT !.numInList = k] \in L!List
  BY <1>4, SetField
<1> QED
  BY <1>1, <1>5 DEF a, b, c

\* ListElement::ListElement.
LEMMA ListElementIs ==
  ASSUME NEW l \in L!List, NEW x \in Items
  PROVE  /\ L!ListElement(l, x) \in L!List
         /\ L!ListElement(l, x).first = l.first
         /\ L!ListElement(l, x).next = [l.next EXCEPT ![x] = NULL]
         /\ L!ListElement(l, x).numInList = l.numInList
  BY DEF L!List, L!ListElement

\* List::Append puts an item that is not on the list behind the others.
LEMMA AppendFacts ==
  ASSUME NEW l \in L!List, NEW s, Represents(l, s),
         NEW x \in Items, ~L!IsInList(l, x)
  PROVE  /\ L!AppendItem(l, x) \in L!List
         /\ Represents(L!AppendItem(l, x), Append(s, x))
<1> DEFINE m == L!AppendItem(l, x)
           u == Append(s, x)
           new == L!ListElement(l, x)
<1>1. /\ new \in L!List
      /\ new.first = l.first
      /\ new.next = [l.next EXCEPT ![x] = NULL]
      /\ new.numInList = l.numInList
  BY ListElementIs
<1>2. /\ s \in Seq(Items) /\ Len(s) \in Nat /\ u \in Seq(Items) /\ u # <<>>
      /\ Len(u) = Len(s) + 1 /\ u[Len(s) + 1] = x
      /\ \A i \in 1..Len(s) : u[i] = s[i] /\ s[i] # x /\ s[i] \in Items
  BY OnList DEF Represents
<1>3. CASE s = <<>>
  <2>1. Len(s) = 0 /\ l.numInList = 0
    BY <1>3 DEF Represents
  <2>2. m = [new EXCEPT !.first = x, !.last = x, !.numInList = new.numInList + 1]
    BY <2>1 DEF L!AppendItem, L!IsEmpty
  <2>3. l.next \in [Items -> Items \cup {NULL}]
    BY DEF L!List
  <2>4. m.first = x /\ m.last = x /\ m.numInList = 1 /\ m.next[x] = NULL
    <3> HIDE DEF new, m
    <3> QED
      BY <1>1, <2>1, <2>2, <2>3 DEF L!List
  <2>5. m \in L!List
    <3> DEFINE k == new.numInList + 1
    <3>1. k \in Nat
      BY <1>1, <2>1
    <3> HIDE DEF new, m, k
    <3>2. m = [new EXCEPT !.first = x, !.last = x, !.numInList = k]
      BY <2>2 DEF k
    <3> QED
      BY <1>1, <2>3, <3>1, <3>2, SetThree
  <2> QED
    BY <1>2, <2>1, <2>4, <2>5 DEF Represents
<1>4. CASE s # <<>>
  <2>1. /\ Len(s) > 0 /\ l.numInList = Len(s) /\ l.last = s[Len(s)] /\ l.last \in Items
        /\ l.last # x /\ l.first = s[1]
    BY <1>2, <1>4 DEF Represents
  <2>2. l.next \in [Items -> Items \cup {NULL}] /\ l.first \in Items \cup {NULL}
    BY DEF L!List
  <2>3. m = [new EXCEPT !.next = [[l.next EXCEPT ![x] = NULL] EXCEPT ![l.last] = x],
                        !.last = x, !.numInList = Len(s) + 1]
    <3>1. m = [new EXCEPT !.next[l.last] = x, !.last = x, !.numInList = @ + 1]
      BY <2>1 DEF L!AppendItem, L!IsEmpty
    <3> HIDE DEF new, m
    <3> QED
      BY <1>1, <2>1, <3>1 DEF L!List
  <2>4. [[l.next EXCEPT ![x] = NULL] EXCEPT ![l.last] = x] \in [Items -> Items \cup {NULL}]
    BY <2>2
  <2>5. /\ m \in L!List
        /\ m.first = l.first /\ m.last = x /\ m.numInList = Len(s) + 1
        /\ m.next = [[l.next EXCEPT ![x] = NULL] EXCEPT ![l.last] = x]
    <3> HIDE DEF new, m
    <3>1. m \in L!List
      <4> DEFINE f == [[l.next EXCEPT ![x] = NULL] EXCEPT ![l.last] = x]
                 k == Len(s) + 1
      <4>1. f \in [Items -> Items \cup {NULL}] /\ k \in Nat
        BY <1>2, <2>4
      <4>2. m = [new EXCEPT !.next = f, !.last = x, !.numInList = k]
        BY <2>3
      <4> HIDE DEF f, k
      <4> QED
        BY <1>1, <4>1, <4>2, SetThree
    <3> QED
      BY <1>1, <2>3, <3>1 DEF L!List
  <2>6. m.next[x] = NULL /\ m.next[l.last] = x
    BY <2>1, <2>5, <2>2
  <2> HIDE DEF m, u
  <2>7. ASSUME NEW i \in 1..Len(u), i < Len(u) PROVE m.next[u[i]] = u[i + 1]
    <3>1. i \in 1..Len(s) /\ u[i] = s[i] /\ s[i] # x /\ s[i] \in Items
      BY <1>2, <2>7
    <3>2. CASE i = Len(s)
      BY <1>2, <2>1, <2>6, <3>1, <3>2
    <3>3. CASE i # Len(s)
      <4>1. i + 1 \in 1..Len(s) /\ i < Len(s) /\ Len(s) \in 1..Len(s)
        BY <1>2, <3>1, <3>3
      <4>2. s[i] # s[Len(s)]
        BY <3>1, <3>3, <4>1 DEF Represents
      <4>3. m.next[s[i]] = l.next[s[i]]
        BY <2>1, <2>5, <2>2, <3>1, <4>2
      <4> QED
        BY <1>2, <3>1, <4>1, <4>3 DEF Represents
    <3> QED
      BY <3>2, <3>3
  <2>8. \A i, j \in 1..Len(u) : u[i] = u[j] => i = j
    BY <1>2 DEF Represents
  <2>9. u[1] = s[1] /\ u[Len(u)] = x
    BY <1>2, <2>1
  <2>10. Represents(m, u)
    BY <1>2, <2>1, <2>5, <2>6, <2>7, <2>8, <2>9 DEF Represents
  <2> QED
    BY <2>5, <2>10 DEF m, u
<1> QED
  BY <1>3, <1>4

\* List::RemoveFront takes off the item that was appended first.
LEMMA RemoveFacts ==
  ASSUME NEW l \in L!List, NEW s, Represents(l, s), ~L!IsEmpty(l)
  PROVE  /\ s # <<>> /\ l.first = Head(s) /\ Head(s) \in Items
         /\ L!RemoveFront(l) \in L!List
         /\ Represents(L!RemoveFront(l), Tail(s))
         /\ L!RemoveFront(l).numInList = l.numInList - 1
<1> DEFINE m == L!RemoveFront(l)
           u == Tail(s)
<1>1. s # <<>> /\ s \in Seq(Items) /\ l.numInList = Len(s) /\ Len(s) \in Nat
  BY DEF Represents, L!IsEmpty
<1>2. /\ Len(s) > 0 /\ l.first = s[1] /\ Head(s) = s[1] /\ s[1] \in Items
      /\ l.last = s[Len(s)] /\ l.last \in Items
      /\ u \in Seq(Items) /\ Len(u) = Len(s) - 1
      /\ \A i \in 1..Len(u) : u[i] = s[i + 1]
  BY <1>1 DEF Represents
<1>3. l.next \in [Items -> Items \cup {NULL}] /\ NULL \notin Items
  BY SynchListAssumption DEF L!List
<1>4. m = [l EXCEPT !.first = IF l.first = l.last THEN NULL ELSE l.next[l.first],
                     !.last = IF l.first = l.last THEN NULL ELSE l.last,
                     !.next = [l.next EXCEPT ![l.first] = NULL],
                     !.numInList = Len(s) - 1]
  BY <1>1, <1>2 DEF L!RemoveFront, L!List
<1>5. /\ m \in L!List
      /\ m.first = IF l.first = l.last THEN NULL ELSE l.next[l.first]
      /\ m.last = IF l.first = l.last THEN NULL ELSE l.last
      /\ m.next = [l.next EXCEPT ![l.first] = NULL]
      /\ m.numInList = Len(s) - 1
  <2> HIDE DEF m
  <2>1. /\ (IF l.first = l.last THEN NULL ELSE l.next[l.first]) \in Items \cup {NULL}
        /\ (IF l.first = l.last THEN NULL ELSE l.last) \in Items \cup {NULL}
        /\ [l.next EXCEPT ![l.first] = NULL] \in [Items -> Items \cup {NULL}]
        /\ Len(s) - 1 \in Nat
    BY <1>1, <1>2, <1>3
  <2>2. m \in L!List
    BY <1>4, <2>1, SetFour
  <2> QED
    BY <1>4, <2>2 DEF L!List
<1> HIDE DEF m, u
<1>6. CASE Len(s) = 1
  <2>1. l.first = l.last /\ u = <<>> /\ Len(u) = 0
    BY <1>2, <1>6
  <2>2. m.first = NULL /\ m.last = NULL /\ m.numInList = 0
    BY <1>5, <1>6, <2>1
  <2>3. \A i \in 1..Len(u) : FALSE
    BY <2>1
  <2>4. Represents(m, u)
    BY <1>2, <2>1, <2>2, <2>3 DEF Represents
  <2> QED
    BY <1>1, <1>2, <1>5, <2>4 DEF m, u
<1>7. CASE Len(s) # 1
  <2>1. Len(s) > 1 /\ 1 \in 1..Len(s) /\ 2 \in 1..Len(s) /\ Len(s) \in 1..Len(s)
    BY <1>1, <1>2, <1>7
  <2>2. l.first # l.last /\ l.next[l.first] = s[2] /\ u # <<>> /\ u[1] = s[2] /\ Len(u) \in 1..Len(u)
    BY <1>1, <1>2, <2>1 DEF Represents
  <2>3. u[Len(u)] = s[Len(s)]
    BY <1>1, <1>2, <2>1
  <2>4. \A i, j \in 1..Len(u) : u[i] = u[j] => i = j
    BY <1>1, <1>2 DEF Represents
  <2>5. m.next[u[Len(u)]] = NULL
    BY <1>1, <1>2, <1>3, <1>5, <2>2, <2>3 DEF Represents
  <2>6. ASSUME NEW i \in 1..Len(u), i < Len(u) PROVE m.next[u[i]] = u[i + 1]
    <3>1. i + 1 \in 1..Len(s) /\ i + 1 < Len(s) /\ i + 1 # 1 /\ i + 1 \in 1..Len(u)
      BY <1>1, <1>2, <2>6
    <3>2. u[i] = s[i + 1] /\ u[i] # s[1] /\ u[i] \in Items
      BY <1>1, <1>2, <2>1, <3>1 DEF Represents
    <3>3. m.next[u[i]] = l.next[s[i + 1]]
      BY <1>2, <1>3, <1>5, <3>2
    <3>4. l.next[s[i + 1]] = s[i + 1 + 1] /\ u[i + 1] = s[i + 1 + 1]
      BY <1>1, <1>2, <3>1 DEF Represents
    <3> QED
      BY <3>3, <3>4
  <2>7. /\ m.numInList = Len(u)
        /\ m.first = u[1] /\ m.last = u[Len(u)]
    BY <1>2, <1>5, <2>2, <2>3
  <2>8. Represents(m, u)
    BY <1>2, <2>2, <2>4, <2>5, <2>6, <2>7 DEF Represents
  <2> QED
    BY <1>1, <1>2, <1>5, <2>8 DEF m, u
<1> QED
  BY <1>6, <1>7

-----------------------------------------------------------------------------
(* The inductive invariant.                                                *)

\* One thread is inside when the lock is taken, and none when it is free.
OneInside ==
  \/ lockSem = 1 /\ Inner = {}
  \/ lockSem = 0 /\ \E t \in Threads : Inner = {t}

\* lockHolder names the thread that is about to Release.
HolderExact ==
  /\ lockHolder # NULL => \E t \in Threads : pc[t] = "appRel"
  /\ \A t \in Threads : pc[t] = "appRel" => lockHolder = t

\* The linked list stands for a sequence.
ListExact == \E s : Represents(list, s)

\* What a thread is about to append is an item of its own and is not there.
FreshItems ==
  /\ \A t \in Threads : pc[t] \in {"appP", "appBody"} =>
       item[t] \in Items /\ ~L!IsInList(list, item[t])
  /\ \A t, u \in Threads :
       pc[t] \in {"appP", "appBody"} /\ pc[u] \in {"appP", "appBody"} /\ item[t] = item[u] => t = u

\* The semaphore of a thread in Wait exists.
WaiterExists == \A t \in Threads : pc[t] = "condP" => waiterSem[t] \in {0, 1}

\* Every item has a signalled thread coming for it, while threads wait.
Served == waitQueue # <<>> => list.numInList <= Cardinality(Signalled)

LockInv == TypeOK /\ OneInside /\ HolderExact /\ ListExact /\ FreshItems
WaitInv == WaiterExists /\ WaitersQueued /\ Served

IInv == LockInv /\ WaitInv

\* An action that leaves the list alone leaves what is on it.
LEMMA SameList ==
  ASSUME UNCHANGED list
  PROVE  ListExact => ListExact'
  BY DEF ListExact, Represents

\* The constructors of SynchList, Lock and Condition establish the invariant.
LEMMA InitInv == Init => IInv
<1> SUFFICES ASSUME Init PROVE IInv
  OBVIOUS
<1>1. TypeOK /\ ListExact
  BY EmptyFacts DEF Init, LockInit, ConditionInit, TypeOK, ListExact, Location
<1>2. OneInside /\ HolderExact /\ FreshItems
  BY DEF Init, LockInit, OneInside, Inner, HolderExact, FreshItems
<1>3. WaiterExists /\ WaitersQueued /\ Served
  BY DEF Init, ConditionInit, WaiterExists, WaitersQueued, Served
<1> QED
  BY <1>1, <1>2, <1>3 DEF IInv, LockInv, WaitInv

-----------------------------------------------------------------------------
(* The lock.                                                               *)

\* Lock::Acquire, whose P is on the lock's semaphore.
LEMMA LockAcquire ==
  ASSUME LockInv, NEW t \in Threads, Acquire(t)
  PROVE  LockInv'
<1> USE DEF LockInv
<1>1. TypeOK'
  BY DEF TypeOK, Acquire, Location
<1>2. OneInside'
  <2>1. lockSem = 1 /\ Inner = {} /\ lockSem' = 0
    BY DEF OneInside, Acquire, TypeOK
  <2>2. Inner' = {t}
    BY <2>1 DEF Inner, Acquire, TypeOK
  <2> QED
    BY <2>1, <2>2 DEF OneInside
<1>3. HolderExact'
  BY DEF HolderExact, Acquire, TypeOK
<1>4. ListExact'
  BY SameList DEF Acquire
<1>5. FreshItems'
  BY DEF FreshItems, Acquire, TypeOK
<1> QED
  BY <1>1, <1>2, <1>3, <1>4, <1>5

\* The steps that neither take nor release the lock, nor touch the list.
LEMMA LockCalls ==
  ASSUME LockInv, WaiterExists, NEW t \in Threads,
         \/ \E x \in Items : AppendCall(t, x)
         \/ RemoveCall(t) \/ ApplyCall(t) \/ WaitSignalled(t)
  PROVE  LockInv'
<1> USE DEF LockInv
<1>1. TypeOK'
  <2>1. CASE WaitSignalled(t)
    <3>1. waiterSem[t] = 1
      BY <2>1 DEF WaiterExists, WaitSignalled
    <3> QED
      BY <2>1, <3>1 DEF TypeOK, WaitSignalled, Goto, Location
  <2>2. CASE ~WaitSignalled(t)
    BY <2>2 DEF TypeOK, AppendCall, RemoveCall, ApplyCall, Goto, Location
  <2> QED
    BY <2>1, <2>2
<1>2. OneInside'
  <2>1. lockSem' = lockSem
    BY DEF AppendCall, RemoveCall, ApplyCall, WaitSignalled
  <2>2. Inner' = Inner
    BY DEF Inner, AppendCall, RemoveCall, ApplyCall, WaitSignalled, Goto, TypeOK
  <2> QED
    BY <2>1, <2>2 DEF OneInside
<1>3. HolderExact'
  BY DEF HolderExact, AppendCall, RemoveCall, ApplyCall, WaitSignalled, Goto, TypeOK
<1>4. ListExact'
  BY SameList DEF AppendCall, RemoveCall, ApplyCall, WaitSignalled
<1>5. FreshItems'
  <2>1. CASE \E x \in Items : AppendCall(t, x)
    BY <2>1 DEF FreshItems, AppendCall, Goto, TypeOK
  <2>2. CASE RemoveCall(t) \/ ApplyCall(t) \/ WaitSignalled(t)
    BY <2>2 DEF FreshItems, RemoveCall, ApplyCall, WaitSignalled, Goto, TypeOK
  <2> QED
    BY <2>1, <2>2
<1> QED
  BY <1>1, <1>2, <1>3, <1>4, <1>5

\* A thread inside is alone there.
LEMMA Alone ==
  ASSUME LockInv, NEW t \in Inner
  PROVE  lockSem = 0 /\ Inner = {t} /\ (lockHolder # NULL => pc[t] = "appRel")
  BY DEF LockInv, OneInside, HolderExact, Inner

\* The steps that release the lock and leave the list alone.
LEMMA LockRelease ==
  ASSUME LockInv, NEW t \in Threads,
         AppendReturn(t) \/ ApplyBody(t) \/ RemoveWait(t)
  PROVE  LockInv'
<1> USE DEF LockInv
<1>1. t \in Inner
  BY DEF Inner, AppendReturn, ApplyBody, RemoveWait
<1>2. lockSem = 0 /\ Inner = {t}
  BY <1>1, Alone
<1>3. TypeOK'
  <2>1. lockSem' = 1 /\ lockHolder' = NULL /\ UNCHANGED <<list, item>>
    BY <1>2 DEF AppendReturn, ApplyBody, RemoveWait, Wait, Release
  <2>2. pc' \in [Threads -> Location]
    BY DEF TypeOK, AppendReturn, ApplyBody, RemoveWait, Wait, Goto, Location
  <2>3. waitQueue' \in Seq(Threads) /\ waiterSem' \in [Threads -> {0, 1, NULL}]
    <3>1. CASE RemoveWait(t)
      BY <3>1 DEF TypeOK, RemoveWait, Wait
    <3>2. CASE ~RemoveWait(t)
      BY <3>2 DEF TypeOK, AppendReturn, ApplyBody
    <3> QED
      BY <3>1, <3>2
  <2> QED
    BY <2>1, <2>2, <2>3 DEF TypeOK
<1>4. OneInside'
  <2>1. lockSem' = 1
    BY <1>2 DEF AppendReturn, ApplyBody, RemoveWait, Wait, Release
  <2>2. Inner' = {}
    BY <1>2 DEF Inner, AppendReturn, ApplyBody, RemoveWait, Wait, Goto, TypeOK
  <2> QED
    BY <2>1, <2>2 DEF OneInside
<1>5. HolderExact'
  <2>1. lockHolder' = NULL
    BY DEF AppendReturn, ApplyBody, RemoveWait, Wait, Release
  <2>2. \A u \in Threads : pc'[u] # "appRel"
    BY <1>2 DEF Inner, AppendReturn, ApplyBody, RemoveWait, Wait, Goto, TypeOK
  <2> QED
    BY <2>1, <2>2 DEF HolderExact
<1>6. ListExact'
  BY SameList DEF AppendReturn, ApplyBody, RemoveWait
<1>7. FreshItems'
  BY DEF FreshItems, AppendReturn, ApplyBody, RemoveWait, Wait, Goto, TypeOK
<1> QED
  BY <1>3, <1>4, <1>5, <1>6, <1>7

\* What Signal does to the semaphores of the threads that wait.
LEMMA SignalFacts ==
  ASSUME TypeOK, WaiterExists, WaitersQueued, Signal
  PROVE  \/ waitQueue = <<>> /\ UNCHANGED <<waitQueue, waiterSem>>
         \/ \E u \in Threads :
              /\ waitQueue # <<>> /\ u = Head(waitQueue) /\ waitQueue' = Tail(waitQueue)
              /\ pc[u] = "condP" /\ waiterSem[u] = 0
              /\ waiterSem' = [waiterSem EXCEPT ![u] = 1]
<1>1. CASE waitQueue = <<>>
  BY <1>1 DEF Signal
<1>2. CASE waitQueue # <<>>
  <2> DEFINE u == Head(waitQueue)
  <2>1. 1 \in 1..Len(waitQueue) /\ u = waitQueue[1] /\ u \in Threads
    BY <1>2 DEF TypeOK
  <2>2. pc[u] = "condP" /\ waiterSem[u] = 0
    BY <2>1 DEF WaitersQueued
  <2>3. waiterSem' = [waiterSem EXCEPT ![u] = 1] /\ waitQueue' = Tail(waitQueue)
    <3>1. waiterSem' = [waiterSem EXCEPT ![u] = waiterSem[u] + 1] /\ waitQueue' = Tail(waitQueue)
      BY <1>2 DEF Signal
    <3> QED
      BY <2>2, <3>1
  <2> QED
    BY <1>2, <2>1, <2>2, <2>3
<1> QED
  BY <1>1, <1>2

\* Append's body, inside the lock: the item is put in, and Signal.
LEMMA LockAppendBody ==
  ASSUME IInv, NEW t \in Threads, AppendBody(t)
  PROVE  LockInv'
<1> USE DEF IInv, LockInv, WaitInv
<1>1. t \in Inner /\ pc[t] = "appBody"
  BY DEF Inner, AppendBody
<1>2. lockSem = 0 /\ Inner = {t}
  BY <1>1, Alone
<1>3. item[t] \in Items /\ ~L!IsInList(list, item[t]) /\ list \in L!List
  BY <1>1 DEF FreshItems, TypeOK
<1>4. PICK s : Represents(list, s)
  BY DEF ListExact
<1>5. list' \in L!List /\ Represents(list', Append(s, item[t]))
  BY <1>3, <1>4, AppendFacts DEF AppendBody
<1>6. TypeOK'
  <2>1. waitQueue' \in Seq(Threads) /\ waiterSem' \in [Threads -> {0, 1, NULL}]
    BY SignalFacts, SMTT(30) DEF TypeOK, AppendBody
  <2>2. pc' \in [Threads -> Location]
    BY DEF TypeOK, AppendBody, Goto, Location
  <2> QED
    BY <1>5, <2>1, <2>2 DEF TypeOK, AppendBody
<1>7. OneInside'
  <2>1. Inner' = Inner
    BY <1>1 DEF Inner, AppendBody, Goto, TypeOK
  <2> QED
    BY <1>2, <2>1 DEF OneInside, AppendBody
<1>8. HolderExact'
  BY <1>2 DEF HolderExact, Inner, AppendBody, Goto, TypeOK
<1>9. ListExact'
  BY <1>5 DEF ListExact
<1>10. FreshItems'
  <2>1. pc' = [pc EXCEPT ![t] = "appRel"] /\ item' = item
    BY DEF AppendBody, Goto
  <2>2. ASSUME NEW u \in Threads, pc'[u] \in {"appP", "appBody"}
        PROVE  item'[u] \in Items /\ ~L!IsInList(list', item'[u])
    <3>1. u # t /\ pc[u] \in {"appP", "appBody"}
      BY <2>1, <2>2 DEF TypeOK
    <3>2. item[u] \in Items /\ ~L!IsInList(list, item[u]) /\ item[u] # item[t]
      BY <1>1, <3>1 DEF FreshItems
    <3>3. \A i \in 1..Len(s) : s[i] # item[u]
      BY <1>3, <1>4, <3>2, OnList
    <3>4. s \in Seq(Items) /\ Len(Append(s, item[t])) = Len(s) + 1
      BY <1>4 DEF Represents
    <3>5. \A i \in 1..(Len(s) + 1) : Append(s, item[t])[i] # item[u]
      BY <1>3, <3>2, <3>3, <3>4
    <3>6. L!IsInList(list', item[u]) <=>
            \E i \in 1..Len(Append(s, item[t])) : Append(s, item[t])[i] = item[u]
      <4> DEFINE v == Append(s, item[t])
                 x == item[u]
      <4>1. list' \in L!List /\ Represents(list', v) /\ x \in Items
        BY <1>5, <3>2
      <4> HIDE DEF v, x
      <4>2. L!IsInList(list', x) <=> \E i \in 1..Len(v) : v[i] = x
        BY <4>1, OnList
      <4> QED
        BY <4>2 DEF v, x
    <3> QED
      BY <2>1, <3>2, <3>4, <3>5, <3>6
  <2> QED
    BY <2>1, <2>2 DEF FreshItems, TypeOK
<1> QED
  BY <1>6, <1>7, <1>8, <1>9, <1>10

\* RemoveFront's end, inside the lock: the item is taken out.
LEMMA LockRemoveTake ==
  ASSUME IInv, NEW t \in Threads, RemoveTake(t)
  PROVE  LockInv'
<1> USE DEF IInv, LockInv, WaitInv
<1>1. t \in Inner /\ pc[t] \notin {"appP", "appBody"}
  BY DEF Inner, RemoveTake
<1>2. lockSem = 0 /\ Inner = {t}
  BY <1>1, Alone
<1>3. list \in L!List /\ ~L!IsEmpty(list)
  BY DEF TypeOK, RemoveTake
<1>4. PICK s : Represents(list, s)
  BY DEF ListExact
<1>5. /\ list' \in L!List /\ Represents(list', Tail(s))
      /\ s # <<>> /\ list.first \in Items
  BY <1>3, <1>4, RemoveFacts DEF RemoveTake
<1>6. TypeOK'
  <2>1. pc' \in [Threads -> Location]
    BY DEF TypeOK, RemoveTake, Goto, Location
  <2>2. lockSem' = 1 /\ lockHolder' = NULL /\ waitQueue' = waitQueue
    BY <1>2 DEF RemoveTake, Release
  <2>3. waiterSem' \in [Threads -> {0, 1, NULL}] /\ item' \in [Threads -> Items \cup {NULL}]
    BY <1>5 DEF TypeOK, RemoveTake
  <2> QED
    BY <1>5, <2>1, <2>2, <2>3 DEF TypeOK
<1>7. OneInside'
  <2>1. Inner' = {}
    BY <1>2 DEF Inner, RemoveTake, Goto, TypeOK
  <2> QED
    BY <1>2, <2>1 DEF OneInside, RemoveTake, Release
<1>8. HolderExact'
  <2>1. \A u \in Threads : pc'[u] # "appRel"
    BY <1>2 DEF Inner, RemoveTake, Goto, TypeOK
  <2> QED
    BY <2>1 DEF HolderExact, RemoveTake, Release
<1>9. ListExact'
  BY <1>5 DEF ListExact
<1>10. FreshItems'
  <2>1. /\ pc' = [pc EXCEPT ![t] = "idle"]
        /\ item' = [item EXCEPT ![t] = list.first]
    BY DEF RemoveTake, Goto
  <2>2. ASSUME NEW u \in Threads, pc'[u] \in {"appP", "appBody"}
        PROVE  u # t /\ pc[u] = pc'[u] /\ item'[u] = item[u]
    BY <2>1, <2>2 DEF TypeOK
  <2>3. ASSUME NEW u \in Threads, pc'[u] \in {"appP", "appBody"}
        PROVE  item'[u] \in Items /\ ~L!IsInList(list', item'[u])
    <3>1. item[u] \in Items /\ ~L!IsInList(list, item[u]) /\ item'[u] = item[u]
      BY <2>2, <2>3 DEF FreshItems
    <3>2. \A i \in 1..Len(s) : s[i] # item[u]
      BY <1>3, <1>4, <3>1, OnList
    <3>3. s \in Seq(Items)
      BY <1>4 DEF Represents
    <3>4. \A i \in 1..Len(Tail(s)) : Tail(s)[i] # item[u]
      BY <1>5, <3>2, <3>3
    <3>5. L!IsInList(list', item[u]) <=> \E i \in 1..Len(Tail(s)) : Tail(s)[i] = item[u]
      <4> DEFINE v == Tail(s)
                 x == item[u]
      <4>1. list' \in L!List /\ Represents(list', v) /\ x \in Items
        BY <1>5, <3>1
      <4> HIDE DEF v, x
      <4>2. L!IsInList(list', x) <=> \E i \in 1..Len(v) : v[i] = x
        BY <4>1, OnList
      <4> QED
        BY <4>2 DEF v, x
    <3> QED
      BY <3>1, <3>4, <3>5
  <2> QED
    BY <2>2, <2>3 DEF FreshItems
<1> QED
  BY <1>6, <1>7, <1>8, <1>9, <1>10

-----------------------------------------------------------------------------
(* The condition variable.                                                 *)

\* The threads that are signalled are counted.
LEMMA SignalledFinite ==
  /\ IsFiniteSet(Signalled) /\ Cardinality(Signalled) \in Nat
  /\ IsFiniteSet(Signalled') /\ Cardinality(Signalled') \in Nat
<1>1. Signalled \subseteq Threads /\ Signalled' \subseteq Threads /\ IsFiniteSet(Threads)
  BY SynchListAssumption DEF Signalled
<1>2. IsFiniteSet(Signalled) /\ IsFiniteSet(Signalled')
  BY <1>1, FS_Subset
<1> QED
  BY <1>2, FS_CardinalityType

\* The steps that neither wait, nor signal, nor take an item.
LEMMA WaitOthers ==
  ASSUME IInv, NEW t \in Threads,
         \/ \E x \in Items : AppendCall(t, x)
         \/ RemoveCall(t) \/ ApplyCall(t) \/ Acquire(t) \/ AppendReturn(t) \/ ApplyBody(t)
  PROVE  WaitInv'
<1> USE DEF IInv, LockInv, WaitInv
<1>1. UNCHANGED <<waitQueue, waiterSem, list>>
  BY DEF AppendCall, RemoveCall, ApplyCall, Acquire, AppendReturn, ApplyBody
<1>2. ASSUME NEW u \in Threads
      PROVE  /\ pc'[u] = "condP" <=> pc[u] = "condP"
             /\ pc'[u] \in {"reP", "reBody"} <=> pc[u] \in {"reP", "reBody"}
  BY DEF AppendCall, RemoveCall, ApplyCall, Acquire, AppendReturn, ApplyBody, Goto, TypeOK
<1>3. Signalled' = Signalled
  BY <1>1, <1>2 DEF Signalled
<1>4. WaitersQueued'
  BY <1>1, <1>2 DEF WaitersQueued
<1> QED
  BY <1>1, <1>2, <1>3, <1>4 DEF WaiterExists, Served

\* A waiter wakes up with its semaphore's unit.
LEMMA WaitWaitSignalled ==
  ASSUME IInv, NEW t \in Threads, WaitSignalled(t)
  PROVE  WaitInv'
<1> USE DEF IInv, LockInv, WaitInv
<1>1. /\ UNCHANGED <<waitQueue, list>> /\ pc[t] = "condP" /\ waiterSem[t] = 1
      /\ pc' = [pc EXCEPT ![t] = "reP"]
      /\ waiterSem' = [waiterSem EXCEPT ![t] = waiterSem[t] - 1]
  BY DEF WaitSignalled, WaiterExists, Goto
<1>2. Signalled' = Signalled
  BY <1>1 DEF Signalled, TypeOK
<1>3. WaitersQueued'
  BY <1>1 DEF WaitersQueued, TypeOK
<1>4. WaiterExists'
  BY <1>1 DEF WaiterExists, TypeOK
<1> QED
  BY <1>1, <1>2, <1>3, <1>4 DEF Served

\* RemoveFront finds the list empty, and waits on the condition.
LEMMA WaitRemoveWait ==
  ASSUME IInv, NEW t \in Threads, RemoveWait(t)
  PROVE  WaitInv'
<1> USE DEF IInv, LockInv, WaitInv
<1>1. /\ pc[t] \in {"remBody", "reBody"} /\ UNCHANGED list /\ list.numInList = 0
      /\ waiterSem' = [waiterSem EXCEPT ![t] = 0]
      /\ waitQueue' = Append(waitQueue, t)
      /\ pc' = [pc EXCEPT ![t] = "condP"]
  BY DEF RemoveWait, Wait, Goto, L!IsEmpty
<1>2. WaiterExists'
  BY <1>1 DEF WaiterExists, TypeOK
<1>3. Served'
  BY <1>1, SignalledFinite DEF Served
<1>4. WaitersQueued'
  <2>1. /\ waitQueue \in Seq(Threads) /\ Len(waitQueue) \in Nat
        /\ Len(waitQueue') = Len(waitQueue) + 1 /\ waitQueue'[Len(waitQueue) + 1] = t
        /\ \A i \in 1..Len(waitQueue) : waitQueue'[i] = waitQueue[i]
    BY <1>1 DEF TypeOK
  <2>2. \A i \in 1..Len(waitQueue) : waitQueue[i] # t
    BY <1>1 DEF WaitersQueued
  <2>3. \A i, j \in 1..Len(waitQueue') : waitQueue'[i] = waitQueue'[j] => i = j
    BY <2>1, <2>2 DEF WaitersQueued
  <2>4. {waitQueue'[i] : i \in 1..Len(waitQueue')} = {waitQueue[i] : i \in 1..Len(waitQueue)} \cup {t}
    BY <2>1
  <2>5. {u \in Threads : pc'[u] = "condP" /\ waiterSem'[u] = 0}
          = {u \in Threads : pc[u] = "condP" /\ waiterSem[u] = 0} \cup {t}
    BY <1>1 DEF TypeOK
  <2> QED
    BY <2>3, <2>4, <2>5 DEF WaitersQueued
<1> QED
  BY <1>2, <1>3, <1>4

\* RemoveFront takes an item: one item and one thread served less.
LEMMA WaitRemoveTake ==
  ASSUME IInv, NEW t \in Threads, RemoveTake(t)
  PROVE  WaitInv'
<1> USE DEF IInv, LockInv, WaitInv
<1>1. /\ pc[t] \in {"remBody", "reBody"} /\ UNCHANGED waitQueue
      /\ waiterSem' = [waiterSem EXCEPT ![t] = NULL]
      /\ pc' = [pc EXCEPT ![t] = "idle"]
  BY DEF RemoveTake, Goto
<1>2. WaiterExists'
  BY <1>1 DEF WaiterExists, TypeOK
<1>3. WaitersQueued'
  <2>1. {u \in Threads : pc'[u] = "condP" /\ waiterSem'[u] = 0}
          = {u \in Threads : pc[u] = "condP" /\ waiterSem[u] = 0}
    BY <1>1 DEF TypeOK
  <2> QED
    BY <1>1, <2>1 DEF WaitersQueued
<1>4. Served'
  <2>1. list.numInList \in Nat /\ list.numInList # 0 /\ list'.numInList = list.numInList - 1
    BY RemoveFacts DEF ListExact, RemoveTake, TypeOK, L!List, L!IsEmpty
  <2>2. Signalled \ {t} \subseteq Signalled'
    BY <1>1 DEF Signalled, TypeOK
  <2>3. Cardinality(Signalled \ {t}) <= Cardinality(Signalled')
    BY <2>2, SignalledFinite, FS_Subset
  <2>4. /\ Cardinality(Signalled \ {t}) \in Nat
        /\ Cardinality(Signalled \ {t}) >= Cardinality(Signalled) - 1
    <3>1. CASE t \in Signalled
      <4>1. /\ IsFiniteSet(Signalled \ {t})
            /\ Cardinality(Signalled \ {t}) = Cardinality(Signalled) - 1
        BY <3>1, SignalledFinite, FS_RemoveElement
      <4>2. Cardinality(Signalled \ {t}) \in Nat
        BY <4>1, FS_CardinalityType
      <4> QED
        BY <4>1, <4>2, SignalledFinite
    <3>2. CASE t \notin Signalled
      <4>1. Signalled \ {t} = Signalled
        BY <3>2
      <4> QED
        BY <4>1, SignalledFinite
    <3> QED
      BY <3>1, <3>2
  <2> QED
    BY <1>1, <2>1, <2>3, <2>4, SignalledFinite DEF Served
<1> QED
  BY <1>2, <1>3, <1>4

\* Append adds an item and signals a waiter, if there is one.
LEMMA WaitAppendBody ==
  ASSUME IInv, NEW t \in Threads, AppendBody(t)
  PROVE  WaitInv'
<1> USE DEF IInv, LockInv, WaitInv
<1>1. pc[t] = "appBody" /\ pc' = [pc EXCEPT ![t] = "appRel"] /\ Signal
  BY DEF AppendBody, Goto
<1>2. CASE waitQueue = <<>> /\ UNCHANGED <<waitQueue, waiterSem>>
  <2>1. {u \in Threads : pc'[u] = "condP" /\ waiterSem'[u] = 0}
          = {u \in Threads : pc[u] = "condP" /\ waiterSem[u] = 0}
    BY <1>1, <1>2 DEF TypeOK
  <2>2. WaitersQueued'
    BY <1>2, <2>1 DEF WaitersQueued
  <2> QED
    BY <1>1, <1>2, <2>2 DEF WaiterExists, Served, TypeOK
<1>3. ASSUME NEW u \in Threads,
             waitQueue # <<>>, u = Head(waitQueue), waitQueue' = Tail(waitQueue),
             pc[u] = "condP", waiterSem[u] = 0,
             waiterSem' = [waiterSem EXCEPT ![u] = 1]
      PROVE  WaitInv'
  <2>1. WaiterExists'
    BY <1>1, <1>3 DEF WaiterExists, TypeOK
  <2>2. WaitersQueued'
    <3> DEFINE q == waitQueue
               r == waitQueue'
    <3>1. /\ q \in Seq(Threads) /\ Len(q) \in Nat /\ Len(q) > 0 /\ u = q[1]
          /\ Len(r) = Len(q) - 1
          /\ \A i \in 1..(Len(q) - 1) : r[i] = q[i + 1]
      BY <1>3 DEF TypeOK
    <3>2. \A i, j \in 1..Len(q) : q[i] = q[j] => i = j
      BY DEF WaitersQueued
    <3>3. {v \in Threads : pc'[v] = "condP" /\ waiterSem'[v] = 0}
            = {v \in Threads : pc[v] = "condP" /\ waiterSem[v] = 0} \ {u}
      BY <1>1, <1>3 DEF TypeOK
    <3>4. {v \in Threads : pc[v] = "condP" /\ waiterSem[v] = 0} = {q[i] : i \in 1..Len(q)}
      BY DEF WaitersQueued
    <3> HIDE DEF q, r
    <3>5. \A i, j \in 1..Len(r) : r[i] = r[j] => i = j
      BY <3>1, <3>2
    <3>6. {r[i] : i \in 1..Len(r)} = {q[i] : i \in 1..Len(q)} \ {u}
      <4>1. ASSUME NEW i \in 1..Len(r) PROVE r[i] \in {q[k] : k \in 1..Len(q)} \ {u}
        <5>1. i + 1 \in 1..Len(q) /\ 1 \in 1..Len(q) /\ i + 1 # 1 /\ r[i] = q[i + 1]
          BY <3>1
        <5> QED
          BY <3>1, <3>2, <5>1
      <4>2. ASSUME NEW k \in 1..Len(q), q[k] # u PROVE \E i \in 1..Len(r) : r[i] = q[k]
        <5>1. k - 1 \in 1..Len(r) /\ r[k - 1] = q[k]
          BY <3>1, <4>2
        <5> QED
          BY <5>1
      <4>3. {r[i] : i \in 1..Len(r)} \subseteq {q[k] : k \in 1..Len(q)} \ {u}
        BY <4>1, Zenon
      <4>4. {q[k] : k \in 1..Len(q)} \ {u} \subseteq {r[i] : i \in 1..Len(r)}
        BY <4>2, Zenon
      <4> QED
        BY <4>3, <4>4, Zenon
    <3>7. WaitersQueued' <=> /\ \A i, j \in 1..Len(r) : r[i] = r[j] => i = j
                             /\ {r[i] : i \in 1..Len(r)} =
                                  {v \in Threads : pc'[v] = "condP" /\ waiterSem'[v] = 0}
      BY DEF WaitersQueued, r
    <3> QED
      BY <3>3, <3>4, <3>5, <3>6, <3>7
  <2>3. Served'
    <3>1. u \notin Signalled /\ Signalled' = Signalled \cup {u}
      BY <1>1, <1>3 DEF Signalled, TypeOK
    <3>2. Cardinality(Signalled') = Cardinality(Signalled) + 1
      BY <3>1, SignalledFinite, FS_AddElement
    <3>3. list.numInList \in Nat /\ list'.numInList = list.numInList + 1
      <4>1. PICK s : Represents(list, s)
        BY DEF ListExact
      <4>2. item[t] \in Items /\ ~L!IsInList(list, item[t]) /\ list \in L!List
        BY <1>1 DEF FreshItems, TypeOK
      <4>3. Represents(list', Append(s, item[t]))
        BY <4>1, <4>2, AppendFacts DEF AppendBody
      <4> QED
        BY <4>1, <4>2, <4>3 DEF Represents
    <3> QED
      BY <1>3, <3>2, <3>3, SignalledFinite DEF Served
  <2> QED
    BY <2>1, <2>2, <2>3
<1> QED
  BY <1>1, <1>2, <1>3, SignalFacts

\* Every step of SynchList keeps the invariant.
LEMMA NextInv == IInv /\ [Next]_vars => IInv'
<1> SUFFICES ASSUME IInv, [Next]_vars PROVE IInv'
  OBVIOUS
<1>1. CASE UNCHANGED vars
  <2>1. ListExact'
    BY <1>1, SameList DEF vars, IInv, LockInv
  <2>2. TypeOK' /\ OneInside' /\ HolderExact' /\ FreshItems' /\ WaiterExists'
    BY <1>1 DEF vars, lockVars, condVars, IInv, LockInv, WaitInv, TypeOK, OneInside, Inner,
                HolderExact, FreshItems, WaiterExists
  <2>3. Served' /\ WaitersQueued'
    BY <1>1 DEF vars, condVars, IInv, WaitInv, Served, Signalled, WaitersQueued
  <2> QED
    BY <2>1, <2>2, <2>3 DEF IInv, LockInv, WaitInv
<1>2. ASSUME NEW t \in Threads,
             \/ \E x \in Items : AppendCall(t, x)
             \/ RemoveCall(t) \/ ApplyCall(t) \/ Acquire(t) \/ Inside(t)
      PROVE  IInv'
  <2>1. CASE AppendBody(t)
    BY <2>1, LockAppendBody, WaitAppendBody DEF IInv
  <2>2. CASE RemoveTake(t)
    BY <2>2, LockRemoveTake, WaitRemoveTake DEF IInv
  <2>3. CASE RemoveWait(t)
    BY <2>3, LockRelease, WaitRemoveWait DEF IInv
  <2>4. CASE WaitSignalled(t)
    BY <2>4, LockCalls, WaitWaitSignalled DEF IInv, WaitInv
  <2>5. CASE Acquire(t)
    BY <2>5, LockAcquire, WaitOthers DEF IInv
  <2>6. CASE AppendReturn(t) \/ ApplyBody(t)
    BY <2>6, LockRelease, WaitOthers DEF IInv
  <2>7. CASE (\E x \in Items : AppendCall(t, x)) \/ RemoveCall(t) \/ ApplyCall(t)
    BY <2>7, LockCalls, WaitOthers DEF IInv, WaitInv
  <2> QED
    BY <1>2, <2>1, <2>2, <2>3, <2>4, <2>5, <2>6, <2>7 DEF Inside
<1> QED
  BY <1>1, <1>2 DEF Next

\* The inductive invariant holds in every state.
THEOREM InvariantHolds == Spec => []IInv
<1> QED
  BY InitInv, NextInv, PTL DEF Spec

-----------------------------------------------------------------------------
(* What it gives.                                                          *)

(***************************************************************************)
(* The lock is exclusive, its holder is the thread inside, and the list    *)
(* always passes its SanityCheck.                                          *)
(***************************************************************************)
THEOREM LockIsExclusive == Spec => []LockExclusive
<1>1. IInv => LockExclusive
  <2> SUFFICES ASSUME IInv PROVE LockExclusive
    OBVIOUS
  <2> USE DEF IInv, LockInv
  <2>1. Cardinality(Inner) + lockSem = 1
    <3>1. CASE lockSem = 1 /\ Inner = {}
      BY <3>1, FS_EmptySet
    <3>2. CASE lockSem = 0 /\ \E t \in Threads : Inner = {t}
      BY <3>2, FS_Singleton
    <3> QED
      BY <3>1, <3>2 DEF OneInside
  <2>2. L!SanityCheck(list)
    BY Sane DEF ListExact, TypeOK
  <2>3. lockHolder # NULL <=> \E t \in Threads : pc[t] = "appRel"
    BY SynchListAssumption DEF HolderExact
  <2> QED
    BY <2>1, <2>2, <2>3 DEF LockExclusive, HolderExact, FreshItems
<1> QED
  BY <1>1, InvariantHolds, PTL

(***************************************************************************)
(* No waiter misses its signal, though Wait releases the lock before it    *)
(* calls P: the queue holds the threads that are still to be signalled,    *)
(* and while it is not empty every item has a thread coming for it.        *)
(***************************************************************************)
THEOREM NoSignalMissed == Spec => []NoMissedSignal
<1>1. IInv => NoMissedSignal
  BY DEF IInv, WaitInv, Served, NoMissedSignal
<1> QED
  BY <1>1, InvariantHolds, PTL

-----------------------------------------------------------------------------
(* The monitor is an atomic queue.                                         *)

\* The variables of the queue, as functions of the monitor's.
queue == L!Apply(list)
calls == [t \in Threads |-> Op(pc[t])]

\* A step that stays in the same part of a call and leaves the list alone.
LEMMA QueueStutter ==
  ASSUME NEW t \in Threads, UNCHANGED <<list, item>>, TypeOK,
         NEW loc, pc' = [pc EXCEPT ![t] = loc], Op(loc) = Op(pc[t])
  PROVE  UNCHANGED <<queue, calls, item>>
<1>1. queue' = queue
  BY DEF queue
<1>2. calls' = calls
  BY DEF calls, TypeOK
<1> QED
  BY <1>1, <1>2

\* A step to another part of a call.
LEMMA CallsStep ==
  ASSUME NEW t \in Threads, TypeOK, NEW loc, pc' = [pc EXCEPT ![t] = loc]
  PROVE  calls[t] = Op(pc[t]) /\ calls' = [calls EXCEPT ![t] = Op(loc)]
  BY DEF calls, TypeOK

\* An empty SynchList is an empty queue.
LEMMA QueueInit == Init => Fifo!Init
<1> SUFFICES ASSUME Init PROVE Fifo!Init
  OBVIOUS
<1>1. L!Apply(list) = <<>>
  BY EmptyFacts, ApplyIs DEF Init
<1>2. calls = [t \in Threads |-> "idle"]
  BY DEF Init, Op, calls
<1> QED
  BY <1>1, <1>2 DEF Init, Fifo!Init, calls

\* Every step of SynchList is a step of the queue, or none.
LEMMA QueueNext == IInv /\ [Next]_vars => [Fifo!Next]_(Fifo!queueVars)
<1> SUFFICES ASSUME IInv, [Next]_vars, ~UNCHANGED <<queue, calls, item>>
             PROVE  Fifo!Next
  BY DEF Fifo!queueVars, queue, calls
<1> USE DEF IInv, LockInv
<1>1. ~UNCHANGED vars
  BY DEF vars, queue, calls
<1>2. PICK t \in Threads :
        \/ \E x \in Items : AppendCall(t, x)
        \/ RemoveCall(t) \/ ApplyCall(t) \/ Acquire(t) \/ Inside(t)
  BY <1>1 DEF Next
<1>3. ASSUME \/ \E x \in Items : Fifo!CallAppend(t, x)
             \/ Fifo!CallRemove(t) \/ Fifo!CallApply(t)
             \/ Fifo!DoAppend(t) \/ Fifo!DoRemove(t) \/ Fifo!DoApply(t)
      PROVE  Fifo!Next
  BY <1>3 DEF Fifo!Next
<1>4. CASE \E x \in Items : AppendCall(t, x)
  <2>1. PICK x \in Items : AppendCall(t, x)
    BY <1>4
  <2>2. /\ pc[t] = "idle" /\ pc' = [pc EXCEPT ![t] = "appP"]
        /\ item' = [item EXCEPT ![t] = x] /\ list' = list
    BY <2>1 DEF AppendCall, Goto
  <2>3. calls[t] = "idle" /\ calls' = [calls EXCEPT ![t] = "append"]
    BY <2>2, CallsStep DEF Op
  <2>4. Fifo!CallAppend(t, x)
    BY <2>2, <2>3 DEF Fifo!CallAppend, calls
  <2> QED
    BY <1>3, <2>4
<1>5. CASE RemoveCall(t)
  <2>1. pc[t] = "idle" /\ pc' = [pc EXCEPT ![t] = "remP"] /\ UNCHANGED <<list, item>>
    BY <1>5 DEF RemoveCall, Goto
  <2>2. Op("idle") = "idle" /\ Op("remP") = "remove"
    BY DEF Op
  <2>3. calls[t] = "idle" /\ calls' = [calls EXCEPT ![t] = "remove"]
    BY <2>1, <2>2, CallsStep
  <2>4. Fifo!CallRemove(t)
    BY <2>1, <2>3 DEF Fifo!CallRemove, calls
  <2> QED
    BY <1>3, <2>4
<1>6. CASE ApplyCall(t)
  <2>1. pc[t] = "idle" /\ pc' = [pc EXCEPT ![t] = "applyP"] /\ UNCHANGED <<list, item>>
    BY <1>6 DEF ApplyCall, Goto
  <2>2. calls[t] = "idle" /\ calls' = [calls EXCEPT ![t] = "apply"]
    BY <2>1, CallsStep DEF Op
  <2>3. Fifo!CallApply(t)
    BY <2>1, <2>2 DEF Fifo!CallApply, calls
  <2> QED
    BY <1>3, <2>3
<1>7. CASE ApplyBody(t)
  <2>1. pc[t] = "applyBody" /\ pc' = [pc EXCEPT ![t] = "idle"] /\ UNCHANGED <<list, item>>
    BY <1>7 DEF ApplyBody, Goto
  <2>2. calls[t] = "apply" /\ calls' = [calls EXCEPT ![t] = "idle"]
    BY <2>1, CallsStep DEF Op
  <2>3. Fifo!DoApply(t)
    BY <2>1, <2>2 DEF Fifo!DoApply, calls
  <2> QED
    BY <1>3, <2>3
<1>8. CASE AppendBody(t)
  <2>1. /\ pc[t] = "appBody" /\ pc' = [pc EXCEPT ![t] = "appRel"] /\ item' = item
        /\ list' = L!AppendItem(list, item[t])
    BY <1>8 DEF AppendBody, Goto
  <2>2. calls[t] = "append" /\ calls' = [calls EXCEPT ![t] = "idle"]
    BY <2>1, CallsStep DEF Op
  <2>3. PICK s : Represents(list, s)
    BY DEF ListExact
  <2>4. list \in L!List /\ item[t] \in Items /\ ~L!IsInList(list, item[t])
    BY <2>1 DEF FreshItems, TypeOK
  <2>5. L!Apply(list) = s /\ L!Apply(list') = Append(s, item[t])
    BY <2>1, <2>3, <2>4, ApplyIs, AppendFacts
  <2>6. Fifo!DoAppend(t)
    BY <2>1, <2>2, <2>5 DEF Fifo!DoAppend, calls
  <2> QED
    BY <1>3, <2>6
<1>9. CASE RemoveTake(t)
  <2>1. /\ pc[t] \in {"remBody", "reBody"} /\ pc' = [pc EXCEPT ![t] = "idle"]
        /\ item' = [item EXCEPT ![t] = list.first] /\ ~L!IsEmpty(list)
        /\ list' = L!RemoveFront(list)
    BY <1>9 DEF RemoveTake, Goto
  <2>2. calls[t] = "remove" /\ calls' = [calls EXCEPT ![t] = "idle"]
    BY <2>1, CallsStep DEF Op
  <2>3. PICK s : Represents(list, s)
    BY DEF ListExact
  <2>4. list \in L!List
    BY DEF TypeOK
  <2>5. /\ L!Apply(list) = s /\ L!Apply(list') = Tail(s)
        /\ s # <<>> /\ list.first = Head(s)
    BY <2>1, <2>3, <2>4, ApplyIs, RemoveFacts
  <2>6. Fifo!DoRemove(t)
    BY <2>1, <2>2, <2>5 DEF Fifo!DoRemove, calls
  <2> QED
    BY <1>3, <2>6
<1>10. CASE Acquire(t) \/ AppendReturn(t) \/ RemoveWait(t) \/ WaitSignalled(t)
  <2>1. UNCHANGED <<list, item>>
    BY <1>10 DEF Acquire, AppendReturn, RemoveWait, WaitSignalled
  <2>2. \E loc : pc' = [pc EXCEPT ![t] = loc] /\ Op(loc) = Op(pc[t])
    BY <1>10 DEF Acquire, AppendReturn, RemoveWait, WaitSignalled, Wait, Goto, Op
  <2> QED
    BY <2>1, <2>2, QueueStutter
<1> QED
  BY <1>2, <1>4, <1>5, <1>6, <1>7, <1>8, <1>9, <1>10 DEF Inside

(***************************************************************************)
(* Append, RemoveFront and Apply behave as atomic operations on a FIFO     *)
(* queue: SynchList implements FifoQueue (its safety part; that a call     *)
(* that can be served is served stays with TLC).                           *)
(***************************************************************************)
THEOREM ImplementsFifoQueue == Spec => Fifo!SafeSpec
<1> QED
  BY InvariantHolds, QueueInit, QueueNext, PTL DEF Spec, Fifo!SafeSpec
=============================================================================
