----------------------------- MODULE LinkedList -----------------------------
(***************************************************************************)
(* List of lib/list.cc: a singly linked list, with a pointer to its last   *)
(* element and a count.  Append ASSERTs that the item is not on the list,  *)
(* so an element is named by the item it holds.                            *)
(***************************************************************************)
EXTENDS Naturals, FiniteSets

CONSTANTS Items, NULL

\* The fields of a List; next is the field of its elements.
List == [first : Items \cup {NULL}, last : Items \cup {NULL},
         next : [Items -> Items \cup {NULL}], numInList : Nat]

\* List::List.
EmptyList ==
  [first |-> NULL, last |-> NULL, next |-> [x \in Items |-> NULL], numInList |-> 0]

IsEmpty(l) == l.numInList = 0

\* Where a loop over the list is after n turns: ptr = first, ptr = ptr->next.
Ptr(l) ==
  LET ptr[n \in 0..Cardinality(Items)] ==
        IF n = 0 THEN l.first
        ELSE IF ptr[n - 1] = NULL THEN NULL ELSE l.next[ptr[n - 1]]
  IN  ptr

\* The items that List::Apply visits, in its order.
Apply(l) ==
  LET ptr == Ptr(l)
  IN  [i \in 1..Cardinality({n \in DOMAIN ptr : ptr[n] # NULL}) |-> ptr[i - 1]]

IsInList(l, x) == \E n \in DOMAIN Ptr(l) : Ptr(l)[n] = x

\* ListElement::ListElement: the new element is linked to nothing.
ListElement(l, x) == [l EXCEPT !.next[x] = NULL]

\* List::Append.  Its callers see to it that ~IsInList(l, x).
AppendItem(l, x) ==
  LET new == ListElement(l, x)
  IN  IF IsEmpty(l)
      THEN [new EXCEPT !.first = x, !.last = x, !.numInList = @ + 1]
      ELSE [new EXCEPT !.next[l.last] = x, !.last = x, !.numInList = @ + 1]

\* List::RemoveFront, on a list that is not empty; the element is deleted.
RemoveFront(l) ==
  [l EXCEPT !.first = IF @ = l.last THEN NULL ELSE l.next[@],
            !.last = IF l.first = @ THEN NULL ELSE @,
            !.next[l.first] = NULL,
            !.numInList = @ - 1]

\* The ASSERTs of List::SanityCheck: last is reached from first, in as many
\* steps as there are items, and nothing comes after it.
SanityCheck(l) ==
  IF l.first = NULL
  THEN l.numInList = 0 /\ l.last = NULL
  ELSE /\ l.numInList - 1 \in DOMAIN Ptr(l)
       /\ Ptr(l)[l.numInList - 1] = l.last
       /\ l.next[l.last] = NULL
=============================================================================
