----------------------------- MODULE FileStore -----------------------------
(***************************************************************************)
(* What filesys/filesys.cc promises: named files of a fixed length, in     *)
(* which a stretch of bytes may be overwritten.  A file is there whole or  *)
(* not at all, and a step concerns one file and leaves the others alone;   *)
(* but a file that is being created may first be there under another name, *)
(* one that no file has, and keeps it when Nachos exits then.              *)
(***************************************************************************)
EXTENDS Naturals, Sequences

CONSTANTS Names, Bytes, NULL

VARIABLES
  store,    \* the bytes of each file, NULL for a name that is not taken
  nascent   \* the name of a file that is to get another one, or NULL

Init == store = [n \in Names |-> NULL] /\ nascent = NULL

\* A new file has a length, and any bytes at all.
Create(n, bytes) ==
  /\ nascent = NULL
  /\ store[n] = NULL
  /\ store' = [store EXCEPT ![n] = bytes]
  /\ nascent' \in {NULL, n}

\* The new file gets the name it was created with.
Rename(n) ==
  /\ nascent # NULL
  /\ store[n] = NULL
  /\ store' = [store EXCEPT ![n] = store[nascent], ![nascent] = NULL]
  /\ nascent' = NULL

\* Nachos exits, and the new file keeps the other name.
Settle ==
  /\ nascent # NULL
  /\ nascent' = NULL
  /\ UNCHANGED store

Remove(n) ==
  /\ nascent = NULL
  /\ store[n] # NULL
  /\ store' = [store EXCEPT ![n] = NULL]
  /\ UNCHANGED nascent

\* Bytes are overwritten; the length stays.
Write(n, bytes) ==
  /\ nascent = NULL
  /\ store[n] # NULL
  /\ Len(bytes) = Len(store[n])
  /\ store' = [store EXCEPT ![n] = bytes]
  /\ UNCHANGED nascent

\* The step that turns store[n] into store'[n], whichever it is.
Change(n) ==
  \/ Remove(n)
  \/ Rename(n)
  \/ Create(n, store'[n]) /\ store'[n] \in Seq(Bytes)
  \/ Write(n, store'[n]) /\ store'[n] \in Seq(Bytes)

\* The disk is formatted again: files go, some of them before the others.
Format ==
  /\ nascent = NULL
  /\ \A n \in Names : store'[n] \in {store[n], NULL}
  /\ store' = [n \in Names |-> store'[n]]
  /\ UNCHANGED nascent

Spec == Init /\ [][Format \/ Settle \/ \E n \in Names : Change(n)]_<<store, nascent>>
=============================================================================
