----------------------------- MODULE FifoQueue -----------------------------
(***************************************************************************)
(* What a SynchList promises (threads/synchlist.h): a FIFO list on which   *)
(* Append, RemoveFront and Apply are atomic, and where RemoveFront waits   *)
(* for an item.  Which of several waiting callers is served is not         *)
(* promised.                                                               *)
(***************************************************************************)
EXTENDS Sequences

CONSTANTS Threads, Items, NULL

VARIABLES
  items,  \* the list
  op,     \* the call a thread is in: "idle", "append", "apply" or "remove"
  item    \* the item a thread appends, or the one it was given last

queueVars == <<items, op, item>>

Init ==
  /\ items = <<>>
  /\ op = [t \in Threads |-> "idle"]
  /\ item = [t \in Threads |-> NULL]

CallAppend(t, x) ==
  /\ op[t] = "idle"
  /\ op' = [op EXCEPT ![t] = "append"]
  /\ item' = [item EXCEPT ![t] = x]
  /\ UNCHANGED items

CallRemove(t) ==
  /\ op[t] = "idle"
  /\ op' = [op EXCEPT ![t] = "remove"]
  /\ UNCHANGED <<items, item>>

CallApply(t) ==
  /\ op[t] = "idle"
  /\ op' = [op EXCEPT ![t] = "apply"]
  /\ UNCHANGED <<items, item>>

\* The function sees the items of one state.
DoApply(t) ==
  /\ op[t] = "apply"
  /\ op' = [op EXCEPT ![t] = "idle"]
  /\ UNCHANGED <<items, item>>

DoAppend(t) ==
  /\ op[t] = "append"
  /\ items' = Append(items, item[t])
  /\ op' = [op EXCEPT ![t] = "idle"]
  /\ UNCHANGED item

DoRemove(t) ==
  /\ op[t] = "remove"
  /\ items # <<>>
  /\ item' = [item EXCEPT ![t] = Head(items)]
  /\ items' = Tail(items)
  /\ op' = [op EXCEPT ![t] = "idle"]

Next ==
  \E t \in Threads :
    \/ \E x \in Items : CallAppend(t, x)
    \/ CallRemove(t) \/ CallApply(t)
    \/ DoAppend(t) \/ DoRemove(t) \/ DoApply(t)

SafeSpec == Init /\ [][Next]_queueVars

\* When some call can be served, some call is.
Spec ==
  /\ SafeSpec
  /\ WF_queueVars(\E t \in Threads : DoAppend(t) \/ DoRemove(t) \/ DoApply(t))
=============================================================================
