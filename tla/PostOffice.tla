----------------------------- MODULE PostOffice -----------------------------
(***************************************************************************)
(* The network (machine/network.cc) and the post office on it              *)
(* (network/post.cc), on several Nachos machines.                          *)
(*                                                                         *)
(* A mailbox is a SynchList, whose operations are atomic (SynchList shows  *)
(* that it implements FifoQueue); a lock and a semaphore are those of      *)
(* SemaphoreSpec.  The host's sockets deliver datagrams in the order they  *)
(* were sent; the network loses some before it hands them to a socket, and *)
(* the host has no socket of a name that nobody has bound.                 *)
(*                                                                         *)
(* A thread in PostOfficeOutput::Send is at "lock" (in Acquire), "send"    *)
(* (the lock is held), "wait" (in messageSent->P) and "release"; between   *)
(* calls it is at "run".  A postal worker is at "wait" (in                 *)
(* messageAvailable->P), "receive" and "put".                              *)
(***************************************************************************)
EXTENDS Naturals, Sequences, FiniteSets

CONSTANTS
  Hosts, NULL,
  Users,       \* the threads of a machine that use its post office
  numBoxes,    \* mailboxes of a machine
  Reliable,    \* is the reliability 1, so that the network loses no packet?
  SendFormat   \* how Send makes the name of a socket: "SOCKET_%d" in the code

Boxes == 0..(numBoxes - 1)
Threads == Hosts \X Users

\* PacketHeader and MailHeader; the payload is the sender's and a number.
Packet == [to : Hosts, from : Hosts, box : Boxes, reply : Boxes, by : Users, seq : Nat]

ASSUME PostOfficeAssumption ==
  /\ IsFiniteSet(Hosts) /\ IsFiniteSet(Users)
  /\ numBoxes \in Nat
  /\ Reliable \in BOOLEAN /\ SendFormat \in {"SOCKET_%d", "%d_0"}
  /\ NULL \notin Packet

VARIABLES
  socket,            \* the datagrams in each machine's socket
  inbox,             \* NetworkInput::inHdr and inbox; NULL when inHdr.length is 0
  messageAvailable,  \* PostOfficeInput::messageAvailable
  worker,            \* where the postal worker is
  buffer,            \* the packet in the postal worker's buffer
  boxes,             \* PostOfficeInput::boxes
  sendInt,           \* is a NetworkSendInt pending?
  messageSent,       \* PostOfficeOutput::messageSent
  sendLock,          \* the semaphore of PostOfficeOutput::sendLock
  pc,                \* where each thread is
  out,               \* the packet a thread sends
  got,               \* the mail each thread has received, in order
  sent,              \* how many packets each thread has handed to the network
  lost               \* the packets that were dropped, by the network or the host

netVars == <<socket, inbox, sendInt, lost>>
inVars == <<messageAvailable, worker, buffer, boxes>>
outVars == <<messageSent, sendLock>>
threadVars == <<pc, out, got, sent>>
poVars == <<netVars, inVars, outVars, threadVars>>

\* NetworkInput::NetworkInput and NetworkOutput::NetworkOutput.
NetworkInputInit == socket = [h \in Hosts |-> <<>>] /\ inbox = [h \in Hosts |-> NULL]
NetworkOutputInit == sendInt = [h \in Hosts |-> FALSE] /\ lost = {}

MailBoxInit == boxes = [h \in Hosts |-> [b \in Boxes |-> <<>>]]

\* The postal worker is forked and waits for a message.
PostOfficeInputInit ==
  /\ NetworkInputInit
  /\ MailBoxInit
  /\ messageAvailable = [h \in Hosts |-> 0]
  /\ worker = [h \in Hosts |-> "wait"]
  /\ buffer = [h \in Hosts |-> NULL]

PostOfficeOutputInit ==
  /\ NetworkOutputInit
  /\ messageSent = [h \in Hosts |-> 0]
  /\ sendLock = [h \in Hosts |-> 1]

POInit ==
  /\ PostOfficeInputInit /\ PostOfficeOutputInit
  /\ pc = [t \in Threads |-> "run"]
  /\ out = [t \in Threads |-> NULL]
  /\ got = [t \in Threads |-> <<>>]
  /\ sent = [t \in Threads |-> 0]

-----------------------------------------------------------------------------
(* The network.                                                            *)

\* PostOfficeInput::CallBack and PostOfficeOutput::CallBack.
MailCallBack(h) == messageAvailable' = [messageAvailable EXCEPT ![h] = @ + 1]
SentCallBack(h) == messageSent' = [messageSent EXCEPT ![h] = @ + 1]

\* Mutant of NetworkRecv: a packet that is still in the buffer is overwritten.
NetworkRecvOver(h) ==
  /\ socket[h] # <<>>
  /\ inbox' = [inbox EXCEPT ![h] = Head(socket[h])]
  /\ socket' = [socket EXCEPT ![h] = Tail(@)]
  /\ MailCallBack(h)
  /\ UNCHANGED <<sendInt, lost, worker, buffer, boxes, outVars, threadVars>>

\* NetworkInput::CallBack, for a poll that takes a packet from the socket; other
\* polls only schedule the next one.
NetworkRecv(h) ==
  /\ inbox[h] = NULL
  /\ socket[h] # <<>>
  /\ inbox' = [inbox EXCEPT ![h] = Head(socket[h])]
  /\ socket' = [socket EXCEPT ![h] = Tail(@)]
  /\ MailCallBack(h)
  /\ UNCHANGED <<sendInt, lost, worker, buffer, boxes, outVars, threadVars>>

\* AssignNameToSocket: the receiver's socket has the name <host>_<port>, of port 0.
BoundFormat == "%d_0"

Drop(pkt) == lost' = lost \cup {pkt} /\ UNCHANGED socket

\* SendToSocket: the packet is put in the receiver's socket, if it has the name;
\* otherwise ten tries fail and the packet is dropped.
SendToSocket(pkt) ==
  IF SendFormat = BoundFormat
  THEN socket' = [socket EXCEPT ![pkt.to] = Append(@, pkt)] /\ UNCHANGED lost
  ELSE Drop(pkt)

\* NetworkOutput::Send: the interrupt is scheduled first, and then the packet
\* is lost or sent.
NetworkOutputSend(h, pkt) ==
  /\ sendInt' = [sendInt EXCEPT ![h] = TRUE]
  /\ \/ ~Reliable /\ Drop(pkt)
     \/ SendToSocket(pkt)

\* NetworkOutput::CallBack.
NetworkSendDone(h) ==
  /\ sendInt[h]
  /\ sendInt' = [sendInt EXCEPT ![h] = FALSE]
  /\ SentCallBack(h)
  /\ UNCHANGED <<socket, inbox, lost, inVars, sendLock, threadVars>>

-----------------------------------------------------------------------------
(* PostOfficeInput.                                                        *)

\* The P of PostalDelivery returns.
WorkerWoken(h) ==
  /\ worker[h] = "wait"
  /\ messageAvailable[h] > 0
  /\ messageAvailable' = [messageAvailable EXCEPT ![h] = @ - 1]
  /\ worker' = [worker EXCEPT ![h] = "receive"]
  /\ UNCHANGED <<netVars, buffer, boxes, outVars, threadVars>>

\* Mutant of WorkerReceive: the network's buffer is not emptied.
WorkerReceiveKeep(h) ==
  /\ worker[h] = "receive"
  /\ buffer' = [buffer EXCEPT ![h] = inbox[h]]
  /\ worker' = [worker EXCEPT ![h] = "put"]
  /\ UNCHANGED <<netVars, messageAvailable, boxes, outVars, threadVars>>

\* NetworkInput::Receive.
WorkerReceive(h) ==
  /\ worker[h] = "receive"
  /\ buffer' = [buffer EXCEPT ![h] = inbox[h]]
  /\ inbox' = [inbox EXCEPT ![h] = NULL]
  /\ worker' = [worker EXCEPT ![h] = "put"]
  /\ UNCHANGED <<socket, sendInt, lost, messageAvailable, boxes, outVars, threadVars>>

\* Mutant of MailBoxPut: at the front of the mailbox.
MailBoxPutFront(h, pkt) == boxes' = [boxes EXCEPT ![h][pkt.box] = <<pkt>> \o @]

\* MailBox::Put.
MailBoxPut(h, pkt) == boxes' = [boxes EXCEPT ![h][pkt.box] = Append(@, pkt)]

\* The rest of the loop of PostalDelivery.
WorkerPut(h) ==
  /\ worker[h] = "put"
  /\ MailBoxPut(h, buffer[h])
  /\ buffer' = [buffer EXCEPT ![h] = NULL]
  /\ worker' = [worker EXCEPT ![h] = "wait"]
  /\ UNCHANGED <<netVars, messageAvailable, outVars, threadVars>>

\* MailBox::Get, which waits for mail.
MailBoxGet(t, b) ==
  /\ boxes[t[1]][b] # <<>>
  /\ got' = [got EXCEPT ![t] = Append(@, Head(boxes[t[1]][b]))]
  /\ boxes' = [boxes EXCEPT ![t[1]][b] = Tail(@)]

\* PostOfficeInput::Receive.
Receive(t, b) ==
  /\ pc[t] = "run"
  /\ MailBoxGet(t, b)
  /\ UNCHANGED <<netVars, messageAvailable, worker, buffer, outVars, pc, out, sent>>

-----------------------------------------------------------------------------
(* PostOfficeOutput::Send.                                                 *)

\* The call, up to sendLock->Acquire().
SendCall(t, to, box, reply) ==
  /\ pc[t] = "run"
  /\ pc' = [pc EXCEPT ![t] = "lock"]
  /\ out' = [out EXCEPT ![t] = [to |-> to, from |-> t[1], box |-> box, reply |-> reply,
                                by |-> t[2], seq |-> sent[t]]]
  /\ UNCHANGED <<netVars, inVars, outVars, got, sent>>

SendAcquire(t) ==
  /\ pc[t] = "lock"
  /\ sendLock[t[1]] > 0
  /\ sendLock' = [sendLock EXCEPT ![t[1]] = @ - 1]
  /\ pc' = [pc EXCEPT ![t] = "send"]
  /\ UNCHANGED <<netVars, inVars, messageSent, out, got, sent>>

SendPacket(t) ==
  /\ pc[t] = "send"
  /\ NetworkOutputSend(t[1], out[t])
  /\ sent' = [sent EXCEPT ![t] = @ + 1]
  /\ pc' = [pc EXCEPT ![t] = "wait"]
  /\ UNCHANGED <<inbox, inVars, outVars, out, got>>

\* The P on messageSent returns.
SendWoken(t) ==
  /\ pc[t] = "wait"
  /\ messageSent[t[1]] > 0
  /\ messageSent' = [messageSent EXCEPT ![t[1]] = @ - 1]
  /\ pc' = [pc EXCEPT ![t] = "release"]
  /\ UNCHANGED <<netVars, inVars, sendLock, out, got, sent>>

\* sendLock->Release(), and the buffer is deleted.
SendRelease(t) ==
  /\ pc[t] = "release"
  /\ sendLock' = [sendLock EXCEPT ![t[1]] = @ + 1]
  /\ out' = [out EXCEPT ![t] = NULL]
  /\ pc' = [pc EXCEPT ![t] = "run"]
  /\ UNCHANGED <<netVars, inVars, messageSent, got, sent>>

\* A machine's interrupts, its worker, and the sends that have begun go on.
Interrupt(h) == NetworkRecv(h) \/ NetworkSendDone(h)
Worker(h) == WorkerWoken(h) \/ WorkerReceive(h) \/ WorkerPut(h)
Sending(t) == SendPacket(t) \/ SendWoken(t) \/ SendRelease(t)

-----------------------------------------------------------------------------
(* Properties.                                                             *)

Option(v) == IF v = NULL THEN <<>> ELSE <<v>>

\* The mail that comes in, the oldest first.
Coming(h) == Option(buffer[h]) \o Option(inbox[h]) \o socket[h]

\* What is in a mailbox, and what comes behind it.
Underway(h, b) == boxes[h][b] \o Coming(h)

InSeq(s) == {s[i] : i \in 1..Len(s)}

\* The packets on their way to a machine's readers.
OnWay(h) == InSeq(Coming(h)) \cup UNION {InSeq(boxes[h][b]) : b \in Boxes}

\* The packets the threads of a machine have received, in any order.
Received(h) == UNION {InSeq(got[<<h, u>>]) : u \in Users}

AllMail == lost \cup UNION {Received(h) \cup OnWay(h) : h \in Hosts}

(***************************************************************************)
(* Mail is neither invented nor duplicated, and only the network loses it: *)
(* every packet sent was lost by the network, is on its way to its         *)
(* mailbox, in one place only, or has been received on the machine and     *)
(* from the box it was sent to.  So the one input buffer is never          *)
(* overwritten, however late the postal worker is.                         *)
(***************************************************************************)
MailExact ==
  /\ \A h \in Hosts, b \in Boxes :
       LET way == Underway(h, b)
       IN  /\ \A i, j \in 1..Len(way) : way[i] = way[j] => i = j
           /\ InSeq(way) \cap (lost \cup Received(h)) = {}
           /\ \A p \in InSeq(boxes[h][b]) : p.box = b
  /\ \A h \in Hosts : \A p \in OnWay(h) \cup Received(h) : p.to = h
  /\ \A t \in Threads :
       LET mine == {p \in AllMail : p.from = t[1] /\ p.by = t[2]}
       IN  {p.seq : p \in mine} = 0..(sent[t] - 1) /\ Cardinality(mine) = sent[t]

\* p does not follow q from the same thread to the same mailbox.
Before(p, q) == p.from = q.from /\ p.by = q.by /\ p.box = q.box => p.seq < q.seq

\* Mail from one thread to one mailbox stays in the order it was sent.
OrderKept ==
  \A h \in Hosts, b \in Boxes :
    LET way == Underway(h, b)
    IN  \A i \in 1..Len(way) :
          /\ \A j \in 1..Len(way) : i < j => Before(way[i], way[j])
          /\ \A p \in Received(h) : Before(p, way[i])

(***************************************************************************)
(* The semaphores count what they stand for.  The postal worker finds a    *)
(* packet whenever it is woken, and each sender is woken once, by the      *)
(* interrupt of its own packet, with nobody else inside Send.              *)
(***************************************************************************)
WakeupsExact ==
  \A h \in Hosts :
    LET inside == {t \in Threads : t[1] = h /\ pc[t] \in {"send", "wait", "release"}}
        waiting == {t \in inside : pc[t] = "wait"}
    IN  /\ (inbox[h] # NULL) <=> (messageAvailable[h] = 1 \/ worker[h] = "receive")
        /\ messageAvailable[h] <= 1
        /\ (buffer[h] # NULL) <=> (worker[h] = "put")
        /\ Cardinality(inside) + sendLock[h] = 1
        /\ messageSent[h] + (IF sendInt[h] THEN 1 ELSE 0) = Cardinality(waiting)
=============================================================================
