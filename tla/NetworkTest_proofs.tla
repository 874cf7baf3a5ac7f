------------------------- MODULE NetworkTest_proofs -------------------------
(***************************************************************************)
(* Proofs about PostOffice and NetworkTest: the semaphores count what they *)
(* stand for, mail is neither invented, duplicated nor reordered, and an   *)
(* acknowledgement means that the message was received.                    *)
(***************************************************************************)
EXTENDS NetworkTest, FiniteSetTheorems, TLAPS

-----------------------------------------------------------------------------
(* The inductive invariant.                                                *)

Inside == {"send", "wait", "release"}

\* TypeOK of the post office's variables, and sent.
POType ==
  /\ socket \in [Hosts -> Seq(Packet)]
  /\ inbox \in [Hosts -> Packet \cup {NULL}] /\ buffer \in [Hosts -> Packet \cup {NULL}]
  /\ messageAvailable \in [Hosts -> Nat] /\ messageSent \in [Hosts -> Nat]
  /\ sendLock \in [Hosts -> {0, 1}] /\ sendInt \in [Hosts -> BOOLEAN]
  /\ worker \in [Hosts -> {"wait", "receive", "put"}]
  /\ boxes \in [Hosts -> [Boxes -> Seq(Packet)]]
  /\ pc \in [Threads -> {"run", "lock", "send", "wait", "release"}]
  /\ out \in [Threads -> Packet \cup {NULL}] /\ got \in [Threads -> Seq(Packet)]
  /\ lost \subseteq Packet
  /\ sent \in [Threads -> Nat]

\* The packet a thread is about to send is its own next one.
OutInv ==
  \A t \in Threads : pc[t] \in {"lock", "send"} =>
    out[t] \in Packet /\ out[t].from = t[1] /\ out[t].by = t[2] /\ out[t].seq = sent[t]

\* messageAvailable and the postal worker account for the network's buffer.
WorkerInv ==
  \A h \in Hosts :
    /\ messageAvailable[h] \in {0, 1}
    /\ (inbox[h] # NULL) <=> (messageAvailable[h] = 1 \/ worker[h] = "receive")
    /\ worker[h] = "receive" => messageAvailable[h] = 0
    /\ (buffer[h] # NULL) <=> (worker[h] = "put")

\* The threads of a machine that hold its sendLock, and those that wait in Send.
Senders(h) == {u \in Users : pc[<<h, u>>] \in Inside}
Waiters(h) == {u \in Users : pc[<<h, u>>] = "wait"}

\* sendLock is held by the one thread that is inside Send, or free.
LockInv ==
  \A h \in Hosts :
    \/ sendLock[h] = 1 /\ Senders(h) = {}
    \/ sendLock[h] = 0 /\ \E u \in Users : Senders(h) = {u}

\* A thread waits for its interrupt, or for the P that the interrupt allows.
SentInv ==
  \A h \in Hosts :
    /\ messageSent[h] \in {0, 1}
    /\ sendInt[h] => messageSent[h] = 0
    /\ (sendInt[h] \/ messageSent[h] = 1) <=> Waiters(h) # {}

\* The places of a packet, from the socket to its reader.
Opt(v) == {v} \ {NULL}
Boxed(h) == UNION {InSeq(boxes[h][b]) : b \in Boxes}

\* The packets of a thread have the numbers below sent, each once.
NumberInv ==
  /\ \A p \in AllMail : p \in Packet /\ p.seq < sent[<<p.from, p.by>>]
  /\ \A p, q \in AllMail : p.from = q.from /\ p.by = q.by /\ p.seq = q.seq => p = q
  /\ \A t \in Threads : \A k \in Nat : k < sent[t] =>
       \E p \in AllMail : p.from = t[1] /\ p.by = t[2] /\ p.seq = k

\* A packet is at or on its way to the machine and the box it names.
PlaceInv ==
  /\ \A h \in Hosts : \A p \in OnWay(h) \cup Received(h) : p.to = h
  /\ \A h \in Hosts : lost \cap OnWay(h) = {}
  /\ \A h \in Hosts, b \in Boxes : \A p \in InSeq(boxes[h][b]) : p.box = b

MailInv == NumberInv /\ PlaceInv

Ordered(s) == \A i, j \in 1..Len(s) : i < j => Before(s[i], s[j])
AllBefore(S, T) == \A p \in S, q \in T : Before(p, q)

\* The order from a thread to a mailbox is kept in each place and between them.
OrderedAt(h) ==
  /\ Ordered(socket[h])
  /\ AllBefore(Opt(inbox[h]), InSeq(socket[h]))
  /\ AllBefore(Opt(buffer[h]), InSeq(socket[h]) \cup Opt(inbox[h]))
  /\ \A b \in Boxes :
       /\ Ordered(boxes[h][b])
       /\ AllBefore(InSeq(boxes[h][b]), InSeq(socket[h]) \cup Opt(inbox[h]) \cup Opt(buffer[h]))
  /\ AllBefore(Received(h), OnWay(h))
OrderInv == \A h \in Hosts : OrderedAt(h)

\* The messages of the test, and where each machine is with them.
Hello(p) == p.by = "test" /\ p.seq = 0 /\ p.box = 0 /\ p.reply = 1 /\ p.to # p.from
Ack(p) == p.by = "test" /\ p.seq = 1 /\ p.box = 1 /\ p.to # p.from /\ step[p.from] >= 4

PacketInv ==
  /\ \A p \in AllMail : Hello(p) \/ Ack(p) \/ p.box = 2
  /\ \A t \in Threads : pc[t] \in {"lock", "send"} => Hello(out[t]) \/ Ack(out[t]) \/ out[t].box = 2

StepAt(h) ==
  LET mine == got[Main(h)]
      n == sent[Main(h)]
      at == pc[Main(h)]
  IN  /\ step[h] = 1 => at = "run" /\ n = 0 /\ Len(mine) = 0
      /\ step[h] = 2 => Len(mine) = 0 /\ n = (IF at \in {"lock", "send"} THEN 0 ELSE 1)
      /\ step[h] = 3 => at = "run" /\ n = 1 /\ Len(mine) = 1
      /\ step[h] = 4 => Len(mine) = 1 /\ n = (IF at \in {"lock", "send"} THEN 1 ELSE 2)
      /\ step[h] = 5 => Len(mine) = 2 /\ mine[2].from # h /\ Ack(mine[2])
      /\ step[h] >= 3 => mine[1].from # h /\ mine[1].reply = 1
StepInv == \A h \in Hosts : StepAt(h)

\* What the post office keeps whoever uses it, and what the test adds.
POInv == POType /\ OutInv /\ WorkerInv /\ LockInv /\ SentInv /\ MailInv /\ OrderInv
TestInv == step \in [Hosts -> 1..5] /\ PacketInv /\ StepInv
IInv == POInv /\ TestInv

-----------------------------------------------------------------------------
(* Sequences of packets.                                                   *)

\* What is in a sequence that has grown by one packet, and its order.
LEMMA AppendFacts ==
  ASSUME NEW s \in Seq(Packet), NEW x \in Packet
  PROVE  /\ Append(s, x) \in Seq(Packet)
         /\ InSeq(Append(s, x)) = InSeq(s) \cup {x}
         /\ Ordered(s) /\ AllBefore(InSeq(s), {x}) => Ordered(Append(s, x))
<1> PICK a : a = Append(s, x)
  OBVIOUS
<1>1. /\ a \in Seq(Packet) /\ Len(s) \in Nat /\ Len(a) = Len(s) + 1
      /\ a[Len(s) + 1] = x /\ \A i \in 1..Len(s) : a[i] = s[i]
  OBVIOUS
<1>2. InSeq(a) = InSeq(s) \cup {x}
  BY <1>1 DEF InSeq
<1>3. ASSUME Ordered(s), AllBefore(InSeq(s), {x}), NEW i \in 1..Len(a), NEW j \in 1..Len(a), i < j
      PROVE  Before(a[i], a[j])
  <2>1. i \in 1..Len(s) /\ a[i] = s[i] /\ s[i] \in InSeq(s)
    BY <1>1, <1>3 DEF InSeq
  <2>2. CASE j = Len(s) + 1
    BY <1>1, <1>3, <2>1, <2>2 DEF AllBefore
  <2>3. CASE j # Len(s) + 1
    <3>1. j \in 1..Len(s)
      BY <1>1, <2>3
    <3> QED
      BY <1>1, <1>3, <2>1, <3>1 DEF Ordered
  <2> QED
    BY <2>2, <2>3
<1> QED
  BY <1>1, <1>2, <1>3 DEF Ordered

\* What is in a sequence whose first packet has been taken, and its order.
LEMMA TailFacts ==
  ASSUME NEW s \in Seq(Packet), s # <<>>
  PROVE  /\ Head(s) \in Packet /\ Tail(s) \in Seq(Packet)
         /\ InSeq(s) = {Head(s)} \cup InSeq(Tail(s))
         /\ Ordered(s) => Ordered(Tail(s)) /\ AllBefore({Head(s)}, InSeq(Tail(s)))
<1> PICK a : a = Tail(s)
  OBVIOUS
<1>1. /\ a \in Seq(Packet) /\ Len(s) \in Nat \ {0} /\ Len(a) = Len(s) - 1
      /\ Head(s) = s[1] /\ \A i \in 1..Len(a) : a[i] = s[i + 1]
  OBVIOUS
<1>2. InSeq(s) = {s[1]} \cup InSeq(a)
  <2>1. ASSUME NEW i \in 1..Len(s) PROVE s[i] \in {s[1]} \cup InSeq(a)
    <3>1. CASE i # 1
      <4>1. i - 1 \in 1..Len(a) /\ a[i - 1] = s[i]
        BY <1>1, <3>1
      <4> QED
        BY <4>1 DEF InSeq
    <3> QED
      BY <3>1
  <2>2. ASSUME NEW i \in 1..Len(a) PROVE a[i] \in InSeq(s)
    <3>1. i + 1 \in 1..Len(s) /\ a[i] = s[i + 1]
      BY <1>1
    <3> QED
      BY <3>1 DEF InSeq
  <2>3. s[1] \in InSeq(s)
    BY <1>1 DEF InSeq
  <2> QED
    BY <2>1, <2>2, <2>3 DEF InSeq
<1>3. ASSUME Ordered(s), NEW j \in 1..Len(a)
      PROVE  Before(s[1], a[j]) /\ \A i \in 1..Len(a) : i < j => Before(a[i], a[j])
  <2>1. j + 1 \in 1..Len(s) /\ a[j] = s[j + 1] /\ 1 \in 1..Len(s) /\ 1 < j + 1
    BY <1>1
  <2>2. ASSUME NEW i \in 1..Len(a), i < j PROVE Before(a[i], a[j])
    <3>1. i + 1 \in 1..Len(s) /\ a[i] = s[i + 1] /\ i + 1 < j + 1
      BY <1>1, <2>2
    <3> QED
      BY <1>3, <2>1, <3>1 DEF Ordered
  <2> QED
    BY <1>3, <2>1, <2>2 DEF Ordered
<1>4. s[1] \in Packet
  BY <1>1
<1> QED
  BY <1>1, <1>2, <1>3, <1>4 DEF Ordered, AllBefore, InSeq

\* The order and the contents of one sequence behind another.
LEMMA ConcatFacts ==
  ASSUME NEW s \in Seq(Packet), NEW r \in Seq(Packet)
  PROVE  /\ s \o r \in Seq(Packet)
         /\ InSeq(s \o r) = InSeq(s) \cup InSeq(r)
         /\ Ordered(s) /\ Ordered(r) /\ AllBefore(InSeq(s), InSeq(r)) => Ordered(s \o r)
<1> PICK a : a = s \o r
  OBVIOUS
<1>1. /\ a \in Seq(Packet) /\ Len(s) \in Nat /\ Len(r) \in Nat /\ Len(a) = Len(s) + Len(r)
      /\ \A i \in 1..Len(s) : a[i] = s[i]
      /\ \A i \in 1..Len(a) : i > Len(s) => a[i] = r[i - Len(s)] /\ i - Len(s) \in 1..Len(r)
  OBVIOUS
<1>2. InSeq(a) = InSeq(s) \cup InSeq(r)
  <2>1. ASSUME NEW i \in 1..Len(a) PROVE a[i] \in InSeq(s) \cup InSeq(r)
    <3>1. CASE i > Len(s)
      BY <1>1, <3>1 DEF InSeq
    <3>2. CASE ~(i > Len(s))
      BY <1>1, <3>2 DEF InSeq
    <3> QED
      BY <3>1, <3>2
  <2>2. ASSUME NEW i \in 1..Len(s) PROVE s[i] \in InSeq(a)
    BY <1>1 DEF InSeq
  <2>3. ASSUME NEW i \in 1..Len(r) PROVE r[i] \in InSeq(a)
    <3>1. i + Len(s) \in 1..Len(a) /\ i + Len(s) > Len(s) /\ i + Len(s) - Len(s) = i
      BY <1>1
    <3>2. a[i + Len(s)] = r[i]
      BY <1>1, <3>1
    <3> QED
      BY <3>1, <3>2 DEF InSeq
  <2>4. InSeq(a) \subseteq InSeq(s) \cup InSeq(r)
    BY <2>1, Zenon DEF InSeq
  <2>5. InSeq(s) \subseteq InSeq(a) /\ InSeq(r) \subseteq InSeq(a)
    BY <2>2, <2>3, Zenon DEF InSeq
  <2> QED
    BY <2>4, <2>5, Zenon
<1>3. ASSUME Ordered(s), Ordered(r), AllBefore(InSeq(s), InSeq(r)),
             NEW i \in 1..Len(a), NEW j \in 1..Len(a), i < j
      PROVE  Before(a[i], a[j])
  <2>1. CASE i > Len(s)
    <3>1. /\ a[i] = r[i - Len(s)] /\ i - Len(s) \in 1..Len(r)
          /\ a[j] = r[j - Len(s)] /\ j - Len(s) \in 1..Len(r) /\ i - Len(s) < j - Len(s)
      BY <1>1, <1>3, <2>1
    <3> QED
      BY <1>3, <3>1 DEF Ordered
  <2>2. CASE ~(i > Len(s)) /\ j > Len(s)
    <3>1. i \in 1..Len(s) /\ a[i] = s[i]
      BY <1>1, <2>2
    <3>2. j - Len(s) \in 1..Len(r) /\ a[j] = r[j - Len(s)]
      BY <1>1, <2>2
    <3>3. a[i] \in InSeq(s) /\ a[j] \in InSeq(r)
      BY <3>1, <3>2 DEF InSeq
    <3> QED
      BY <1>3, <3>3 DEF AllBefore
  <2>3. CASE ~(j > Len(s))
    <3>1. i \in 1..Len(s) /\ j \in 1..Len(s) /\ a[i] = s[i] /\ a[j] = s[j]
      BY <1>1, <1>3, <2>3
    <3> QED
      BY <1>3, <3>1 DEF Ordered
  <2> QED
    BY <1>1, <2>1, <2>2, <2>3
<1> QED
  BY <1>1, <1>2, <1>3 DEF Ordered

\* A sequence of one packet or of none.
LEMMA OptionFacts ==
  ASSUME NEW v \in Packet \cup {NULL}
  PROVE  Option(v) \in Seq(Packet) /\ InSeq(Option(v)) = Opt(v) /\ Ordered(Option(v))
<1>1. CASE v = NULL
  <2>1. Option(v) = <<>> /\ Opt(v) = {}
    BY <1>1 DEF Option, Opt
  <2> QED
    BY <2>1 DEF InSeq, Ordered
<1>2. CASE v # NULL
  <2>1. Option(v) = <<v>> /\ Opt(v) = {v} /\ v \in Packet
    BY <1>2 DEF Option, Opt
  <2>2. <<v>> \in Seq(Packet) /\ Len(<<v>>) = 1 /\ <<v>>[1] = v
    BY <2>1
  <2> QED
    BY <2>1, <2>2 DEF InSeq, Ordered
<1> QED
  BY <1>1, <1>2

\* The packets that come in, in whatever order.
LEMMA ComingFacts ==
  ASSUME NEW v \in Packet \cup {NULL}, NEW w \in Packet \cup {NULL}, NEW q \in Seq(Packet)
  PROVE  InSeq(Option(v) \o Option(w) \o q) = Opt(v) \cup Opt(w) \cup InSeq(q)
<1> PICK s, r : s = Option(v) /\ r = Option(w)
  OBVIOUS
<1>1. s \in Seq(Packet) /\ InSeq(s) = Opt(v) /\ r \in Seq(Packet) /\ InSeq(r) = Opt(w)
  BY OptionFacts
<1>2. s \o r \in Seq(Packet) /\ InSeq(s \o r) = InSeq(s) \cup InSeq(r)
  BY <1>1, ConcatFacts
<1>3. InSeq((s \o r) \o q) = InSeq(s \o r) \cup InSeq(q)
  BY <1>2, ConcatFacts
<1> QED
  BY <1>1, <1>2, <1>3

\* The packets on their way, place by place.
LEMMA OnWayFacts ==
  ASSUME POType
  PROVE  \A h \in Hosts :
           OnWay(h) = Opt(buffer[h]) \cup Opt(inbox[h]) \cup InSeq(socket[h]) \cup Boxed(h)
<1> SUFFICES ASSUME NEW h \in Hosts
             PROVE  OnWay(h) = Opt(buffer[h]) \cup Opt(inbox[h]) \cup InSeq(socket[h]) \cup Boxed(h)
  OBVIOUS
<1>1. buffer[h] \in Packet \cup {NULL} /\ inbox[h] \in Packet \cup {NULL} /\ socket[h] \in Seq(Packet)
  BY DEF POType
<1>2. InSeq(Coming(h)) = Opt(buffer[h]) \cup Opt(inbox[h]) \cup InSeq(socket[h])
  BY <1>1, ComingFacts DEF Coming
<1> QED
  BY <1>2 DEF OnWay, Boxed

\* The same after a step.
LEMMA OnWayNext ==
  ASSUME POType'
  PROVE  \A h \in Hosts :
           OnWay(h)' = Opt(buffer'[h]) \cup Opt(inbox'[h]) \cup InSeq(socket'[h]) \cup Boxed(h)'
<1> SUFFICES ASSUME NEW h \in Hosts
             PROVE  OnWay(h)' = Opt(buffer'[h]) \cup Opt(inbox'[h]) \cup InSeq(socket'[h]) \cup Boxed(h)'
  OBVIOUS
<1>1. buffer'[h] \in Packet \cup {NULL} /\ inbox'[h] \in Packet \cup {NULL} /\ socket'[h] \in Seq(Packet)
  BY DEF POType
<1>2. InSeq(Coming(h))' = Opt(buffer'[h]) \cup Opt(inbox'[h]) \cup InSeq(socket'[h])
  BY <1>1, ComingFacts DEF Coming
<1> QED
  BY <1>2 DEF OnWay, Boxed

-----------------------------------------------------------------------------
(* What a step does to the mail.                                           *)

mailVars == <<socket, inbox, buffer, boxes, got, lost, sent>>

\* A step that moves no packet.
LEMMA NothingMoved ==
  ASSUME UNCHANGED mailVars, MailInv, OrderInv
  PROVE  MailInv' /\ OrderInv' /\ AllMail' = AllMail
<1>1. /\ \A h \in Hosts : OnWay(h)' = OnWay(h) /\ Received(h)' = Received(h)
      /\ UNCHANGED <<lost, sent, boxes, socket, inbox, buffer>>
  BY DEF mailVars, OnWay, Coming, Received
<1>2. AllMail' = AllMail
  BY <1>1 DEF AllMail
<1> QED
  BY <1>1, <1>2 DEF MailInv, NumberInv, PlaceInv, OrderInv, OrderedAt

\* A packet that moves on from one place to the next is in the mail as before.
LEMMA PacketMoved ==
  ASSUME MailInv, UNCHANGED <<lost, sent>>,
         NEW h \in Hosts,
         \A k \in Hosts \ {h} : OnWay(k)' = OnWay(k) /\ Received(k)' = Received(k),
         OnWay(h)' \subseteq OnWay(h), Received(h) \subseteq Received(h)',
         OnWay(h)' \cup Received(h)' = OnWay(h) \cup Received(h),
         \A k \in Hosts, b \in Boxes : \A p \in InSeq(boxes'[k][b]) : p.box = b
  PROVE  MailInv' /\ AllMail' = AllMail
<1>1. \A k \in Hosts : Received(k)' \cup OnWay(k)' = Received(k) \cup OnWay(k)
  OBVIOUS
<1>2. AllMail' = AllMail
  BY <1>1 DEF AllMail
<1>3. \A k \in Hosts : \A p \in OnWay(k)' \cup Received(k)' : p.to = k
  BY DEF MailInv, NumberInv, PlaceInv
<1>4. \A k \in Hosts : lost \cap OnWay(k)' = {}
  BY DEF MailInv, NumberInv, PlaceInv
<1> QED
  BY <1>2, <1>3, <1>4 DEF MailInv, NumberInv, PlaceInv

\* NetworkInput::CallBack: the packet goes from the socket to the buffer.
LEMMA NetworkRecvMoves ==
  ASSUME POType, POType', MailInv, OrderInv, NEW h \in Hosts, NetworkRecv(h)
  PROVE  MailInv' /\ OrderInv' /\ AllMail' = AllMail
<1> PICK s : s = socket[h]
  OBVIOUS
<1>1. /\ s \in Seq(Packet) /\ s # <<>> /\ inbox[h] = NULL
      /\ inbox'[h] = Head(s) /\ socket'[h] = Tail(s)
      /\ \A k \in Hosts \ {h} : inbox'[k] = inbox[k] /\ socket'[k] = socket[k]
      /\ UNCHANGED <<buffer, boxes, got, lost, sent>>
  BY DEF NetworkRecv, POType, threadVars
<1>2. /\ Head(s) \in Packet /\ InSeq(s) = {Head(s)} \cup InSeq(Tail(s))
      /\ Ordered(s) => Ordered(Tail(s)) /\ AllBefore({Head(s)}, InSeq(Tail(s)))
  BY <1>1, TailFacts
<1>3. Opt(inbox[h]) = {} /\ Opt(inbox'[h]) = {Head(s)}
  BY <1>1, <1>2, PostOfficeAssumption DEF Opt
<1>4. InSeq(socket'[h]) \cup Opt(inbox'[h]) = InSeq(socket[h]) \cup Opt(inbox[h])
  BY <1>1, <1>2, <1>3
<1>5. \A k \in Hosts : Boxed(k)' = Boxed(k) /\ Received(k)' = Received(k)
  BY <1>1 DEF Boxed, Received
<1>6. \A k \in Hosts : OnWay(k)' = OnWay(k)
  <2>1. ASSUME NEW k \in Hosts \ {h} PROVE OnWay(k)' = OnWay(k)
    BY <1>1, <1>5, OnWayFacts, OnWayNext
  <2>2. OnWay(h)' = Opt(buffer[h]) \cup (InSeq(socket'[h]) \cup Opt(inbox'[h])) \cup Boxed(h)
    BY <1>1, <1>5, OnWayNext
  <2>3. OnWay(h) = Opt(buffer[h]) \cup (InSeq(socket[h]) \cup Opt(inbox[h])) \cup Boxed(h)
    BY OnWayFacts
  <2> QED
    BY <1>4, <2>1, <2>2, <2>3
<1>7. \A k \in Hosts, b \in Boxes : \A p \in InSeq(boxes'[k][b]) : p.box = b
  BY <1>1 DEF MailInv, NumberInv, PlaceInv
<1>8. MailInv' /\ AllMail' = AllMail
  BY <1>1, <1>5, <1>6, <1>7, PacketMoved
<1>9. ASSUME NEW k \in Hosts PROVE OrderedAt(k)'
  <2>1. CASE k # h
    BY <1>1, <1>5, <1>6, <2>1 DEF OrderInv, OrderedAt
  <2>2. CASE k = h
    BY <1>1, <1>2, <1>3, <1>4, <1>5, <1>6, <2>2 DEF OrderInv, OrderedAt
  <2> QED
    BY <2>1, <2>2
<1> QED
  BY <1>8, <1>9 DEF OrderInv

\* NetworkInput::Receive: the packet goes to the postal worker's buffer.
LEMMA WorkerReceiveMoves ==
  ASSUME POType, POType', WorkerInv, MailInv, OrderInv, NEW h \in Hosts, WorkerReceive(h)
  PROVE  MailInv' /\ OrderInv' /\ AllMail' = AllMail
<1>1. /\ buffer[h] = NULL /\ buffer'[h] = inbox[h] /\ inbox'[h] = NULL
      /\ \A k \in Hosts \ {h} : inbox'[k] = inbox[k] /\ buffer'[k] = buffer[k]
      /\ UNCHANGED <<socket, boxes, got, lost, sent>>
  BY DEF WorkerReceive, WorkerInv, POType, threadVars
<1>2. Opt(buffer[h]) = {} /\ Opt(inbox'[h]) = {} /\ Opt(buffer'[h]) = Opt(inbox[h])
  BY <1>1 DEF Opt
<1>3. \A k \in Hosts : Boxed(k)' = Boxed(k) /\ Received(k)' = Received(k)
  BY <1>1 DEF Boxed, Received
<1>4. \A k \in Hosts : OnWay(k)' = OnWay(k)
  <2>1. ASSUME NEW k \in Hosts \ {h} PROVE OnWay(k)' = OnWay(k)
    BY <1>1, <1>3, OnWayFacts, OnWayNext
  <2>2. OnWay(h)' = Opt(inbox[h]) \cup InSeq(socket[h]) \cup Boxed(h)
    BY <1>1, <1>2, <1>3, OnWayNext
  <2>3. OnWay(h) = Opt(inbox[h]) \cup InSeq(socket[h]) \cup Boxed(h)
    BY <1>2, OnWayFacts
  <2> QED
    BY <2>1, <2>2, <2>3
<1>5. \A k \in Hosts, b \in Boxes : \A p \in InSeq(boxes'[k][b]) : p.box = b
  BY <1>1 DEF MailInv, NumberInv, PlaceInv
<1>6. MailInv' /\ AllMail' = AllMail
  BY <1>1, <1>3, <1>4, <1>5, PacketMoved
<1>7. ASSUME NEW k \in Hosts PROVE OrderedAt(k)'
  <2>1. CASE k # h
    BY <1>1, <1>3, <1>4, <2>1 DEF OrderInv, OrderedAt
  <2>2. CASE k = h
    BY <1>1, <1>2, <1>3, <1>4, <2>2 DEF OrderInv, OrderedAt, AllBefore
  <2> QED
    BY <2>1, <2>2
<1> QED
  BY <1>6, <1>7 DEF OrderInv

\* MailBox::Put: the packet goes behind the mail of its box.
LEMMA WorkerPutMoves ==
  ASSUME POType, POType', WorkerInv, MailInv, OrderInv, NEW h \in Hosts, WorkerPut(h)
  PROVE  MailInv' /\ OrderInv' /\ AllMail' = AllMail
<1> PICK x, s : x = buffer[h] /\ s = boxes[h][x.box]
  OBVIOUS
<1>1. x \in Packet /\ x # NULL /\ x.box \in Boxes
  BY DEF WorkerPut, WorkerInv, POType, Packet
<1>2. /\ s \in Seq(Packet) /\ boxes'[h][x.box] = Append(s, x) /\ buffer'[h] = NULL
      /\ \A b \in Boxes \ {x.box} : boxes'[h][b] = boxes[h][b]
      /\ \A k \in Hosts \ {h} : boxes'[k] = boxes[k] /\ buffer'[k] = buffer[k]
      /\ UNCHANGED <<socket, inbox, got, lost, sent>>
  BY <1>1 DEF WorkerPut, MailBoxPut, POType, threadVars, netVars
<1>3. /\ InSeq(Append(s, x)) = InSeq(s) \cup {x}
      /\ Ordered(s) /\ AllBefore(InSeq(s), {x}) => Ordered(Append(s, x))
  BY <1>1, <1>2, AppendFacts
<1>4. Opt(buffer[h]) = {x} /\ Opt(buffer'[h]) = {}
  BY <1>1, <1>2 DEF Opt
<1>5. /\ Boxed(h)' = Boxed(h) \cup {x}
      /\ \A k \in Hosts \ {h} : Boxed(k)' = Boxed(k)
      /\ \A k \in Hosts : Received(k)' = Received(k)
  <2>1. \A b \in Boxes : InSeq(boxes'[h][b]) = IF b = x.box THEN InSeq(boxes[h][b]) \cup {x}
                                                ELSE InSeq(boxes[h][b])
    BY <1>2, <1>3
  <2>2. Boxed(h)' = UNION {InSeq(boxes'[h][b]) : b \in Boxes}
    BY DEF Boxed
  <2>3. Boxed(h)' = Boxed(h) \cup {x}
    BY <1>1, <2>1, <2>2, ZenonT(60) DEF Boxed
  <2>4. \A k \in Hosts \ {h} : Boxed(k)' = Boxed(k)
    BY <1>2 DEF Boxed
  <2>5. \A k \in Hosts : Received(k)' = Received(k)
    BY <1>2 DEF Received
  <2> QED
    BY <2>3, <2>4, <2>5
<1>6. \A k \in Hosts : OnWay(k)' = OnWay(k)
  <2>1. ASSUME NEW k \in Hosts \ {h} PROVE OnWay(k)' = OnWay(k)
    BY <1>2, <1>5, OnWayFacts, OnWayNext
  <2>2. OnWay(h)' = Opt(inbox[h]) \cup InSeq(socket[h]) \cup (Boxed(h) \cup {x})
    BY <1>2, <1>4, <1>5, OnWayNext
  <2>3. OnWay(h) = Opt(inbox[h]) \cup InSeq(socket[h]) \cup (Boxed(h) \cup {x})
    BY <1>4, OnWayFacts
  <2> QED
    BY <2>1, <2>2, <2>3
<1>7. ASSUME NEW k \in Hosts, NEW b \in Boxes, NEW p \in InSeq(boxes'[k][b]) PROVE p.box = b
  <2>1. CASE k = h /\ b = x.box
    <3>1. p \in InSeq(boxes[h][x.box]) \cup {x}
      BY <1>2, <1>3, <1>7, <2>1
    <3> QED
      BY <1>1, <2>1, <3>1 DEF MailInv, PlaceInv
  <2>2. CASE ~(k = h /\ b = x.box)
    <3>1. boxes'[k][b] = boxes[k][b]
      BY <1>2, <2>2
    <3> QED
      BY <1>7, <3>1 DEF MailInv, NumberInv, PlaceInv
  <2> QED
    BY <2>1, <2>2
<1>8. MailInv' /\ AllMail' = AllMail
  BY <1>2, <1>5, <1>6, <1>7, PacketMoved
<1>9. ASSUME NEW k \in Hosts PROVE OrderedAt(k)'
  <2>1. CASE k # h
    BY <1>2, <1>5, <1>6, <2>1 DEF OrderInv, OrderedAt
  <2>2. CASE k = h
    <3> USE <2>2
    <3>1. OrderedAt(h)
      BY DEF OrderInv
    <3>2. ASSUME NEW b \in Boxes
          PROVE  /\ Ordered(boxes'[h][b])
                 /\ AllBefore(InSeq(boxes'[h][b]), InSeq(socket[h]) \cup Opt(inbox[h]))
      <4>1. CASE b = x.box
        BY <1>2, <1>3, <1>4, <3>1, <4>1 DEF OrderedAt, AllBefore
      <4>2. CASE b # x.box
        BY <1>2, <3>1, <4>2 DEF OrderedAt, AllBefore
      <4> QED
        BY <4>1, <4>2
    <3> QED
      BY <1>2, <1>4, <1>5, <1>6, <3>1, <3>2, SMTT(30) DEF OrderedAt, AllBefore
  <2> QED
    BY <2>1, <2>2
<1> QED
  BY <1>8, <1>9 DEF OrderInv

\* MailBox::Get: the oldest packet of a box goes to the thread.
LEMMA ReceiveMoves ==
  ASSUME POType, POType', MailInv, OrderInv,
         NEW h \in Hosts, NEW u \in Users, NEW b \in Boxes, Receive(<<h, u>>, b)
  PROVE  /\ MailInv' /\ OrderInv' /\ AllMail' = AllMail
         /\ Head(boxes[h][b]) \in AllMail /\ Head(boxes[h][b]).to = h /\ Head(boxes[h][b]).box = b
         /\ got' = [got EXCEPT ![<<h, u>>] = Append(got[<<h, u>>], Head(boxes[h][b]))]
<1> PICK s, g : s = boxes[h][b] /\ g = got[<<h, u>>]
  OBVIOUS
<1>1. <<h, u>> \in Threads
  BY DEF Threads
<1>2. /\ s \in Seq(Packet) /\ s # <<>> /\ boxes'[h][b] = Tail(s)
      /\ \A c \in Boxes \ {b} : boxes'[h][c] = boxes[h][c]
      /\ \A k \in Hosts \ {h} : boxes'[k] = boxes[k]
      /\ g \in Seq(Packet) /\ got' = [got EXCEPT ![<<h, u>>] = Append(g, Head(s))]
      /\ UNCHANGED <<socket, inbox, buffer, lost, sent>>
  BY <1>1 DEF Receive, MailBoxGet, POType, netVars
<1> PICK x : x = Head(s)
  OBVIOUS
<1>3. /\ x \in Packet /\ InSeq(s) = {x} \cup InSeq(Tail(s))
      /\ Ordered(s) => Ordered(Tail(s)) /\ AllBefore({x}, InSeq(Tail(s)))
  BY <1>2, TailFacts
<1>4. x \in InSeq(boxes[h][b]) /\ x.box = b
  BY <1>3 DEF MailInv, NumberInv, PlaceInv
<1>5. /\ Boxed(h)' \cup {x} = Boxed(h)
      /\ \A k \in Hosts \ {h} : Boxed(k)' = Boxed(k)
  <2>1. \A c \in Boxes : InSeq(boxes[h][c]) = IF c = b THEN InSeq(boxes'[h][c]) \cup {x}
                                               ELSE InSeq(boxes'[h][c])
    BY <1>2, <1>3
  <2>2. Boxed(h)' = UNION {InSeq(boxes'[h][c]) : c \in Boxes}
    BY DEF Boxed
  <2>3. Boxed(h)' \cup {x} = Boxed(h)
    BY <2>1, <2>2, ZenonT(60) DEF Boxed
  <2> QED
    BY <1>2, <2>3 DEF Boxed
<1>6. /\ Received(h)' = Received(h) \cup {x}
      /\ \A k \in Hosts \ {h} : Received(k)' = Received(k)
  <2>1. InSeq(Append(g, x)) = InSeq(g) \cup {x}
    BY <1>2, <1>3, AppendFacts
  <2>2. /\ got'[<<h, u>>] = Append(g, x)
        /\ \A k \in Hosts, v \in Users : k # h \/ v # u => got'[<<k, v>>] = got[<<k, v>>]
    BY <1>1, <1>2 DEF POType, Threads
  <2>3. \A v \in Users : InSeq(got'[<<h, v>>]) = IF v = u THEN InSeq(got[<<h, v>>]) \cup {x}
                                                  ELSE InSeq(got[<<h, v>>])
    BY <2>1, <2>2
  <2>4. Received(h)' = UNION {InSeq(got'[<<h, v>>]) : v \in Users}
    BY DEF Received
  <2>5. Received(h)' = Received(h) \cup {x}
    BY <2>3, <2>4, ZenonT(60) DEF Received
  <2>6. ASSUME NEW k \in Hosts \ {h} PROVE Received(k)' = Received(k)
    <3>1. \A v \in Users : got'[<<k, v>>] = got[<<k, v>>]
      BY <2>2
    <3> QED
      BY <3>1 DEF Received
  <2> QED
    BY <2>5, <2>6
<1>7. OnWay(h) = OnWay(h)' \cup {x}
  <2>1. OnWay(h)' = Opt(buffer[h]) \cup Opt(inbox[h]) \cup InSeq(socket[h]) \cup Boxed(h)'
    BY <1>2, OnWayNext
  <2>2. OnWay(h) = Opt(buffer[h]) \cup Opt(inbox[h]) \cup InSeq(socket[h]) \cup (Boxed(h)' \cup {x})
    BY <1>5, OnWayFacts
  <2> QED
    BY <2>1, <2>2
<1>8. \A k \in Hosts \ {h} : OnWay(k)' = OnWay(k)
  BY <1>2, <1>5, OnWayFacts, OnWayNext
<1>9. ASSUME NEW k \in Hosts, NEW c \in Boxes, NEW p \in InSeq(boxes'[k][c]) PROVE p.box = c
  BY <1>2, <1>3, <1>9 DEF MailInv, NumberInv, PlaceInv
<1>10. MailInv' /\ AllMail' = AllMail
  BY <1>2, <1>6, <1>7, <1>8, <1>9, PacketMoved
<1>11. x \in AllMail /\ x.to = h
  BY <1>7 DEF AllMail, MailInv, NumberInv, PlaceInv
<1>12. ASSUME NEW k \in Hosts PROVE OrderedAt(k)'
  <2>1. CASE k # h
    BY <1>2, <1>6, <1>8, <2>1 DEF OrderInv, OrderedAt
  <2>2. CASE k = h
    <3> USE <2>2
    <3>1. OrderedAt(h)
      BY DEF OrderInv
    <3>2. ASSUME NEW c \in Boxes
          PROVE  /\ Ordered(boxes'[h][c])
                 /\ AllBefore(InSeq(boxes'[h][c]), InSeq(socket[h]) \cup Opt(inbox[h]) \cup Opt(buffer[h]))
      BY <1>2, <1>3, <3>1 DEF OrderedAt, AllBefore
    <3>3. ASSUME NEW q \in OnWay(h)' PROVE Before(x, q)
      <4>1. CASE q \in Opt(buffer[h]) \cup Opt(inbox[h]) \cup InSeq(socket[h])
        BY <1>4, <3>1, <4>1 DEF OrderedAt, AllBefore
      <4>2. ASSUME NEW c \in Boxes, q \in InSeq(boxes'[h][c]) PROVE Before(x, q)
        <5>1. CASE c = b
          BY <1>2, <1>3, <3>1, <4>2, <5>1 DEF OrderedAt, AllBefore
        <5>2. CASE c # b
          BY <1>4, <1>9, <4>2, <5>2 DEF Before
        <5> QED
          BY <5>1, <5>2
      <4>3. OnWay(h)' = Opt(buffer[h]) \cup Opt(inbox[h]) \cup InSeq(socket[h]) \cup Boxed(h)'
        BY <1>2, OnWayNext
      <4>4. Boxed(h)' = UNION {InSeq(boxes'[h][c]) : c \in Boxes}
        BY DEF Boxed
      <4> QED
        BY <4>1, <4>2, <4>3, <4>4
    <3>4. AllBefore(Received(h)', OnWay(h)')
      BY <1>6, <1>7, <3>1, <3>3 DEF OrderedAt, AllBefore
    <3> QED
      BY <1>2, <3>1, <3>2, <3>4 DEF OrderedAt
  <2> QED
    BY <2>1, <2>2
<1> QED
  BY <1>2, <1>4, <1>10, <1>11, <1>12 DEF OrderInv

\* NetworkOutput::Send: the thread's next packet is lost or goes to the
\* receiver's socket.
LEMMA SendPacketMoves ==
  ASSUME POType, POType', OutInv, MailInv, OrderInv, NEW t \in Threads, SendPacket(t)
  PROVE  MailInv' /\ OrderInv' /\ AllMail' = AllMail \cup {out[t]}
<1> PICK x, n : x = out[t] /\ n = sent[t]
  OBVIOUS
<1>1. /\ x \in Packet /\ x.from = t[1] /\ x.by = t[2] /\ x.seq = n /\ n \in Nat /\ x.to \in Hosts
      /\ t = <<t[1], t[2]>> /\ t[1] \in Hosts /\ t[2] \in Users
  <2>1. /\ t = <<t[1], t[2]>> /\ t[1] \in Hosts /\ t[2] \in Users
    BY DEF Threads
  <2>2. x \in Packet /\ x.from = t[1] /\ x.by = t[2] /\ x.seq = n /\ n \in Nat
    BY DEF SendPacket, OutInv, POType
  <2> QED
    BY <2>1, <2>2 DEF Packet
<1>2. /\ sent' = [sent EXCEPT ![t] = n + 1]
      /\ UNCHANGED <<inbox, buffer, boxes, got>>
      /\ \/ lost' = lost \cup {x} /\ UNCHANGED socket
         \/ socket' = [socket EXCEPT ![x.to] = Append(socket[x.to], x)] /\ UNCHANGED lost
  BY DEF SendPacket, NetworkOutputSend, SendToSocket, Drop, inVars
<1>3. \A k \in Hosts : Boxed(k)' = Boxed(k) /\ Received(k)' = Received(k)
  BY <1>2 DEF Boxed, Received
<1>4. x \notin AllMail
  BY <1>1 DEF MailInv, NumberInv, PlaceInv
<1>5. \A k \in Hosts : AllBefore(OnWay(k) \cup Received(k), {x})
  <2>1. ASSUME NEW k \in Hosts, NEW p \in OnWay(k) \cup Received(k) PROVE Before(p, x)
    <3>1. p \in Packet /\ p.seq < sent[<<p.from, p.by>>]
      BY <2>1 DEF MailInv, NumberInv, PlaceInv, AllMail
    <3> QED
      BY <1>1, <3>1 DEF Before
  <2> QED
    BY <2>1 DEF AllBefore
<1>6. ASSUME AllMail' = AllMail \cup {x} PROVE NumberInv'
  <2>1. \A r \in Threads : sent'[r] = IF r = t THEN n + 1 ELSE sent[r]
    BY <1>2 DEF POType
  <2>2. ASSUME NEW p \in AllMail'
        PROVE  p \in Packet /\ p.seq < sent'[<<p.from, p.by>>]
    <3>1. CASE p = x
      BY <1>1, <2>1, <3>1
    <3>2. CASE p \in AllMail
      <4>1. p \in Packet /\ p.seq < sent[<<p.from, p.by>>]
        BY <3>2 DEF MailInv, NumberInv
      <4>2. <<p.from, p.by>> \in Threads /\ p.seq \in Nat
        BY <4>1 DEF Packet, Threads
      <4> QED
        BY <1>1, <2>1, <4>1, <4>2
    <3> QED
      BY <1>6, <3>1, <3>2
  <2>3. ASSUME NEW p \in AllMail, p.from = x.from, p.by = x.by PROVE p.seq # x.seq
    <3>1. p \in Packet /\ p.seq < sent[<<p.from, p.by>>]
      BY DEF MailInv, NumberInv
    <3>2. p.seq < n /\ p.seq \in Nat
      BY <1>1, <2>3, <3>1 DEF Packet
    <3> QED
      BY <1>1, <3>2
  <2>4. \A p, q \in AllMail' : p.from = q.from /\ p.by = q.by /\ p.seq = q.seq => p = q
    BY <1>6, <2>3 DEF MailInv, NumberInv
  <2>5. ASSUME NEW r \in Threads, NEW k \in Nat, k < sent'[r]
        PROVE  \E p \in AllMail' : p.from = r[1] /\ p.by = r[2] /\ p.seq = k
    <3>1. CASE r = t /\ k = n
      BY <1>1, <1>6, <3>1
    <3>2. CASE ~(r = t /\ k = n)
      <4>1. k < sent[r]
        BY <1>1, <2>1, <2>5, <3>2
      <4> QED
        BY <1>6, <4>1 DEF MailInv, NumberInv
    <3> QED
      BY <3>1, <3>2
  <2> QED
    BY <2>2, <2>4, <2>5 DEF NumberInv
<1>7. CASE lost' = lost \cup {x} /\ UNCHANGED socket
  <2>1. \A k \in Hosts : OnWay(k)' = OnWay(k)
    BY <1>2, <1>3, <1>7, OnWayFacts, OnWayNext
  <2>2. AllMail' = AllMail \cup {x}
    BY <1>3, <1>7, <2>1 DEF AllMail
  <2>3. \A k \in Hosts : OrderedAt(k)'
    BY <1>2, <1>3, <1>7, <2>1 DEF OrderInv, OrderedAt
  <2>4. \A k \in Hosts : OnWay(k) \subseteq AllMail
    BY DEF AllMail
  <2>5. \A k \in Hosts : x \notin OnWay(k)'
    BY <1>4, <2>1, <2>4
  <2>6. PlaceInv'
    BY <1>2, <1>3, <1>7, <2>1, <2>5 DEF MailInv, PlaceInv
  <2> QED
    BY <1>6, <2>2, <2>3, <2>6 DEF OrderInv, MailInv
<1>8. CASE socket' = [socket EXCEPT ![x.to] = Append(socket[x.to], x)] /\ UNCHANGED lost
  <2> PICK h, s : h = x.to /\ s = socket[h]
    OBVIOUS
  <2>1. /\ h \in Hosts /\ s \in Seq(Packet) /\ socket'[h] = Append(s, x)
        /\ \A k \in Hosts \ {h} : socket'[k] = socket[k]
    BY <1>1, <1>8 DEF POType
  <2>2. /\ InSeq(Append(s, x)) = InSeq(s) \cup {x}
        /\ Ordered(s) /\ AllBefore(InSeq(s), {x}) => Ordered(Append(s, x))
    BY <1>1, <2>1, AppendFacts
  <2>3. InSeq(socket'[h]) = InSeq(socket[h]) \cup {x}
    BY <2>1, <2>2
  <2>4. \A k \in Hosts \ {h} : OnWay(k)' = OnWay(k)
    BY <1>2, <1>3, <2>1, OnWayFacts, OnWayNext, ZenonT(60)
  <2>5. OnWay(h)' = OnWay(h) \cup {x}
    <3>1. OnWay(h)' = Opt(buffer[h]) \cup Opt(inbox[h]) \cup (InSeq(socket[h]) \cup {x}) \cup Boxed(h)
      BY <1>2, <1>3, <2>1, <2>3, OnWayNext
    <3>2. OnWay(h) = Opt(buffer[h]) \cup Opt(inbox[h]) \cup InSeq(socket[h]) \cup Boxed(h)
      BY <2>1, OnWayFacts
    <3> QED
      BY <3>1, <3>2
  <2>6. AllMail' = AllMail \cup {x}
    <3>1. \A k \in Hosts : Received(k)' \cup OnWay(k)' =
                             IF k = h THEN Received(k) \cup OnWay(k) \cup {x} ELSE Received(k) \cup OnWay(k)
      BY <1>3, <2>4, <2>5
    <3>2. AllMail' = lost \cup UNION {Received(k)' \cup OnWay(k)' : k \in Hosts}
      BY <1>8 DEF AllMail
    <3> QED
      BY <2>1, <3>1, <3>2 DEF AllMail
  <2>7. PlaceInv'
    <3>1. x \notin lost
      BY <1>4 DEF AllMail
    <3> QED
      BY <1>2, <1>3, <1>8, <2>1, <2>4, <2>5, <3>1 DEF MailInv, PlaceInv
  <2>8. ASSUME NEW k \in Hosts PROVE OrderedAt(k)'
    <3>1. CASE k # h
      BY <1>2, <1>3, <2>1, <2>4, <3>1 DEF OrderInv, OrderedAt
    <3>2. CASE k = h
      <4>1. OrderedAt(h) /\ \A p \in OnWay(h) \cup Received(h) : Before(p, x)
        BY <1>5, <2>1 DEF OrderInv, AllBefore
      <4>2. OnWay(h) = Opt(buffer[h]) \cup Opt(inbox[h]) \cup InSeq(socket[h]) \cup Boxed(h)
        BY <2>1, OnWayFacts
      <4>3. Ordered(socket'[h])
        BY <2>1, <2>2, <4>1, <4>2 DEF OrderedAt, AllBefore
      <4>4. \A b \in Boxes : InSeq(boxes[h][b]) \subseteq OnWay(h)
        BY <4>2 DEF Boxed
      <4>5. /\ AllBefore(Opt(inbox[h]), InSeq(socket'[h]))
            /\ AllBefore(Opt(buffer[h]), InSeq(socket'[h]) \cup Opt(inbox[h]))
            /\ AllBefore(Received(h), OnWay(h)')
        BY <2>3, <2>5, <4>1, <4>2 DEF OrderedAt, AllBefore
      <4>6. ASSUME NEW b \in Boxes
            PROVE  /\ Ordered(boxes[h][b])
                   /\ AllBefore(InSeq(boxes[h][b]), InSeq(socket'[h]) \cup Opt(inbox[h]) \cup Opt(buffer[h]))
        BY <2>3, <4>1, <4>4 DEF OrderedAt, AllBefore
      <4> QED
        BY <1>2, <1>3, <2>1, <3>2, <4>3, <4>5, <4>6 DEF OrderedAt
    <3> QED
      BY <3>1, <3>2
  <2> QED
    BY <1>6, <2>6, <2>7, <2>8 DEF OrderInv, MailInv
<1> QED
  BY <1>2, <1>7, <1>8

-----------------------------------------------------------------------------
(* What a step does to the semaphores and the threads.                     *)

ControlInv == POType /\ OutInv /\ WorkerInv /\ LockInv /\ SentInv

\* A thread that goes to another location of Send, or into or out of it.
LEMMA ThreadMoves ==
  ASSUME POType, NEW h \in Hosts, NEW u \in Users, NEW loc, pc' = [pc EXCEPT ![<<h, u>>] = loc]
  PROVE  /\ \A k \in Hosts \ {h} : Senders(k)' = Senders(k) /\ Waiters(k)' = Waiters(k)
         /\ Senders(h)' = IF loc \in Inside THEN Senders(h) \cup {u} ELSE Senders(h) \ {u}
         /\ Waiters(h)' = IF loc = "wait" THEN Waiters(h) \cup {u} ELSE Waiters(h) \ {u}
         /\ Waiters(h) \subseteq Senders(h)
<1>1. <<h, u>> \in Threads /\ pc'[<<h, u>>] = loc
  BY DEF POType, Threads
<1>2. \A v \in Users \ {u} : pc'[<<h, v>>] = pc[<<h, v>>]
  BY DEF POType, Threads
<1>3. \A k \in Hosts \ {h}, v \in Users : pc'[<<k, v>>] = pc[<<k, v>>]
  BY DEF POType, Threads
<1>4. \A k \in Hosts \ {h} : Senders(k)' = Senders(k) /\ Waiters(k)' = Waiters(k)
  BY <1>3 DEF Senders, Waiters
<1>5. /\ Senders(h)' = IF loc \in Inside THEN Senders(h) \cup {u} ELSE Senders(h) \ {u}
      /\ Waiters(h)' = IF loc = "wait" THEN Waiters(h) \cup {u} ELSE Waiters(h) \ {u}
  BY <1>1, <1>2 DEF Senders, Waiters
<1> QED
  BY <1>4, <1>5 DEF Senders, Waiters, Inside

\* The input buffer is filled when it is empty, and messageAvailable says so.
LEMMA NetworkRecvControl ==
  ASSUME POInv, NEW h \in Hosts, NetworkRecv(h)
  PROVE  ControlInv'
<1>1. POType'
  BY TailFacts DEF NetworkRecv, MailCallBack, POInv, POType, outVars, threadVars
<1>2. OutInv'
  BY DEF NetworkRecv, POInv, OutInv, threadVars
<1>3. WorkerInv'
  <2>1. socket[h] \in Seq(Packet) /\ socket[h] # <<>>
    BY DEF NetworkRecv, POInv, POType
  <2>2. Head(socket[h]) # NULL
    BY <2>1, TailFacts, PostOfficeAssumption
  <2> QED
    BY <2>2 DEF NetworkRecv, MailCallBack, POInv, POType, WorkerInv
<1>4. LockInv'
  BY DEF NetworkRecv, POInv, LockInv, Senders, outVars, threadVars
<1>5. SentInv'
  BY DEF NetworkRecv, POInv, SentInv, Waiters, netVars, outVars, threadVars
<1> QED
  BY <1>1, <1>2, <1>3, <1>4, <1>5 DEF ControlInv

\* The interrupt wakes the thread whose packet it is.
LEMMA NetworkSendDoneControl ==
  ASSUME POInv, NEW h \in Hosts, NetworkSendDone(h)
  PROVE  ControlInv'
<1>1. POType'
  BY PostOfficeAssumption DEF NetworkSendDone, POInv, POType, WorkerInv, netVars, inVars, outVars, threadVars, SentCallBack
<1>2. OutInv'
  BY DEF NetworkSendDone, POInv, OutInv, threadVars
<1>3. WorkerInv'
  BY DEF NetworkSendDone, POInv, POType, WorkerInv, netVars, inVars, outVars, threadVars, SentCallBack
<1>4. LockInv'
  BY DEF NetworkSendDone, POInv, LockInv, Senders, outVars, threadVars
<1>5. SentInv'
  <2>1. /\ sendInt[h] /\ messageSent[h] = 0 /\ UNCHANGED pc
        /\ \A k \in Hosts : messageSent'[k] = IF k = h THEN 1 ELSE messageSent[k]
        /\ \A k \in Hosts : sendInt'[k] = IF k = h THEN FALSE ELSE sendInt[k]
    BY DEF NetworkSendDone, SentCallBack, POInv, POType, SentInv, threadVars
  <2> QED
    BY <2>1 DEF POInv, SentInv, Waiters
<1> QED
  BY <1>1, <1>2, <1>3, <1>4, <1>5 DEF ControlInv

\* The postal worker is woken for the packet in the buffer.
LEMMA WorkerWokenControl ==
  ASSUME POInv, NEW h \in Hosts, WorkerWoken(h)
  PROVE  ControlInv'
<1>1. POType'
  BY PostOfficeAssumption DEF WorkerWoken, POInv, POType, WorkerInv, netVars, inVars, outVars, threadVars
<1>2. OutInv'
  BY DEF WorkerWoken, POInv, OutInv, threadVars
<1>3. WorkerInv'
  BY DEF WorkerWoken, POInv, POType, WorkerInv, netVars, inVars, outVars, threadVars
<1>4. LockInv'
  BY DEF WorkerWoken, POInv, LockInv, Senders, outVars, threadVars
<1>5. SentInv'
  BY DEF WorkerWoken, POInv, SentInv, Waiters, netVars, outVars, threadVars
<1> QED
  BY <1>1, <1>2, <1>3, <1>4, <1>5 DEF ControlInv

\* The postal worker empties the buffer.
LEMMA WorkerReceiveControl ==
  ASSUME POInv, NEW h \in Hosts, WorkerReceive(h)
  PROVE  ControlInv'
<1>1. POType'
  BY PostOfficeAssumption DEF WorkerReceive, POInv, POType, WorkerInv, netVars, inVars, outVars, threadVars
<1>2. OutInv'
  BY DEF WorkerReceive, POInv, OutInv, threadVars
<1>3. WorkerInv'
  BY DEF WorkerReceive, POInv, POType, WorkerInv, netVars, inVars, outVars, threadVars
<1>4. LockInv'
  BY DEF WorkerReceive, POInv, LockInv, Senders, outVars, threadVars
<1>5. SentInv'
  BY DEF WorkerReceive, POInv, SentInv, Waiters, netVars, outVars, threadVars
<1> QED
  BY <1>1, <1>2, <1>3, <1>4, <1>5 DEF ControlInv

\* The postal worker goes back to wait.
LEMMA WorkerPutControl ==
  ASSUME POInv, NEW h \in Hosts, WorkerPut(h)
  PROVE  ControlInv'
<1>1. POType'
  <2>1. buffer[h] \in Packet /\ buffer[h].box \in Boxes
    BY DEF WorkerPut, POInv, POType, WorkerInv, Packet
  <2>2. boxes[h][buffer[h].box] \in Seq(Packet)
    BY <2>1 DEF POInv, POType
  <2>3. Append(boxes[h][buffer[h].box], buffer[h]) \in Seq(Packet)
    BY <2>1, <2>2, AppendFacts
  <2> QED
    BY <2>1, <2>3 DEF WorkerPut, MailBoxPut, POInv, POType, netVars, outVars, threadVars
<1>2. OutInv'
  BY DEF WorkerPut, POInv, OutInv, threadVars
<1>3. WorkerInv'
  BY DEF WorkerPut, POInv, POType, WorkerInv, netVars, inVars, outVars, threadVars, MailBoxPut
<1>4. LockInv'
  BY DEF WorkerPut, POInv, LockInv, Senders, outVars, threadVars
<1>5. SentInv'
  BY DEF WorkerPut, POInv, SentInv, Waiters, netVars, outVars, threadVars
<1> QED
  BY <1>1, <1>2, <1>3, <1>4, <1>5 DEF ControlInv

\* A reader changes its mailbox only.
LEMMA ReceiveControl ==
  ASSUME POInv, NEW h \in Hosts, NEW u \in Users, NEW b \in Boxes, Receive(<<h, u>>, b)
  PROVE  ControlInv'
<1>1. POType'
  <2>1. <<h, u>> \in Threads /\ boxes[h][b] \in Seq(Packet) /\ boxes[h][b] # <<>>
        /\ got[<<h, u>>] \in Seq(Packet)
    BY DEF Receive, MailBoxGet, POInv, POType, Threads
  <2>2. Head(boxes[h][b]) \in Packet /\ Tail(boxes[h][b]) \in Seq(Packet)
    BY <2>1, TailFacts
  <2>3. Append(got[<<h, u>>], Head(boxes[h][b])) \in Seq(Packet)
    BY <2>1, <2>2, AppendFacts
  <2> QED
    BY <2>1, <2>2, <2>3 DEF Receive, MailBoxGet, POInv, POType, netVars, outVars
<1>2. OutInv'
  BY DEF Receive, POInv, OutInv
<1>3. WorkerInv'
  BY DEF Receive, POInv, WorkerInv, netVars
<1>4. LockInv'
  BY DEF Receive, POInv, LockInv, Senders, outVars
<1>5. SentInv'
  BY DEF Receive, POInv, SentInv, Waiters, netVars, outVars
<1> QED
  BY <1>1, <1>2, <1>3, <1>4, <1>5 DEF ControlInv

\* A thread that calls Send makes its next packet.
LEMMA SendCallControl ==
  ASSUME POInv, NEW h \in Hosts, NEW u \in Users, NEW to \in Hosts, NEW box \in Boxes, NEW reply \in Boxes, 
         SendCall(<<h, u>>, to, box, reply)
  PROVE  ControlInv'
<1>1. <<h, u>> \in Threads
  BY DEF Threads
<1>2. POType'
  BY <1>1 DEF SendCall, POInv, POType, LockInv, netVars, inVars, outVars, threadVars, Packet
<1>3. /\ Senders(h)' = Senders(h) \ {u} /\ Waiters(h)' = Waiters(h) \ {u} /\ Waiters(h) \subseteq Senders(h)
      /\ \A k \in Hosts \ {h} : Senders(k)' = Senders(k) /\ Waiters(k)' = Waiters(k)
      /\ u \notin Senders(h)
  <2>1. pc' = [pc EXCEPT ![<<h, u>>] = "lock"] /\ pc[<<h, u>>] = "run"
    BY DEF SendCall
  <2>2. POType
    BY DEF POInv
  <2> QED
    BY <2>1, <2>2, ThreadMoves DEF Inside, Senders, Waiters
<1>4. OutInv'
  BY <1>1, ZenonT(60) DEF SendCall, POInv, POType, OutInv, netVars, inVars, outVars, threadVars, Packet
<1>5. WorkerInv'
  BY DEF SendCall, POInv, WorkerInv, netVars, inVars
<1>6. LockInv'
  BY <1>3 DEF SendCall, POInv, LockInv, outVars
<1>7. SentInv'
  BY <1>3 DEF SendCall, POInv, SentInv, netVars, outVars
<1> QED
  BY <1>2, <1>4, <1>5, <1>6, <1>7 DEF ControlInv

\* sendLock lets one thread in.
LEMMA SendAcquireControl ==
  ASSUME POInv, NEW h \in Hosts, NEW u \in Users, SendAcquire(<<h, u>>)
  PROVE  ControlInv'
<1>1. <<h, u>> \in Threads
  BY DEF Threads
<1>2. POType'
  BY <1>1 DEF SendAcquire, POInv, POType, LockInv, netVars, inVars, outVars, threadVars
<1>3. /\ Senders(h)' = Senders(h) \cup {u} /\ Waiters(h)' = Waiters(h) \ {u} /\ Waiters(h) \subseteq Senders(h)
      /\ \A k \in Hosts \ {h} : Senders(k)' = Senders(k) /\ Waiters(k)' = Waiters(k)
      /\ u \notin Senders(h)
  <2>1. pc' = [pc EXCEPT ![<<h, u>>] = "send"] /\ pc[<<h, u>>] = "lock"
    BY DEF SendAcquire
  <2>2. POType
    BY DEF POInv
  <2> QED
    <3>1. /\ \A k \in Hosts \ {h} : Senders(k)' = Senders(k) /\ Waiters(k)' = Waiters(k)
          /\ Senders(h)' = IF "send" \in Inside THEN Senders(h) \cup {u} ELSE Senders(h) \ {u}
          /\ Waiters(h)' = IF "send" = "wait" THEN Waiters(h) \cup {u} ELSE Waiters(h) \ {u}
          /\ Waiters(h) \subseteq Senders(h)
      BY <2>1, <2>2, ThreadMoves
    <3> QED
      BY <2>1, <3>1 DEF Inside, Senders
<1>4. OutInv'
  BY <1>1 DEF SendAcquire, POInv, POType, OutInv, netVars, inVars, outVars, threadVars
<1>5. WorkerInv'
  BY DEF SendAcquire, POInv, WorkerInv, netVars, inVars
<1>6. LockInv'
  <2>1. /\ sendLock[h] = 1 /\ \A k \in Hosts : sendLock'[k] = IF k = h THEN 0 ELSE sendLock[k]
    BY DEF SendAcquire, POInv, POType
  <2> QED
    BY <1>3, <2>1 DEF POInv, LockInv
<1>7. SentInv'
  BY <1>3 DEF SendAcquire, POInv, SentInv, netVars, outVars
<1> QED
  BY <1>2, <1>4, <1>5, <1>6, <1>7 DEF ControlInv

\* The interrupt of the packet is scheduled.
LEMMA SendPacketControl ==
  ASSUME POInv, NEW h \in Hosts, NEW u \in Users, SendPacket(<<h, u>>)
  PROVE  ControlInv'
<1>1. <<h, u>> \in Threads
  BY DEF Threads
<1>2. POType'
  <2>1. out[<<h, u>>] \in Packet /\ out[<<h, u>>].to \in Hosts
    BY <1>1 DEF SendPacket, POInv, OutInv, Packet
  <2>2. Append(socket[out[<<h, u>>].to], out[<<h, u>>]) \in Seq(Packet)
    BY <2>1, AppendFacts DEF POInv, POType
  <2>3. socket' \in [Hosts -> Seq(Packet)] /\ lost' \subseteq Packet
    <3>1. CASE socket' = socket /\ lost' = lost \cup {out[<<h, u>>]}
      BY <2>1, <3>1 DEF POInv, POType
    <3>2. CASE /\ socket' = [socket EXCEPT ![out[<<h, u>>].to] = Append(socket[out[<<h, u>>].to], out[<<h, u>>])]
               /\ lost' = lost
      BY <2>1, <2>2, <3>2 DEF POInv, POType
    <3> QED
      BY <3>1, <3>2 DEF SendPacket, NetworkOutputSend, SendToSocket, Drop
  <2>4. sent' \in [Threads -> Nat]
    BY <1>1 DEF SendPacket, POInv, POType
  <2>5. pc' \in [Threads -> {"run", "lock", "send", "wait", "release"}]
    BY <1>1 DEF SendPacket, POInv, POType
  <2>6. sendInt' \in [Hosts -> BOOLEAN]
    BY <1>1 DEF SendPacket, NetworkOutputSend, SendToSocket, Drop, POInv, POType
  <2> QED
    BY <2>3, <2>4, <2>5, <2>6 DEF SendPacket, POInv, POType, inVars, outVars
<1>3. /\ Senders(h)' = Senders(h) \cup {u} /\ Waiters(h)' = Waiters(h) \cup {u} /\ Waiters(h) \subseteq Senders(h)
      /\ \A k \in Hosts \ {h} : Senders(k)' = Senders(k) /\ Waiters(k)' = Waiters(k)
      /\ u \in Senders(h) /\ u \notin Waiters(h)
  <2>1. pc' = [pc EXCEPT ![<<h, u>>] = "wait"] /\ pc[<<h, u>>] = "send"
    BY DEF SendPacket
  <2>2. POType
    BY DEF POInv
  <2> QED
    BY <2>1, <2>2, ThreadMoves DEF Inside, Senders, Waiters
<1>4. OutInv'
  BY <1>1 DEF SendPacket, POInv, POType, OutInv, netVars, inVars, outVars, threadVars, NetworkOutputSend, SendToSocket, Drop
<1>5. WorkerInv'
  BY DEF SendPacket, POInv, WorkerInv, netVars, inVars
<1>6. LockInv'
  BY <1>3 DEF SendPacket, POInv, LockInv, outVars
<1>7. SentInv'
  <2>1. Waiters(h) = {}
    BY <1>3 DEF POInv, LockInv
  <2>2. /\ UNCHANGED messageSent
        /\ \A k \in Hosts : sendInt'[k] = IF k = h THEN TRUE ELSE sendInt[k]
    BY DEF SendPacket, NetworkOutputSend, SendToSocket, Drop, POInv, POType, outVars
  <2> QED
    BY <1>3, <2>1, <2>2 DEF POInv, SentInv
<1> QED
  BY <1>2, <1>4, <1>5, <1>6, <1>7 DEF ControlInv

\* The thread takes the unit of its own interrupt.
LEMMA SendWokenControl ==
  ASSUME POInv, NEW h \in Hosts, NEW u \in Users, SendWoken(<<h, u>>)
  PROVE  ControlInv'
<1>1. <<h, u>> \in Threads
  BY DEF Threads
<1>2. POType'
  BY <1>1 DEF SendWoken, POInv, POType, LockInv, netVars, inVars, outVars, threadVars
<1>3. /\ Senders(h)' = Senders(h) \cup {u} /\ Waiters(h)' = Waiters(h) \ {u} /\ Waiters(h) \subseteq Senders(h)
      /\ \A k \in Hosts \ {h} : Senders(k)' = Senders(k) /\ Waiters(k)' = Waiters(k)
      /\ u \in Waiters(h)
  <2>1. pc' = [pc EXCEPT ![<<h, u>>] = "release"] /\ pc[<<h, u>>] = "wait"
    BY DEF SendWoken
  <2>2. POType
    BY DEF POInv
  <2> QED
    BY <2>1, <2>2, ThreadMoves, ZenonT(60) DEF Inside, Senders, Waiters
<1>4. OutInv'
  BY <1>1 DEF SendWoken, POInv, POType, OutInv, netVars, inVars, outVars, threadVars
<1>5. WorkerInv'
  BY DEF SendWoken, POInv, WorkerInv, netVars, inVars
<1>6. LockInv'
  BY <1>3 DEF SendWoken, POInv, LockInv, outVars
<1>7. SentInv'
  <2>1. /\ messageSent[h] = 1 /\ ~sendInt[h] /\ UNCHANGED sendInt
        /\ \A k \in Hosts : messageSent'[k] = IF k = h THEN 0 ELSE messageSent[k]
    BY DEF SendWoken, POInv, POType, SentInv, netVars
  <2>2. Waiters(h)' = {}
    BY <1>3 DEF POInv, LockInv
  <2> QED
    BY <1>3, <2>1, <2>2 DEF POInv, SentInv
<1> QED
  BY <1>2, <1>4, <1>5, <1>6, <1>7 DEF ControlInv

\* The thread leaves, and sendLock is free.
LEMMA SendReleaseControl ==
  ASSUME POInv, NEW h \in Hosts, NEW u \in Users, SendRelease(<<h, u>>)
  PROVE  ControlInv'
<1>1. <<h, u>> \in Threads
  BY DEF Threads
<1>2. POType'
  <2>1. sendLock[h] = 0
    BY <1>1 DEF SendRelease, POInv, LockInv, Senders, Inside
  <2> QED
    BY <1>1, <2>1 DEF SendRelease, POInv, POType, netVars, inVars
<1>3. /\ Senders(h)' = Senders(h) \ {u} /\ Waiters(h)' = Waiters(h) \ {u} /\ Waiters(h) \subseteq Senders(h)
      /\ \A k \in Hosts \ {h} : Senders(k)' = Senders(k) /\ Waiters(k)' = Waiters(k)
      /\ u \in Senders(h) /\ u \notin Waiters(h)
  <2>1. pc' = [pc EXCEPT ![<<h, u>>] = "run"] /\ pc[<<h, u>>] = "release"
    BY DEF SendRelease
  <2>2. POType
    BY DEF POInv
  <2> QED
    BY <2>1, <2>2, ThreadMoves DEF Inside, Senders, Waiters
<1>4. OutInv'
  BY <1>1 DEF SendRelease, POInv, POType, OutInv, netVars, inVars, outVars, threadVars
<1>5. WorkerInv'
  BY DEF SendRelease, POInv, WorkerInv, netVars, inVars
<1>6. LockInv'
  <2>1. sendLock[h] = 0 /\ Senders(h)' = {}
    BY <1>3 DEF POInv, LockInv
  <2>2. \A k \in Hosts : sendLock'[k] = IF k = h THEN 1 ELSE sendLock[k]
    BY <2>1 DEF SendRelease, POInv, POType
  <2> QED
    BY <1>3, <2>1, <2>2 DEF POInv, LockInv
<1>7. SentInv'
  BY <1>3 DEF SendRelease, POInv, SentInv, netVars, outVars
<1> QED
  BY <1>2, <1>4, <1>5, <1>6, <1>7 DEF ControlInv

-----------------------------------------------------------------------------
(* The post office keeps its invariant.                                    *)

\* There is no mail at the start.
LEMMA POInitInv == POInit => POInv
<1> SUFFICES ASSUME POInit PROVE POInv
  OBVIOUS
<1> USE DEF POInit, PostOfficeInputInit, PostOfficeOutputInit, NetworkInputInit, NetworkOutputInit,
          MailBoxInit
<1>1. POType
  BY DEF POType
<1>2. \A h \in Hosts : /\ Opt(buffer[h]) = {} /\ Opt(inbox[h]) = {} /\ InSeq(socket[h]) = {}
                       /\ \A b \in Boxes : InSeq(boxes[h][b]) = {}
  BY DEF Opt, InSeq
<1>3. \A h \in Hosts : OnWay(h) = {}
  BY <1>1, <1>2, OnWayFacts DEF Boxed
<1>4. \A h \in Hosts : Received(h) = {}
  <2>1. \A h \in Hosts, u \in Users : <<h, u>> \in Threads
    BY DEF Threads
  <2>2. \A h \in Hosts, u \in Users : got[<<h, u>>] = <<>>
    BY <2>1
  <2>3. InSeq(<<>>) = {}
    BY DEF InSeq
  <2> QED
    BY <2>2, <2>3 DEF Received
<1>5. AllMail = {}
  BY <1>3, <1>4 DEF AllMail
<1>6. MailInv
  BY <1>1, <1>2, <1>3, <1>4, <1>5 DEF MailInv, NumberInv, PlaceInv
<1>7. OrderInv
  BY <1>2, <1>3, <1>4 DEF OrderInv, OrderedAt, AllBefore, Ordered
<1>8. LockInv /\ SentInv
  <2>1. \A h \in Hosts, u \in Users : pc[<<h, u>>] = "run"
    BY DEF Threads
  <2>2. \A h \in Hosts : Senders(h) = {} /\ Waiters(h) = {}
    BY <2>1 DEF Senders, Waiters, Inside
  <2> QED
    BY <2>2 DEF LockInv, SentInv
<1>9. OutInv /\ WorkerInv
  BY DEF OutInv, WorkerInv
<1> QED
  BY <1>1, <1>6, <1>7, <1>8, <1>9 DEF POInv

\* The interrupts and the postal worker only move packets on.
LEMMA MachineStepInv ==
  ASSUME POInv, NEW h \in Hosts, Interrupt(h) \/ Worker(h)
  PROVE  POInv' /\ AllMail' = AllMail /\ UNCHANGED threadVars
<1>1. ControlInv' /\ UNCHANGED threadVars
  BY NetworkRecvControl, NetworkSendDoneControl, WorkerWokenControl, WorkerReceiveControl,
     WorkerPutControl
     DEF Interrupt, Worker, NetworkRecv, NetworkSendDone, WorkerWoken, WorkerReceive, WorkerPut
<1>2. POType /\ POType' /\ WorkerInv /\ MailInv /\ OrderInv
  BY <1>1 DEF POInv, ControlInv
<1>3. NetworkSendDone(h) \/ WorkerWoken(h) => UNCHANGED mailVars
  BY DEF NetworkSendDone, WorkerWoken, mailVars, netVars, inVars, threadVars
<1>4. MailInv' /\ OrderInv' /\ AllMail' = AllMail
  BY <1>2, <1>3, NothingMoved, NetworkRecvMoves, WorkerReceiveMoves, WorkerPutMoves
     DEF Interrupt, Worker
<1> QED
  BY <1>1, <1>4 DEF POInv, ControlInv

\* Acquire and Release of sendLock and the P of messageSent move no packet.
LEMMA WaitStepInv ==
  ASSUME POInv, NEW h \in Hosts, NEW u \in Users,
         SendAcquire(<<h, u>>) \/ SendWoken(<<h, u>>) \/ SendRelease(<<h, u>>)
  PROVE  POInv' /\ AllMail' = AllMail /\ UNCHANGED <<got, sent>>
<1>1. ControlInv' /\ UNCHANGED mailVars
  BY SendAcquireControl, SendWokenControl, SendReleaseControl
     DEF SendAcquire, SendWoken, SendRelease, mailVars, netVars, inVars
<1>2. MailInv' /\ OrderInv' /\ AllMail' = AllMail
  BY <1>1, NothingMoved DEF POInv
<1> QED
  BY <1>1, <1>2 DEF POInv, ControlInv, mailVars

\* Neither does the call of Send.
LEMMA SendCallInv ==
  ASSUME POInv, NEW h \in Hosts, NEW u \in Users, NEW to \in Hosts, NEW box \in Boxes,
         NEW reply \in Boxes, SendCall(<<h, u>>, to, box, reply)
  PROVE  POInv' /\ AllMail' = AllMail /\ UNCHANGED <<got, sent>>
<1>1. ControlInv' /\ UNCHANGED mailVars
  BY SendCallControl DEF SendCall, mailVars, netVars, inVars
<1>2. MailInv' /\ OrderInv' /\ AllMail' = AllMail
  BY <1>1, NothingMoved DEF POInv
<1> QED
  BY <1>1, <1>2 DEF POInv, ControlInv, mailVars

\* NetworkOutput::Send adds the thread's packet to the mail.
LEMMA SendPacketInv ==
  ASSUME POInv, NEW h \in Hosts, NEW u \in Users, SendPacket(<<h, u>>)
  PROVE  POInv' /\ AllMail' = AllMail \cup {out[<<h, u>>]}
<1>1. ControlInv'
  BY SendPacketControl
<1>2. <<h, u>> \in Threads /\ POType /\ POType' /\ OutInv /\ MailInv /\ OrderInv
  BY <1>1 DEF POInv, ControlInv, Threads
<1>3. MailInv' /\ OrderInv' /\ AllMail' = AllMail \cup {out[<<h, u>>]}
  BY <1>2, SendPacketMoves
<1> QED
  BY <1>1, <1>3 DEF POInv, ControlInv

\* What Receive hands to a thread is mail for its machine and the box.
LEMMA ReceiveInv ==
  ASSUME POInv, NEW h \in Hosts, NEW u \in Users, NEW b \in Boxes, Receive(<<h, u>>, b)
  PROVE  /\ POInv' /\ AllMail' = AllMail
         /\ \E x \in AllMail : /\ x.to = h /\ x.box = b
                               /\ got' = [got EXCEPT ![<<h, u>>] = Append(got[<<h, u>>], x)]
<1>1. ControlInv'
  BY ReceiveControl
<1>2. POType /\ POType' /\ MailInv /\ OrderInv
  BY <1>1 DEF POInv, ControlInv
<1>3. /\ MailInv' /\ OrderInv' /\ AllMail' = AllMail
      /\ Head(boxes[h][b]) \in AllMail /\ Head(boxes[h][b]).to = h /\ Head(boxes[h][b]).box = b
      /\ got' = [got EXCEPT ![<<h, u>>] = Append(got[<<h, u>>], Head(boxes[h][b]))]
  BY <1>2, ReceiveMoves
<1> QED
  BY <1>1, <1>3 DEF POInv, ControlInv

-----------------------------------------------------------------------------
(* The test keeps its invariant.                                           *)

\* The other machine.
LEMMA FarHostFacts ==
  ASSUME NEW h \in Hosts
  PROVE  FarHost(h) \in Hosts /\ FarHost(h) # h /\ \A f \in Hosts : f # h => f = FarHost(h)
<1>1. PICK a, b \in Hosts : a # b /\ Hosts = {a, b}
  BY NetworkTestAssumption
<1>2. \E f \in Hosts : f # h
  BY <1>1
<1>3. FarHost(h) \in Hosts /\ FarHost(h) # h
  BY <1>2 DEF FarHost
<1> QED
  BY <1>1, <1>3

\* The boxes that the test uses are there, and its thread.
LEMMA TestFacts ==
  /\ 0 \in Boxes /\ 1 \in Boxes /\ 2 \in Boxes
  /\ "test" \in Users /\ "chat" \in Users
  /\ \A h \in Hosts : Main(h) \in Threads /\ Main(h) = <<h, "test">> /\ Chat(h) = <<h, "chat">>
BY NetworkTestAssumption, PostOfficeAssumption DEF Boxes, Main, Chat, Threads

\* A machine whose test has not moved on is where it was.
LEMMA StepKept ==
  ASSUME TestInv, NEW h \in Hosts, \A k \in Hosts : step'[k] >= step[k] /\ step'[k] \in 1..5,
         POType, got'[Main(h)] \in Seq(Packet),
         step'[h] = step[h], got'[Main(h)] = got[Main(h)],
         sent'[Main(h)] = sent[Main(h)], pc'[Main(h)] = pc[Main(h)]
  PROVE  StepAt(h)'
<1>1. StepAt(h)
  BY DEF TestInv, StepInv
<1>2. step[h] = 5 => Ack(got[Main(h)][2])'
  <2> SUFFICES ASSUME step[h] = 5 PROVE Ack(got[Main(h)][2])'
    OBVIOUS
  <2> PICK g : g = got[Main(h)]
    OBVIOUS
  <2>1. Len(g) = 2 /\ Ack(g[2]) /\ g \in Seq(Packet)
    BY <1>1 DEF StepAt
  <2>2. g[2] \in Packet
    BY <2>1
  <2> PICK f : f = g[2].from
    OBVIOUS
  <2>3. f \in Hosts /\ step[f] >= 4
    BY <2>1, <2>2 DEF Ack, Packet
  <2>4. step'[f] >= 4
    BY <2>3 DEF TestInv
  <2> QED
    BY <2>1, <2>4 DEF Ack
<1> QED
  BY <1>1, <1>2 DEF StepAt

\* A packet of the test.
Known(p) == Hello(p) \/ Ack(p) \/ p.box = 2

\* What was a packet of the test is one, for steps never go back.
LEMMA KnownKept ==
  ASSUME TestInv, \A k \in Hosts : step'[k] >= step[k] /\ step'[k] \in 1..5,
         NEW p \in Packet, Known(p)
  PROVE  Known(p)'
<1>1. p.from \in Hosts
  BY DEF Packet
<1>2. step[p.from] >= 4 => step'[p.from] >= 4
  BY <1>1 DEF TestInv
<1> QED
  BY <1>2 DEF Known, Hello, Ack

\* So the mail stays what it was, and so do the packets about to be sent.
LEMMA PacketKept ==
  ASSUME POInv, POInv', TestInv, \A k \in Hosts : step'[k] >= step[k] /\ step'[k] \in 1..5,
         \A p \in AllMail' : p \in AllMail \/ \E t \in Threads : pc[t] = "send" /\ p = out[t],
         \A t \in Threads : pc'[t] \in {"lock", "send"} =>
           Known(out[t])' \/ (pc[t] \in {"lock", "send"} /\ out'[t] = out[t])
  PROVE  PacketInv'
<1>1. ASSUME NEW p \in AllMail' PROVE Known(p)'
  <2>1. Known(p)
    BY DEF TestInv, PacketInv, Known
  <2>2. p \in Packet
    BY DEF POInv, MailInv, NumberInv
  <2> QED
    BY <2>1, <2>2, KnownKept
<1>2. ASSUME NEW t \in Threads, pc'[t] \in {"lock", "send"} PROVE Known(out[t])'
  <2>1. CASE pc[t] \in {"lock", "send"} /\ out'[t] = out[t]
    <3>1. Known(out[t]) /\ out[t] \in Packet
      BY <2>1 DEF TestInv, PacketInv, Known, POInv, OutInv
    <3> PICK p : p = out[t]
      OBVIOUS
    <3>2. Known(p)'
      BY <3>1, KnownKept
    <3> QED
      BY <2>1, <3>2 DEF Known, Hello, Ack
  <2> QED
    BY <1>2, <2>1
<1> QED
  BY <1>1, <1>2 DEF PacketInv, Known

\* A thread that is inside Send goes on: StepAt counts what it has sent.
LEMMA SendingTest ==
  ASSUME IInv, NEW h \in Hosts, NEW u \in Users,
         SendAcquire(<<h, u>>) \/ Sending(<<h, u>>), UNCHANGED step
  PROVE  IInv'
<1> PICK t : t = <<h, u>>
  OBVIOUS
<1>1. /\ t \in Threads /\ POInv /\ TestInv /\ POType
  BY DEF IInv, POInv, Threads
<1>2. CASE SendPacket(t)
  <2>1. POInv' /\ AllMail' = AllMail \cup {out[t]}
    BY <1>1, <1>2, SendPacketInv
  <2>2. /\ pc[t] = "send" /\ UNCHANGED <<out, got>>
        /\ sent' = [sent EXCEPT ![t] = @ + 1] /\ pc' = [pc EXCEPT ![t] = "wait"]
    BY <1>2 DEF SendPacket
  <2>3. \A k \in Hosts : step'[k] >= step[k] /\ step'[k] \in 1..5
    BY <1>1 DEF TestInv
  <2>4. PacketInv'
    <3>1. \A p \in AllMail' : p \in AllMail \/ \E r \in Threads : pc[r] = "send" /\ p = out[r]
      BY <1>1, <2>1, <2>2
    <3>2. \A r \in Threads : pc'[r] \in {"lock", "send"} => pc[r] \in {"lock", "send"} /\ out'[r] = out[r]
      BY <1>1, <2>2 DEF POType
    <3> QED
      BY <1>1, <2>1, <2>3, <3>1, <3>2, PacketKept
  <2>5. ASSUME NEW k \in Hosts PROVE StepAt(k)'
    <3>1. Main(k) \in Threads /\ got[Main(k)] \in Seq(Packet) /\ got'[Main(k)] = got[Main(k)]
      BY <1>1, <2>2, TestFacts DEF POType
    <3>2. CASE t # Main(k)
      <4>1. sent'[Main(k)] = sent[Main(k)] /\ pc'[Main(k)] = pc[Main(k)]
        BY <1>1, <2>2, <3>1, <3>2 DEF POType
      <4> QED
        BY <1>1, <2>3, <3>1, <4>1, StepKept
    <3>3. CASE t = Main(k)
      <4>1. sent'[Main(k)] = sent[Main(k)] + 1 /\ pc'[Main(k)] = "wait" /\ pc[Main(k)] = "send"
            /\ sent[Main(k)] \in Nat
        BY <1>1, <2>2, <3>3 DEF POType
      <4>2. StepAt(k) /\ step[k] \in 1..5
        BY <1>1 DEF TestInv, StepInv
      <4> QED
        BY <2>2, <4>1, <4>2 DEF StepAt, Ack
    <3> QED
      BY <3>2, <3>3
  <2> QED
    BY <1>1, <2>1, <2>4, <2>5 DEF IInv, TestInv, StepInv
<1>3. CASE SendAcquire(t) \/ SendWoken(t) \/ SendRelease(t)
  <2>1. POInv' /\ AllMail' = AllMail /\ UNCHANGED <<got, sent>>
    BY <1>1, <1>3, WaitStepInv
  <2>2. /\ \A r \in Threads \ {t} : pc'[r] = pc[r] /\ out'[r] = out[r]
        /\ \/ pc[t] = "lock" /\ pc'[t] = "send" /\ out'[t] = out[t]
           \/ pc[t] = "wait" /\ pc'[t] = "release"
           \/ pc[t] = "release" /\ pc'[t] = "run"
    BY <1>1, <1>3 DEF SendAcquire, SendWoken, SendRelease, POType
  <2>3. \A k \in Hosts : step'[k] >= step[k] /\ step'[k] \in 1..5
    BY <1>1 DEF TestInv
  <2>4. PacketInv'
    <3>1. \A p \in AllMail' : p \in AllMail \/ \E r \in Threads : pc[r] = "send" /\ p = out[r]
      BY <2>1
    <3>2. \A r \in Threads : pc'[r] \in {"lock", "send"} => pc[r] \in {"lock", "send"} /\ out'[r] = out[r]
      BY <1>1, <2>2
    <3> QED
      BY <1>1, <2>1, <2>3, <3>1, <3>2, PacketKept
  <2>5. ASSUME NEW k \in Hosts PROVE StepAt(k)'
    <3>1. Main(k) \in Threads /\ got[Main(k)] \in Seq(Packet) /\ UNCHANGED <<got, sent>>
      BY <1>1, <2>1, TestFacts DEF POType
    <3>2. CASE t # Main(k)
      BY <1>1, <2>2, <2>3, <3>1, <3>2, StepKept
    <3>3. CASE t = Main(k)
      <4>1. StepAt(k) /\ step[k] \in 1..5
        BY <1>1 DEF TestInv, StepInv
      <4> QED
        BY <2>2, <3>1, <3>3, <4>1 DEF StepAt, Ack
    <3> QED
      BY <3>2, <3>3
  <2> QED
    BY <1>1, <2>1, <2>4, <2>5 DEF IInv, TestInv, StepInv
<1> QED
  BY <1>2, <1>3 DEF Sending

\* The interrupts and the postal worker do not touch the threads.
LEMMA MachineTest ==
  ASSUME IInv, NEW h \in Hosts, Interrupt(h) \/ Worker(h), UNCHANGED step
  PROVE  IInv'
<1>1. POInv' /\ AllMail' = AllMail /\ UNCHANGED <<pc, out, got, sent>>
  BY MachineStepInv DEF IInv, threadVars
<1>2. POInv /\ POType /\ TestInv
  BY DEF IInv, POInv
<1>3. \A k \in Hosts : step'[k] >= step[k] /\ step'[k] \in 1..5
  BY <1>2 DEF TestInv
<1>4. PacketInv'
  BY <1>1, <1>2, <1>3, PacketKept
<1>5. ASSUME NEW k \in Hosts PROVE StepAt(k)'
  <2>1. got[Main(k)] \in Seq(Packet)
    BY <1>2, TestFacts DEF POType
  <2> QED
    BY <1>1, <1>2, <1>3, <2>1, StepKept
<1> QED
  BY <1>1, <1>2, <1>4, <1>5 DEF IInv, TestInv, StepInv

\* A call of Send with a packet of the test, or from another thread.
LEMMA SendCallTest ==
  ASSUME IInv, NEW h \in Hosts, NEW u \in Users, NEW to \in Hosts, NEW box \in Boxes,
         NEW reply \in Boxes, SendCall(<<h, u>>, to, box, reply),
         \A k \in Hosts : step'[k] >= step[k], step' \in [Hosts -> 1..5],
         \A k \in Hosts : step'[k] = step[k] \/ (k = h /\ u = "test"),
         POInv' => Known(out[<<h, u>>])', u = "test" => StepAt(h)'
  PROVE  IInv'
<1> PICK t : t = <<h, u>>
  OBVIOUS
<1>1. POInv' /\ AllMail' = AllMail /\ UNCHANGED <<got, sent>>
  BY SendCallInv DEF IInv
<1>2. POInv /\ POType /\ TestInv /\ t \in Threads
  BY DEF IInv, POInv, Threads
<1>3. \A r \in Threads \ {t} : pc'[r] = pc[r] /\ out'[r] = out[r]
  BY <1>2 DEF SendCall, POType
<1>4. \A k \in Hosts : step'[k] >= step[k] /\ step'[k] \in 1..5
  OBVIOUS
<1>5. PacketInv'
  <2>1. ASSUME NEW r \in Threads, pc'[r] \in {"lock", "send"}
        PROVE  Known(out[r])' \/ (pc[r] \in {"lock", "send"} /\ out'[r] = out[r])
    <3>1. CASE r = t
      BY <1>1, <3>1 DEF Known, Hello, Ack
    <3>2. CASE r # t
      BY <1>3, <2>1, <3>2
    <3> QED
      BY <3>1, <3>2
  <2> QED
    BY <1>1, <1>2, <1>4, <2>1, PacketKept
<1>6. ASSUME NEW k \in Hosts PROVE StepAt(k)'
  <2>1. Main(k) \in Threads /\ Main(k) = <<k, "test">> /\ got[Main(k)] \in Seq(Packet)
    BY <1>2, TestFacts DEF POType
  <2>2. CASE t # Main(k)
    <3>1. pc'[Main(k)] = pc[Main(k)]
      BY <1>3, <2>1, <2>2
    <3>2. step'[k] = step[k]
      BY <2>1, <2>2
    <3> QED
      BY <1>1, <1>2, <1>4, <2>1, <3>1, <3>2, StepKept
  <2>3. CASE t = Main(k)
    <3>1. h = k /\ u = "test"
      BY <2>1, <2>3
    <3> QED
      BY <3>1
  <2> QED
    BY <2>2, <2>3
<1> QED
  BY <1>1, <1>5, <1>6 DEF IInv, TestInv, StepInv

\* A thread other than the test's takes mail from a box.
LEMMA ChatReceiveTest ==
  ASSUME IInv, NEW h \in Hosts, ChatReceive(h)
  PROVE  IInv'
<1>1. Receive(<<h, "chat">>, 2) /\ UNCHANGED step
  BY TestFacts DEF ChatReceive
<1>2. POInv /\ POType /\ TestInv
  BY DEF IInv, POInv
<1>3. PICK x \in AllMail : /\ POInv' /\ AllMail' = AllMail
                           /\ got' = [got EXCEPT ![<<h, "chat">>] = Append(got[<<h, "chat">>], x)]
  BY <1>1, <1>2, ReceiveInv, TestFacts
<1>4. UNCHANGED <<pc, out, sent>>
  BY <1>1 DEF Receive
<1>5. \A k \in Hosts : step'[k] >= step[k] /\ step'[k] \in 1..5
  BY <1>1, <1>2 DEF TestInv
<1>6. PacketInv'
  BY <1>2, <1>3, <1>4, <1>5, PacketKept
<1>7. ASSUME NEW k \in Hosts PROVE StepAt(k)'
  <2>1. Main(k) \in Threads /\ Main(k) # <<h, "chat">> /\ got[Main(k)] \in Seq(Packet)
    BY <1>2, TestFacts DEF POType
  <2>2. got'[Main(k)] = got[Main(k)]
    BY <1>2, <1>3, <2>1 DEF POType
  <2> QED
    BY <1>1, <1>2, <1>4, <1>5, <2>1, <2>2, StepKept
<1> QED
  BY <1>1, <1>2, <1>3, <1>6, <1>7 DEF IInv, TestInv, StepInv

\* The test takes mail from a box and goes to its next step.
LEMMA TestReceive ==
  ASSUME IInv, NEW h \in Hosts, NEW b \in Boxes, NEW n \in {2, 4}, At(h, n), Receive(Main(h), b),
         b = IF n = 2 THEN 0 ELSE 1
  PROVE  IInv'
<1>1. POInv /\ POType /\ TestInv /\ step \in [Hosts -> 1..5]
  BY DEF IInv, POInv, TestInv
<1>2. Main(h) \in Threads /\ Main(h) = <<h, "test">> /\ "test" \in Users
  BY TestFacts
<1>3. PICK x \in AllMail : /\ POInv' /\ AllMail' = AllMail /\ x.to = h /\ x.box = b
                           /\ got' = [got EXCEPT ![Main(h)] = Append(got[Main(h)], x)]
  BY <1>1, <1>2, ReceiveInv
<1>4. UNCHANGED <<pc, out, sent>> /\ pc[Main(h)] = "run"
  BY DEF Receive
<1>5. /\ step[h] = n /\ step'[h] = n + 1 /\ \A k \in Hosts \ {h} : step'[k] = step[k]
      /\ step' \in [Hosts -> 1..5]
  BY <1>1 DEF At
<1>6. \A k \in Hosts : step'[k] >= step[k] /\ step'[k] \in 1..5
  BY <1>1, <1>5
<1>7. PacketInv'
  BY <1>1, <1>3, <1>4, <1>6, PacketKept
<1>8. x \in Packet /\ x.from \in Hosts /\ step[x.from] \in 1..5 /\ step'[x.from] \in 1..5
  BY <1>1, <1>5 DEF POInv, MailInv, NumberInv, Packet
<1>9. IF n = 2 THEN Hello(x) ELSE Ack(x)
  BY <1>3 DEF IInv, TestInv, PacketInv, Hello, Ack
<1>10. StepAt(h)'
  <2> PICK g : g = got[Main(h)]
    OBVIOUS
  <2>1. g \in Seq(Packet) /\ got'[Main(h)] = Append(g, x)
    BY <1>1, <1>2, <1>3 DEF POType
  <2>2. StepAt(h)
    BY <1>1 DEF TestInv, StepInv
  <2>3. Len(g) = IF n = 2 THEN 0 ELSE 1
    BY <1>5, <2>2 DEF StepAt
  <2>4. /\ Len(Append(g, x)) = Len(g) + 1 /\ Append(g, x)[Len(g) + 1] = x
        /\ n = 4 => Append(g, x)[1] = g[1]
    BY <1>8, <2>1, <2>3
  <2>5. CASE n = 2
    BY <1>3, <1>4, <1>5, <1>9, <2>1, <2>2, <2>3, <2>4, <2>5 DEF StepAt, Hello
  <2>6. CASE n = 4
    <3>1. x.from # h /\ Ack(x)'
      BY <1>3, <1>6, <1>8, <1>9, <2>6 DEF Ack
    <3> PICK a : a = Append(g, x)
      OBVIOUS
    <3>2. a[2] = x /\ a[1] = g[1] /\ Len(a) = 2
      BY <2>3, <2>4, <2>6
    <3>3. got'[Main(h)] = a /\ step'[h] = 5 /\ g[1].from # h /\ g[1].reply = 1
      BY <1>5, <2>1, <2>2, <2>6 DEF StepAt
    <3> QED
      BY <3>1, <3>2, <3>3 DEF StepAt, Ack
  <2> QED
    BY <2>5, <2>6
<1>11. ASSUME NEW k \in Hosts \ {h} PROVE StepAt(k)'
  <2>1. Main(k) \in Threads /\ Main(k) # Main(h) /\ got[Main(k)] \in Seq(Packet)
    BY <1>1, <1>2, TestFacts DEF POType
  <2>2. got'[Main(k)] = got[Main(k)]
    BY <1>1, <1>3, <2>1 DEF POType
  <2> QED
    BY <1>1, <1>4, <1>5, <1>6, <2>1, <2>2, StepKept
<1> QED
  BY <1>3, <1>5, <1>7, <1>10, <1>11 DEF IInv, TestInv, StepInv

\* The test's thread makes a message, and goes to its next step.
LEMMA TestSend ==
  ASSUME IInv, NEW h \in Hosts, NEW n \in {1, 3}, At(h, n), NEW to \in Hosts, to # h,
         SendCall(Main(h), to, IF n = 1 THEN 0 ELSE 1, 1)
  PROVE  IInv'
<1> PICK box : box = IF n = 1 THEN 0 ELSE 1
  OBVIOUS
<1>1. POType /\ StepAt(h) /\ step \in [Hosts -> 1..5]
  BY DEF IInv, POInv, TestInv, StepInv
<1>2. Main(h) \in Threads /\ Main(h) = <<h, "test">> /\ "test" \in Users /\ box \in Boxes /\ 1 \in Boxes
  BY TestFacts
<1>3. /\ step[h] = n /\ step'[h] = n + 1 /\ \A k \in Hosts \ {h} : step'[k] = step[k]
      /\ step' \in [Hosts -> 1..5]
  BY <1>1 DEF At
<1>4. \A k \in Hosts : step'[k] >= step[k]
  BY <1>1, <1>3
<1>5. /\ out'[Main(h)] = [to |-> to, from |-> h, box |-> box, reply |-> 1, by |-> "test",
                          seq |-> sent[Main(h)]]
      /\ pc'[Main(h)] = "lock" /\ UNCHANGED <<got, sent>>
  BY <1>1, <1>2 DEF SendCall, POType
<1>6. sent[Main(h)] = IF n = 1 THEN 0 ELSE 1
  BY <1>1, <1>3 DEF StepAt
<1>7. Known(out[Main(h)])'
  <2> PICK x : x = out'[Main(h)]
    OBVIOUS
  <2>1. x.to = to /\ x.from = h /\ x.box = box /\ x.reply = 1 /\ x.by = "test" /\ x.seq = sent[Main(h)]
    BY <1>5
  <2> QED
    BY <1>3, <1>6, <2>1 DEF Known, Hello, Ack
<1>8. StepAt(h)'
  BY <1>1, <1>3, <1>5, <1>6 DEF StepAt
<1>9. SendCall(<<h, "test">>, to, box, 1) /\ Known(out[<<h, "test">>])'
  BY <1>2, <1>7 DEF Known, Hello, Ack
<1> QED
  BY <1>2, <1>3, <1>4, <1>8, <1>9, SendCallTest

\* The other thread of a machine sends to box 2.
LEMMA ChatSendTest ==
  ASSUME IInv, NEW h \in Hosts, ChatSend(h)
  PROVE  IInv'
<1>1. PICK f \in Hosts : SendCall(<<h, "chat">>, f, 2, 2) /\ UNCHANGED step
  BY TestFacts DEF ChatSend
<1>2. POType /\ step \in [Hosts -> 1..5] /\ <<h, "chat">> \in Threads /\ 2 \in Boxes /\ "chat" \in Users
  BY TestFacts DEF IInv, POInv, TestInv, Threads
<1>3. Known(out[<<h, "chat">>])'
  <2>1. out'[<<h, "chat">>].box = 2
    BY <1>1, <1>2 DEF SendCall, POType
  <2> QED
    BY <2>1 DEF Known
<1>4. /\ \A k \in Hosts : step'[k] >= step[k] /\ step'[k] = step[k]
      /\ step' \in [Hosts -> 1..5]
  BY <1>1, <1>2
<1>5. "chat" = "test" => StepAt(h)'
  OBVIOUS
<1>6. \A k \in Hosts : step'[k] = step[k] \/ (k = h /\ "chat" = "test")
  BY <1>4
<1> QED
  BY <1>1, <1>2, <1>3, <1>4, <1>5, <1>6, SendCallTest

\* The invariant holds at the start.
LEMMA InitInv == Init => IInv
<1> SUFFICES ASSUME Init PROVE IInv
  OBVIOUS
<1>1. POInv
  BY POInitInv DEF Init
<1>2. /\ \A t \in Threads : pc[t] = "run" /\ got[t] = <<>> /\ sent[t] = 0
      /\ step \in [Hosts -> 1..5] /\ \A h \in Hosts : step[h] = 1
  BY DEF Init, POInit
<1>3. AllMail = {}
  <2>1. ASSUME NEW p \in AllMail PROVE FALSE
    <3>1. p \in Packet /\ p.seq < sent[<<p.from, p.by>>]
      BY <1>1 DEF POInv, MailInv, NumberInv
    <3>2. p.seq \in Nat /\ <<p.from, p.by>> \in Threads
      BY <3>1 DEF Packet, Threads
    <3> QED
      BY <1>2, <3>1, <3>2
  <2> QED
    BY <2>1
<1>4. PacketInv
  BY <1>2, <1>3 DEF PacketInv
<1>5. StepInv
  BY <1>2, TestFacts DEF StepInv, StepAt
<1> QED
  BY <1>1, <1>2, <1>4, <1>5 DEF IInv, TestInv

\* Every step keeps the invariant.
LEMMA NextInv == IInv /\ [Next]_testVars => IInv'
<1> SUFFICES ASSUME IInv, [Next]_testVars PROVE IInv'
  OBVIOUS
<1>1. CASE UNCHANGED testVars
  <2>1. UNCHANGED mailVars /\ UNCHANGED <<messageAvailable, worker, sendInt, messageSent, sendLock, pc, out, step>>
    BY <1>1 DEF testVars, poVars, netVars, inVars, outVars, threadVars, mailVars
  <2>2. MailInv' /\ OrderInv' /\ AllMail' = AllMail
    BY <2>1, NothingMoved DEF IInv, POInv
  <2>3. POType' /\ OutInv' /\ WorkerInv' /\ LockInv' /\ SentInv'
    <3>1. POType' /\ OutInv' /\ WorkerInv'
      BY <2>1 DEF IInv, POInv, POType, OutInv, WorkerInv, mailVars
    <3>2. LockInv' /\ SentInv'
      BY <2>1 DEF IInv, POInv, LockInv, SentInv, Senders, Waiters
    <3> QED
      BY <3>1, <3>2
  <2>4. PacketInv' /\ StepInv'
    BY <2>1, <2>2 DEF IInv, TestInv, PacketInv, StepInv, StepAt, Hello, Ack, mailVars
  <2> QED
    BY <2>1, <2>2, <2>3, <2>4 DEF IInv, POInv, TestInv
<1>2. ASSUME NEW h \in Hosts, SendHello(h) PROVE IInv'
  <2>1. FarHost(h) \in Hosts /\ FarHost(h) # h
    BY FarHostFacts
  <2>2. At(h, 1) /\ SendCall(Main(h), FarHost(h), IF 1 = 1 THEN 0 ELSE 1, 1)
    BY <1>2 DEF SendHello
  <2> QED
    BY <2>1, <2>2, TestSend
<1>3. ASSUME NEW h \in Hosts, SendAck(h) PROVE IInv'
  <2> PICK x : x = got[Main(h)][1]
    OBVIOUS
  <2>1. At(h, 3) /\ step[h] = 3 /\ SendCall(Main(h), x.from, x.reply, 1)
    BY <1>3 DEF SendAck
  <2>2. got[Main(h)] \in Seq(Packet) /\ Len(got[Main(h)]) = 1 /\ x.from # h /\ x.reply = 1
    BY <2>1, TestFacts DEF IInv, POInv, POType, TestInv, StepInv, StepAt
  <2>3. x \in Packet
    BY <2>2
  <2>4. x.from \in Hosts
    BY <2>3 DEF Packet
  <2>5. SendCall(Main(h), x.from, IF 3 = 1 THEN 0 ELSE 1, 1)
    BY <2>1, <2>2
  <2> QED
    BY <2>1, <2>2, <2>4, <2>5, TestSend
<1>4. ASSUME NEW h \in Hosts, GetHello(h) PROVE IInv'
  <2>1. At(h, 2) /\ Receive(Main(h), 0) /\ 0 \in Boxes
    BY <1>4, TestFacts DEF GetHello
  <2> QED
    BY <2>1, TestReceive
<1>5. ASSUME NEW h \in Hosts, GetAck(h) PROVE IInv'
  <2>1. At(h, 4) /\ Receive(Main(h), 1) /\ 1 \in Boxes
    BY <1>5, TestFacts DEF GetAck
  <2> QED
    BY <2>1, TestReceive
<1> QED
  BY <1>1, <1>2, <1>3, <1>4, <1>5, ChatSendTest, ChatReceiveTest, MachineTest, SendingTest
     DEF Next, Test

-----------------------------------------------------------------------------
(* What follows.                                                           *)

\* The inductive invariant holds in every state, however many threads a machine
\* has and whatever the network loses.
THEOREM InvariantHolds == Spec => []IInv
<1> QED
  BY InitInv, NextInv, PTL DEF Spec

(***************************************************************************)
(* The semaphores count what they stand for: the postal worker finds a     *)
(* packet whenever messageAvailable lets it through, and each thread in    *)
(* Send is woken once, by the interrupt of its own packet.                 *)
(***************************************************************************)
THEOREM WakeupsAreExact == Spec => []WakeupsExact
<1>1. IInv => WakeupsExact
  <2> SUFFICES ASSUME IInv, NEW h \in Hosts
               PROVE  LET inside == {t \in Threads : t[1] = h /\ pc[t] \in {"send", "wait", "release"}}
                          waiting == {t \in inside : pc[t] = "wait"}
                      IN  /\ (inbox[h] # NULL) <=> (messageAvailable[h] = 1 \/ worker[h] = "receive")
                          /\ messageAvailable[h] <= 1
                          /\ (buffer[h] # NULL) <=> (worker[h] = "put")
                          /\ Cardinality(inside) + sendLock[h] = 1
                          /\ messageSent[h] + (IF sendInt[h] THEN 1 ELSE 0) = Cardinality(waiting)
    BY DEF WakeupsExact
  <2> DEFINE inside == {t \in Threads : t[1] = h /\ pc[t] \in {"send", "wait", "release"}}
             waiting == {t \in inside : pc[t] = "wait"}
  <2>1. inside = {<<h, u>> : u \in Senders(h)} /\ waiting = {<<h, u>> : u \in Waiters(h)}
    <3>1. \A t \in Threads : t[1] = h => t = <<h, t[2]>> /\ t[2] \in Users
      BY DEF Threads
    <3>2. \A u \in Users : <<h, u>> \in Threads /\ <<h, u>>[1] = h
      BY DEF Threads
    <3>3. inside = {<<h, u>> : u \in Senders(h)}
      BY <3>1, <3>2 DEF Senders, Inside
    <3>4. waiting = {<<h, u>> : u \in Waiters(h)}
      BY <3>1, <3>2 DEF Waiters
    <3> QED
      BY <3>3, <3>4
  <2>2. Waiters(h) \subseteq Senders(h)
    BY DEF Senders, Waiters, Inside
  <2> HIDE DEF inside, waiting
  <2>3. LockInv /\ SentInv /\ WorkerInv
    BY DEF IInv, POInv
  <2>4. Cardinality({}) = 0 /\ \A u : Cardinality({<<h, u>>}) = 1
    BY FS_EmptySet, FS_Singleton
  <2>5. ASSUME sendLock[h] = 1, Senders(h) = {}
        PROVE  /\ Cardinality(inside) + sendLock[h] = 1
               /\ messageSent[h] + (IF sendInt[h] THEN 1 ELSE 0) = Cardinality(waiting)
    <3>1. Waiters(h) = {}
      BY <2>2, <2>5
    <3>2. inside = {} /\ waiting = {}
      BY <2>1, <2>5, <3>1
    <3>3. Cardinality(inside) = 0 /\ Cardinality(waiting) = 0
      BY <2>4, <3>2
    <3> QED
      BY <2>3, <2>5, <3>1, <3>3 DEF SentInv
  <2>6. ASSUME sendLock[h] = 0, NEW u \in Users, Senders(h) = {u}
        PROVE  /\ Cardinality(inside) + sendLock[h] = 1
               /\ messageSent[h] + (IF sendInt[h] THEN 1 ELSE 0) = Cardinality(waiting)
    <3>1. inside = {<<h, u>>} /\ (Waiters(h) = {} \/ Waiters(h) = {u})
      BY <2>1, <2>2, <2>6
    <3>2. waiting = IF Waiters(h) = {} THEN {} ELSE {<<h, u>>}
      BY <2>1, <3>1
    <3>3. Cardinality(inside) = 1 /\ Cardinality(waiting) = IF Waiters(h) = {} THEN 0 ELSE 1
      BY <2>4, <3>1, <3>2
    <3> QED
      BY <2>3, <2>6, <3>3 DEF SentInv
  <2>7. /\ (inbox[h] # NULL) <=> (messageAvailable[h] = 1 \/ worker[h] = "receive")
        /\ messageAvailable[h] <= 1
        /\ (buffer[h] # NULL) <=> (worker[h] = "put")
    BY <2>3 DEF WorkerInv
  <2> QED
    BY <2>3, <2>5, <2>6, <2>7 DEF LockInv, inside, waiting
<1> QED
  BY <1>1, InvariantHolds, PTL

\* What is in a mailbox and comes behind it is in order, and is the mail on its way.
LEMMA UnderwayFacts ==
  ASSUME IInv, NEW h \in Hosts, NEW b \in Boxes
  PROVE  /\ Underway(h, b) \in Seq(Packet) /\ Ordered(Underway(h, b))
         /\ InSeq(Underway(h, b)) \subseteq OnWay(h)
<1> PICK w, v, q, x : w = Option(buffer[h]) /\ v = Option(inbox[h]) /\ q = socket[h] /\ x = boxes[h][b]
  OBVIOUS
<1>1. /\ w \in Seq(Packet) /\ InSeq(w) = Opt(buffer[h]) /\ Ordered(w)
      /\ v \in Seq(Packet) /\ InSeq(v) = Opt(inbox[h]) /\ Ordered(v)
      /\ q \in Seq(Packet) /\ x \in Seq(Packet)
  BY OptionFacts DEF IInv, POInv, POType
<1>2. OrderedAt(h) /\ POType
  BY DEF IInv, POInv, OrderInv
<1>3. /\ w \o v \in Seq(Packet) /\ InSeq(w \o v) = InSeq(w) \cup InSeq(v) /\ Ordered(w \o v)
  <2>1. AllBefore(InSeq(w), InSeq(v))
    BY <1>1, <1>2 DEF OrderedAt, AllBefore
  <2> QED
    BY <1>1, <2>1, ConcatFacts
<1> PICK c : c = w \o v
  OBVIOUS
<1>4. /\ c \o q \in Seq(Packet) /\ InSeq(c \o q) = InSeq(c) \cup InSeq(q) /\ Ordered(c \o q)
  <2>1. AllBefore(InSeq(c), InSeq(q)) /\ Ordered(q)
    BY <1>1, <1>2, <1>3 DEF OrderedAt, AllBefore
  <2> QED
    BY <1>1, <1>3, <2>1, ConcatFacts
<1> PICK d : d = c \o q
  OBVIOUS
<1>5. x \o d \in Seq(Packet) /\ InSeq(x \o d) = InSeq(x) \cup InSeq(d) /\ Ordered(x \o d)
  <2>1. AllBefore(InSeq(x), InSeq(d)) /\ Ordered(x)
    BY <1>1, <1>2, <1>3, <1>4 DEF OrderedAt, AllBefore
  <2> QED
    BY <1>1, <1>4, <2>1, ConcatFacts, ZenonT(60)
<1>6. Underway(h, b) = x \o d
  BY DEF Underway, Coming
<1>7. InSeq(x) \subseteq Boxed(h)
  BY DEF Boxed
<1>8. InSeq(x \o d) \subseteq OnWay(h)
  BY <1>1, <1>2, <1>3, <1>4, <1>5, <1>7, OnWayFacts
<1> QED
  BY <1>5, <1>6, <1>8

\* Mail from one thread to one mailbox stays in the order it was sent.
THEOREM OrderIsKept == Spec => []OrderKept
<1>1. IInv => OrderKept
  <2> SUFFICES ASSUME IInv, NEW h \in Hosts, NEW b \in Boxes, NEW way, way = Underway(h, b),
                      NEW i \in 1..Len(way)
               PROVE  /\ \A j \in 1..Len(way) : i < j => Before(way[i], way[j])
                      /\ \A p \in Received(h) : Before(p, way[i])
    BY DEF OrderKept
  <2>1. Ordered(way) /\ InSeq(way) \subseteq OnWay(h)
    BY UnderwayFacts
  <2>2. way[i] \in OnWay(h)
    BY <2>1 DEF InSeq
  <2> QED
    BY <2>1, <2>2 DEF Ordered, IInv, POInv, OrderInv, OrderedAt, AllBefore
<1> QED
  BY <1>1, InvariantHolds, PTL

(***************************************************************************)
(* Mail is neither invented nor duplicated, and only the network loses it: *)
(* each packet a thread has sent is lost, in one place on its way to its   *)
(* mailbox, or received on the machine it was sent to.                     *)
(***************************************************************************)
THEOREM MailIsExact == Spec => []MailExact
<1>1. IInv => MailExact
  <2> SUFFICES ASSUME IInv PROVE MailExact
    OBVIOUS
  <2>1. NumberInv /\ PlaceInv /\ OrderInv /\ POType
    BY DEF IInv, POInv, MailInv
  <2>2. ASSUME NEW h \in Hosts, NEW b \in Boxes, NEW way, way = Underway(h, b)
        PROVE  /\ \A i, j \in 1..Len(way) : way[i] = way[j] => i = j
               /\ InSeq(way) \cap (lost \cup Received(h)) = {}
               /\ \A p \in InSeq(boxes[h][b]) : p.box = b
    <3>1. way \in Seq(Packet) /\ Ordered(way) /\ InSeq(way) \subseteq OnWay(h)
      BY <2>2, UnderwayFacts
    <3>2. \A p \in OnWay(h) : p \in Packet
      <4>1. OnWay(h) \subseteq AllMail
        BY DEF AllMail
      <4> QED
        BY <2>1, <4>1 DEF NumberInv
    <3>3. \A p \in Packet : ~Before(p, p)
      BY DEF Before, Packet
    <3>4. ASSUME NEW i \in 1..Len(way), NEW j \in 1..Len(way), i < j PROVE way[i] # way[j]
      <4>1. Before(way[i], way[j]) /\ way[i] \in Packet
        BY <3>1, <3>4 DEF Ordered
      <4> QED
        BY <3>3, <4>1
    <3>5. \A i, j \in 1..Len(way) : way[i] = way[j] => i = j
      <4>1. Len(way) \in Nat
        BY <3>1
      <4> QED
        BY <3>4, <4>1
    <3>6. ASSUME NEW p \in InSeq(way), p \in Received(h) PROVE FALSE
      BY <2>1, <3>1, <3>2, <3>3, <3>6 DEF OrderInv, OrderedAt, AllBefore
    <3> QED
      BY <2>1, <3>1, <3>5, <3>6 DEF PlaceInv
  <2>3. ASSUME NEW t \in Threads, NEW mine, mine = {p \in AllMail : p.from = t[1] /\ p.by = t[2]}
        PROVE  {p.seq : p \in mine} = 0..(sent[t] - 1) /\ Cardinality(mine) = sent[t]
    <3> PICK n : n = sent[t]
      OBVIOUS
    <3>1. n \in Nat /\ t = <<t[1], t[2]>>
      BY <2>1 DEF POType, Threads
    <3>2. \A p \in mine : p.seq \in Nat /\ p.seq < n
      BY <2>1, <2>3, <3>1 DEF NumberInv, Packet
    <3>3. \A k \in Nat : k < n => \E p \in mine : p.seq = k
      BY <2>1, <2>3 DEF NumberInv
    <3>4. \A p, q \in mine : p.seq = q.seq => p = q
      BY <2>1, <2>3 DEF NumberInv
    <3>5. {p.seq : p \in mine} = 0..(n - 1)
      <4>1. \A k : k \in 0..(n - 1) <=> k \in Nat /\ k < n
        BY <3>1
      <4> QED
        BY <3>2, <3>3, <4>1
    <3>6. IsFiniteSet(0..(n - 1)) /\ Cardinality(0..(n - 1)) = n
      <4>1. 0 \in Int /\ n - 1 \in Int
        BY <3>1
      <4>2. /\ IsFiniteSet(0..(n - 1))
            /\ Cardinality(0..(n - 1)) = IF 0 > n - 1 THEN 0 ELSE n - 1 - 0 + 1
        BY <4>1, FS_Interval
      <4> QED
        BY <3>1, <4>2
    <3>7. ExistsBijection(0..(n - 1), mine)
      <4> PICK f : f = [k \in 0..(n - 1) |-> CHOOSE p \in mine : p.seq = k]
        OBVIOUS
      <4>1. \A k \in 0..(n - 1) : f[k] \in mine /\ f[k].seq = k
        BY <3>1, <3>3
      <4>2. f \in [0..(n - 1) -> mine]
        BY <4>1
      <4>3. \A p \in mine : p.seq \in 0..(n - 1) /\ f[p.seq] = p
        BY <3>1, <3>2, <3>4, <4>1
      <4>4. \A i, j \in 0..(n - 1) : f[i] = f[j] => i = j
        BY <4>1
      <4>5. f \in Injection(0..(n - 1), mine)
        BY <4>2, <4>4 DEF Injection, IsInjective
      <4>6. f \in Surjection(0..(n - 1), mine)
        BY <4>2, <4>3 DEF Surjection
      <4>7. f \in Bijection(0..(n - 1), mine)
        BY <4>5, <4>6 DEF Bijection
      <4> QED
        BY <4>7 DEF ExistsBijection
    <3>8. Cardinality(mine) = Cardinality(0..(n - 1))
      BY <3>6, <3>7, FS_Bijection
    <3> QED
      BY <3>5, <3>6, <3>8
  <2>4. \A h \in Hosts : \A p \in OnWay(h) \cup Received(h) : p.to = h
    BY <2>1 DEF PlaceInv
  <2> QED
    BY <2>2, <2>3, <2>4 DEF MailExact
<1> QED
  BY <1>1, InvariantHolds, PTL

(***************************************************************************)
(* A machine that has finished the test knows that the other one has got   *)
(* its message, and what it took for an acknowledgement is one.            *)
(***************************************************************************)
THEOREM AckMeansItWasReceived == Spec => []AckMeansReceived
<1>1. IInv => AckMeansReceived
  <2> SUFFICES ASSUME IInv PROVE AckMeansReceived
    OBVIOUS
  <2>1. TypeOK
    BY DEF IInv, POInv, TestInv, POType, TypeOK
  <2>2. ASSUME NEW h \in Hosts, step[h] = 5
        PROVE  /\ step[FarHost(h)] >= 4
               /\ got[Main(h)][2].from = FarHost(h) /\ got[Main(h)][2].seq = 1
    <3> PICK g : g = got[Main(h)]
      OBVIOUS
    <3>1. g \in Seq(Packet) /\ Len(g) = 2 /\ g[2].from # h /\ Ack(g[2])
      BY <2>2, TestFacts DEF IInv, POInv, POType, TestInv, StepInv, StepAt
    <3>2. g[2] \in Packet
      BY <3>1
    <3>3. g[2].from = FarHost(h)
      BY <3>1, <3>2, FarHostFacts DEF Packet
    <3> QED
      BY <3>1, <3>3 DEF Ack
  <2> QED
    BY <2>1, <2>2 DEF AckMeansReceived
<1> QED
  BY <1>1, InvariantHolds, PTL
=============================================================================
