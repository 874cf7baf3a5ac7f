---------------------------- MODULE NetworkTest ----------------------------
(***************************************************************************)
(* Kernel::NetworkTest (threads/kernel.cc) on two machines, while other    *)
(* threads of the machines send and receive mail through box 2.            *)
(***************************************************************************)
EXTENDS PostOffice

CONSTANTS
  ChatHosts,  \* bound: the machines whose other thread sends mail
  MaxChat     \* bound: how many messages it sends

ASSUME NetworkTestAssumption ==
  /\ \E a, b \in Hosts : a # b /\ Hosts = {a, b}
  /\ {"test", "chat"} \subseteq Users
  /\ numBoxes > 2

VARIABLE step      \* the step of NetworkTest that each machine is at

testVars == <<poVars, step>>

Main(h) == <<h, "test">>
Chat(h) == <<h, "chat">>
FarHost(h) == CHOOSE f \in Hosts : f # h

Init == POInit /\ step = [h \in Hosts |-> 1]

At(h, n) == step[h] = n /\ step' = [step EXCEPT ![h] = n + 1]

\* 1. Hello to the other machine's box 0, "reply to" box 1.
SendHello(h) == At(h, 1) /\ SendCall(Main(h), FarHost(h), 0, 1)

\* 2. Wait for the other machine's message, in our box 0.
GetHello(h) == At(h, 2) /\ Receive(Main(h), 0)

\* Mutant of SendAck: to the box of the message, not to the one it names.
SendAckSameBox(h) ==
  /\ step[h] = 3
  /\ LET hello == got[Main(h)][1]
     IN  At(h, 3) /\ SendCall(Main(h), hello.from, hello.box, 1)

\* 3. Acknowledge the message that arrived.
SendAck(h) ==
  /\ step[h] = 3
  /\ LET hello == got[Main(h)][1]
     IN  At(h, 3) /\ SendCall(Main(h), hello.from, hello.reply, 1)

\* Mutant of GetAck: any mail is taken for the acknowledgement.
GetAckAny(h) == At(h, 4) /\ \E b \in Boxes : Receive(Main(h), b)

\* 4. Wait for the acknowledgement, in our box 1.
GetAck(h) == At(h, 4) /\ Receive(Main(h), 1)

Test(h) == SendHello(h) \/ GetHello(h) \/ SendAck(h) \/ GetAck(h)

\* The machine's other thread.
ChatSend(h) ==
  /\ h \in ChatHosts
  /\ sent[Chat(h)] < MaxChat
  /\ \E f \in Hosts : SendCall(Chat(h), f, 2, 2)
  /\ UNCHANGED step

ChatReceive(h) == Receive(Chat(h), 2) /\ UNCHANGED step

Next ==
  \E h \in Hosts :
    \/ Test(h) \/ ChatSend(h) \/ ChatReceive(h)
    \/ (Interrupt(h) \/ Worker(h)) /\ UNCHANGED step
    \/ \E u \in Users :
         (SendAcquire(<<h, u>>) \/ Sending(<<h, u>>)) /\ UNCHANGED step

(***************************************************************************)
(* The network's interrupts come, since polls are scheduled again and      *)
(* again; threads that can go on do; a free lock is taken by somebody.     *)
(***************************************************************************)
Spec ==
  /\ Init /\ [][Next]_testVars
  /\ \A h \in Hosts :
       /\ WF_testVars(NetworkRecv(h) /\ UNCHANGED step)
       /\ WF_testVars(NetworkSendDone(h) /\ UNCHANGED step)
       /\ WF_testVars(Worker(h) /\ UNCHANGED step)
       /\ WF_testVars(Test(h))
       /\ WF_testVars(\E u \in Users : SendAcquire(<<h, u>>) /\ UNCHANGED step)
       /\ \A u \in Users : WF_testVars(Sending(<<h, u>>) /\ UNCHANGED step)
-----------------------------------------------------------------------------
\* Each variable has its type, the steps of the test too.
TypeOK ==
  /\ socket \in [Hosts -> Seq(Packet)]
  /\ inbox \in [Hosts -> Packet \cup {NULL}] /\ buffer \in [Hosts -> Packet \cup {NULL}]
  /\ messageAvailable \in [Hosts -> Nat] /\ messageSent \in [Hosts -> Nat]
  /\ sendLock \in [Hosts -> {0, 1}] /\ sendInt \in [Hosts -> BOOLEAN]
  /\ worker \in [Hosts -> {"wait", "receive", "put"}]
  /\ boxes \in [Hosts -> [Boxes -> Seq(Packet)]]
  /\ pc \in [Threads -> {"run", "lock", "send", "wait", "release"}]
  /\ out \in [Threads -> Packet \cup {NULL}] /\ got \in [Threads -> Seq(Packet)]
  /\ lost \subseteq Packet
  /\ step \in [Hosts -> 1..5]

(***************************************************************************)
(* "wait for an acknowledgement from the other machine to our original     *)
(* message": a machine that has finished knows that the other one has got  *)
(* its message, and the mail it took for an acknowledgement is one.        *)
(***************************************************************************)
AckMeansReceived ==
  /\ TypeOK
  /\ \A h \in Hosts : step[h] = 5 =>
    /\ step[FarHost(h)] >= 4
    /\ got[Main(h)][2].from = FarHost(h) /\ got[Main(h)][2].seq = 1

\* The test ends on both machines, unless a message of it is dropped: lost by the
\* network, or by the host because no socket has the name that Send addresses.
TestCompletes ==
  <>(\/ \A h \in Hosts : step[h] = 5
     \/ \E p \in lost : p.by = "test")

\* "reliability = 1 means the network never drops any packets" (PostOfficeOutput):
\* then the test, whose threads wait only for mail that was sent, ends.
ReliableTestEnds == Reliable => <>(\A h \in Hosts : step[h] = 5)
=============================================================================
