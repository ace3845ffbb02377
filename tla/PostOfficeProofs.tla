-------------------------- MODULE PostOfficeProofs --------------------------
(* Proofs, for any number of starts, interruptions and messages, and whatever *)
(* is lost, of the safety properties of PostOffice.                           *)
EXTENDS PostOffice, TLAPS

Packets == [to : Node, from : Node, box : Box, back : Box, data : {"hello", "ack", "note"}, id : Nat]

Types ==
    /\ sock \in [Node -> Seq(Packets)]
    /\ inHdr \in [Node -> Packets \cup {Empty}]
    /\ avail \in [Node -> Nat]
    /\ worker \in [Node -> {"ready", "asleep", "got"}]
    /\ boxes \in [Node -> [Box -> Seq(Packets)]]
    /\ pc \in [Node -> {"hello", "recv0", "ack", "recv1", "halt"}]
    /\ reply \in [Node -> Packets \cup {Empty}]
    /\ id \in [Node -> Nat]
    /\ put \in [Node -> Seq(Packets)]
    /\ heard \in [Node -> BOOLEAN]

(* Mail is numbered in the order it is sent, and kept in that order.          *)
Before(p, q) == p.from = q.from => p.id < q.id
Sent(p, ids) == p.id <= ids[p.from]

Ordered(n) ==
    /\ \A i, j \in DOMAIN put[n] : i < j => Before(put[n][i], put[n][j])
    /\ \A i, j \in DOMAIN sock[n] : i < j => Before(sock[n][i], sock[n][j])
    /\ \A i \in DOMAIN put[n], j \in DOMAIN sock[n] : Before(put[n][i], sock[n][j])
    /\ inHdr[n] # Empty =>
        /\ \A i \in DOMAIN put[n] : Before(put[n][i], inHdr[n])
        /\ \A i \in DOMAIN sock[n] : Before(inHdr[n], sock[n][i])
        /\ Sent(inHdr[n], id)
    /\ \A i \in DOMAIN put[n] : Sent(put[n][i], id)
    /\ \A i \in DOMAIN sock[n] : Sent(sock[n][i], id)

(* A "hello" of n has been put into a mailbox of the other machine.           *)
Heard(n) == \E i \in DOMAIN put[Other(n)] : put[Other(n)][i].from = n /\ put[Other(n)][i].data = "hello"

(* A packet on its way to n is what MailTest or the second thread sends: mail *)
(* for box 1 answers a "hello".                                               *)
Genuine(n, p) ==
    /\ p.from = Other(n)
    /\ p.box = 0 => p.data = "hello" /\ p.back = 1
    /\ p.box = 1 => Heard(n)

Answers(n) ==
    /\ \A i \in DOMAIN sock[n] : Genuine(n, sock[n][i])
    /\ inHdr[n] # Empty => Genuine(n, inHdr[n])
    /\ \A b \in Box : \A i \in DOMAIN boxes[n][b] :
        /\ Genuine(n, boxes[n][b][i]) /\ boxes[n][b][i].box = b
        /\ b = 0 => Heard(Other(n))
    /\ pc[n] = "ack" =>
        /\ reply[n] \in Packets /\ reply[n].from = Other(n) /\ reply[n].back = 1
        /\ Heard(Other(n))
    /\ heard[n] => Heard(n)

(* The inductive invariant.                                                   *)
Inv ==
    /\ Types
    /\ PacketIsAnnounced
    /\ \A n \in Node : Ordered(n)
    /\ \A n \in Node : Answers(n)
-----------------------------------------------------------------------------
(* The other of the two machines.                                             *)
LEMMA OtherIs ==
    ASSUME NEW n \in Node
    PROVE  /\ Other(n) \in Node /\ Other(n) # n /\ Other(Other(n)) = n
           /\ \A m \in Node : m = n \/ m = Other(n)
<1>1. PICK a, b \in Node : a # b /\ Node = {a, b}
  BY PostOfficeAssumption
<1>2. ASSUME NEW m \in Node PROVE Other(m) \in Node /\ Other(m) # m
  <2>1. \E x \in Node : x # m
    BY <1>1
  <2>2. QED BY <2>1 DEF Other
<1>3. Other(n) \in Node /\ Other(n) # n /\ Other(Other(n)) \in Node /\ Other(Other(n)) # Other(n)
  BY <1>2
<1>4. QED BY <1>1, <1>3

(* An empty buffer is no packet.                                              *)
LEMMA EmptyIsNone == Empty \notin Packets
<1>1. DOMAIN Empty = {"none"}
  BY DEF Empty
<1>2. ASSUME NEW p \in Packets PROVE "to" \in DOMAIN p
  BY DEF Packets
<1>3. QED BY <1>1, <1>2

(* What is left of a machine that ends, or is started.                        *)
Reset(n) ==
    /\ sock' = [sock EXCEPT ![n] = <<>>]
    /\ inHdr' = [inHdr EXCEPT ![n] = Empty]
    /\ NewOffice(n)
    /\ UNCHANGED <<id, put, heard>>

(* The calls of PostOffice::Send by MailTest and by the second thread.        *)
Posts(n, pkt) ==
    /\ pkt \in Packets /\ pkt.to = Other(n) /\ pkt.from = n /\ pkt.id = id[n] + 1
    /\ Genuine(Other(n), pkt)
    /\ id' = [id EXCEPT ![n] = @ + 1]
    /\ sock' = sock \/ sock' = [sock EXCEPT ![Other(n)] = Append(@, pkt)]
    /\ pc' = pc \/ pc' = [pc EXCEPT ![n] = "recv0"] \/ pc' = [pc EXCEPT ![n] = "recv1"]
    /\ UNCHANGED <<inHdr, avail, worker, boxes, reply, put, heard>>

(* The calls of PostOffice::Receive by MailTest.                              *)
Reads(n) ==
    /\ \/ Get(n, 0) /\ pc' = [pc EXCEPT ![n] = "ack"] /\ UNCHANGED heard
       \/ Get(n, 1) /\ pc' = [pc EXCEPT ![n] = "halt"] /\ heard' = [heard EXCEPT ![n] = TRUE]
    /\ UNCHANGED <<sock, inHdr, avail, worker, id, put>>

(* Steps that concern nothing the invariant speaks of.                        *)
Aside == UNCHANGED <<sock, inHdr, avail, worker, boxes, pc, reply, id, put, heard>>

(* Every step is one of these.                                                *)
LEMMA StepKinds ==
    ASSUME Inv, [Next]_vars
    PROVE  Aside \/ \E n \in Node :
                \/ Reset(n) \/ (\E pkt : Posts(n, pkt)) \/ Reads(n)
                \/ IncomingPacket(n) \/ WorkerResume(n) \/ PostalDelivery(n)
<1>1. ASSUME NEW n \in Node, Start(n) \/ Quit(n) \/ Halt(n) PROVE Reset(n)
  BY <1>1 DEF Start, Quit, Halt, End, NetworkStart, NetworkStop, Reset
<1>2. ASSUME NEW n \in Node, NEW t, NEW pkt, SendFails(n, t, pkt) PROVE Reset(n)
  BY <1>2 DEF SendFails, TransmitFails, NetworkStop, Reset
<1>3. ASSUME NEW n \in Node, NEW box, ReceiveEmpty(n, box), UNCHANGED heard PROVE Reset(n)
  BY <1>3 DEF ReceiveEmpty, NetworkStop, Reset
<1>4. ASSUME NEW n \in Node, NEW t, NEW pkt \in Packets, Send(n, t, pkt),
             pkt.to = Other(n), pkt.from = n, pkt.id = id[n] + 1, Genuine(Other(n), pkt),
             pc' = pc \/ pc' = [pc EXCEPT ![n] = "recv0"] \/ pc' = [pc EXCEPT ![n] = "recv1"]
      PROVE  Posts(n, pkt)
  BY <1>4 DEF Send, Transmit, Posts
<1>5. ASSUME NEW n \in Node, NEW box \in Box, NEW back \in Box, NEW data \in {"hello", "ack", "note"},
             (box = 0 => data = "hello" /\ back = 1), (box = 1 => Heard(Other(n)))
      PROVE  LET pkt == Packet(n, Other(n), box, back, data)
             IN  /\ pkt \in Packets /\ pkt.to = Other(n) /\ pkt.from = n /\ pkt.id = id[n] + 1
                 /\ Genuine(Other(n), pkt)
  <2>1. id[n] \in Nat
    BY DEF Inv, Types
  <2>2. Other(n) \in Node /\ Other(Other(n)) = n
    BY OtherIs
  <2>3. QED BY <1>5, <2>1, <2>2 DEF Packet, Packets, Genuine
<1>6. ASSUME NEW n \in Node, SendHello(n) PROVE Reset(n) \/ \E pkt : Posts(n, pkt)
  <2> DEFINE pkt == Packet(n, Other(n), 0, 1, "hello")
  <2>1. CASE Send(n, "main", pkt) /\ pc' = [pc EXCEPT ![n] = "recv0"]
    <3>1. /\ pkt \in Packets /\ pkt.to = Other(n) /\ pkt.from = n /\ pkt.id = id[n] + 1
          /\ Genuine(Other(n), pkt)
      BY <1>5 DEF Box
    <3>2. QED BY <1>4, <2>1, <3>1, Zenon
  <2>2. CASE SendFails(n, "main", pkt)
    BY <1>2, <2>2
  <2>3. QED BY <1>6, <2>1, <2>2 DEF SendHello
<1>7. ASSUME NEW n \in Node, SendAck(n) PROVE Reset(n) \/ \E pkt : Posts(n, pkt)
  <2>1. pc[n] = "ack" /\ reply[n].from = Other(n) /\ reply[n].back = 1 /\ Heard(Other(n))
    BY <1>7 DEF SendAck, Inv, Answers
  <2> DEFINE pkt == Packet(n, Other(n), 1, 1, "ack")
  <2>2. CASE Send(n, "main", pkt) /\ pc' = [pc EXCEPT ![n] = "recv1"]
    <3>1. /\ pkt \in Packets /\ pkt.to = Other(n) /\ pkt.from = n /\ pkt.id = id[n] + 1
          /\ Genuine(Other(n), pkt)
      BY <1>5, <2>1 DEF Box
    <3>2. QED BY <1>4, <2>2, <3>1, Zenon
  <2>3. CASE SendFails(n, "main", pkt)
    BY <1>2, <2>3
  <2>4. QED BY <1>7, <2>1, <2>2, <2>3 DEF SendAck
<1>8. ASSUME NEW n \in Node, SendNote(n) PROVE Reset(n) \/ \E pkt : Posts(n, pkt)
  <2> DEFINE pkt == Packet(n, Other(n), 2, 2, "note")
  <2>1. CASE Send(n, "chat", pkt) /\ UNCHANGED pc
    <3>1. /\ pkt \in Packets /\ pkt.to = Other(n) /\ pkt.from = n /\ pkt.id = id[n] + 1
          /\ Genuine(Other(n), pkt)
      BY <1>5 DEF Box
    <3>2. QED BY <1>4, <2>1, <3>1
  <2>2. CASE SendFails(n, "chat", pkt)
    BY <1>2, <2>2
  <2>3. QED BY <1>8, <2>1, <2>2 DEF SendNote
<1>9. ASSUME NEW n \in Node, ReceiveHello(n) \/ ReceiveAck(n) PROVE Reset(n) \/ Reads(n)
  <2>1. CASE Receive(n, 0, "ack") /\ UNCHANGED heard
    BY <2>1 DEF Receive, netVars, Reads
  <2>2. CASE Receive(n, 1, "halt") /\ heard' = [heard EXCEPT ![n] = TRUE]
    BY <2>2 DEF Receive, netVars, Reads
  <2>3. CASE \E box : ReceiveEmpty(n, box)
    BY <1>3, <2>3 DEF ReceiveEmpty
  <2>4. QED BY <1>9, <2>1, <2>2, <2>3 DEF ReceiveHello, ReceiveAck
<1>10. ASSUME NEW n \in Node, (\E t \in Sender : SendResume(n, t)) \/ PacketSent(n) \/ Poll(n) PROVE Aside
  BY <1>10 DEF SendResume, PacketSent, SendDone, Poll, PollAgain, netVars, officeVars, Aside
<1>11. CASE UNCHANGED vars
  BY <1>11 DEF vars, netVars, officeVars, Aside
<1>12. QED BY <1>1, <1>6, <1>7, <1>8, <1>9, <1>10, <1>11 DEF Next
-----------------------------------------------------------------------------
(* The types.                                                                 *)
LEMMA TypesKept ==
    ASSUME Inv, [Next]_vars
    PROVE  Types'
<1>1. CASE Aside
  BY <1>1 DEF Aside, Inv, Types
<1>2. ASSUME NEW n \in Node, Reset(n) PROVE Types'
  BY <1>2 DEF Reset, NewOffice, Inv, Types
<1>3. ASSUME NEW n \in Node, NEW pkt, Posts(n, pkt) PROVE Types'
  <2>1. Other(n) \in Node
    BY OtherIs
  <2>2. sock' \in [Node -> Seq(Packets)]
    <3>1. sock \in [Node -> Seq(Packets)] /\ pkt \in Packets
      BY <1>3 DEF Posts, Inv, Types
    <3>2. Append(sock[Other(n)], pkt) \in Seq(Packets)
      BY <2>1, <3>1
    <3>3. sock' = sock \/ sock' = [sock EXCEPT ![Other(n)] = Append(sock[Other(n)], pkt)]
      BY <1>3 DEF Posts
    <3>4. QED BY <2>1, <3>1, <3>2, <3>3, Zenon
  <2>3. pc' \in [Node -> {"hello", "recv0", "ack", "recv1", "halt"}]
    BY <1>3, Zenon DEF Posts, Inv, Types
  <2>4. id' \in [Node -> Nat]
    BY <1>3 DEF Posts, Inv, Types
  <2>5. QED BY <1>3, <2>2, <2>3, <2>4 DEF Posts, Inv, Types
<1>4. ASSUME NEW n \in Node, Reads(n) PROVE Types'
  <2>1. PICK b \in {0, 1} : Get(n, b)
    BY <1>4 DEF Reads
  <2>2. b \in Box /\ boxes[n][b] \in Seq(Packets) /\ boxes[n][b] # <<>>
    BY <2>1 DEF Get, Box, Inv, Types
  <2>3. boxes' \in [Node -> [Box -> Seq(Packets)]]
    BY <2>1, <2>2 DEF Get, Inv, Types
  <2>4. reply' \in [Node -> Packets \cup {Empty}]
    BY <2>1, <2>2 DEF Get, Inv, Types
  <2>5. pc' \in [Node -> {"hello", "recv0", "ack", "recv1", "halt"}] /\ heard' \in [Node -> BOOLEAN]
    BY <1>4, Zenon DEF Reads, Inv, Types
  <2>6. QED BY <1>4, <2>3, <2>4, <2>5 DEF Reads, Inv, Types
<1>5. ASSUME NEW n \in Node, IncomingPacket(n) PROVE Types'
  <2>1. sock[n] \in Seq(Packets) /\ sock[n] # <<>>
    BY <1>5 DEF IncomingPacket, CheckPktAvail, Inv, Types
  <2>2. sock' \in [Node -> Seq(Packets)] /\ inHdr' \in [Node -> Packets \cup {Empty}]
    BY <1>5, <2>1 DEF IncomingPacket, CheckPktAvail, Inv, Types
  <2>3. avail' \in [Node -> Nat] /\ worker' \in [Node -> {"ready", "asleep", "got"}]
    BY <1>5 DEF IncomingPacket, Inv, Types
  <2>4. QED BY <1>5, <2>2, <2>3 DEF IncomingPacket, Inv, Types
<1>6. ASSUME NEW n \in Node, PAvail(n)
      PROVE  avail' \in [Node -> Nat] /\ worker' \in [Node -> {"ready", "asleep", "got"}]
  <2>1. avail \in [Node -> Nat] /\ worker \in [Node -> {"ready", "asleep", "got"}]
    BY DEF Inv, Types
  <2>2. CASE avail[n] = 0
    BY <1>6, <2>1, <2>2 DEF PAvail
  <2>3. CASE avail[n] # 0
    <3>1. avail[n] - 1 \in Nat
      BY <2>1, <2>3
    <3>2. avail' = [avail EXCEPT ![n] = avail[n] - 1] /\ worker' = [worker EXCEPT ![n] = "got"]
      BY <1>6, <2>3 DEF PAvail
    <3>3. QED BY <2>1, <3>1, <3>2
  <2>4. QED BY <2>2, <2>3
<1>7. ASSUME NEW n \in Node, WorkerResume(n) PROVE Types'
  BY <1>6, <1>7 DEF WorkerResume, netVars, Inv, Types
<1>8. ASSUME NEW n \in Node, PostalDelivery(n) PROVE Types'
  <2>1. inHdr[n] \in Packets
    BY <1>8 DEF PostalDelivery, Inv, PacketIsAnnounced, Types
  <2>2. inHdr[n].box \in Box
    BY Zenon, <2>1 DEF Packets
  <2>3. boxes' \in [Node -> [Box -> Seq(Packets)]] /\ put' \in [Node -> Seq(Packets)]
    BY <1>8, <2>1, <2>2 DEF PostalDelivery, Put, Inv, Types
  <2>4. inHdr' \in [Node -> Packets \cup {Empty}] /\ sock' = sock
    BY <1>8 DEF PostalDelivery, TakePacket, Inv, Types
  <2>5. QED BY Zenon, <1>6, <1>8, <2>3, <2>4 DEF PostalDelivery, Inv, Types
<1>9. QED BY StepKinds, <1>1, <1>2, <1>3, <1>4, <1>5, <1>7, <1>8

(* The worker and the buffer.                                                 *)
LEMMA AnnouncedKept ==
    ASSUME Inv, [Next]_vars
    PROVE  PacketIsAnnounced'
<1>1. CASE Aside
  BY <1>1 DEF Aside, Inv, PacketIsAnnounced
<1>2. ASSUME NEW n \in Node, Reset(n) PROVE PacketIsAnnounced'
  BY <1>2 DEF Reset, NewOffice, Inv, Types, PacketIsAnnounced
<1>3. ASSUME NEW n \in Node, NEW pkt, Posts(n, pkt) PROVE PacketIsAnnounced'
  BY Zenon, <1>3 DEF Posts, Inv, PacketIsAnnounced
<1>4. ASSUME NEW n \in Node, Reads(n) PROVE PacketIsAnnounced'
  BY Zenon, <1>4 DEF Reads, Inv, PacketIsAnnounced
<1>5. ASSUME NEW n \in Node, IncomingPacket(n) PROVE PacketIsAnnounced'
  <2>1. Head(sock[n]) # Empty
    BY <1>5, EmptyIsNone DEF IncomingPacket, CheckPktAvail, Inv, Types
  <2>2. /\ inHdr[n] = Empty /\ inHdr' = [inHdr EXCEPT ![n] = Head(sock[n])]
        /\ avail' = [avail EXCEPT ![n] = @ + 1]
        /\ worker' = [worker EXCEPT ![n] = IF @ = "asleep" THEN "ready" ELSE @]
    BY <1>5 DEF IncomingPacket, CheckPktAvail
  <2>3. QED BY <2>1, <2>2 DEF Inv, Types, PacketIsAnnounced
<1>6. ASSUME NEW n \in Node, WorkerResume(n) PROVE PacketIsAnnounced'
  BY <1>6 DEF WorkerResume, PAvail, netVars, Inv, Types, PacketIsAnnounced
<1>7. ASSUME NEW n \in Node, PostalDelivery(n) PROVE PacketIsAnnounced'
  <2>1. worker[n] = "got" /\ avail[n] = 0
    <3>1. worker[n] = "got" /\ avail[n] \in Nat
      BY <1>7 DEF PostalDelivery, Inv, Types
    <3>2. avail[n] + 1 = IF inHdr[n] = Empty THEN 0 ELSE 1
      BY <3>1 DEF Inv, PacketIsAnnounced
    <3>3. QED BY <3>1, <3>2
  <2>2. /\ inHdr' = [inHdr EXCEPT ![n] = Empty] /\ avail' = avail
        /\ worker' = [worker EXCEPT ![n] = "asleep"]
    BY <1>7, <2>1 DEF PostalDelivery, TakePacket, PAvail
  <2>3. QED BY <2>1, <2>2 DEF Inv, Types, PacketIsAnnounced
<1>8. QED BY StepKinds, <1>1, <1>2, <1>3, <1>4, <1>5, <1>6, <1>7

(* The order of the mail.                                                     *)
LEMMA OrderKept ==
    ASSUME Inv, [Next]_vars, NEW m \in Node
    PROVE  Ordered(m)'
<1>0. /\ sock \in [Node -> Seq(Packets)] /\ put \in [Node -> Seq(Packets)]
      /\ inHdr \in [Node -> Packets \cup {Empty}] /\ id \in [Node -> Nat]
      /\ Ordered(m)
  BY Zenon DEF Inv, Types
<1>1. ASSUME UNCHANGED <<id, put>>, sock'[m] = sock[m], inHdr'[m] = inHdr[m] PROVE Ordered(m)'
  BY Zenon, <1>0, <1>1 DEF Ordered, Sent
<1>2. CASE Aside
  BY <1>1, <1>2 DEF Aside
<1>3. ASSUME NEW n \in Node, Reset(n) PROVE Ordered(m)'
  <2>1. CASE m = n
    <3>1. sock'[m] = <<>> /\ inHdr'[m] = Empty /\ UNCHANGED <<id, put>>
      BY <1>0, <1>3, <2>1 DEF Reset
    <3>2. DOMAIN sock'[m] = {}
      BY <3>1
    <3>3. QED BY <1>0, <3>1, <3>2 DEF Ordered
  <2>2. CASE m # n
    BY <1>0, <1>1, <1>3, <2>2 DEF Reset
  <2>3. QED BY Zenon, <2>1, <2>2
<1>4. ASSUME NEW n \in Node, NEW pkt, Posts(n, pkt) PROVE Ordered(m)'
  <2>1. /\ pkt \in Packets /\ pkt.from = n /\ pkt.id = id[n] + 1 /\ Other(n) \in Node
        /\ id' = [id EXCEPT ![n] = @ + 1] /\ UNCHANGED <<inHdr, put>>
        /\ sock' = sock \/ sock' = [sock EXCEPT ![Other(n)] = Append(@, pkt)]
    BY <1>4, OtherIs DEF Posts
  <2>2. ASSUME NEW p \in Packets, Sent(p, id) PROVE Sent(p, id') /\ Before(p, pkt)
    <3>1. p.from \in Node /\ p.id \in Nat
      BY DEF Packets
    <3>2. p.id <= id[p.from]
      BY <2>2 DEF Sent
    <3>3. id'[p.from] >= id[p.from] /\ id[p.from] \in Nat /\ id'[p.from] \in Nat
      <4>1. CASE p.from = n
        BY <1>0, <2>1, <3>1, <4>1
      <4>2. CASE p.from # n
        BY <1>0, <2>1, <3>1, <4>2
      <4>3. QED BY <4>1, <4>2
    <3>4. p.id <= id'[p.from]
      BY <3>1, <3>2, <3>3
    <3>5. p.from = pkt.from => p.id < pkt.id
      BY <1>0, <2>1, <3>1, <3>2
    <3>6. QED BY <3>4, <3>5 DEF Sent, Before
  <2>3. Sent(pkt, id')
    <3>1. pkt.id = id'[pkt.from] /\ pkt.id \in Nat
      BY <1>0, <2>1
    <3>2. QED BY <3>1 DEF Sent
  <2>4. put[m] \in Seq(Packets) /\ sock[m] \in Seq(Packets) /\ inHdr[m] \in Packets \cup {Empty}
    BY <1>0
  <2>5. /\ \A i \in DOMAIN put[m] : put[m][i] \in Packets /\ Sent(put[m][i], id)
        /\ \A i \in DOMAIN sock[m] : sock[m][i] \in Packets /\ Sent(sock[m][i], id)
        /\ inHdr[m] # Empty => inHdr[m] \in Packets /\ Sent(inHdr[m], id)
    BY <1>0, <2>4 DEF Ordered
  <2>6. CASE sock'[m] = sock[m]
    BY <1>0, <2>1, <2>2, <2>5, <2>6, Zenon DEF Ordered
  <2>7. CASE sock'[m] = Append(sock[m], pkt)
    <3>1. /\ DOMAIN sock'[m] = DOMAIN sock[m] \cup {Len(sock[m]) + 1}
          /\ \A i \in DOMAIN sock[m] : sock'[m][i] = sock[m][i] /\ i < Len(sock[m]) + 1
          /\ sock'[m][Len(sock[m]) + 1] = pkt /\ Len(sock[m]) \in Nat
      BY <2>4, <2>7
    <3>2. \A i, j \in DOMAIN sock'[m] : i < j => Before(sock'[m][i], sock'[m][j])
      <4> SUFFICES ASSUME NEW i \in DOMAIN sock'[m], NEW j \in DOMAIN sock'[m], i < j
                   PROVE  Before(sock'[m][i], sock'[m][j])
        OBVIOUS
      <4>1. i \in DOMAIN sock[m]
        BY <2>4, <3>1
      <4>2. CASE j \in DOMAIN sock[m]
        BY Zenon, <1>0, <3>1, <4>1, <4>2 DEF Ordered
      <4>3. CASE j = Len(sock[m]) + 1
        BY Zenon, <2>2, <2>5, <3>1, <4>1, <4>3
      <4>4. QED BY <3>1, <4>2, <4>3
    <3>3. \A i \in DOMAIN sock'[m] : Sent(sock'[m][i], id')
      BY Zenon, <2>2, <2>3, <2>5, <3>1
    <3>4. \A i \in DOMAIN put[m], j \in DOMAIN sock'[m] : Before(put[m][i], sock'[m][j])
      BY Zenon, <1>0, <2>2, <2>5, <3>1 DEF Ordered
    <3>5. inHdr[m] # Empty => \A i \in DOMAIN sock'[m] : Before(inHdr[m], sock'[m][i])
      BY <1>0, <2>2, <2>5, <3>1 DEF Ordered
    <3>6. QED BY <1>0, <2>1, <2>2, <2>5, <3>2, <3>3, <3>4, <3>5, Zenon DEF Ordered
  <2>8. sock'[m] = sock[m] \/ sock'[m] = Append(sock[m], pkt)
    BY <1>0, <2>1
  <2>9. QED BY Zenon, <2>6, <2>7, <2>8
<1>5. ASSUME NEW n \in Node, Reads(n) \/ WorkerResume(n) PROVE Ordered(m)'
  BY Zenon, <1>1, <1>5 DEF Reads, WorkerResume, netVars
<1>6. ASSUME NEW n \in Node, IncomingPacket(n) PROVE Ordered(m)'
  <2>1. CASE m # n
    <3>1. UNCHANGED <<id, put>> /\ sock'[m] = sock[m] /\ inHdr'[m] = inHdr[m]
      BY Zenon, <1>0, <1>6, <2>1 DEF IncomingPacket, CheckPktAvail
    <3>2. QED BY <1>1, <3>1
  <2>2. CASE m = n
    <3>1. /\ UNCHANGED <<id, put>> /\ sock[m] # <<>> /\ sock[m] \in Seq(Packets)
          /\ sock'[m] = Tail(sock[m]) /\ inHdr'[m] = Head(sock[m])
      BY Zenon, <1>0, <1>6, <2>2 DEF IncomingPacket, CheckPktAvail
    <3>2. /\ inHdr'[m] = sock[m][1] /\ 1 \in DOMAIN sock[m]
          /\ \A i \in DOMAIN sock'[m] :
                /\ sock'[m][i] = sock[m][i + 1] /\ i + 1 \in DOMAIN sock[m] /\ 1 < i + 1
                /\ \A j \in DOMAIN sock'[m] : i < j => i + 1 < j + 1
      BY <3>1
    <3>3. \A i, j \in DOMAIN sock'[m] : i < j => Before(sock'[m][i], sock'[m][j])
      BY Zenon, <1>0, <3>2 DEF Ordered
    <3>4. \A i \in DOMAIN sock'[m] : Before(inHdr'[m], sock'[m][i]) /\ Sent(sock'[m][i], id')
      BY Zenon, <1>0, <3>1, <3>2 DEF Ordered, Sent
    <3>5. Sent(inHdr'[m], id') /\ \A i \in DOMAIN put[m] : Before(put[m][i], inHdr'[m])
      BY Zenon, <1>0, <3>1, <3>2 DEF Ordered, Sent
    <3>6. \A i \in DOMAIN put[m], j \in DOMAIN sock'[m] : Before(put[m][i], sock'[m][j])
      BY Zenon, <1>0, <3>2 DEF Ordered
    <3>7. QED BY Zenon, <1>0, <3>1, <3>3, <3>4, <3>5, <3>6 DEF Ordered, Sent
  <2>3. QED BY <2>1, <2>2
<1>7. ASSUME NEW n \in Node, PostalDelivery(n) PROVE Ordered(m)'
  <2>1. /\ UNCHANGED <<id, sock>> /\ inHdr' = [inHdr EXCEPT ![n] = Empty]
        /\ put' = [put EXCEPT ![n] = Append(@, inHdr[n])] /\ inHdr[n] # Empty
    BY <1>7 DEF PostalDelivery, TakePacket, Put, Inv, Types, PacketIsAnnounced
  <2>2. CASE m # n
    <3>1. put'[m] = put[m] /\ sock'[m] = sock[m] /\ inHdr'[m] = inHdr[m] /\ id' = id
      BY Zenon, <1>0, <2>1, <2>2
    <3>2. QED BY <1>0, <3>1 DEF Ordered, Sent
  <2>3. CASE m = n
    <3>1. /\ put[m] \in Seq(Packets) /\ put'[m] = Append(put[m], inHdr[m]) /\ inHdr'[m] = Empty
          /\ inHdr[m] # Empty
      BY <1>0, <2>1, <2>3
    <3>2. /\ DOMAIN put'[m] = DOMAIN put[m] \cup {Len(put[m]) + 1}
          /\ \A i \in DOMAIN put[m] : put'[m][i] = put[m][i] /\ i < Len(put[m]) + 1
          /\ put'[m][Len(put[m]) + 1] = inHdr[m] /\ Len(put[m]) \in Nat
      BY <3>1
    <3>3. \A i, j \in DOMAIN put'[m] : i < j => i \in DOMAIN put[m]
      BY <3>1, <3>2
    <3>4. \A i, j \in DOMAIN put'[m] : i < j => Before(put'[m][i], put'[m][j])
      BY Zenon, <1>0, <3>1, <3>2, <3>3 DEF Ordered
    <3>5. \A i \in DOMAIN put'[m], j \in DOMAIN sock[m] : Before(put'[m][i], sock[m][j])
      BY Zenon, <1>0, <3>1, <3>2 DEF Ordered
    <3>6. \A i \in DOMAIN put'[m] : Sent(put'[m][i], id)
      BY <1>0, <3>1, <3>2 DEF Ordered
    <3>7. QED BY Zenon, <1>0, <2>1, <3>1, <3>4, <3>5, <3>6 DEF Ordered, Sent
  <2>4. QED BY <2>2, <2>3
<1>8. QED BY StepKinds, <1>2, <1>3, <1>4, <1>5, <1>6, <1>7

(* What has been heard stays heard.                                           *)
LEMMA HeardStays ==
    ASSUME Inv, NEW n \in Node,
           put' = put \/ \E p \in Packets : put' = [put EXCEPT ![n] = Append(@, p)],
           NEW m \in Node, Heard(m)
    PROVE  Heard(m)'
<1>1. PICK i \in DOMAIN put[Other(m)] : put[Other(m)][i].from = m /\ put[Other(m)][i].data = "hello"
  BY DEF Heard
<1>2. Other(m) \in Node /\ put \in [Node -> Seq(Packets)]
  BY Zenon, OtherIs DEF Inv, Types
<1>3. \/ put'[Other(m)] = put[Other(m)]
      \/ \E p \in Packets : put'[Other(m)] = Append(put[Other(m)], p)
  BY <1>2
<1>4. i \in DOMAIN put'[Other(m)] /\ put'[Other(m)][i] = put[Other(m)][i]
  <2>1. CASE put'[Other(m)] = put[Other(m)]
    BY Zenon, <2>1
  <2>2. ASSUME NEW p \in Packets, put'[Other(m)] = Append(put[Other(m)], p)
        PROVE  i \in DOMAIN put'[Other(m)] /\ put'[Other(m)][i] = put[Other(m)][i]
    BY <1>2, <2>2
  <2>3. QED BY Zenon, <1>3, <2>1, <2>2
<1>5. QED BY <1>1, <1>4 DEF Heard

(* Answers.                                                                   *)
LEMMA AnswersKept ==
    ASSUME Inv, [Next]_vars, NEW m \in Node
    PROVE  Answers(m)'
<1>0. /\ sock \in [Node -> Seq(Packets)] /\ put \in [Node -> Seq(Packets)]
      /\ inHdr \in [Node -> Packets \cup {Empty}]
      /\ boxes \in [Node -> [Box -> Seq(Packets)]]
      /\ pc \in [Node -> {"hello", "recv0", "ack", "recv1", "halt"}]
      /\ reply \in [Node -> Packets \cup {Empty}] /\ heard \in [Node -> BOOLEAN]
      /\ Answers(m) /\ Other(m) \in Node
  BY OtherIs DEF Inv, Types
<1>a. ASSUME put' = put PROVE (Heard(m) => Heard(m)') /\ (Heard(Other(m)) => Heard(Other(m))')
  BY Zenon, <1>0, <1>a, HeardStays
<1>b. ASSUME Heard(m) => Heard(m)',
             \A i \in DOMAIN sock'[m] : Genuine(m, sock'[m][i]),
             inHdr'[m] # Empty => Genuine(m, inHdr'[m]),
             \A b \in Box : \A i \in DOMAIN boxes'[m][b] :
                /\ Genuine(m, boxes'[m][b][i]) /\ boxes'[m][b][i].box = b
                /\ b = 0 => Heard(Other(m))',
             pc'[m] = "ack" =>
                /\ reply'[m] \in Packets /\ reply'[m].from = Other(m) /\ reply'[m].back = 1
                /\ Heard(Other(m))',
             heard'[m] => Heard(m)'
      PROVE  Answers(m)'
  <2>1. (\A i \in DOMAIN sock[m] : Genuine(m, sock[m][i]))'
    BY Zenon, <1>b DEF Genuine
  <2>2. (inHdr[m] # Empty => Genuine(m, inHdr[m]))'
    BY Zenon, <1>b DEF Genuine
  <2>3. (\A b \in Box : \A i \in DOMAIN boxes[m][b] :
            /\ Genuine(m, boxes[m][b][i]) /\ boxes[m][b][i].box = b
            /\ b = 0 => Heard(Other(m)))'
    BY Zenon, <1>b DEF Genuine
  <2>4. QED BY Zenon, <1>b, <2>1, <2>2, <2>3 DEF Answers
<1>c. ASSUME Heard(Other(m)) => Heard(Other(m))', boxes'[m] = boxes[m]
      PROVE  \A b \in Box : \A i \in DOMAIN boxes'[m][b] :
                /\ Genuine(m, boxes'[m][b][i]) /\ boxes'[m][b][i].box = b
                /\ b = 0 => Heard(Other(m))'
  BY Zenon, <1>0, <1>c DEF Answers
<1>d. ASSUME Heard(m) => Heard(m)', Heard(Other(m)) => Heard(Other(m))',
             reply'[m] = reply[m], pc'[m] = pc[m] \/ pc'[m] # "ack", heard'[m] = heard[m]
      PROVE  /\ pc'[m] = "ack" =>
                /\ reply'[m] \in Packets /\ reply'[m].from = Other(m) /\ reply'[m].back = 1
                /\ Heard(Other(m))'
             /\ heard'[m] => Heard(m)'
  BY Zenon, <1>0, <1>d DEF Answers
<1>e. /\ \A i \in DOMAIN sock[m] : Genuine(m, sock[m][i])
      /\ inHdr[m] # Empty => Genuine(m, inHdr[m])
      /\ \A b \in Box : \A i \in DOMAIN boxes[m][b] :
            /\ Genuine(m, boxes[m][b][i]) /\ boxes[m][b][i].box = b
            /\ b = 0 => Heard(Other(m))
  BY Zenon, <1>0 DEF Answers
<1>1. ASSUME put' = put, sock'[m] = sock[m], inHdr'[m] = inHdr[m], boxes'[m] = boxes[m],
             reply'[m] = reply[m], pc'[m] = pc[m] \/ pc'[m] # "ack", heard'[m] = heard[m]
      PROVE  Answers(m)'
  BY Zenon, <1>1, <1>a, <1>b, <1>c, <1>d, <1>e
<1>2. CASE Aside
  BY <1>1, <1>2 DEF Aside
<1>3. ASSUME NEW n \in Node, Reset(n) PROVE Answers(m)'
  <2>1. CASE m # n
    <3>1. /\ put' = put /\ sock'[m] = sock[m] /\ inHdr'[m] = inHdr[m] /\ boxes'[m] = boxes[m]
          /\ reply'[m] = reply[m] /\ pc'[m] = pc[m] /\ heard'[m] = heard[m]
      BY Zenon, <1>0, <1>3, <2>1 DEF Reset, NewOffice
    <3>2. QED BY Zenon, <1>1, <3>1
  <2>2. CASE m = n
    <3>1. /\ put' = put /\ heard' = heard /\ sock'[m] = <<>> /\ inHdr'[m] = Empty
          /\ pc'[m] = "hello" /\ \A b \in Box : boxes'[m][b] = <<>>
      BY Zenon, <1>0, <1>3, <2>2 DEF Reset, NewOffice
    <3>2. heard'[m] => Heard(m)'
      BY <1>0, <1>a, <3>1 DEF Answers
    <3>3. QED BY <1>a, <1>b, <3>1, <3>2
  <2>3. QED BY <2>1, <2>2
<1>4. ASSUME NEW n \in Node, NEW pkt, Posts(n, pkt) PROVE Answers(m)'
  <2>1. /\ UNCHANGED <<inHdr, boxes, reply, put, heard>>
        /\ Other(n) \in Node /\ Genuine(Other(n), pkt)
        /\ sock' = sock \/ sock' = [sock EXCEPT ![Other(n)] = Append(@, pkt)]
        /\ pc'[m] = pc[m] \/ pc'[m] # "ack"
    <3>1. pc'[m] = pc[m] \/ pc'[m] = "recv0" \/ pc'[m] = "recv1"
      BY <1>0, <1>4 DEF Posts
    <3>2. Other(n) \in Node
      BY Zenon, OtherIs
    <3>3. QED BY Zenon, <1>4, <3>1, <3>2 DEF Posts
  <2>2. CASE sock'[m] = sock[m]
    BY Zenon, <1>1, <2>1, <2>2
  <2>3. CASE sock'[m] # sock[m]
    <3>1. m = Other(n) /\ sock'[m] = Append(sock[m], pkt) /\ sock[m] \in Seq(Packets)
      BY Zenon, <1>0, <2>1, <2>3
    <3>2. \A i \in DOMAIN sock'[m] : sock'[m][i] = pkt \/ (i \in DOMAIN sock[m] /\ sock'[m][i] = sock[m][i])
      BY <3>1
    <3>3. \A i \in DOMAIN sock'[m] : Genuine(m, sock'[m][i])
      BY <1>e, <2>1, <3>1, <3>2
    <3>4. QED BY Zenon, <1>a, <1>b, <1>c, <1>d, <1>e, <2>1, <3>3
  <2>4. QED BY <2>2, <2>3
<1>5. ASSUME NEW n \in Node, Reads(n) PROVE Answers(m)'
  <2>1. UNCHANGED <<sock, inHdr, put>>
    BY <1>5 DEF Reads
  <2>2. PICK b \in {0, 1} : /\ Get(n, b)
                            /\ pc' = [pc EXCEPT ![n] = IF b = 0 THEN "ack" ELSE "halt"]
                            /\ heard' = IF b = 0 THEN heard ELSE [heard EXCEPT ![n] = TRUE]
    BY <1>5 DEF Reads
  <2>3. b \in Box
    BY DEF Box
  <2>4. CASE m # n
    <3>1. /\ boxes'[m] = boxes[m] /\ reply'[m] = reply[m] /\ pc'[m] = pc[m] /\ heard'[m] = heard[m]
      BY <1>0, <2>2, <2>4 DEF Get
    <3>2. QED BY Zenon, <1>1, <2>1, <3>1
  <2>5. CASE m = n
    <3>1. /\ boxes[m][b] \in Seq(Packets) /\ boxes[m][b] # <<>>
          /\ boxes'[m] = [boxes[m] EXCEPT ![b] = Tail(boxes[m][b])]
          /\ reply'[m] = Head(boxes[m][b])
      BY <1>0, <2>2, <2>3, <2>5 DEF Get
    <3>2. /\ Head(boxes[m][b]) = boxes[m][b][1] /\ 1 \in DOMAIN boxes[m][b]
          /\ boxes[m][b][1] \in Packets
      BY <3>1
    <3>3. /\ Genuine(m, boxes[m][b][1]) /\ boxes[m][b][1].box = b /\ (b = 0 => Heard(Other(m)))
      BY Zenon, <1>0, <2>3, <3>2 DEF Answers
    <3>4. \A c \in Box : \A i \in DOMAIN boxes'[m][c] :
            \E j \in DOMAIN boxes[m][c] : boxes'[m][c][i] = boxes[m][c][j]
      <4> SUFFICES ASSUME NEW c \in Box, NEW i \in DOMAIN boxes'[m][c]
                   PROVE  \E j \in DOMAIN boxes[m][c] : boxes'[m][c][i] = boxes[m][c][j]
        BY Zenon
      <4>1. CASE c = b
        <5>1. boxes'[m][c] = Tail(boxes[m][b])
          BY <1>0, <2>3, <3>1, <4>1
        <5>2. \A s \in Seq(Packets) : s # <<>> =>
                \A k \in DOMAIN Tail(s) : k + 1 \in DOMAIN s /\ Tail(s)[k] = s[k + 1]
          OBVIOUS
        <5>3. QED BY <3>1, <4>1, <5>1, <5>2
      <4>2. CASE c # b
        BY Zenon, <1>0, <3>1, <4>2
      <4>3. QED BY Zenon, <4>1, <4>2
    <3>5. pc'[m] = "ack" => /\ reply'[m] \in Packets /\ reply'[m].from = Other(m) /\ reply'[m].back = 1
                            /\ Heard(Other(m))'
      <4>1. pc'[m] = "ack" => b = 0
        BY <1>0, <2>2, <2>5
      <4>2. QED BY Zenon, <1>a, <2>1, <3>1, <3>2, <3>3, <4>1 DEF Genuine
    <3>6. heard'[m] => Heard(m)'
      <4>1. CASE b = 0
        BY Zenon, <1>0, <1>a, <2>1, <2>2, <4>1 DEF Answers
      <4>2. CASE b = 1
        BY Zenon, <1>a, <2>1, <3>3, <4>2 DEF Genuine
      <4>3. QED BY Zenon, <4>1, <4>2
    <3>7. \A c \in Box : \A i \in DOMAIN boxes'[m][c] :
            /\ Genuine(m, boxes'[m][c][i]) /\ boxes'[m][c][i].box = c
            /\ c = 0 => Heard(Other(m))'
      <4>1. Heard(Other(m)) => Heard(Other(m))'
        BY <1>a, <2>1
      <4>2. QED BY <1>e, <3>4, <4>1
    <3>8. QED BY Zenon, <1>a, <1>b, <1>e, <2>1, <3>5, <3>6, <3>7
  <2>6. QED BY <2>4, <2>5
<1>6. ASSUME NEW n \in Node, IncomingPacket(n) PROVE Answers(m)'
  <2>1. UNCHANGED <<put, boxes, reply, pc, heard>>
    BY Zenon, <1>6 DEF IncomingPacket
  <2>2. CASE m # n
    <3>1. sock'[m] = sock[m] /\ inHdr'[m] = inHdr[m]
      BY Zenon, <1>0, <1>6, <2>2 DEF IncomingPacket, CheckPktAvail
    <3>2. QED BY Zenon, <1>1, <2>1, <3>1
  <2>3. CASE m = n
    <3>1. /\ sock[m] # <<>> /\ sock[m] \in Seq(Packets)
          /\ sock'[m] = Tail(sock[m]) /\ inHdr'[m] = Head(sock[m])
      BY Zenon, <1>0, <1>6, <2>3 DEF IncomingPacket, CheckPktAvail
    <3>2. /\ inHdr'[m] = sock[m][1] /\ 1 \in DOMAIN sock[m]
          /\ \A i \in DOMAIN sock'[m] : sock'[m][i] = sock[m][i + 1] /\ i + 1 \in DOMAIN sock[m]
      BY <3>1
    <3>3. Genuine(m, inHdr'[m]) /\ \A i \in DOMAIN sock'[m] : Genuine(m, sock'[m][i])
      BY Zenon, <1>0, <3>2 DEF Answers
    <3>4. QED BY Zenon, <1>a, <1>b, <1>c, <1>d, <2>1, <3>3
  <2>4. QED BY <2>2, <2>3
<1>7. ASSUME NEW n \in Node, WorkerResume(n) PROVE Answers(m)'
  BY Zenon, <1>1, <1>7 DEF WorkerResume, netVars
<1>8. ASSUME NEW n \in Node, PostalDelivery(n) PROVE Answers(m)'
  <2> DEFINE p == inHdr[n]
  <2>1. /\ UNCHANGED <<sock, pc, reply, heard>> /\ inHdr' = [inHdr EXCEPT ![n] = Empty]
        /\ put' = [put EXCEPT ![n] = Append(@, p)] /\ p # Empty
        /\ boxes' = [boxes EXCEPT ![n][p.box] = Append(@, p)]
    BY <1>8 DEF PostalDelivery, TakePacket, Put, Inv, Types, PacketIsAnnounced
  <2>2. p \in Packets /\ p.box \in Box
    BY <1>0, <2>1 DEF Packets
  <2>3. (Heard(m) => Heard(m)') /\ (Heard(Other(m)) => Heard(Other(m))')
    BY <1>0, <2>1, HeardStays, Zenon
  <2>4. CASE m # n
    <3>1. boxes'[m] = boxes[m] /\ inHdr'[m] = inHdr[m]
      BY <1>0, <2>1, <2>4
    <3>2. QED BY <1>b, <1>c, <1>d, <1>e, <2>1, <2>3, <3>1, Zenon
  <2>5. CASE m = n
    <3>1. Genuine(m, p) /\ inHdr'[m] = Empty
      BY Zenon, <1>0, <2>1, <2>5 DEF Answers
    <3>2. p.box = 0 => Heard(Other(m))'
      <4>1. put[m] \in Seq(Packets) /\ put'[m] = Append(put[m], p) /\ Other(Other(m)) = m
        BY Zenon, <1>0, <2>1, <2>5, OtherIs
      <4>2. Len(put[m]) + 1 \in DOMAIN put'[m] /\ put'[m][Len(put[m]) + 1] = p
        BY <2>2, <4>1
      <4>3. QED BY Zenon, <3>1, <4>1, <4>2 DEF Heard, Genuine
    <3>3. \A c \in Box : \A i \in DOMAIN boxes'[m][c] :
            \/ i \in DOMAIN boxes[m][c] /\ boxes'[m][c][i] = boxes[m][c][i]
            \/ c = p.box /\ boxes'[m][c][i] = p
      <4> SUFFICES ASSUME NEW c \in Box, NEW i \in DOMAIN boxes'[m][c]
                   PROVE  \/ i \in DOMAIN boxes[m][c] /\ boxes'[m][c][i] = boxes[m][c][i]
                          \/ c = p.box /\ boxes'[m][c][i] = p
        OBVIOUS
      <4>1. CASE c = p.box
        <5>1. boxes'[m][c] = Append(boxes[m][c], p) /\ boxes[m][c] \in Seq(Packets)
          BY Zenon, <1>0, <2>1, <2>2, <2>5, <4>1
        <5>2. \A q \in Packets : boxes'[m][c] = Append(boxes[m][c], q) =>
                \/ i \in DOMAIN boxes[m][c] /\ boxes'[m][c][i] = boxes[m][c][i]
                \/ boxes'[m][c][i] = q
          BY <5>1
        <5>3. QED BY <2>2, <4>1, <5>1, <5>2, Zenon
      <4>2. CASE c # p.box
        BY Zenon, <1>0, <2>1, <2>2, <2>5, <4>2
      <4>3. QED BY Zenon, <4>1, <4>2
    <3>4. ASSUME NEW c \in Box, NEW i \in DOMAIN boxes'[m][c]
          PROVE  /\ Genuine(m, boxes'[m][c][i]) /\ boxes'[m][c][i].box = c
                 /\ c = 0 => Heard(Other(m))'
      <4>1. CASE i \in DOMAIN boxes[m][c] /\ boxes'[m][c][i] = boxes[m][c][i]
        <5>1. /\ Genuine(m, boxes[m][c][i]) /\ boxes[m][c][i].box = c
              /\ c = 0 => Heard(Other(m))
          BY Zenon, <1>0, <4>1 DEF Answers
        <5>2. QED BY Zenon, <2>3, <4>1, <5>1
      <4>2. CASE c = p.box /\ boxes'[m][c][i] = p
        BY <3>1, <3>2, <4>2
      <4>3. QED BY Zenon, <3>3, <4>1, <4>2
    <3>5. QED BY <1>b, <1>d, <1>e, <2>1, <2>3, <3>1, <3>4, Zenon
  <2>6. QED BY <2>4, <2>5
<1>9. QED BY StepKinds, <1>2, <1>3, <1>4, <1>5, <1>6, <1>7, <1>8
-----------------------------------------------------------------------------
(* Two orderly sequences, the first before the second, are orderly together.  *)
LEMMA JoinedInOrder ==
    ASSUME NEW s \in Seq(Packets), NEW t \in Seq(Packets),
           \A i, j \in DOMAIN s : i < j => Before(s[i], s[j]),
           \A i, j \in DOMAIN t : i < j => Before(t[i], t[j]),
           \A i \in DOMAIN s, j \in DOMAIN t : Before(s[i], t[j])
    PROVE  /\ s \o t \in Seq(Packets)
           /\ \A i, j \in DOMAIN (s \o t) : i < j => Before((s \o t)[i], (s \o t)[j])
<1>1. /\ s \o t \in Seq(Packets) /\ Len(s \o t) = Len(s) + Len(t)
      /\ DOMAIN s = 1 .. Len(s) /\ DOMAIN t = 1 .. Len(t) /\ Len(s) \in Nat /\ Len(t) \in Nat
      /\ DOMAIN (s \o t) = 1 .. Len(s) + Len(t)
  OBVIOUS
<1>2. \A i \in DOMAIN (s \o t) : (s \o t)[i] = IF i <= Len(s) THEN s[i] ELSE t[i - Len(s)]
  OBVIOUS
<1>3. ASSUME NEW i \in DOMAIN (s \o t), NEW j \in DOMAIN (s \o t), i < j
      PROVE  Before((s \o t)[i], (s \o t)[j])
  <2>1. CASE j <= Len(s)
    <3>1. i \in DOMAIN s /\ j \in DOMAIN s /\ i <= Len(s)
      BY <1>1, <1>3, <2>1
    <3>2. QED BY Zenon, <1>2, <1>3, <2>1, <3>1
  <2>2. CASE i <= Len(s) /\ ~(j <= Len(s))
    <3>1. i \in DOMAIN s /\ j - Len(s) \in DOMAIN t
      BY <1>1, <1>3, <2>2
    <3>2. QED BY Zenon, <1>2, <2>2, <3>1
  <2>3. CASE ~(i <= Len(s)) /\ ~(j <= Len(s))
    <3>1. i - Len(s) \in DOMAIN t /\ j - Len(s) \in DOMAIN t /\ i - Len(s) < j - Len(s)
      BY <1>1, <1>3, <2>3
    <3>2. QED BY Zenon, <1>2, <2>3, <3>1
  <2>4. QED BY Zenon, <1>1, <1>3, <2>1, <2>2, <2>3
<1>4. QED BY Zenon, <1>1, <1>3

(* Put, buffered and unread mail is orderly as one sequence.                  *)
LEMMA InvOrders == ASSUME Inv PROVE MailInOrder
<1> SUFFICES ASSUME NEW n \in Node
             PROVE  LET mail == put[n] \o (IF inHdr[n] = Empty THEN <<>> ELSE <<inHdr[n]>>) \o sock[n]
                    IN  \A i, j \in DOMAIN mail :
                            i < j /\ mail[i].from = mail[j].from => mail[i].id < mail[j].id
  BY Zenon DEF MailInOrder
<1> DEFINE buf == IF inHdr[n] = Empty THEN <<>> ELSE <<inHdr[n]>>
           got == put[n] \o buf
           mail == got \o sock[n]
<1>1. put[n] \in Seq(Packets) /\ sock[n] \in Seq(Packets) /\ Ordered(n)
      /\ inHdr[n] \in Packets \cup {Empty}
  BY Zenon DEF Inv, Types
<1>2. buf \in Seq(Packets) /\ \A i \in DOMAIN buf : i = 1 /\ buf[i] = inHdr[n] /\ inHdr[n] # Empty
  <2>1. CASE inHdr[n] = Empty
    BY <2>1
  <2>2. CASE inHdr[n] # Empty
    BY <1>1, <2>2
  <2>3. QED BY <2>1, <2>2
<1>3. /\ got \in Seq(Packets)
      /\ \A i, j \in DOMAIN got : i < j => Before(got[i], got[j])
  <2>1. /\ \A i, j \in DOMAIN put[n] : i < j => Before(put[n][i], put[n][j])
        /\ \A i \in DOMAIN put[n], j \in DOMAIN buf : Before(put[n][i], buf[j])
    BY Zenon, <1>1, <1>2 DEF Ordered
  <2>2. \A i, j \in DOMAIN buf : i < j => Before(buf[i], buf[j])
    <3>1. \A i, j \in DOMAIN buf : ~(i < j)
      BY <1>2
    <3>2. QED BY <3>1
  <2> HIDE DEF buf
  <2>3. QED BY Zenon, <1>1, <1>2, <2>1, <2>2, JoinedInOrder
<1>4. \A i \in DOMAIN got : \/ \E k \in DOMAIN put[n] : got[i] = put[n][k]
                            \/ inHdr[n] # Empty /\ got[i] = inHdr[n]
  <2> HIDE DEF buf
  <2> SUFFICES ASSUME NEW i \in DOMAIN got
               PROVE  \/ \E k \in DOMAIN put[n] : got[i] = put[n][k]
                      \/ inHdr[n] # Empty /\ got[i] = inHdr[n]
    BY Zenon
  <2>1. CASE i <= Len(put[n])
    <3>1. i \in DOMAIN put[n] /\ got[i] = put[n][i]
      BY <1>1, <1>2, <2>1
    <3>2. QED BY Zenon, <3>1
  <2>2. CASE ~(i <= Len(put[n]))
    <3>1. i - Len(put[n]) \in DOMAIN buf /\ got[i] = buf[i - Len(put[n])]
      BY <1>1, <1>2, <2>2
    <3>2. QED BY Zenon, <1>2, <3>1
  <2>3. QED BY Zenon, <2>1, <2>2
<1>5. \A i \in DOMAIN got, j \in DOMAIN sock[n] : Before(got[i], sock[n][j])
  <2> HIDE DEF got
  <2>1. QED BY Zenon, <1>1, <1>4 DEF Ordered
<1>6. \A i, j \in DOMAIN mail : i < j => Before(mail[i], mail[j])
  <2>1. \A i, j \in DOMAIN sock[n] : i < j => Before(sock[n][i], sock[n][j])
    BY Zenon, <1>1 DEF Ordered
  <2> HIDE DEF got
  <2>2. QED BY Zenon, <1>1, <1>3, <1>5, <2>1, JoinedInOrder
<1>7. QED BY <1>6, Zenon DEF Before

(* Nothing is on its way and nothing was heard at the start.                  *)
LEMMA InitHasInv == ASSUME Init PROVE Inv
<1>1. /\ sock = [n \in Node |-> <<>>] /\ inHdr = [n \in Node |-> Empty]
      /\ avail = [n \in Node |-> 0] /\ worker = [n \in Node |-> "ready"]
      /\ boxes = [n \in Node |-> [b \in Box |-> <<>>]]
      /\ pc = [n \in Node |-> "hello"] /\ reply = [n \in Node |-> Empty]
      /\ id = [n \in Node |-> 0] /\ put = [n \in Node |-> <<>>] /\ heard = [n \in Node |-> FALSE]
  BY DEF Init, NetworkInit
<1>2. Types
  BY <1>1 DEF Types
<1>3. PacketIsAnnounced
  BY <1>1 DEF PacketIsAnnounced
<1>4. ASSUME NEW n \in Node PROVE Ordered(n)
  BY <1>1, <1>4 DEF Ordered
<1>5. ASSUME NEW n \in Node PROVE Answers(n)
  BY <1>1, <1>5 DEF Answers
<1>6. QED BY <1>2, <1>3, <1>4, <1>5 DEF Inv

(* Inv is inductive.                                                          *)
LEMMA AlwaysInv == Spec => []Inv
<1>1. Init => Inv
  BY InitHasInv
<1>2. Inv /\ [Next]_vars => Inv'
  BY TypesKept, AnnouncedKept, OrderKept, AnswersKept DEF Inv
<1>3. QED BY <1>1, <1>2, PTL DEF Spec

(* Receive always finds the packet the postal worker was woken for, whatever  *)
(* is lost and whenever a machine is interrupted and started again.           *)
THEOREM PacketAlwaysAnnounced == Spec => []PacketIsAnnounced
<1>1. Inv => PacketIsAnnounced
  BY DEF Inv
<1>2. QED BY <1>1, AlwaysInv, PTL

(* Mail arrives in the order it was sent and at most once, however much of it *)
(* is sent.                                                                   *)
THEOREM MailAlwaysInOrder == Spec => []MailInOrder
<1>1. Inv => MailInOrder
  BY Zenon, InvOrders
<1>2. QED BY <1>1, AlwaysInv, PTL

(* An answer read from mailbox 1 means that the "hello" was received.         *)
THEOREM AckAlwaysMeansReceived == Spec => []AckMeansReceived
<1>1. Inv => AckMeansReceived
  BY Zenon DEF Inv, Answers, Heard, AckMeansReceived
<1>2. QED BY <1>1, AlwaysInv, PTL
-----------------------------------------------------------------------------
(* Sends and interrupts are counted: the facts about cardinalities are needed *)
(* from here on only.                                                         *)
INSTANCE FiniteSetTheorems

Phase == {"no", "asleep", "ready"}

(* The threads of a machine in some phases of PostOffice::Send.               *)
In(f, P) == {t \in Sender : f[t] \in P}

(* The interrupts of SendDone among those pending.                            *)
ToCome(p) == {i \in DOMAIN p : p[i] = "sendDone"}

(* Nobody waits twice in a queue, and who waits in it.                        *)
Distinct(q) == \A i, j \in DOMAIN q : q[i] = q[j] => i = j
Queued(q, t) == \E i \in DOMAIN q : q[i] = t

(* What holds of one machine: p is pending, s messageSent's value, q its      *)
(* queue and f what sending says of its threads.  While a thread sleeps, each *)
(* unit has a thread that has been woken for it.                              *)
Matched(p, s, q, f) ==
    /\ p \in Seq({"poll", "sendDone"})
    /\ s \in Nat
    /\ q \in Seq(Sender)
    /\ f \in [Sender -> Phase]
    /\ Distinct(q)
    /\ \A t \in Sender : f[t] = "asleep" <=> Queued(q, t)
    /\ Cardinality(In(f, {"asleep", "ready"})) = Cardinality(ToCome(p)) + s
    /\ In(f, {"asleep"}) # {} => Cardinality(In(f, {"ready"})) >= s

(* 1 for a phase among some, 0 for another.                                   *)
Has(v, P) == IF v \in P THEN 1 ELSE 0

(* Some threads can be counted.                                               *)
LEMMA InFinite ==
    ASSUME NEW f, NEW P
    PROVE  IsFiniteSet(In(f, P)) /\ Cardinality(In(f, P)) \in Nat
<1>1. IsFiniteSet(Sender)
  <2>1. Sender = {"main"} \cup {"chat"}
    BY DEF Sender
  <2>2. IsFiniteSet({"main"}) /\ IsFiniteSet({"chat"})
    BY FS_Singleton
  <2>3. QED BY <2>1, <2>2, FS_Union, Zenon
<1>2. In(f, P) \in SUBSET Sender
  BY Zenon DEF In
<1>3. QED BY <1>1, <1>2, FS_Subset, FS_CardinalityType

(* A thread moves from one phase to another.                                  *)
LEMMA InMoves ==
    ASSUME NEW f, NEW g, NEW t \in Sender, \A u \in Sender : u # t => g[u] = f[u], NEW P
    PROVE  Cardinality(In(g, P)) = Cardinality(In(f, P)) + Has(g[t], P) - Has(f[t], P)
<1>1. IsFiniteSet(In(f, P)) /\ Cardinality(In(f, P)) \in Nat
  BY InFinite
<1>2. t \in In(f, P) <=> f[t] \in P
  BY Zenon DEF In
<1>3. CASE g[t] \in P
  <2>1. In(g, P) = In(f, P) \cup {t}
    BY <1>3 DEF In
  <2>2. Cardinality(In(f, P) \cup {t}) =
          IF t \in In(f, P) THEN Cardinality(In(f, P)) ELSE Cardinality(In(f, P)) + 1
    BY <1>1, FS_AddElement, Zenon
  <2>3. CASE f[t] \in P
    BY <1>1, <1>2, <1>3, <2>1, <2>2, <2>3 DEF Has
  <2>4. CASE f[t] \notin P
    BY <1>1, <1>2, <1>3, <2>1, <2>2, <2>4 DEF Has
  <2>5. QED BY <2>3, <2>4
<1>4. CASE g[t] \notin P
  <2>1. In(g, P) = In(f, P) \ {t}
    BY <1>4 DEF In
  <2>2. Cardinality(In(f, P) \ {t}) =
          IF t \in In(f, P) THEN Cardinality(In(f, P)) - 1 ELSE Cardinality(In(f, P))
    BY <1>1, FS_RemoveElement, Zenon
  <2>3. CASE f[t] \in P
    BY <1>1, <1>2, <1>4, <2>1, <2>2, <2>3 DEF Has
  <2>4. CASE f[t] \notin P
    BY <1>1, <1>2, <1>4, <2>1, <2>2, <2>4 DEF Has
  <2>5. QED BY <2>3, <2>4
<1>5. QED BY Zenon, <1>3, <1>4

(* Interrupts can be counted.                                                 *)
LEMMA ToComeFinite ==
    ASSUME NEW S, NEW p \in Seq(S)
    PROVE  IsFiniteSet(ToCome(p)) /\ Cardinality(ToCome(p)) \in Nat
<1>1. DOMAIN p = 1 .. Len(p) /\ Len(p) \in Nat
  OBVIOUS
<1>2. IsFiniteSet(1 .. Len(p))
  BY <1>1, FS_Interval
<1>3. ToCome(p) \in SUBSET (1 .. Len(p))
  BY Zenon, <1>1 DEF ToCome
<1>4. QED BY <1>2, <1>3, FS_Subset, FS_CardinalityType

(* An interrupt is scheduled.                                                 *)
LEMMA ToComeAppend ==
    ASSUME NEW S, NEW p \in Seq(S), NEW x \in S
    PROVE  Cardinality(ToCome(Append(p, x))) =
             Cardinality(ToCome(p)) + (IF x = "sendDone" THEN 1 ELSE 0)
<1> DEFINE r == Append(p, x)
           m == Len(p) + 1
<1>1. /\ Len(p) \in Nat /\ DOMAIN p = 1 .. Len(p) /\ DOMAIN r = 1 .. m
      /\ r[m] = x /\ \A i \in 1 .. Len(p) : r[i] = p[i]
  OBVIOUS
<1>2. IsFiniteSet(ToCome(p)) /\ Cardinality(ToCome(p)) \in Nat
  BY ToComeFinite
<1> HIDE DEF r
<1>3. m \notin ToCome(p) /\ DOMAIN r = DOMAIN p \cup {m}
  BY <1>1 DEF ToCome
<1>4. CASE x = "sendDone"
  <2>1. ToCome(r) = ToCome(p) \cup {m}
    BY Zenon, <1>1, <1>3, <1>4 DEF ToCome
  <2>2. QED BY Zenon, <1>2, <1>3, <1>4, <2>1, FS_AddElement DEF r
<1>5. CASE x # "sendDone"
  <2>1. ToCome(r) = ToCome(p)
    BY Zenon, <1>1, <1>3, <1>5 DEF ToCome
  <2>2. QED BY <1>2, <1>5, <2>1 DEF r
<1>6. QED BY <1>4, <1>5

(* The first interrupt fires.                                                 *)
LEMMA ToComeTail ==
    ASSUME NEW S, NEW p \in Seq(S), p # <<>>
    PROVE  Cardinality(ToCome(Tail(p))) =
             Cardinality(ToCome(p)) - (IF Head(p) = "sendDone" THEN 1 ELSE 0)
<1> DEFINE r == Tail(p)
           A == ToCome(p) \ {1}
           g == [i \in A |-> i - 1]
<1>1. /\ Len(p) \in Nat \ {0} /\ DOMAIN p = 1 .. Len(p) /\ DOMAIN r = 1 .. Len(p) - 1
      /\ Head(p) = p[1] /\ \A i \in 1 .. Len(p) - 1 : r[i] = p[i + 1]
  OBVIOUS
<1>2. IsFiniteSet(ToCome(p)) /\ Cardinality(ToCome(p)) \in Nat
  BY ToComeFinite
<1>3. 1 \in ToCome(p) <=> Head(p) = "sendDone"
  BY <1>1 DEF ToCome
<1>4. /\ IsFiniteSet(A)
      /\ Cardinality(A) = IF 1 \in ToCome(p) THEN Cardinality(ToCome(p)) - 1
                          ELSE Cardinality(ToCome(p))
  BY Zenon, <1>2, FS_RemoveElement
<1> HIDE DEF r
<1>5. \A i \in A : i \in 2 .. Len(p) /\ i - 1 \in ToCome(r)
  BY <1>1 DEF ToCome
<1>6. \A j \in ToCome(r) : j \in Nat /\ j + 1 \in A
  BY <1>1 DEF ToCome
<1> HIDE DEF A
<1>7. g \in [A -> ToCome(r)]
  BY Zenon, <1>5
<1>8. g \in Injection(A, ToCome(r))
  <2>1. \A i, j \in A : g[i] = g[j] => i = j
    BY <1>1, <1>5
  <2>2. QED BY Zenon, <1>7, <2>1 DEF Injection, IsInjective
<1>9. g \in Surjection(A, ToCome(r))
  <2>1. \A j \in ToCome(r) : j + 1 \in A /\ g[j + 1] = j
    BY <1>6
  <2>2. QED BY <1>7, <2>1, Zenon DEF Surjection
<1>10. ExistsBijection(A, ToCome(r))
  BY Zenon, <1>8, <1>9 DEF ExistsBijection, Bijection
<1>11. Cardinality(ToCome(r)) = Cardinality(A)
  BY Zenon, <1>4, <1>10, FS_Bijection
<1>12. QED BY <1>2, <1>3, <1>4, <1>11 DEF r

(* Those in P are asleep or ready.                                            *)
LEMMA PhaseSplit ==
    ASSUME NEW f \in [Sender -> Phase]
    PROVE  Cardinality(In(f, {"asleep", "ready"})) =
             Cardinality(In(f, {"asleep"})) + Cardinality(In(f, {"ready"}))
<1>1. /\ In(f, {"asleep", "ready"}) = In(f, {"asleep"}) \cup In(f, {"ready"})
      /\ In(f, {"asleep"}) \cap In(f, {"ready"}) = {}
  BY Zenon DEF In
<1>2. /\ IsFiniteSet(In(f, {"asleep"})) /\ IsFiniteSet(In(f, {"ready"}))
      /\ Cardinality(In(f, {"asleep"})) \in Nat /\ Cardinality(In(f, {"ready"})) \in Nat
  BY Zenon, InFinite
<1>3. Cardinality(In(f, {"asleep"}) \cap In(f, {"ready"})) = 0
  BY Zenon, <1>1, FS_EmptySet
<1>4. Cardinality(In(f, {"asleep"}) \cup In(f, {"ready"})) =
        Cardinality(In(f, {"asleep"})) + Cardinality(In(f, {"ready"}))
          - Cardinality(In(f, {"asleep"}) \cap In(f, {"ready"}))
  BY <1>2, FS_Union
<1>5. QED BY <1>1, <1>2, <1>3, <1>4

(* Nobody waits in an empty queue.                                            *)
LEMMA QueueEmpty == Distinct(<<>>) /\ \A u : ~Queued(<<>>, u)
  BY DEF Distinct, Queued

(* Who is appended to a queue waits in it, once.                              *)
LEMMA QueueAppend ==
    ASSUME NEW S, NEW q \in Seq(S), NEW t \in S, Distinct(q), ~Queued(q, t)
    PROVE  /\ Distinct(Append(q, t))
           /\ \A u : Queued(Append(q, t), u) <=> u = t \/ Queued(q, u)
<1> DEFINE r == Append(q, t)
<1>1. /\ DOMAIN r = 1 .. Len(q) + 1 /\ DOMAIN q = 1 .. Len(q) /\ Len(q) \in Nat
      /\ r[Len(q) + 1] = t /\ \A i \in 1 .. Len(q) : r[i] = q[i]
  OBVIOUS
<1> HIDE DEF r
<1>2. Distinct(r)
  BY <1>1 DEF Distinct, Queued
<1>3. \A u : Queued(r, u) <=> u = t \/ Queued(q, u)
  BY <1>1 DEF Queued
<1>4. QED BY Zenon, <1>2, <1>3 DEF r

(* Who is taken from the front of a queue no longer waits in it.              *)
LEMMA QueueTail ==
    ASSUME NEW S, NEW q \in Seq(S), q # <<>>, Distinct(q)
    PROVE  /\ Head(q) \in S /\ Tail(q) \in Seq(S) /\ Queued(q, Head(q))
           /\ Distinct(Tail(q))
           /\ \A u : Queued(Tail(q), u) <=> u # Head(q) /\ Queued(q, u)
<1> DEFINE r == Tail(q)
           t == Head(q)
<1>1. /\ Len(q) \in Nat /\ Len(q) >= 1 /\ DOMAIN q = 1 .. Len(q)
      /\ DOMAIN r = 1 .. Len(q) - 1 /\ t = q[1] /\ t \in S /\ r \in Seq(S)
  OBVIOUS
<1>2. \A i \in DOMAIN r : r[i] = q[i + 1]
  OBVIOUS
<1> HIDE DEF r, t
<1>3. 1 \in DOMAIN q /\ Queued(q, t)
  BY <1>1 DEF Queued
<1>4. ASSUME NEW i \in DOMAIN r PROVE i \in Nat /\ i + 1 # 1 /\ i + 1 \in DOMAIN q
  BY <1>1
<1>5. Distinct(r)
  <2> SUFFICES ASSUME NEW i \in DOMAIN r, NEW j \in DOMAIN r, r[i] = r[j] PROVE i = j
    BY Zenon DEF Distinct
  <2>1. i \in Nat /\ i + 1 \in DOMAIN q /\ j \in Nat /\ j + 1 \in DOMAIN q
    BY Zenon, <1>4
  <2>2. q[i + 1] = q[j + 1]
    BY <1>2
  <2>3. i + 1 = j + 1
    BY <2>1, <2>2, Zenon DEF Distinct
  <2>4. QED BY <2>1, <2>3
<1>6. ASSUME NEW u, Queued(r, u) PROVE u # t /\ Queued(q, u)
  <2>1. PICK i \in DOMAIN r : r[i] = u
    BY Zenon, <1>6 DEF Queued
  <2>2. i + 1 # 1 /\ i + 1 \in DOMAIN q /\ q[i + 1] = u
    BY <1>2, <1>4, <2>1
  <2>3. q[i + 1] # q[1]
    BY <1>3, <2>2, Zenon DEF Distinct
  <2>4. QED BY <1>1, <2>2, <2>3, Zenon DEF Queued
<1>7. ASSUME NEW u, u # t, Queued(q, u) PROVE Queued(r, u)
  <2>1. PICK j \in DOMAIN q : q[j] = u
    BY Zenon, <1>7 DEF Queued
  <2>2. j # 1
    BY Zenon, <1>1, <1>7, <2>1
  <2>3. j - 1 \in DOMAIN r /\ (j - 1) + 1 = j
    BY <1>1, <2>2
  <2>4. r[j - 1] = u
    BY <1>2, <2>1, <2>3
  <2>5. QED BY <2>3, <2>4 DEF Queued
<1>8. QED BY Zenon, <1>1, <1>3, <1>5, <1>6, <1>7 DEF r, t

(* A machine that starts, or ends, has nobody in PostOffice::Send.            *)
LEMMA MatchedFresh ==
    ASSUME NEW p \in {<<>>, <<"poll">>}
    PROVE  Matched(p, 0, <<>>, [t \in Sender |-> "no"])
<1> DEFINE f == [t \in Sender |-> "no"]
<1>1. p \in Seq({"poll", "sendDone"}) /\ ToCome(p) = {}
  <2>1. CASE p = <<>>
    BY <2>1 DEF ToCome
  <2>2. CASE p = <<"poll">>
    BY <2>2 DEF ToCome
  <2>3. QED BY <2>1, <2>2
<1>2. f \in [Sender -> Phase] /\ \A t \in Sender : f[t] = "no"
  BY DEF Phase
<1> HIDE DEF f
<1>3. In(f, {"asleep", "ready"}) = {} /\ In(f, {"asleep"}) = {}
  BY <1>2 DEF In
<1>4. Cardinality(In(f, {"asleep", "ready"})) = 0 /\ Cardinality(ToCome(p)) = 0
  BY <1>1, <1>3, FS_EmptySet, Zenon
<1>5. Matched(p, 0, <<>>, f)
  BY <1>1, <1>2, <1>3, <1>4, QueueEmpty DEF Matched
<1>6. QED BY <1>5 DEF f

(* P, after Network::Send has scheduled an interrupt or after a wake-up: the  *)
(* thread sleeps when there is no unit, and takes one otherwise.              *)
LEMMA MatchedP ==
    ASSUME NEW p, NEW s, NEW q, NEW f, Matched(p, s, q, f), NEW t \in Sender, NEW p2,
           \/ f[t] = "no" /\ p2 = Append(p, "sendDone")
           \/ f[t] = "ready" /\ p2 = p
    PROVE  /\ s = 0 => Matched(p2, s, Append(q, t), [f EXCEPT ![t] = "asleep"])
           /\ s # 0 => Matched(p2, s - 1, q, [f EXCEPT ![t] = "no"])
<1>1. /\ p \in Seq({"poll", "sendDone"}) /\ s \in Nat /\ q \in Seq(Sender)
      /\ f \in [Sender -> Phase]
      /\ Distinct(q)
      /\ \A u \in Sender : f[u] = "asleep" <=> Queued(q, u)
      /\ Cardinality(In(f, {"asleep", "ready"})) = Cardinality(ToCome(p)) + s
      /\ In(f, {"asleep"}) # {} => Cardinality(In(f, {"ready"})) >= s
  BY Zenon DEF Matched
<1>2. /\ Cardinality(In(f, {"asleep", "ready"})) \in Nat
      /\ Cardinality(In(f, {"ready"})) \in Nat /\ Cardinality(ToCome(p)) \in Nat
  BY Zenon, <1>1, InFinite, ToComeFinite
<1>3. p2 \in Seq({"poll", "sendDone"})
  <2>1. p \in Seq({"poll", "sendDone"})
    BY Zenon, <1>1
  <2>2. Append(p, "sendDone") \in Seq({"poll", "sendDone"})
    BY ONLY <2>1
  <2>3. QED BY Zenon, <2>1, <2>2
<1>4. Cardinality(ToCome(p2)) = Cardinality(ToCome(p)) + (IF f[t] = "no" THEN 1 ELSE 0)
  <2>1. CASE f[t] = "no"
    <3>1. p2 = Append(p, "sendDone") /\ "sendDone" \in {"poll", "sendDone"}
      BY Zenon, <2>1
    <3>2. Cardinality(ToCome(p2)) = Cardinality(ToCome(p)) + 1
      BY Zenon, <1>1, <3>1, ToComeAppend
    <3>3. QED BY <2>1, <3>2
  <2>2. CASE f[t] # "no"
    BY <1>2, <2>2
  <2>3. QED BY Zenon, <2>1, <2>2
<1>5. f[t] \in {"no", "ready"}
  BY Zenon
<1>6. ASSUME s = 0 PROVE Matched(p2, s, Append(q, t), [f EXCEPT ![t] = "asleep"])
  <2> DEFINE g == [f EXCEPT ![t] = "asleep"]
             r == Append(q, t)
  <2>0. g[t] = "asleep" /\ \A u \in Sender : u # t => g[u] = f[u]
    BY Zenon, <1>1
  <2>1. Cardinality(In(g, {"asleep", "ready"})) =
          Cardinality(In(f, {"asleep", "ready"})) + (IF f[t] = "no" THEN 1 ELSE 0)
    <3> HIDE DEF g
    <3>1. Cardinality(In(g, {"asleep", "ready"})) =
            Cardinality(In(f, {"asleep", "ready"})) + Has(g[t], {"asleep", "ready"})
              - Has(f[t], {"asleep", "ready"})
      BY <2>0, InMoves, Zenon
    <3>2. CASE f[t] = "no"
      BY <1>2, <2>0, <3>1, <3>2 DEF Has
    <3>3. CASE f[t] = "ready"
      BY <1>2, <2>0, <3>1, <3>3 DEF Has
    <3>4. QED BY <1>5, <3>2, <3>3
  <2>2. Cardinality(In(g, {"asleep", "ready"})) = Cardinality(ToCome(p2)) + s
    BY <1>1, <1>2, <1>4, <1>6, <2>1
  <2>3. Cardinality(In(g, {"ready"})) >= s
    BY <1>6, InFinite
  <2>4. g \in [Sender -> Phase] /\ r \in Seq(Sender)
    BY <1>1 DEF Phase
  <2>5. ~Queued(q, t)
    BY Zenon, <1>1, <1>5
  <2>6. Distinct(r) /\ \A u : Queued(r, u) <=> u = t \/ Queued(q, u)
    BY Zenon, <1>1, <2>5, QueueAppend
  <2> HIDE DEF g, r
  <2>7. \A u \in Sender : g[u] = "asleep" <=> Queued(r, u)
    BY <1>1, <2>0, <2>6
  <2>8. Matched(p2, s, r, g)
    BY Zenon, <1>1, <1>3, <2>2, <2>3, <2>4, <2>6, <2>7 DEF Matched
  <2>9. QED BY Zenon, <2>8 DEF g, r
<1>7. ASSUME s # 0 PROVE Matched(p2, s - 1, q, [f EXCEPT ![t] = "no"])
  <2> DEFINE g == [f EXCEPT ![t] = "no"]
  <2>0. g[t] = "no" /\ \A u \in Sender : u # t => g[u] = f[u]
    BY Zenon, <1>1
  <2>1. /\ Cardinality(In(g, {"asleep", "ready"})) =
             Cardinality(In(f, {"asleep", "ready"})) - (IF f[t] = "ready" THEN 1 ELSE 0)
        /\ Cardinality(In(g, {"ready"})) =
             Cardinality(In(f, {"ready"})) - (IF f[t] = "ready" THEN 1 ELSE 0)
    <3> HIDE DEF g
    <3>1. Cardinality(In(g, {"asleep", "ready"})) =
            Cardinality(In(f, {"asleep", "ready"})) + Has(g[t], {"asleep", "ready"})
              - Has(f[t], {"asleep", "ready"})
      BY <2>0, InMoves, Zenon
    <3>2. Cardinality(In(g, {"ready"})) =
            Cardinality(In(f, {"ready"})) + Has(g[t], {"ready"}) - Has(f[t], {"ready"})
      BY <2>0, InMoves, Zenon
    <3>3. CASE f[t] = "no"
      BY <1>2, <2>0, <3>1, <3>2, <3>3 DEF Has
    <3>4. CASE f[t] = "ready"
      BY <1>2, <2>0, <3>1, <3>2, <3>4 DEF Has
    <3>5. QED BY <1>5, <3>3, <3>4
  <2>2. Cardinality(In(g, {"asleep", "ready"})) = Cardinality(ToCome(p2)) + (s - 1)
    BY <1>1, <1>2, <1>4, <1>5, <1>7, <2>1
  <2>3. g \in [Sender -> Phase] /\ s - 1 \in Nat
    BY <1>1, <1>7 DEF Phase
  <2>4. \A u \in Sender : g[u] = "asleep" <=> f[u] = "asleep"
    BY Zenon, <1>1, <1>5
  <2> HIDE DEF g
  <2>5. In(g, {"asleep"}) = In(f, {"asleep"})
    BY Zenon, <2>4 DEF In
  <2>6. In(g, {"asleep"}) # {} => Cardinality(In(g, {"ready"})) >= s - 1
    BY <1>1, <1>2, <1>7, <2>1, <2>5
  <2>7. Matched(p2, s - 1, q, g)
    BY Zenon, <1>1, <1>3, <2>2, <2>3, <2>4, <2>6 DEF Matched
  <2>8. QED BY Zenon, <2>7 DEF g
<1>8. QED BY Zenon, <1>6, <1>7

(* V, from the interrupt: the unit it adds is for the thread it wakes.        *)
LEMMA MatchedV ==
    ASSUME NEW p, NEW s, NEW q, NEW f, Matched(p, s, q, f), p # <<>>, Head(p) = "sendDone"
    PROVE  /\ q = <<>> => Matched(Tail(p), s + 1, q, f)
           /\ q # <<>> => /\ Head(q) \in Sender
                          /\ Matched(Tail(p), s + 1, Tail(q), [f EXCEPT ![Head(q)] = "ready"])
<1>1. /\ p \in Seq({"poll", "sendDone"}) /\ s \in Nat /\ q \in Seq(Sender)
      /\ f \in [Sender -> Phase]
      /\ Distinct(q)
      /\ \A u \in Sender : f[u] = "asleep" <=> Queued(q, u)
      /\ Cardinality(In(f, {"asleep", "ready"})) = Cardinality(ToCome(p)) + s
      /\ In(f, {"asleep"}) # {} => Cardinality(In(f, {"ready"})) >= s
  BY Zenon DEF Matched
<1>2. /\ Cardinality(In(f, {"asleep", "ready"})) \in Nat
      /\ Cardinality(In(f, {"ready"})) \in Nat /\ Cardinality(ToCome(p)) \in Nat
  BY Zenon, <1>1, InFinite, ToComeFinite
<1>3. Tail(p) \in Seq({"poll", "sendDone"}) /\ s + 1 \in Nat
  BY <1>1
<1>4. Cardinality(ToCome(Tail(p))) = Cardinality(ToCome(p)) - 1
  BY Zenon, <1>1, ToComeTail
<1>5. ASSUME q = <<>> PROVE Matched(Tail(p), s + 1, q, f)
  <2>1. In(f, {"asleep"}) = {}
    BY Zenon, <1>1, <1>5, QueueEmpty DEF In
  <2>2. Cardinality(In(f, {"asleep", "ready"})) = Cardinality(ToCome(Tail(p))) + (s + 1)
    BY <1>1, <1>2, <1>4
  <2>3. QED BY Zenon, <1>1, <1>3, <2>1, <2>2 DEF Matched
<1>6. ASSUME q # <<>>
      PROVE  /\ Head(q) \in Sender
             /\ Matched(Tail(p), s + 1, Tail(q), [f EXCEPT ![Head(q)] = "ready"])
  <2> DEFINE t == Head(q)
             r == Tail(q)
             g == [f EXCEPT ![t] = "ready"]
  <2>1. /\ t \in Sender /\ r \in Seq(Sender) /\ Queued(q, t)
        /\ Distinct(r) /\ \A u : Queued(r, u) <=> u # t /\ Queued(q, u)
    BY Zenon, <1>1, <1>6, QueueTail
  <2>2. g \in [Sender -> Phase] /\ g[t] = "ready" /\ \A u \in Sender : u # t => g[u] = f[u]
    BY Zenon, <1>1, <2>1 DEF Phase
  <2> HIDE DEF r, t
  <2>3. f[t] = "asleep"
    BY Zenon, <1>1, <2>1
  <2>4. Cardinality(In(g, {"asleep", "ready"})) = Cardinality(In(f, {"asleep", "ready"}))
        /\ Cardinality(In(g, {"ready"})) = Cardinality(In(f, {"ready"})) + 1
    <3> HIDE DEF g
    <3>1. t \in Sender /\ \A u \in Sender : u # t => g[u] = f[u]
      BY Zenon, <2>1, <2>2
    <3>2. Cardinality(In(g, {"asleep", "ready"})) =
            Cardinality(In(f, {"asleep", "ready"})) + Has(g[t], {"asleep", "ready"})
              - Has(f[t], {"asleep", "ready"})
      BY <3>1, InMoves
    <3>3. Cardinality(In(g, {"ready"})) =
            Cardinality(In(f, {"ready"})) + Has(g[t], {"ready"}) - Has(f[t], {"ready"})
      BY <3>1, InMoves
    <3>4. QED BY <1>2, <2>2, <2>3, <3>2, <3>3 DEF Has
  <2> HIDE DEF g
  <2>5. Cardinality(In(g, {"asleep", "ready"})) = Cardinality(ToCome(Tail(p))) + (s + 1)
    BY <1>1, <1>2, <1>4, <2>4
  <2>6. Cardinality(In(g, {"ready"})) >= s + 1
    <3>1. t \in In(f, {"asleep"})
      BY Zenon, <2>1, <2>3 DEF In
    <3>2. QED BY <1>1, <1>2, <2>4, <3>1
  <2>7. \A u \in Sender : g[u] = "asleep" <=> Queued(r, u)
    BY Zenon, <1>1, <2>1, <2>2
  <2>8. Matched(Tail(p), s + 1, r, g)
    BY Zenon, <1>3, <2>1, <2>2, <2>5, <2>6, <2>7 DEF Matched
  <2>9. QED BY Zenon, <2>1, <2>8 DEF g, r, t
<1>7. QED BY Zenon, <1>5, <1>6

(* The poll is scheduled again.                                               *)
LEMMA MatchedPoll ==
    ASSUME NEW p, NEW s, NEW q, NEW f, Matched(p, s, q, f), p # <<>>, Head(p) = "poll"
    PROVE  Matched(Append(Tail(p), "poll"), s, q, f)
<1>1. p \in Seq({"poll", "sendDone"})
  BY Zenon DEF Matched
<1>2. /\ Tail(p) \in Seq({"poll", "sendDone"}) /\ "poll" \in {"poll", "sendDone"}
      /\ Append(Tail(p), "poll") \in Seq({"poll", "sendDone"})
  BY <1>1
<1>3. Cardinality(ToCome(p)) \in Nat
  BY Zenon, <1>1, ToComeFinite
<1>4. Cardinality(ToCome(Tail(p))) = Cardinality(ToCome(p)) - 0
  BY <1>1, ToComeTail
<1>5. Cardinality(ToCome(Append(Tail(p), "poll"))) = Cardinality(ToCome(Tail(p))) + 0
  BY <1>2, ToComeAppend, Zenon
<1>6. Cardinality(ToCome(Append(Tail(p), "poll"))) = Cardinality(ToCome(p))
  BY <1>3, <1>4, <1>5
<1>7. QED BY Zenon, <1>2, <1>6 DEF Matched

(* What SendsMatchInterrupts says of one machine.                             *)
Accounted(p, s, f) ==
    /\ Cardinality({t \in Sender : f[t] # "no"}) = Cardinality(ToCome(p)) + s
    /\ Cardinality({t \in Sender : f[t] = "asleep"}) <= Cardinality(ToCome(p))

(* What it says of those who wait and of those who sleep.                     *)
LEMMA MatchedMeans ==
    ASSUME NEW p, NEW s, NEW q, NEW f, Matched(p, s, q, f)
    PROVE  Accounted(p, s, f)
<1>1. /\ p \in Seq({"poll", "sendDone"}) /\ s \in Nat /\ f \in [Sender -> Phase]
      /\ Cardinality(In(f, {"asleep", "ready"})) = Cardinality(ToCome(p)) + s
      /\ In(f, {"asleep"}) # {} => Cardinality(In(f, {"ready"})) >= s
  BY Zenon DEF Matched
<1>2. /\ Cardinality(In(f, {"asleep"})) \in Nat
      /\ Cardinality(In(f, {"ready"})) \in Nat /\ Cardinality(ToCome(p)) \in Nat
  BY Zenon, <1>1, InFinite, ToComeFinite
<1>3. In(f, {"asleep", "ready"}) = {t \in Sender : f[t] # "no"}
      /\ In(f, {"asleep"}) = {t \in Sender : f[t] = "asleep"}
  BY Zenon, <1>1 DEF In, Phase
<1>4. Cardinality(In(f, {"asleep"})) <= Cardinality(ToCome(p))
  <2>1. CASE In(f, {"asleep"}) = {}
    BY <1>2, <2>1, FS_EmptySet
  <2>2. CASE In(f, {"asleep"}) # {}
    <3>1. Cardinality(In(f, {"asleep", "ready"})) =
            Cardinality(In(f, {"asleep"})) + Cardinality(In(f, {"ready"}))
      BY Zenon, <1>1, PhaseSplit
    <3>2. QED BY <1>1, <1>2, <2>2, <3>1
  <2>3. QED BY Zenon, <2>1, <2>2
<1>5. QED BY <1>1, <1>3, <1>4, Zenon DEF Accounted
-----------------------------------------------------------------------------
(* The invariant: every machine is matched, and one that runs polls.          *)
PostInv ==
    /\ pending \in [Node -> Seq({"poll", "sendDone"})]
    /\ sent \in [Node -> Nat]
    /\ sentQ \in [Node -> Seq(Sender)]
    /\ sending \in [Node -> [Sender -> Phase]]
    /\ status \in [Node -> {"off", "run", "halt", "abort"}]
    /\ \A n \in Node : Matched(pending[n], sent[n], sentQ[n], sending[n])
    /\ \A n \in Node : status[n] = "run" => \E i \in DOMAIN pending[n] : pending[n][i] = "poll"

(* A step of one machine keeps it when that machine stays matched.            *)
LEMMA PostLocal ==
    ASSUME PostInv, NEW n \in Node, NEW p, NEW s, NEW q, NEW f, Matched(p, s, q, f),
           NEW st \in {"off", "run", "halt", "abort"},
           st = "run" => \E i \in DOMAIN p : p[i] = "poll",
           pending' = [pending EXCEPT ![n] = p], sent' = [sent EXCEPT ![n] = s],
           sentQ' = [sentQ EXCEPT ![n] = q], sending' = [sending EXCEPT ![n] = f],
           status' = [status EXCEPT ![n] = st]
    PROVE  PostInv'
<1>1. /\ p \in Seq({"poll", "sendDone"}) /\ s \in Nat /\ q \in Seq(Sender)
      /\ f \in [Sender -> Phase]
  BY Zenon DEF Matched
<1>2. /\ pending \in [Node -> Seq({"poll", "sendDone"})]
      /\ sent \in [Node -> Nat]
      /\ sentQ \in [Node -> Seq(Sender)]
      /\ sending \in [Node -> [Sender -> Phase]]
      /\ status \in [Node -> {"off", "run", "halt", "abort"}]
  BY Zenon DEF PostInv
<1>3. /\ pending' \in [Node -> Seq({"poll", "sendDone"})]
      /\ sent' \in [Node -> Nat]
      /\ sentQ' \in [Node -> Seq(Sender)]
      /\ sending' \in [Node -> [Sender -> Phase]]
      /\ status' \in [Node -> {"off", "run", "halt", "abort"}]
  BY Zenon, <1>1, <1>2
<1>4. /\ pending'[n] = p /\ sent'[n] = s /\ sentQ'[n] = q /\ sending'[n] = f /\ status'[n] = st
      /\ \A m \in Node : m # n => /\ pending'[m] = pending[m] /\ sent'[m] = sent[m]
                                   /\ sentQ'[m] = sentQ[m] /\ sending'[m] = sending[m]
                                   /\ status'[m] = status[m]
  BY Zenon, <1>2
<1>5. \A m \in Node : Matched(pending'[m], sent'[m], sentQ'[m], sending'[m])
  <2> SUFFICES ASSUME NEW m \in Node PROVE Matched(pending'[m], sent'[m], sentQ'[m], sending'[m])
    BY Zenon
  <2>1. CASE m = n
    BY Zenon, <1>4, <2>1
  <2>2. CASE m # n
    <3>1. Matched(pending[m], sent[m], sentQ[m], sending[m])
      BY Zenon DEF PostInv
    <3>2. QED BY Zenon, <1>4, <2>2, <3>1
  <2>3. QED BY Zenon, <2>1, <2>2
<1>6. \A m \in Node : status'[m] = "run" => \E i \in DOMAIN pending'[m] : pending'[m][i] = "poll"
  BY <1>4 DEF PostInv
<1>7. QED BY Zenon, <1>3, <1>5, <1>6 DEF PostInv

(* A machine starts or ends.                                                  *)
LEMMA PostFresh ==
    ASSUME PostInv, NEW n \in Node, NewOffice(n),
           \/ NetworkStart(n)
           \/ NetworkStop(n, "halt")
           \/ NetworkStop(n, "abort")
    PROVE  PostInv'
<1> DEFINE f == [t \in Sender |-> "no"]
<1>1. /\ sent' = [sent EXCEPT ![n] = 0] /\ sentQ' = [sentQ EXCEPT ![n] = <<>>]
      /\ sending' = [sending EXCEPT ![n] = f]
  BY Zenon DEF NewOffice
<1>2. Matched(<<>>, 0, <<>>, f) /\ Matched(<<"poll">>, 0, <<>>, f)
  BY MatchedFresh
<1> HIDE DEF f
<1>3. CASE NetworkStart(n)
  <2>1. /\ pending' = [pending EXCEPT ![n] = <<"poll">>]
        /\ status' = [status EXCEPT ![n] = "run"]
    BY <1>3 DEF NetworkStart
  <2>2. \E i \in DOMAIN <<"poll">> : <<"poll">>[i] = "poll"
    OBVIOUS
  <2>3. QED BY <1>1, <1>2, <2>1, <2>2, PostLocal, Zenon
<1>4. CASE NetworkStop(n, "halt") \/ NetworkStop(n, "abort")
  <2>1. PICK st \in {"halt", "abort"} : NetworkStop(n, st)
    BY Zenon, <1>4
  <2>2. /\ pending' = [pending EXCEPT ![n] = <<>>] /\ status' = [status EXCEPT ![n] = st]
        /\ st \in {"off", "run", "halt", "abort"} /\ st # "run"
    BY Zenon, <2>1 DEF NetworkStop
  <2>3. QED BY <1>1, <1>2, <2>2, PostLocal, Zenon
<1>5. QED BY Zenon, <1>3, <1>4

(* A thread is in P, from PostOffice::Send or after a wake-up.                *)
LEMMA PostP ==
    ASSUME PostInv, NEW n \in Node, NEW t \in Sender, PSent(n, t), status' = status,
           \/ /\ sending[n][t] = "no"
              /\ pending' = [pending EXCEPT ![n] = Append(pending[n], "sendDone")]
           \/ sending[n][t] = "ready" /\ pending' = pending
    PROVE  PostInv'
<1>1. Matched(pending[n], sent[n], sentQ[n], sending[n])
  BY Zenon DEF PostInv
<1>2. /\ pending \in [Node -> Seq({"poll", "sendDone"})]
      /\ sent \in [Node -> Nat]
      /\ sentQ \in [Node -> Seq(Sender)]
      /\ sending \in [Node -> [Sender -> Phase]]
      /\ status \in [Node -> {"off", "run", "halt", "abort"}]
  BY Zenon DEF PostInv
<1>3. status' = [status EXCEPT ![n] = status[n]] /\ status[n] \in {"off", "run", "halt", "abort"}
  BY Zenon, <1>2
<1>4. PICK p : /\ pending' = [pending EXCEPT ![n] = p]
               /\ \/ sending[n][t] = "no" /\ p = Append(pending[n], "sendDone")
                  \/ sending[n][t] = "ready" /\ p = pending[n]
  <2>1. CASE sending[n][t] = "no" /\ pending' = [pending EXCEPT ![n] = Append(pending[n], "sendDone")]
    BY <2>1, Zenon
  <2>2. CASE sending[n][t] = "ready" /\ pending' = pending
    <3>1. pending' = [pending EXCEPT ![n] = pending[n]]
      BY Zenon, <1>2, <2>2
    <3>2. QED BY <2>2, <3>1, Zenon
  <2>3. QED BY Zenon, <2>1, <2>2
<1>5. status[n] = "run" => \E i \in DOMAIN p : p[i] = "poll"
  <2> SUFFICES ASSUME status[n] = "run" PROVE \E i \in DOMAIN p : p[i] = "poll"
    BY Zenon
  <2>1. PICK i \in DOMAIN pending[n] : pending[n][i] = "poll"
    BY Zenon DEF PostInv
  <2>2. pending[n] \in Seq({"poll", "sendDone"})
    BY Zenon, <1>2
  <2>3. i \in DOMAIN p /\ p[i] = "poll"
    <3>1. /\ i \in DOMAIN Append(pending[n], "sendDone")
          /\ Append(pending[n], "sendDone")[i] = pending[n][i]
      BY ONLY <2>1, <2>2
    <3>2. QED BY Zenon, <1>4, <2>1, <3>1
  <2>4. QED BY Zenon, <2>3
<1>6. /\ sent[n] = 0 => Matched(p, sent[n], Append(sentQ[n], t), [sending[n] EXCEPT ![t] = "asleep"])
      /\ sent[n] # 0 => Matched(p, sent[n] - 1, sentQ[n], [sending[n] EXCEPT ![t] = "no"])
  BY <1>1, <1>4, MatchedP, Zenon
<1>7. CASE sent[n] = 0
  <2> DEFINE q == Append(sentQ[n], t)
             f == [sending[n] EXCEPT ![t] = "asleep"]
  <2>1. sentQ' = [sentQ EXCEPT ![n] = q] /\ sending' = [sending EXCEPT ![n] = f]
    BY Zenon, <1>7 DEF PSent
  <2>2. sent' = [sent EXCEPT ![n] = sent[n]]
    BY Zenon, <1>2, <1>7 DEF PSent
  <2>3. Matched(p, sent[n], q, f)
    BY Zenon, <1>6, <1>7
  <2> HIDE DEF q, f
  <2>4. QED BY <1>3, <1>4, <1>5, <2>1, <2>2, <2>3, PostLocal, Zenon
<1>8. CASE sent[n] # 0
  <2> DEFINE s == sent[n] - 1
             f == [sending[n] EXCEPT ![t] = "no"]
  <2>1. sent' = [sent EXCEPT ![n] = s] /\ sending' = [sending EXCEPT ![n] = f]
    BY Zenon, <1>8 DEF PSent
  <2>2. sentQ' = [sentQ EXCEPT ![n] = sentQ[n]]
    BY Zenon, <1>2, <1>8 DEF PSent
  <2>3. Matched(p, s, sentQ[n], f)
    BY Zenon, <1>6, <1>8
  <2> HIDE DEF s, f
  <2>4. QED BY <1>3, <1>4, <1>5, <2>1, <2>2, <2>3, PostLocal, Zenon
<1>9. QED BY Zenon, <1>7, <1>8

(* A machine that runs has an interrupt to come: the poll, at least.          *)
LEMMA PollComes ==
    ASSUME PostInv, NEW n \in Node, status[n] = "run"
    PROVE  pending[n] \in Seq({"poll", "sendDone"}) /\ pending[n] # <<>>
<1>1. pending[n] \in Seq({"poll", "sendDone"})
  BY Zenon DEF PostInv
<1>2. PICK i \in DOMAIN pending[n] : pending[n][i] = "poll"
  BY Zenon DEF PostInv
<1>3. QED BY <1>1, <1>2

(* SendDone and V.                                                            *)
LEMMA PostV == ASSUME PostInv, NEW n \in Node, PacketSent(n) PROVE PostInv'
<1>1. /\ status[n] = "run" /\ Head(pending[n]) = "sendDone" /\ status' = status
      /\ pending' = [pending EXCEPT ![n] = Tail(pending[n])]
      /\ sent' = [sent EXCEPT ![n] = sent[n] + 1]
  BY Zenon DEF PacketSent, SendDone
<1>2. /\ sentQ \in [Node -> Seq(Sender)]
      /\ sending \in [Node -> [Sender -> Phase]]
      /\ status \in [Node -> {"off", "run", "halt", "abort"}]
      /\ Matched(pending[n], sent[n], sentQ[n], sending[n])
  BY Zenon DEF PostInv
<1>3. pending[n] \in Seq({"poll", "sendDone"}) /\ pending[n] # <<>>
  BY Zenon, <1>1, PollComes
<1>4. status' = [status EXCEPT ![n] = status[n]] /\ status[n] \in {"off", "run", "halt", "abort"}
  BY Zenon, <1>1, <1>2
<1> DEFINE p == Tail(pending[n])
           s == sent[n] + 1
<1>5. \E i \in DOMAIN p : p[i] = "poll"
  <2>1. PICK i \in DOMAIN pending[n] : pending[n][i] = "poll"
    BY Zenon, <1>1 DEF PostInv
  <2>2. i # 1 /\ i \in 1 .. Len(pending[n]) /\ Len(pending[n]) \in Nat
    BY <1>1, <1>3, <2>1
  <2>3. i - 1 \in DOMAIN p /\ p[i - 1] = pending[n][i]
    BY <1>3, <2>2
  <2>4. QED BY Zenon, <2>1, <2>3
<1>6. /\ sentQ[n] = <<>> => Matched(p, s, sentQ[n], sending[n])
      /\ sentQ[n] # <<>> =>
            Matched(p, s, Tail(sentQ[n]), [sending[n] EXCEPT ![Head(sentQ[n])] = "ready"])
  BY <1>1, <1>2, <1>3, MatchedV, Zenon
<1>7. pending' = [pending EXCEPT ![n] = p] /\ sent' = [sent EXCEPT ![n] = s]
  BY <1>1
<1> HIDE DEF p, s
<1>8. CASE sentQ[n] = <<>>
  <2>1. sentQ' = sentQ /\ sending' = sending
    BY Zenon, <1>8 DEF PacketSent
  <2>2. sentQ' = [sentQ EXCEPT ![n] = sentQ[n]] /\ sending' = [sending EXCEPT ![n] = sending[n]]
    BY Zenon, <1>2, <2>1
  <2>3. Matched(p, s, sentQ[n], sending[n])
    BY <1>6, <1>8
  <2>4. QED BY <1>4, <1>5, <1>7, <2>2, <2>3, PostLocal, Zenon
<1>9. CASE sentQ[n] # <<>>
  <2> DEFINE q == Tail(sentQ[n])
             f == [sending[n] EXCEPT ![Head(sentQ[n])] = "ready"]
  <2>1. sentQ' = [sentQ EXCEPT ![n] = q] /\ sending' = [sending EXCEPT ![n] = f]
    BY Zenon, <1>9 DEF PacketSent
  <2>2. Matched(p, s, q, f)
    BY <1>6, <1>9
  <2> HIDE DEF q, f
  <2>3. QED BY <1>4, <1>5, <1>7, <2>1, <2>2, PostLocal, Zenon
<1>10. QED BY Zenon, <1>8, <1>9

(* The poll fires and is scheduled again, whatever it finds.                  *)
LEMMA PostPoll ==
    ASSUME PostInv, NEW n \in Node, status[n] = "run", Head(pending[n]) = "poll",
           pending' = [pending EXCEPT ![n] = Append(Tail(pending[n]), "poll")],
           sent' = [sent EXCEPT ![n] = sent[n]], sentQ' = [sentQ EXCEPT ![n] = sentQ[n]],
           sending' = [sending EXCEPT ![n] = sending[n]],
           status' = [status EXCEPT ![n] = status[n]]
    PROVE  PostInv'
<1>1. /\ sent \in [Node -> Nat] /\ sentQ \in [Node -> Seq(Sender)]
      /\ sending \in [Node -> [Sender -> Phase]]
      /\ status \in [Node -> {"off", "run", "halt", "abort"}]
      /\ Matched(pending[n], sent[n], sentQ[n], sending[n])
  BY Zenon DEF PostInv
<1>2. pending[n] \in Seq({"poll", "sendDone"}) /\ pending[n] # <<>>
  BY Zenon, PollComes
<1>3. status[n] \in {"off", "run", "halt", "abort"}
  BY Zenon, <1>1
<1> DEFINE p == Append(Tail(pending[n]), "poll")
<1>4. Matched(p, sent[n], sentQ[n], sending[n])
  BY <1>1, <1>2, MatchedPoll
<1>5. \E i \in DOMAIN p : p[i] = "poll"
  <2>1. Tail(pending[n]) \in Seq({"poll", "sendDone"})
    BY <1>2
  <2>2. Len(p) \in DOMAIN p /\ p[Len(p)] = "poll"
    BY <2>1
  <2>3. QED BY <2>2, Zenon
<1>6. pending' = [pending EXCEPT ![n] = p]
  BY Zenon
<1> HIDE DEF p
<1>7. QED BY <1>3, <1>4, <1>5, <1>6, PostLocal, Zenon

(* Every step keeps the invariant.                                            *)
LEMMA PostStep == ASSUME PostInv, [Next]_vars PROVE PostInv'
<1>1. ASSUME UNCHANGED <<status, pending, sent, sentQ, sending>> PROVE PostInv'
  BY Zenon, <1>1 DEF PostInv
<1>2. ASSUME NEW n \in Node, Start(n) \/ Quit(n) \/ Halt(n) PROVE PostInv'
  <2>1. NewOffice(n) /\ (NetworkStart(n) \/ NetworkStop(n, "halt"))
    BY Zenon, <1>2 DEF Start, Quit, Halt, End
  <2>2. QED BY Zenon, <2>1, PostFresh
<1>3. ASSUME NEW n \in Node, NEW t \in Sender, NEW pkt, Send(n, t, pkt) \/ SendFails(n, t, pkt)
      PROVE  PostInv'
  <2>1. CASE Send(n, t, pkt)
    <3>1. /\ sending[n][t] = "no" /\ PSent(n, t) /\ status' = status
          /\ pending' = [pending EXCEPT ![n] = Append(pending[n], "sendDone")]
      BY Zenon, <2>1 DEF Send, Transmit
    <3>2. QED BY <3>1, PostP, Zenon
  <2>2. CASE SendFails(n, t, pkt)
    <3>1. NewOffice(n) /\ NetworkStop(n, "abort")
      BY Zenon, <2>2 DEF SendFails, TransmitFails
    <3>2. QED BY Zenon, <3>1, PostFresh
  <2>3. QED BY <1>3, <2>1, <2>2
<1>4. ASSUME NEW n \in Node, SendHello(n) \/ SendAck(n) \/ SendNote(n) PROVE PostInv'
  <2>1. \E t \in Sender : \E pkt : Send(n, t, pkt) \/ SendFails(n, t, pkt)
    BY <1>4, Zenon DEF SendHello, SendAck, SendNote, Sender
  <2>2. QED BY <1>3, <2>1
<1>5. ASSUME NEW n \in Node, NEW t \in Sender, SendResume(n, t) PROVE PostInv'
  <2>1. sending[n][t] = "ready" /\ PSent(n, t) /\ status' = status /\ pending' = pending
    BY <1>5 DEF SendResume, netVars
  <2>2. QED BY Zenon, <2>1, PostP
<1>6. ASSUME NEW n \in Node, IncomingPacket(n) \/ Poll(n) PROVE PostInv'
  <2>1. /\ status[n] = "run" /\ Head(pending[n]) = "poll"
        /\ pending' = [pending EXCEPT ![n] = Append(Tail(pending[n]), "poll")]
        /\ UNCHANGED <<status, sent, sentQ, sending>>
    BY Zenon, <1>6 DEF IncomingPacket, CheckPktAvail, Poll, PollAgain, officeVars
  <2>2. /\ sent' = [sent EXCEPT ![n] = sent[n]] /\ sentQ' = [sentQ EXCEPT ![n] = sentQ[n]]
        /\ sending' = [sending EXCEPT ![n] = sending[n]]
        /\ status' = [status EXCEPT ![n] = status[n]]
    BY <2>1 DEF PostInv
  <2>3. QED BY <2>1, <2>2, PostPoll, Zenon
<1>7. ASSUME NEW n \in Node, WorkerResume(n) \/ PostalDelivery(n) PROVE PostInv'
  BY Zenon, <1>1, <1>7 DEF WorkerResume, PostalDelivery, TakePacket, netVars
<1>8. ASSUME NEW n \in Node, ReceiveHello(n) \/ ReceiveAck(n) PROVE PostInv'
  <2>1. CASE \E box, next : Receive(n, box, next)
    BY Zenon, <1>1, <2>1 DEF Receive, netVars
  <2>2. CASE \E box : ReceiveEmpty(n, box)
    <3>1. NewOffice(n) /\ NetworkStop(n, "abort")
      BY <2>2 DEF ReceiveEmpty
    <3>2. QED BY Zenon, <3>1, PostFresh
  <2>3. QED BY Zenon, <1>8, <2>1, <2>2 DEF ReceiveHello, ReceiveAck
<1>9. ASSUME NEW n \in Node, PacketSent(n) PROVE PostInv'
  BY Zenon, <1>9, PostV
<1>10. CASE UNCHANGED vars
  BY <1>1, <1>10 DEF vars, netVars, officeVars
<1>11. QED BY Zenon, <1>2, <1>4, <1>5, <1>6, <1>7, <1>8, <1>9, <1>10 DEF Next

(* SendsMatchInterrupts, for any number of starts, interruptions and messages: *)
(* the lock that PostOffice::Send takes does nothing, and none is needed for   *)
(* its callers and the interrupts of the device to stay matched.               *)
THEOREM SendsAlwaysMatchInterrupts == Spec => []SendsMatchInterrupts
<1>1. Init => PostInv
  <2> SUFFICES ASSUME Init PROVE PostInv
    OBVIOUS
  <2>1. /\ pending = [n \in Node |-> <<>>] /\ sent = [n \in Node |-> 0]
        /\ sentQ = [n \in Node |-> <<>>]
        /\ sending = [n \in Node |-> [t \in Sender |-> "no"]]
        /\ status = [n \in Node |-> "off"]
    BY Zenon DEF Init, NetworkInit
  <2>2. Matched(<<>>, 0, <<>>, [t \in Sender |-> "no"])
    BY Zenon, MatchedFresh
  <2>3. \A n \in Node : Matched(pending[n], sent[n], sentQ[n], sending[n])
    BY Zenon, <2>1, <2>2
  <2>4. QED BY <2>1, <2>3 DEF PostInv, Phase
<1>2. PostInv /\ [Next]_vars => PostInv'
  BY Zenon, PostStep
<1>3. PostInv => SendsMatchInterrupts
  <2> SUFFICES ASSUME PostInv, NEW n \in Node
               PROVE  Accounted(pending[n], sent[n], sending[n])
    BY Zenon DEF SendsMatchInterrupts, Accounted, ToCome
  <2>1. Matched(pending[n], sent[n], sentQ[n], sending[n])
    BY DEF PostInv
  <2>2. QED BY Zenon, <2>1, MatchedMeans
<1>4. QED BY <1>1, <1>2, <1>3, PTL DEF Spec
=============================================================================
