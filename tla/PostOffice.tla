----------------------------- MODULE PostOffice -----------------------------
(* Post offices (post.cc, synchlist.cc) over the network, the mail test       *)
(* nettest.cc on each machine, and a second thread that sends mail.  Locks    *)
(* are the stubs of synch.cc, and Condition::Wait asserts FALSE: a Receive on *)
(* an empty mailbox stops the machine.  The clock moves when P enables        *)
(* interrupts, so a thread runs from one return of P to the next P in a step. *)
EXTENDS Network

CONSTANTS
    Budget      \* bound: how often each machine is started, and interrupted by
                \* its user, and how many mails a second thread sends there

ASSUME PostOfficeAssumption ==
    /\ Budget \subseteq [starts : [Node -> Nat], quits : [Node -> Nat], notes : [Node -> Nat]]
    /\ \E a, b \in Node : a # b /\ Node = {a, b}   \* each the farAddr of the other

Sender == {"main", "chat"}
Box == 0 .. 2       \* of the numBoxes mailboxes, those used

VARIABLES
    avail,          \* the value of messageAvailable
    worker,         \* the postal worker: "ready" or "asleep" in P, or "got" a unit
    sent, sentQ,    \* messageSent and its queue
    sending,        \* a thread in PostOffice::Send: "no", or "asleep" or "ready" in P
    boxes,          \* mailboxes
    pc,             \* where MailTest is
    reply,          \* the header MailTest answers to
    starts, quits, notes,   \* what is left of the budget
    id, put, heard  \* history: packets sent, put into mailboxes, replies read

officeVars == <<avail, worker, sent, sentQ, sending, boxes, pc, reply>>
vars == <<netVars, officeVars, starts, quits, notes, id, put, heard>>

Other(n) == CHOOSE m \in Node : m # n

Init ==
    /\ NetworkInit
    /\ avail = [n \in Node |-> 0]
    /\ worker = [n \in Node |-> "ready"]
    /\ sent = [n \in Node |-> 0]
    /\ sentQ = [n \in Node |-> <<>>]
    /\ sending = [n \in Node |-> [t \in Sender |-> "no"]]
    /\ boxes = [n \in Node |-> [b \in Box |-> <<>>]]
    /\ pc = [n \in Node |-> "hello"]
    /\ reply = [n \in Node |-> Empty]
    /\ \E b \in Budget : starts = b.starts /\ quits = b.quits /\ notes = b.notes
    /\ id = [n \in Node |-> 0]
    /\ put = [n \in Node |-> <<>>]
    /\ heard = [n \in Node |-> FALSE]

(* PostOffice::PostOffice, and what is left when the process ends.            *)
NewOffice(n) ==
    /\ avail' = [avail EXCEPT ![n] = 0]
    /\ worker' = [worker EXCEPT ![n] = "ready"]
    /\ sent' = [sent EXCEPT ![n] = 0]
    /\ sentQ' = [sentQ EXCEPT ![n] = <<>>]
    /\ sending' = [sending EXCEPT ![n] = [t \in Sender |-> "no"]]
    /\ boxes' = [boxes EXCEPT ![n] = [b \in Box |-> <<>>]]
    /\ pc' = [pc EXCEPT ![n] = "hello"]
    /\ reply' = [reply EXCEPT ![n] = Empty]

Start(n) ==
    /\ starts[n] > 0
    /\ starts' = [starts EXCEPT ![n] = @ - 1]
    /\ NetworkStart(n)
    /\ NewOffice(n)
    /\ UNCHANGED <<quits, notes, id, put, heard>>

(* Cleanup, or interrupt->Halt(): the process ends.                           *)
End(n) ==
    /\ status[n] = "run"
    /\ NetworkStop(n, "halt")
    /\ NewOffice(n)
    /\ UNCHANGED <<starts, notes, id, put, heard>>

(* The user interrupts the machine.                                           *)
Quit(n) == quits[n] > 0 /\ quits' = [quits EXCEPT ![n] = @ - 1] /\ End(n)
-----------------------------------------------------------------------------
(* Sending.                                                                   *)

(* messageSent->P() from the test of its loop.                                *)
PSent(n, t) ==
    IF sent[n] = 0
    THEN /\ sentQ' = [sentQ EXCEPT ![n] = Append(@, t)]
         /\ sending' = [sending EXCEPT ![n][t] = "asleep"]
         /\ UNCHANGED sent
    ELSE /\ sent' = [sent EXCEPT ![n] = @ - 1]
         /\ sending' = [sending EXCEPT ![n][t] = "no"]
         /\ UNCHANGED sentQ

Packet(n, to, box, back, data) ==
    [to |-> to, from |-> n, box |-> box, back |-> back, data |-> data, id |-> id[n] + 1]

(* PostOffice::Send up to the first test of P.  The lock does nothing.        *)
Send(n, t, pkt) ==
    /\ status[n] = "run"
    /\ sending[n][t] = "no"
    /\ id' = [id EXCEPT ![n] = @ + 1]
    /\ Transmit(n, pkt)
    /\ PSent(n, t)
    /\ UNCHANGED <<avail, worker, boxes, reply, starts, quits, put, heard>>

SendFails(n, t, pkt) ==
    /\ status[n] = "run"
    /\ sending[n][t] = "no"
    /\ TransmitFails(n, pkt)
    /\ NewOffice(n)
    /\ UNCHANGED <<starts, quits, id, put, heard>>

(* P, in PostOffice::Send, of a thread that V readied.                        *)
SendResume(n, t) ==
    /\ sending[n][t] = "ready"
    /\ PSent(n, t)
    /\ UNCHANGED <<netVars, avail, worker, boxes, pc, reply, starts, quits, notes, id, put, heard>>

(* MailTest's first and second Send.                                          *)
SendHello(n) ==
    LET pkt == Packet(n, Other(n), 0, 1, "hello") IN
    /\ pc[n] = "hello"
    /\ \/ Send(n, "main", pkt) /\ pc' = [pc EXCEPT ![n] = "recv0"]
       \/ SendFails(n, "main", pkt)
    /\ UNCHANGED notes

SendAck(n) ==
    LET pkt == Packet(n, reply[n].from, reply[n].back, 1, "ack") IN
    /\ pc[n] = "ack"
    /\ \/ Send(n, "main", pkt) /\ pc' = [pc EXCEPT ![n] = "recv1"]
       \/ SendFails(n, "main", pkt)
    /\ UNCHANGED notes

(* Another thread writes to mailbox 2 of the other machine.                   *)
SendNote(n) ==
    LET pkt == Packet(n, Other(n), 2, 2, "note") IN
    /\ notes[n] > 0
    /\ notes' = [notes EXCEPT ![n] = @ - 1]
    /\ \/ Send(n, "chat", pkt) /\ UNCHANGED pc
       \/ SendFails(n, "chat", pkt)

(* Mutant: V counts, and wakes nobody.                                        *)
PacketSentSilent(n) ==
    /\ status[n] = "run"
    /\ SendDone(n)
    /\ sent' = [sent EXCEPT ![n] = @ + 1]
    /\ UNCHANGED <<sentQ, sending, avail, worker, boxes, pc, reply, starts, quits, notes, id, put, heard>>

(* Network::SendDone, PacketSent: messageSent->V().                           *)
PacketSent(n) ==
    /\ status[n] = "run"
    /\ SendDone(n)
    /\ sent' = [sent EXCEPT ![n] = @ + 1]
    /\ IF sentQ[n] = <<>>
       THEN UNCHANGED <<sentQ, sending>>
       ELSE /\ sentQ' = [sentQ EXCEPT ![n] = Tail(@)]
            /\ sending' = [sending EXCEPT ![n][Head(sentQ[n])] = "ready"]
    /\ UNCHANGED <<avail, worker, boxes, pc, reply, starts, quits, notes, id, put, heard>>
-----------------------------------------------------------------------------
(* Receiving.                                                                 *)

(* CheckPktAvail, IncomingPacket: messageAvailable->V().                      *)
IncomingPacket(n) ==
    /\ status[n] = "run"
    /\ CheckPktAvail(n)
    /\ avail' = [avail EXCEPT ![n] = @ + 1]
    /\ worker' = [worker EXCEPT ![n] = IF @ = "asleep" THEN "ready" ELSE @]
    /\ UNCHANGED <<sent, sentQ, sending, boxes, pc, reply, starts, quits, notes, id, put, heard>>

Poll(n) ==
    /\ status[n] = "run"
    /\ PollAgain(n)
    /\ UNCHANGED <<officeVars, starts, quits, notes, id, put, heard>>

(* messageAvailable->P() from the test of its loop.                           *)
PAvail(n) ==
    IF avail[n] = 0
    THEN worker' = [worker EXCEPT ![n] = "asleep"] /\ UNCHANGED avail
    ELSE worker' = [worker EXCEPT ![n] = "got"] /\ avail' = [avail EXCEPT ![n] = @ - 1]

WorkerResume(n) ==
    /\ status[n] = "run"
    /\ worker[n] = "ready"
    /\ PAvail(n)
    /\ UNCHANGED <<netVars, sent, sentQ, sending, boxes, pc, reply, starts, quits, notes, id, put, heard>>

(* MailBox::Put, SynchList::Append; nobody can be waiting in Remove.          *)
Put(n, box, mail) ==
    /\ boxes' = [boxes EXCEPT ![n][box] = Append(@, mail)]
    /\ put' = [put EXCEPT ![n] = Append(@, mail)]

(* Mutant: the packet stays in the device's buffer.                           *)
PostalDeliveryKeep(n) ==
    /\ status[n] = "run"
    /\ worker[n] = "got"
    /\ UNCHANGED netVars
    /\ inHdr[n] # Empty
    /\ Put(n, inHdr[n].box, inHdr[n])
    /\ PAvail(n)
    /\ UNCHANGED <<sent, sentQ, sending, pc, reply, starts, quits, notes, id, heard>>

(* PostalDelivery after P: Receive, MailBox::Put, and P again.                *)
PostalDelivery(n) ==
    /\ status[n] = "run"
    /\ worker[n] = "got"
    /\ TakePacket(n)
    /\ Put(n, inHdr[n].box, inHdr[n])
    /\ PAvail(n)
    /\ UNCHANGED <<sent, sentQ, sending, pc, reply, starts, quits, notes, id, heard>>

(* MailBox::Get, SynchList::Remove.                                           *)
Get(n, box) ==
    /\ boxes[n][box] # <<>>
    /\ boxes' = [boxes EXCEPT ![n][box] = Tail(@)]
    /\ reply' = [reply EXCEPT ![n] = Head(boxes[n][box])]

(* PostOffice::Receive, of MailTest.                                          *)
Receive(n, box, next) ==
    /\ status[n] = "run"
    /\ sending[n]["main"] = "no"
    /\ Get(n, box)
    /\ pc' = [pc EXCEPT ![n] = next]
    /\ UNCHANGED <<netVars, avail, worker, sent, sentQ, sending, starts, quits, notes, id, put>>

(* The same with an empty mailbox: Condition::Wait, ASSERT(FALSE).            *)
ReceiveEmpty(n, box) ==
    /\ status[n] = "run"
    /\ sending[n]["main"] = "no"
    /\ boxes[n][box] = <<>>
    /\ NetworkStop(n, "abort")
    /\ NewOffice(n)
    /\ UNCHANGED <<starts, quits, notes, id, put, heard>>

ReceiveHello(n) ==
    /\ pc[n] = "recv0"
    /\ \/ Receive(n, 0, "ack") /\ UNCHANGED heard
       \/ ReceiveEmpty(n, 0)

(* Mutant: MailTest reads its first mailbox again.                            *)
ReceiveAckBox0(n) ==
    /\ pc[n] = "recv1"
    /\ \/ Receive(n, 0, "halt") /\ heard' = [heard EXCEPT ![n] = TRUE]
       \/ ReceiveEmpty(n, 0)

ReceiveAck(n) ==
    /\ pc[n] = "recv1"
    /\ \/ Receive(n, 1, "halt") /\ heard' = [heard EXCEPT ![n] = TRUE]
       \/ ReceiveEmpty(n, 1)

(* interrupt->Halt(), at the end of MailTest.                                 *)
Halt(n) == pc[n] = "halt" /\ End(n) /\ UNCHANGED quits

Next ==
    \E n \in Node :
        \/ Start(n) \/ Quit(n) \/ Halt(n)
        \/ SendHello(n) \/ SendAck(n) \/ SendNote(n)
        \/ \E t \in Sender : SendResume(n, t)
        \/ PacketSent(n) \/ IncomingPacket(n) \/ Poll(n)
        \/ WorkerResume(n) \/ PostalDelivery(n)
        \/ ReceiveHello(n) \/ ReceiveAck(n)

(* The clock runs on while a machine idles, so that its interrupts come, and  *)
(* ready threads are scheduled.                                               *)
Fairness ==
    \A n \in Node :
        /\ WF_vars(PacketSent(n) \/ IncomingPacket(n) \/ Poll(n))
        /\ WF_vars(WorkerResume(n) \/ PostalDelivery(n))
        /\ WF_vars(\E t \in Sender : SendResume(n, t))

Spec == Init /\ [][Next]_vars /\ Fairness
-----------------------------------------------------------------------------
(* Properties.                                                                *)

(* The postal worker's Receive always finds the packet it was woken for: one  *)
(* unit of messageAvailable, not taken or just taken, stands for the one      *)
(* packet the device has buffered.                                            *)
PacketIsAnnounced ==
    \A n \in Node :
        /\ avail[n] + (IF worker[n] = "got" THEN 1 ELSE 0) = IF inHdr[n] = Empty THEN 0 ELSE 1
        /\ worker[n] = "asleep" => avail[n] = 0

(* Without a lock, every thread in PostOffice::Send still has one interrupt   *)
(* to come or one unit of messageSent, and those that sleep have an interrupt *)
(* to come each: a unit is never left to a thread that does not look.         *)
SendsMatchInterrupts ==
    \A n \in Node :
        LET waiting == {t \in Sender : sending[n][t] # "no"}
            asleep  == {t \in Sender : sending[n][t] = "asleep"}
            toCome  == {i \in DOMAIN pending[n] : pending[n][i] = "sendDone"}
        IN  /\ Cardinality(waiting) = Cardinality(toCome) + sent[n]
            /\ Cardinality(asleep) <= Cardinality(toCome)

(* "in order but unreliably" (network.h): what a machine has put into its     *)
(* mailboxes, buffered and not yet read from its socket is, in this order,    *)
(* some of what the other one sent, each at most once.                        *)
MailInOrder ==
    \A n \in Node :
        LET mail == put[n] \o (IF inHdr[n] = Empty THEN <<>> ELSE <<inHdr[n]>>) \o sock[n]
        IN  \A i, j \in DOMAIN mail : i < j /\ mail[i].from = mail[j].from => mail[i].id < mail[j].id

(* MailTest that has read an answer to its mailbox 1 was heard: a "hello" of  *)
(* this machine has been put into the other one's mailbox.                    *)
AckMeansReceived ==
    \A n \in Node : heard[n] =>
        \E i \in DOMAIN put[Other(n)] : put[Other(n)][i].from = n /\ put[Other(n)][i].data = "hello"

(* Whatever is lost, and whichever machine ends when: every call of           *)
(* PostOffice::Send returns, and every packet in the socket or the buffer of  *)
(* a machine that keeps running reaches a mailbox.                            *)
MailSettles ==
    []<>(\A n \in Node :
            /\ \A t \in Sender : sending[n][t] = "no"
            /\ sock[n] = <<>> /\ inHdr[n] = Empty)
=============================================================================
