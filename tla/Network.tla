------------------------------ MODULE Network ------------------------------
(* The network device (network.cc) of several Nachos machines, each a UNIX    *)
(* process with a datagram socket (sysdep.cc).  Both interrupts of the device *)
(* are scheduled NetworkTime ahead, so those pending fire in the order in     *)
(* which they were scheduled.                                                 *)
EXTENDS Integers, Sequences, FiniteSets

CONSTANTS
    Node,       \* machines
    MayLose     \* the reliability given with -n is below 1

ASSUME NetworkAssumption == MayLose \in BOOLEAN

VARIABLES
    status,     \* "off" before it is started, "run", "halt", or "abort": an ASSERT failed
    sock,       \* datagrams in the socket of a machine
    pending,    \* network interrupts scheduled: "poll" and "sendDone"
    inHdr       \* the packet buffered: at most one

netVars == <<status, sock, pending, inHdr>>

Empty == [none |-> TRUE]   \* inHdr.length is 0

NetworkInit ==
    /\ status = [n \in Node |-> "off"]
    /\ sock = [n \in Node |-> <<>>]
    /\ pending = [n \in Node |-> <<>>]
    /\ inHdr = [n \in Node |-> Empty]

(* Network::Network.  A socket left over from an earlier run of the machine   *)
(* is unlinked, and what is in it is lost.                                    *)
NetworkStart(n) ==
    /\ status[n] # "run"
    /\ status' = [status EXCEPT ![n] = "run"]
    /\ sock' = [sock EXCEPT ![n] = <<>>]
    /\ pending' = [pending EXCEPT ![n] = <<"poll">>]
    /\ inHdr' = [inHdr EXCEPT ![n] = Empty]

(* The process ends: ~Network, or the abort after an ASSERT.                  *)
NetworkStop(n, how) ==
    /\ status' = [status EXCEPT ![n] = how]
    /\ sock' = [sock EXCEPT ![n] = <<>>]
    /\ pending' = [pending EXCEPT ![n] = <<>>]
    /\ inHdr' = [inHdr EXCEPT ![n] = Empty]

(* Network::Send; sendBusy, which its assertion tests, is never set.          *)
Transmit(n, pkt) ==
    /\ pending' = [pending EXCEPT ![n] = Append(@, "sendDone")]
    /\ \/ MayLose /\ UNCHANGED sock
       \/ status[pkt.to] = "run" /\ sock' = [sock EXCEPT ![pkt.to] = Append(@, pkt)]
    /\ UNCHANGED <<status, inHdr>>

(* SendToSocket to a machine that is not there: ASSERT(retVal == packetSize). *)
TransmitFails(n, pkt) ==
    /\ status[pkt.to] # "run"
    /\ NetworkStop(n, "abort")

(* Mutant: a packet is read although one is buffered.                         *)
CheckPktAvailAlways(n) ==
    /\ Head(pending[n]) = "poll"
    /\ pending' = [pending EXCEPT ![n] = Append(Tail(@), "poll")]
    /\ sock[n] # <<>>
    /\ inHdr' = [inHdr EXCEPT ![n] = Head(sock[n])]
    /\ sock' = [sock EXCEPT ![n] = Tail(@)]
    /\ UNCHANGED status

(* Network::CheckPktAvail reads a packet; readHandler is called next.         *)
CheckPktAvail(n) ==
    /\ Head(pending[n]) = "poll"
    /\ pending' = [pending EXCEPT ![n] = Append(Tail(@), "poll")]
    /\ inHdr[n] = Empty
    /\ sock[n] # <<>>
    /\ inHdr' = [inHdr EXCEPT ![n] = Head(sock[n])]
    /\ sock' = [sock EXCEPT ![n] = Tail(@)]
    /\ UNCHANGED status

(* CheckPktAvail with a packet in the buffer, or none in the socket.          *)
PollAgain(n) ==
    /\ Head(pending[n]) = "poll"
    /\ inHdr[n] # Empty \/ sock[n] = <<>>
    /\ pending' = [pending EXCEPT ![n] = Append(Tail(@), "poll")]
    /\ UNCHANGED <<status, sock, inHdr>>

(* Mutant: SendDone is scheduled again, as the poll is.                       *)
SendDoneAgain(n) ==
    /\ Head(pending[n]) = "sendDone"
    /\ pending' = [pending EXCEPT ![n] = Append(Tail(@), "sendDone")]
    /\ UNCHANGED <<status, sock, inHdr>>

(* Network::SendDone; writeHandler is called next.                            *)
SendDone(n) ==
    /\ Head(pending[n]) = "sendDone"
    /\ pending' = [pending EXCEPT ![n] = Tail(@)]
    /\ UNCHANGED <<status, sock, inHdr>>

(* Network::Receive.                                                          *)
TakePacket(n) ==
    /\ inHdr' = [inHdr EXCEPT ![n] = Empty]
    /\ UNCHANGED <<status, sock, pending>>
=============================================================================
