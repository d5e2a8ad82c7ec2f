------------------------------ MODULE UdpServer ------------------------------
(***************************************************************************)
(* The UDP server of servers/udpsocket.nim with echoReadHandler: one socket, *)
(* a table of the addresses that have ever sent something, and a broadcast   *)
(* of each datagram to all of them.  Nothing takes an address out again.     *)
(***************************************************************************)
EXTENDS Naturals, Sequences, Functions

CONSTANTS
    Senders,            \* addresses datagrams come from
    MaxDatagrams,       \* bound: datagrams each of them sends
    SendToMayFail       \* can sendTo raise?

ASSUME MaxDatagramsAssumption == MaxDatagrams \in Nat

Datagram == [src : Senders, num : 1 .. MaxDatagrams]

VARIABLES
    sentBy,     \* sentBy[a]: datagrams a has sent
    flight,     \* datagrams the network has, in no order
    rxQueue,    \* datagrams in the receive buffer of the socket
    known,      \* keys of srv.clients
    udpPc,      \* the server task: "select", "read" or "dead"
    told,       \* told[a]: what was sent to a
    echoed,     \* history: the datagrams that were broadcast
    since       \* history: since[a] = Len(echoed) when a became known

udpVars == <<sentBy, flight, rxQueue, known, udpPc, told, echoed, since>>

UdpInit ==
    /\ sentBy = [a \in Senders |-> 0]
    /\ flight = {}
    /\ rxQueue = <<>>
    /\ known = {}
    /\ udpPc = "select"
    /\ told = [a \in Senders |-> <<>>]
    /\ echoed = <<>>
    /\ since = [a \in Senders |-> 0]

udpServerVars == <<known, udpPc, told, echoed, since>>

-----------------------------------------------------------------------------
(* The network. *)

Sends(a) ==
    /\ sentBy[a] < MaxDatagrams
    /\ sentBy' = [sentBy EXCEPT ![a] = @ + 1]
    /\ flight' = flight \union {[src |-> a, num |-> sentBy[a] + 1]}
    /\ UNCHANGED <<rxQueue, udpServerVars>>

Arrives(d) ==
    /\ flight' = flight \ {d}
    /\ rxQueue' = Append(rxQueue, d)
    /\ UNCHANGED <<sentBy, udpServerVars>>

IsLost(d) ==
    /\ flight' = flight \ {d}
    /\ UNCHANGED <<sentBy, rxQueue, udpServerVars>>

-----------------------------------------------------------------------------
(* The loop of startUdpSocketServer. *)

UdpSelect ==
    /\ udpPc = "select"
    /\ rxQueue # <<>>
    /\ udpPc' = "read"
    /\ UNCHANGED <<sentBy, flight, rxQueue, known, told, echoed, since>>

\* The handler's hasKey test: an address gets into the table with its first datagram.
Learn(a) ==
    /\ known' = known \union {a}
    /\ since' = IF a \in known THEN since ELSE [since EXCEPT ![a] = Len(echoed)]

\* Mutation of TellOnly: the source is passed over, as the code that is commented out does.
TellOthers(targets, d) ==
    [a \in Senders |-> IF a \in targets /\ a # d.src THEN Append(told[a], d) ELSE told[a]]

TellOnly(targets, d) ==
    [a \in Senders |-> IF a \in targets THEN Append(told[a], d) ELSE told[a]]

\* Mutation of UdpEcho: recvFrom until the buffer is empty, and one broadcast.
UdpEchoDrains ==
    /\ udpPc = "read"
    /\ Learn(Head(rxQueue).src)
    /\ told' = TellOnly(known', Head(rxQueue))
    /\ echoed' = Append(echoed, Head(rxQueue))
    /\ rxQueue' = <<>>
    /\ udpPc' = "select"
    /\ UNCHANGED <<sentBy, flight>>

\* recvFrom takes the oldest datagram, and everybody in the table is sent it.
UdpEcho ==
    /\ udpPc = "read"
    /\ Learn(Head(rxQueue).src)
    /\ told' = TellOnly(known', Head(rxQueue))
    /\ echoed' = Append(echoed, Head(rxQueue))
    /\ rxQueue' = Tail(rxQueue)
    /\ udpPc' = "select"
    /\ UNCHANGED <<sentBy, flight>>

\* A sendTo raises in the middle of the table; nothing catches the OSError.
UdpEchoFails ==
    /\ SendToMayFail
    /\ udpPc = "read"
    /\ Learn(Head(rxQueue).src)
    /\ \E a \in known' : \E before \in SUBSET (known' \ {a}) : told' = TellOnly(before, Head(rxQueue))
    /\ echoed' = Append(echoed, Head(rxQueue))
    /\ rxQueue' = Tail(rxQueue)
    /\ udpPc' = "dead"
    /\ UNCHANGED <<sentBy, flight>>

-----------------------------------------------------------------------------

UdpNetwork == (\E a \in Senders : Sends(a)) \/ \E d \in flight : Arrives(d) \/ IsLost(d)
UdpTask == UdpSelect \/ UdpEcho \/ UdpEchoFails
UdpNext == UdpNetwork \/ UdpTask

-----------------------------------------------------------------------------

UdpTypeOK ==
    /\ sentBy \in [Senders -> 0 .. MaxDatagrams]
    /\ flight \subseteq Datagram
    /\ rxQueue \in Seq(Datagram)
    /\ known \subseteq Senders
    /\ udpPc \in {"select", "read", "dead"}
    /\ told \in [Senders -> Seq(Datagram)]
    /\ echoed \in Seq(Datagram)
    /\ since \in [Senders -> Nat]

\* Everybody who has ever been heard gets every datagram from its own first one on, in
\* one order, however the network lost and reordered them on the way to the server.
KnownAreTold ==
    \A a \in Senders :
        /\ a \in known /\ udpPc # "dead" => told[a] = SubSeq(echoed, since[a] + 1, Len(echoed))
        /\ a \notin known => told[a] = <<>>
        /\ (\E d \in Range(echoed) : d.src = a) => a \in known

\* One datagram is read in each round of the loop, and a burst of them still is worked
\* off: what has arrived is broadcast, unless an exception ends the server.
ArrivedAreEchoed ==
    \A d \in Datagram : (d \in Range(rxQueue)) ~> (d \in Range(echoed) \/ udpPc = "dead")
=============================================================================
