------------------------------ MODULE TcpServer ------------------------------
(***************************************************************************)
(* The TCP server of servers/tcpsocket.nim: one task that selects, accepts, *)
(* reads and reaps clients, with echoReadHandler as the read handler.  Each  *)
(* line a client sends is broadcast to every client in the table.           *)
(*                                                                          *)
(* Three tables must agree: the sockets that are open in lwIP, the handles  *)
(* the selector watches, and the clients table.  Descriptors are reused,    *)
(* and one select() reports several of them.                                *)
(***************************************************************************)
EXTENDS Integers, Sequences, Functions

CONSTANTS
    Peers,              \* remote clients; each connects once
    Fds,                \* descriptors lwIP can give to accepted sockets
    ServerFd,           \* the listening socket
    NoPeer,             \* a descriptor that is not open
    MaxLines,           \* bound: lines each peer sends
    AbortsHappen,       \* can a connection be reset before it is accepted?
    PartialReads,       \* can a line arrive in pieces?
    SendMayFail,        \* can a send to a connected client fail (full buffer)?
    HandlerMayReject    \* can the read handler raise TcpClientError?

ASSUME FdsAssumption == Fds \subseteq Nat /\ ServerFd \notin Fds
ASSUME NoPeerAssumption == NoPeer \notin Peers
ASSUME MaxLinesAssumption == MaxLines \in Nat
ASSUME FaultsAssumption ==
    /\ AbortsHappen \in BOOLEAN
    /\ PartialReads \in BOOLEAN
    /\ SendMayFail \in BOOLEAN
    /\ HandlerMayReject \in BOOLEAN

Line == [from : Peers, num : 1 .. MaxLines]

VARIABLES
    peer,       \* peer[p]: "idle", "connected", or "closed" at its own end
    backlog,    \* connections waiting for accept
    fdPeer,     \* fdPeer[f]: the connection behind an open descriptor
    rx,         \* rx[p]: lines of p the server has not received
    sent,       \* sent[p]: lines p has sent
    got,        \* got[p]: lines p has received
    clients,    \* keys of srv.clients
    watched,    \* descriptors registered with the selector
    pc,         \* where the server task is
    batch,      \* what select() reported and was not processed yet: the
                \* descriptor, and the connection it stood for at that time
    cur,        \* descriptor being processed
    log,        \* history: the lines broadcast so far
    joined      \* history: joined[p] = Len(log) when p was accepted

netVars == <<peer, backlog, rx, sent>>
vars == <<peer, backlog, fdPeer, rx, sent, got, clients, watched, pc, batch, cur, log, joined>>

Pcs == {"select", "dispatch", "accept", "read", "unknown", "dead"}

Open(f) == fdPeer[f] # NoPeer
FreeFds == {f \in Fds : ~ Open(f)}
HasFd(p) == \E f \in Fds : fdPeer[f] = p

Init ==
    /\ peer = [p \in Peers |-> "idle"]
    /\ backlog = <<>>
    /\ fdPeer = [f \in Fds |-> NoPeer]
    /\ rx = [p \in Peers |-> <<>>]
    /\ sent = [p \in Peers |-> 0]
    /\ got = [p \in Peers |-> <<>>]
    /\ clients = {}
    /\ watched = {ServerFd}
    /\ pc = "select"
    /\ batch = {}
    /\ cur = ServerFd
    /\ log = <<>>
    /\ joined = [p \in Peers |-> 0]

serverVars == <<fdPeer, clients, watched, pc, batch, cur, log, joined>>

-----------------------------------------------------------------------------
(* The peers and the network. *)

Connect(p) ==
    /\ peer[p] = "idle"
    /\ peer' = [peer EXCEPT ![p] = "connected"]
    /\ backlog' = Append(backlog, p)
    /\ UNCHANGED <<rx, sent, got, serverVars>>

PeerSend(p) ==
    /\ peer[p] = "connected"
    /\ sent[p] < MaxLines
    /\ sent' = [sent EXCEPT ![p] = @ + 1]
    /\ rx' = [rx EXCEPT ![p] = Append(@, [from |-> p, num |-> sent[p] + 1])]
    /\ UNCHANGED <<peer, backlog, got, serverVars>>

\* An orderly end of the stream: what was sent before it can still be read.
PeerClose(p) ==
    /\ peer[p] = "connected"
    /\ peer' = [peer EXCEPT ![p] = "closed"]
    /\ UNCHANGED <<backlog, rx, sent, got, serverVars>>

\* A reset: what was not read is lost, and a connection that was not accepted
\* leaves the backlog.
PeerReset(p) ==
    /\ peer[p] = "connected"
    /\ p \in Range(backlog) => AbortsHappen
    /\ peer' = [peer EXCEPT ![p] = "closed"]
    /\ rx' = [rx EXCEPT ![p] = <<>>]
    /\ \/ p \notin Range(backlog) /\ UNCHANGED backlog
       \/ \E i \in DOMAIN backlog :
            /\ backlog[i] = p
            /\ backlog' = SubSeq(backlog, 1, i - 1) \o SubSeq(backlog, i + 1, Len(backlog))
    /\ UNCHANGED <<sent, got, serverVars>>

-----------------------------------------------------------------------------
(* The loop of startSocketServer. *)

\* Mutation of Readable: a hang-up is not reported as something to read.
ReadableIgnoresHangup(f) ==
    IF f = ServerFd THEN backlog # <<>>
    ELSE Open(f) /\ rx[fdPeer[f]] # <<>> /\ peer[fdPeer[f]] = "connected"

Readable(f) ==
    IF f = ServerFd THEN backlog # <<>>
    ELSE Open(f) /\ (rx[fdPeer[f]] # <<>> \/ peer[fdPeer[f]] = "closed")

Behind(f) == IF f = ServerFd THEN NoPeer ELSE fdPeer[f]

Select ==
    /\ pc = "select"
    /\ \E f \in watched : Readable(f)
    /\ batch' = {[fd |-> f, peer |-> Behind(f)] : f \in {g \in watched : Readable(g)}}
    /\ pc' = "dispatch"
    /\ UNCHANGED <<netVars, fdPeer, got, clients, watched, cur, log, joined>>

\* The three branches of processReads.
Branch(f) ==
    IF f = ServerFd THEN "accept" ELSE IF f \in clients THEN "read" ELSE "unknown"

ProcessReads ==
    /\ pc = "dispatch"
    /\ \E r \in batch :
          /\ batch' = batch \ {r}
          /\ cur' = r.fd
          /\ pc' = Branch(r.fd)
    /\ UNCHANGED <<netVars, fdPeer, got, clients, watched, log, joined>>

BatchDone ==
    /\ pc = "dispatch"
    /\ batch = {}
    /\ pc' = "select"
    /\ UNCHANGED <<netVars, fdPeer, got, clients, watched, batch, cur, log, joined>>

-----------------------------------------------------------------------------
(* processReads: accepting. *)

\* lwIP gives the lowest free descriptor.
Accept ==
    /\ pc = "accept"
    /\ backlog # <<>>
    /\ \E f \in FreeFds :
          /\ \A g \in FreeFds : f <= g
          /\ fdPeer' = [fdPeer EXCEPT ![f] = Head(backlog)]
          /\ watched' = watched \union {f}
          /\ clients' = clients \union {f}
    /\ joined' = [joined EXCEPT ![Head(backlog)] = Len(log)]
    /\ backlog' = Tail(backlog)
    /\ pc' = "dispatch"
    /\ UNCHANGED <<peer, rx, sent, got, batch, cur, log>>

\* Mutation of AcceptFails: when no descriptor is free the server makes room by
\* closing some client.
AcceptEvicts ==
    /\ pc = "accept"
    /\ backlog # <<>> /\ FreeFds = {}
    /\ \E f \in clients : fdPeer' = [fdPeer EXCEPT ![f] = Head(backlog)]
    /\ joined' = [joined EXCEPT ![Head(backlog)] = Len(log)]
    /\ backlog' = Tail(backlog)
    /\ pc' = "dispatch"
    /\ UNCHANGED <<peer, rx, sent, got, clients, watched, batch, cur, log>>

\* Mutation of AcceptFails: the result of accept is not checked.
AcceptUnchecked ==
    /\ pc = "accept"
    /\ backlog = <<>> \/ FreeFds = {}
    /\ clients' = clients \union {-1}
    /\ watched' = watched \union {-1}
    /\ pc' = "dispatch"
    /\ UNCHANGED <<netVars, got, fdPeer, batch, cur, log, joined>>

\* accept raises: no descriptor is free, or the connection was reset after
\* select() saw it.  Nothing catches the OSError.
AcceptFails ==
    /\ pc = "accept"
    /\ backlog = <<>> \/ FreeFds = {}
    /\ backlog' = IF backlog = <<>> THEN backlog ELSE Tail(backlog)
    /\ pc' = "dead"
    /\ UNCHANGED <<peer, rx, sent, got, fdPeer, clients, watched, batch, cur, log, joined>>

-----------------------------------------------------------------------------
(* processReads: a known client, with echoReadHandler. *)

\* Mutation of Deliver: the line is not sent back to where it came from.
DeliverSkipsSource(line, targets) ==
    [p \in Peers |->
        IF peer[p] = "connected" /\ p # line.from /\ \E f \in targets : fdPeer[f] = p
        THEN Append(got[p], line) ELSE got[p]]

\* The clients a broadcast reaches: a send to a peer that is gone goes nowhere.
Deliver(line, targets) ==
    [p \in Peers |->
        IF peer[p] = "connected" /\ \E f \in targets : fdPeer[f] = p
        THEN Append(got[p], line) ELSE got[p]]

\* recvLine fills the buffer of a Socket that lives for this call only: one line
\* is returned, what else the buffer holds is dropped with it.
TakeLine ==
    \E n \in 1 .. Len(rx[fdPeer[cur]]) :
        rx' = [rx EXCEPT ![fdPeer[cur]] = SubSeq(@, n + 1, Len(@))]

EchoLine ==
    /\ pc = "read"
    /\ rx[fdPeer[cur]] # <<>>
    /\ TakeLine
    /\ log' = Append(log, Head(rx[fdPeer[cur]]))
    /\ got' = Deliver(Head(rx[fdPeer[cur]]), clients)
    /\ pc' = "dispatch"
    /\ UNCHANGED <<peer, backlog, sent, fdPeer, clients, watched, batch, cur, joined>>

\* A send to one client raises OSError in the middle of the broadcast: the rest of
\* the table does not get the line, and nothing catches the exception.
EchoFails ==
    /\ pc = "read"
    /\ rx[fdPeer[cur]] # <<>>
    /\ TakeLine
    /\ log' = Append(log, Head(rx[fdPeer[cur]]))
    /\ \E f \in clients : \E before \in SUBSET (clients \ {f}) :
          /\ peer[fdPeer[f]] = "closed" \/ SendMayFail
          /\ got' = Deliver(Head(rx[fdPeer[cur]]), before)
    /\ pc' = "dead"
    /\ UNCHANGED <<peer, backlog, sent, fdPeer, clients, watched, batch, cur, joined>>

\* recvLine runs dry before the end of the line: EAGAIN is an OSError.
ReadRunsDry ==
    /\ PartialReads
    /\ pc = "read"
    /\ rx[fdPeer[cur]] # <<>>
    /\ rx' = [rx EXCEPT ![fdPeer[cur]] = Tail(@)]
    /\ pc' = "dead"
    /\ UNCHANGED <<peer, backlog, sent, got, fdPeer, clients, watched, batch, cur, log, joined>>

\* Mutation of Drop: the selector keeps watching.
DropStillWatched(f) ==
    /\ clients' = clients \ {f}
    /\ watched' = watched
    /\ fdPeer' = [fdPeer EXCEPT ![f] = NoPeer]

\* What both except branches do to the client: out of the table, out of the
\* selector, closed.
Drop(f) ==
    /\ clients' = clients \ {f}
    /\ watched' = watched \ {f}
    /\ fdPeer' = [fdPeer EXCEPT ![f] = NoPeer]

\* An empty line is the end of the stream: TcpClientDisconnected.
Disconnected ==
    /\ pc = "read"
    /\ rx[fdPeer[cur]] = <<>>
    /\ peer[fdPeer[cur]] = "closed"
    /\ Drop(cur)
    /\ pc' = "dispatch"
    /\ UNCHANGED <<netVars, got, batch, cur, log, joined>>

\* A handler that raises TcpClientError gets its client thrown out.
ClientError ==
    /\ HandlerMayReject
    /\ pc = "read"
    /\ rx' = [rx EXCEPT ![fdPeer[cur]] = <<>>]
    /\ peer' = [peer EXCEPT ![fdPeer[cur]] = "closed"]
    /\ Drop(cur)
    /\ pc' = "dispatch"
    /\ UNCHANGED <<backlog, sent, got, batch, cur, log, joined>>

-----------------------------------------------------------------------------

Network == \E p \in Peers : Connect(p) \/ PeerSend(p) \/ PeerClose(p) \/ PeerReset(p)

Server ==
    \/ Select \/ ProcessReads \/ BatchDone
    \/ Accept \/ AcceptFails
    \/ EchoLine \/ EchoFails \/ ReadRunsDry
    \/ Disconnected \/ ClientError

Next == Network \/ Server

Spec == Init /\ [][Next]_vars

\* The task never blocks but in select(), and vTaskDelay(1) gives way for a tick.
FairSpec == Spec /\ WF_vars(Server)

-----------------------------------------------------------------------------

TypeOK ==
    /\ peer \in [Peers -> {"idle", "connected", "closed"}]
    /\ backlog \in Seq(Peers)
    /\ fdPeer \in [Fds -> Peers \union {NoPeer}]
    /\ rx \in [Peers -> Seq(Line)]
    /\ sent \in [Peers -> 0 .. MaxLines]
    /\ got \in [Peers -> Seq(Line)]
    /\ clients \in SUBSET Fds
    /\ watched \in SUBSET (Fds \union {ServerFd})
    /\ pc \in Pcs
    /\ batch \in SUBSET [fd : Fds \union {ServerFd}, peer : Peers \union {NoPeer}]
    /\ cur \in Fds \union {ServerFd}
    /\ log \in Seq(Line)
    /\ joined \in [Peers -> Nat]

\* The clients table, the selector and lwIP never disagree on who is connected,
\* in any order of arrivals and departures, so descriptors do not leak, the
\* selector never watches a closed one, and no connection has two.
TablesAgree ==
    /\ clients = {f \in Fds : Open(f)}
    /\ watched = clients \union {ServerFd}
    /\ \A f, g \in clients : fdPeer[f] = fdPeer[g] => f = g

\* What select() reported is not stale when the loop comes to it: processing one
\* descriptor of a batch never closes or reuses another one of the same batch, and the
\* last branch of processReads, "unknown socket id", is never taken.
BatchIsCurrent ==
    /\ \A r \in batch : r.fd # ServerFd => fdPeer[r.fd] = r.peer
    /\ pc # "unknown"

\* The echo server is a total-order broadcast: a connected client has received
\* exactly the lines echoed since it was accepted, in one common order, even
\* if clients come and go and their descriptors are reused.
BroadcastInOrder ==
    \A f \in clients :
        LET p == fdPeer[f]
        IN  peer[p] = "connected" /\ pc # "dead" => got[p] = SubSeq(log, joined[p] + 1, Len(log))

\* Every client that goes away is reaped, even one that was never accepted before it
\* left, and a client's data is received, whatever the other clients do: unless an
\* exception ends the server.
PeersAreServed ==
    \A p \in Peers :
        /\ (peer[p] = "closed") ~> (pc = "dead" \/ (~ HasFd(p) /\ p \notin Range(backlog)))
        /\ (rx[p] # <<>>) ~> (rx[p] = <<>> \/ pc = "dead")
=============================================================================
