--------------------------- MODULE TcpServerProofs ---------------------------
(***************************************************************************)
(* Proofs about TcpServer, for any peers and descriptors and any number of   *)
(* lines: the tables of the select loop agree, what select() reported stays   *)
(* true while it is worked off, and the echo is a broadcast in one order.     *)
(***************************************************************************)
EXTENDS TcpServer, SequenceTheorems, TLAPS

(* Facts about sequences. *)

\* Taking one connection out of the backlog moves the others up.
LEMMA Removal ==
    ASSUME NEW S, NEW b \in Seq(S), NEW i \in DOMAIN b
    PROVE  LET c == SubSeq(b, 1, i - 1) \o SubSeq(b, i + 1, Len(b))
           IN  /\ c \in Seq(S) /\ Len(c) = Len(b) - 1
               /\ \A k \in DOMAIN c : c[k] = b[IF k < i THEN k ELSE k + 1]
<1> DEFINE l == SubSeq(b, 1, i - 1)
           r == SubSeq(b, i + 1, Len(b))
<1>1. Len(b) \in Nat /\ DOMAIN b = 1 .. Len(b) /\ i \in 1 .. Len(b)
  BY LenProperties
<1>2. \A k \in 1 .. Len(b) : b[k] \in S
  BY ElementOfSeq
<1>3. l \in Seq(S) /\ Len(l) = i - 1 /\ \A k \in 1 .. i - 1 : l[k] = b[k]
  <2>1. \A k \in 1 .. i - 1 : b[k] \in S
    BY <1>1, <1>2
  <2> QED
    BY <1>1, <2>1, SubSeqProperties
<1>4. r \in Seq(S) /\ Len(r) = Len(b) - i /\ \A k \in 1 .. Len(b) - i : r[k] = b[k + i]
  <2>1. \A k \in i + 1 .. Len(b) : b[k] \in S
    BY <1>1, <1>2
  <2> QED
    BY <1>1, <2>1, SubSeqProperties
<1> HIDE DEF l, r
<1>5. /\ l \o r \in Seq(S) /\ Len(l \o r) = Len(l) + Len(r)
      /\ \A k \in 1 .. Len(l) + Len(r) :
            (l \o r)[k] = IF k <= Len(l) THEN l[k] ELSE r[k - Len(l)]
  BY <1>3, <1>4, ConcatProperties
<1>6. Len(l \o r) = Len(b) - 1 /\ DOMAIN (l \o r) = 1 .. Len(b) - 1
  <2>1. Len(l) + Len(r) = Len(b) - 1
    BY <1>1, <1>3, <1>4
  <2>2. DOMAIN (l \o r) = 1 .. Len(l \o r)
    BY <1>5, LenProperties
  <2> QED
    BY <1>5, <2>1, <2>2
<1>7. ASSUME NEW k \in 1 .. Len(b) - 1
      PROVE  (l \o r)[k] = b[IF k < i THEN k ELSE k + 1]
  <2>1. CASE k < i
    BY <1>1, <1>3, <1>4, <1>5, <2>1
  <2>2. CASE ~ (k < i)
    <3>1. (l \o r)[k] = r[k - (i - 1)]
      <4>1. k \in 1 .. Len(l) + Len(r) /\ ~ (k <= Len(l)) /\ Len(l) = i - 1
        BY <1>1, <1>3, <1>4, <2>2
      <4> QED
        BY ONLY <1>5, <4>1
    <3>2. k - (i - 1) \in 1 .. Len(b) - i /\ (k - (i - 1)) + i = k + 1
      BY <1>1, <2>2
    <3>3. r[k - (i - 1)] = b[(k - (i - 1)) + i]
      BY ONLY <1>4, <3>2
    <3> QED
      BY ONLY <2>2, <3>1, <3>2, <3>3
  <2> QED
    BY <2>1, <2>2
<1> QED
  BY <1>5, <1>6, <1>7 DEF l, r

\* A suffix grows with its sequence.
LEMMA SuffixGrows ==
    ASSUME NEW S, NEW s \in Seq(S), NEW e \in S, NEW n \in 0 .. Len(s)
    PROVE  Append(SubSeq(s, n + 1, Len(s)), e) = SubSeq(Append(s, e), n + 1, Len(Append(s, e)))
<1> DEFINE t == Append(s, e)
           u == SubSeq(s, n + 1, Len(s))
           v == SubSeq(t, n + 1, Len(t))
<1>1. Len(s) \in Nat /\ n \in Nat /\ n <= Len(s) /\ \A k \in 1 .. Len(s) : s[k] \in S
  BY LenProperties, ElementOfSeq
<1>2. /\ t \in Seq(S) /\ Len(t) = Len(s) + 1
      /\ \A k \in 1 .. Len(s) : t[k] = s[k]
      /\ t[Len(s) + 1] = e
  BY <1>1, AppendProperties
<1>3. u \in Seq(S) /\ Len(u) = Len(s) - n /\ \A k \in 1 .. Len(s) - n : u[k] = s[k + n]
  <2>1. \A k \in n + 1 .. Len(s) : s[k] \in S
    BY <1>1
  <2> QED
    BY <1>1, <2>1, SubSeqProperties
<1>4. v \in Seq(S) /\ Len(v) = Len(s) + 1 - n /\ \A k \in 1 .. Len(s) + 1 - n : v[k] = t[k + n]
  <2>1. \A k \in n + 1 .. Len(t) : t[k] \in S
    BY <1>1, <1>2, ElementOfSeq
  <2> QED
    BY <1>1, <1>2, <2>1, SubSeqProperties
<1> HIDE DEF t, u, v
<1>5. /\ Append(u, e) \in Seq(S) /\ Len(Append(u, e)) = Len(s) + 1 - n
      /\ \A k \in 1 .. Len(s) - n : Append(u, e)[k] = u[k]
      /\ Append(u, e)[Len(s) - n + 1] = e
  BY <1>1, <1>3, AppendProperties
<1>6. ASSUME NEW k \in 1 .. Len(s) + 1 - n PROVE Append(u, e)[k] = v[k]
  <2>1. CASE k \in 1 .. Len(s) - n
    <3>1. k + n \in 1 .. Len(s) /\ k \in 1 .. Len(s) + 1 - n
      BY <1>1, <2>1
    <3>2. Append(u, e)[k] = s[k + n]
      BY ONLY <1>3, <1>5, <2>1
    <3>3. v[k] = s[k + n]
      BY ONLY <1>2, <1>4, <3>1
    <3> QED
      BY <3>2, <3>3
  <2>2. CASE k = Len(s) - n + 1
    <3>1. k + n = Len(s) + 1
      BY <1>1, <2>2
    <3> QED
      BY <1>2, <1>4, <1>5, <2>2, <3>1
  <2>3. k \in 1 .. Len(s) - n \/ k = Len(s) - n + 1
    <3> DEFINE l == Len(s)
    <3>1. l \in Nat /\ n \in Nat /\ k \in 1 .. l + 1 - n
      BY <1>1
    <3> HIDE DEF l
    <3>2. k \in 1 .. l - n \/ k = l - n + 1
      BY ONLY <3>1
    <3> QED
      BY <3>2 DEF l
  <2> QED
    BY <2>1, <2>2, <2>3
<1>7. Append(u, e) = v
  BY <1>1, <1>4, <1>5, <1>6, SeqEqual
<1> QED
  BY <1>7 DEF t, u, v
-----------------------------------------------------------------------------
(* The inductive invariant. *)

\* A connection waits for accept at most once, and has no descriptor while it does.
BacklogInv ==
    /\ \A i, j \in DOMAIN backlog : backlog[i] = backlog[j] => i = j
    /\ \A i \in DOMAIN backlog : peer[backlog[i]] # "idle" /\ ~ HasFd(backlog[i])

\* Who has a descriptor is in the tables, and has one.
TablesInv ==
    /\ clients = {f \in Fds : Open(f)}
    /\ watched = clients \union {ServerFd}
    /\ \A f, g \in clients : fdPeer[f] = fdPeer[g] => f = g
    /\ \A f \in clients : peer[fdPeer[f]] # "idle"

\* A batch names clients that are there, each once, and not the one being processed.
BatchInv ==
    /\ \A r \in batch : r.fd # ServerFd => r.fd \in clients /\ fdPeer[r.fd] = r.peer
    /\ \A r, s \in batch : r.fd = s.fd => r = s
    /\ pc \in {"accept", "read"} => \A r \in batch : r.fd # cur
    /\ pc = "read" => cur \in clients
    /\ pc # "unknown"

\* Who has not been accepted has received nothing, and who has been was at some point of
\* the log.
LogInv ==
    /\ \A p \in Peers : peer[p] = "idle" \/ p \in Range(backlog) => got[p] = <<>>
    /\ \A p \in Peers : joined[p] <= Len(log)
    /\ BroadcastInOrder

ServerInv == TypeOK /\ BacklogInv /\ TablesInv /\ BatchInv /\ LogInv

\* A descriptor is a client's exactly when somebody is behind it.
LEMMA Clients ==
    ASSUME TypeOK, TablesInv
    PROVE  /\ \A f \in clients : f \in Fds /\ fdPeer[f] \in Peers /\ HasFd(fdPeer[f]) /\ f # ServerFd
           /\ \A p \in Peers, f \in Fds : fdPeer[f] = p => f \in clients
  BY FdsAssumption, NoPeerAssumption DEF TypeOK, TablesInv, Open, HasFd

\* Taking a line leaves lines.
LEMMA LinesTaken ==
    ASSUME TypeOK, fdPeer[cur] \in Peers, TakeLine
    PROVE  rx' \in [Peers -> Seq(Line)]
<1> DEFINE q == rx[fdPeer[cur]]
<1>1. q \in Seq(Line) /\ Len(q) \in Nat /\ \A k \in 1 .. Len(q) : q[k] \in Line
  BY LenProperties, ElementOfSeq DEF TypeOK
<1>2. PICK n \in 1 .. Len(q) : rx' = [rx EXCEPT ![fdPeer[cur]] = SubSeq(@, n + 1, Len(@))]
  BY DEF TakeLine
<1>3. SubSeq(q, n + 1, Len(q)) \in Seq(Line)
  <2>1. \A k \in n + 1 .. Len(q) : q[k] \in Line
    BY <1>1
  <2> QED
    BY <1>1, <2>1, SubSeqProperties
<1> QED
  BY <1>2, <1>3 DEF TypeOK

\* The types.
LEMMA TypeStep ==
    ASSUME ServerInv, Next
    PROVE  TypeOK'
<1> USE DEF ServerInv
<1>1. ASSUME NEW p \in Peers, Connect(p) PROVE TypeOK'
  BY <1>1, AppendProperties DEF TypeOK, Connect, serverVars
<1>2. ASSUME NEW p \in Peers, PeerSend(p) PROVE TypeOK'
  <2>1. sent[p] + 1 \in 1 .. MaxLines
    BY <1>2, MaxLinesAssumption DEF TypeOK, PeerSend
  <2>2. [from |-> p, num |-> sent[p] + 1] \in Line
    BY <2>1 DEF Line
  <2>3. Append(rx[p], [from |-> p, num |-> sent[p] + 1]) \in Seq(Line)
    BY <2>2, AppendProperties DEF TypeOK
  <2> QED
    BY <1>2, <2>1, <2>3 DEF TypeOK, PeerSend, serverVars
<1>3. ASSUME NEW p \in Peers, PeerClose(p) PROVE TypeOK'
  BY <1>3 DEF TypeOK, PeerClose, serverVars
<1>4. ASSUME NEW p \in Peers, PeerReset(p) PROVE TypeOK'
  <2>1. backlog' \in Seq(Peers)
    <3>1. CASE backlog' = backlog
      BY <3>1 DEF TypeOK
    <3>2. ASSUME NEW i \in DOMAIN backlog,
                 backlog' = SubSeq(backlog, 1, i - 1) \o SubSeq(backlog, i + 1, Len(backlog))
          PROVE  backlog' \in Seq(Peers)
      BY <3>2, Removal DEF TypeOK
    <3> QED
      BY <1>4, <3>1, <3>2 DEF PeerReset
  <2> QED
    BY <1>4, <2>1 DEF TypeOK, PeerReset, serverVars
<1>5. CASE Select
  BY <1>5, NoPeerAssumption DEF TypeOK, Select, netVars, Pcs, Behind
<1>6. CASE ProcessReads
  <2>1. PICK r \in batch : batch' = batch \ {r} /\ cur' = r.fd /\ pc' = Branch(r.fd)
    BY <1>6 DEF ProcessReads
  <2>2. r.fd \in Fds \union {ServerFd}
    BY DEF TypeOK
  <2>3. pc' \in Pcs
    BY <2>1 DEF Branch, Pcs
  <2> QED
    BY <1>6, <2>1, <2>2, <2>3 DEF TypeOK, ProcessReads, netVars
<1>7. CASE BatchDone
  BY <1>7 DEF TypeOK, BatchDone, netVars, Pcs
<1>8. CASE Accept
  <2>1. Head(backlog) \in Peers /\ backlog' \in Seq(Peers)
    BY <1>8, HeadTailProperties DEF TypeOK, Accept
  <2>2. Len(log) \in Nat
    BY LenProperties DEF TypeOK
  <2> QED
    BY <1>8, <2>1, <2>2 DEF TypeOK, Accept, Pcs, FreeFds
<1>9. CASE AcceptFails
  <2>1. backlog' \in Seq(Peers)
    BY <1>9, HeadTailProperties DEF TypeOK, AcceptFails
  <2> QED
    BY <1>9, <2>1 DEF TypeOK, AcceptFails, Pcs
<1>10. CASE EchoLine
  <2>1. cur \in clients /\ fdPeer[cur] \in Peers
    BY <1>10, Clients DEF EchoLine, BatchInv
  <2>2. Head(rx[fdPeer[cur]]) \in Line
    BY <1>10, <2>1, HeadTailProperties DEF TypeOK, EchoLine
  <2>3. rx' \in [Peers -> Seq(Line)]
    BY <1>10, <2>1, LinesTaken DEF EchoLine
  <2>4. log' \in Seq(Line)
    BY <1>10, <2>2, AppendProperties DEF TypeOK, EchoLine
  <2>5. got' \in [Peers -> Seq(Line)]
    BY <1>10, <2>2, AppendProperties DEF TypeOK, EchoLine, Deliver
  <2> QED
    BY <1>10, <2>3, <2>4, <2>5 DEF TypeOK, EchoLine, Pcs
<1>11. CASE EchoFails
  <2>1. cur \in clients /\ fdPeer[cur] \in Peers
    BY <1>11, Clients DEF EchoFails, BatchInv
  <2>2. Head(rx[fdPeer[cur]]) \in Line
    BY <1>11, <2>1, HeadTailProperties DEF TypeOK, EchoFails
  <2>3. rx' \in [Peers -> Seq(Line)]
    BY <1>11, <2>1, LinesTaken DEF EchoFails
  <2>4. log' \in Seq(Line)
    BY <1>11, <2>2, AppendProperties DEF TypeOK, EchoFails
  <2>5. got' \in [Peers -> Seq(Line)]
    BY <1>11, <2>2, AppendProperties DEF TypeOK, EchoFails, Deliver
  <2> QED
    BY <1>11, <2>3, <2>4, <2>5 DEF TypeOK, EchoFails, Pcs
<1>12. CASE ReadRunsDry
  <2>1. cur \in clients /\ fdPeer[cur] \in Peers
    BY <1>12, Clients DEF ReadRunsDry, BatchInv
  <2>2. Tail(rx[fdPeer[cur]]) \in Seq(Line)
    BY <1>12, <2>1, HeadTailProperties DEF TypeOK, ReadRunsDry
  <2> QED
    BY <1>12, <2>2 DEF TypeOK, ReadRunsDry, Pcs
<1>13. CASE Disconnected
  BY <1>13 DEF TypeOK, Disconnected, Drop, netVars, Pcs
<1>14. CASE ClientError
  <2>1. <<>> \in Seq(Line)
    BY EmptySeq
  <2> QED
    BY <1>14, <2>1 DEF TypeOK, ClientError, Drop, Pcs
<1> QED
  BY <1>1, <1>2, <1>3, <1>4, <1>5, <1>6, <1>7, <1>8, <1>9, <1>10, <1>11, <1>12, <1>13, <1>14
     DEF Next, Network, Server

\* The head of the backlog is in it once, the rest moves up.
LEMMA BacklogTail ==
    ASSUME TypeOK, BacklogInv, backlog # <<>>
    PROVE  /\ 1 \in DOMAIN backlog /\ Head(backlog) = backlog[1] /\ Head(backlog) \in Peers
           /\ \A k \in DOMAIN Tail(backlog) :
                k + 1 \in DOMAIN backlog /\ k + 1 # 1 /\ Tail(backlog)[k] = backlog[k + 1]
           /\ \A i, j \in DOMAIN Tail(backlog) : Tail(backlog)[i] = Tail(backlog)[j] => i = j
           /\ Head(backlog) \notin Range(Tail(backlog))
           /\ Range(Tail(backlog)) \subseteq Range(backlog)
           /\ Head(backlog) \in Range(backlog)
<1>1. backlog \in Seq(Peers) /\ Len(backlog) \in Nat /\ DOMAIN backlog = 1 .. Len(backlog)
  BY LenProperties DEF TypeOK
<1>2. /\ Head(backlog) \in Peers /\ Tail(backlog) \in Seq(Peers)
      /\ Len(Tail(backlog)) = Len(backlog) - 1
      /\ \A i \in 1 .. Len(Tail(backlog)) : Tail(backlog)[i] = backlog[i + 1]
  BY <1>1, HeadTailProperties
<1>3. DOMAIN Tail(backlog) = 1 .. Len(backlog) - 1
  BY <1>2, LenProperties
<1>4. 1 \in DOMAIN backlog /\ Head(backlog) = backlog[1]
  <2>1. Len(backlog) # 0
    BY <1>1, EmptySeq
  <2> QED
    BY <1>1, <2>1
<1>5. \A k \in DOMAIN Tail(backlog) :
        k + 1 \in DOMAIN backlog /\ k + 1 # 1 /\ Tail(backlog)[k] = backlog[k + 1]
  BY <1>1, <1>2, <1>3
<1>6. \A i, j \in DOMAIN Tail(backlog) : Tail(backlog)[i] = Tail(backlog)[j] => i = j
  <2> SUFFICES ASSUME NEW i \in DOMAIN Tail(backlog), NEW j \in DOMAIN Tail(backlog),
                      Tail(backlog)[i] = Tail(backlog)[j]
               PROVE  i = j
    OBVIOUS
  <2>1. i + 1 = j + 1
    BY <1>5 DEF BacklogInv
  <2>2. i \in Int /\ j \in Int
    BY <1>3
  <2> QED
    BY <2>1, <2>2
<1>7. Head(backlog) \notin Range(Tail(backlog))
  BY <1>4, <1>5 DEF BacklogInv, Range
<1>8. Range(Tail(backlog)) \subseteq Range(backlog) /\ Head(backlog) \in Range(backlog)
  BY <1>4, <1>5 DEF Range
<1> QED
  BY <1>2, <1>4, <1>5, <1>6, <1>7, <1>8

\* Who takes a place in the backlog comes behind the others.
LEMMA BacklogAppend ==
    ASSUME TypeOK, NEW p \in Peers
    PROVE  /\ DOMAIN Append(backlog, p) = DOMAIN backlog \union {Len(backlog) + 1}
           /\ Len(backlog) + 1 \notin DOMAIN backlog
           /\ \A k \in DOMAIN backlog : Append(backlog, p)[k] = backlog[k]
           /\ Append(backlog, p)[Len(backlog) + 1] = p
<1>1. backlog \in Seq(Peers) /\ Len(backlog) \in Nat /\ DOMAIN backlog = 1 .. Len(backlog)
  BY LenProperties DEF TypeOK
<1>2. /\ Append(backlog, p) \in Seq(Peers) /\ Len(Append(backlog, p)) = Len(backlog) + 1
      /\ \A i \in 1 .. Len(backlog) : Append(backlog, p)[i] = backlog[i]
      /\ Append(backlog, p)[Len(backlog) + 1] = p
  BY <1>1, AppendProperties
<1>3. DOMAIN Append(backlog, p) = 1 .. Len(backlog) + 1
  BY <1>2, LenProperties
<1> QED
  BY <1>1, <1>2, <1>3

\* Nobody waits twice, nobody who waits has a descriptor.
LEMMA BacklogStep ==
    ASSUME ServerInv, Next
    PROVE  BacklogInv'
<1> USE DEF ServerInv
<1>a. \A p \in Peers : peer[p] = "idle" => ~ HasFd(p) /\ p \notin Range(backlog)
  BY Clients DEF TablesInv, HasFd, BacklogInv, Range
<1>b. \A i \in DOMAIN backlog : backlog[i] \in Peers
  BY ElementOfSeq, LenProperties DEF TypeOK
<1>1. ASSUME NEW p \in Peers, Connect(p) PROVE BacklogInv'
  <2>1. /\ peer[p] = "idle" /\ peer' = [peer EXCEPT ![p] = "connected"]
        /\ backlog' = Append(backlog, p) /\ fdPeer' = fdPeer
    BY <1>1 DEF Connect, serverVars
  <2>2. \A k \in DOMAIN backlog : backlog[k] # p
    BY <1>a, <2>1 DEF Range
  <2>3. \A i, j \in DOMAIN backlog' : backlog'[i] = backlog'[j] => i = j
    BY <2>1, <2>2, BacklogAppend DEF BacklogInv
  <2>4. ASSUME NEW i \in DOMAIN backlog' PROVE peer'[backlog'[i]] # "idle" /\ \A f \in Fds : fdPeer'[f] # backlog'[i]
    <3>1. CASE i \in DOMAIN backlog
      <4>1. backlog'[i] = backlog[i] /\ backlog[i] \in Peers
        BY <1>b, <2>1, <3>1, BacklogAppend
      <4>2. peer[backlog[i]] # "idle" /\ \A f \in Fds : fdPeer[f] # backlog[i]
        BY <3>1 DEF BacklogInv, HasFd
      <4> QED
        BY <2>1, <4>1, <4>2 DEF TypeOK
    <3>2. CASE i = Len(backlog) + 1
      BY <1>a, <2>1, <3>2, BacklogAppend DEF HasFd, TypeOK
    <3> QED
      BY <2>1, <3>1, <3>2, BacklogAppend
  <2> QED
    BY <2>3, <2>4 DEF BacklogInv, HasFd
<1>2. ASSUME backlog' = backlog, \A p \in Peers : peer'[p] = "idle" => peer[p] = "idle",
             \A f \in Fds : fdPeer'[f] = fdPeer[f] \/ fdPeer'[f] = NoPeer
      PROVE  BacklogInv'
  BY <1>2, <1>b, NoPeerAssumption DEF BacklogInv, HasFd
<1>3. ASSUME NEW p \in Peers, PeerReset(p) PROVE BacklogInv'
  <2>1. peer' = [peer EXCEPT ![p] = "closed"] /\ fdPeer' = fdPeer
    BY <1>3 DEF PeerReset, serverVars
  <2>2. CASE backlog' = backlog
    BY <1>2, <2>1, <2>2 DEF TypeOK
  <2>3. ASSUME NEW i \in DOMAIN backlog,
               backlog' = SubSeq(backlog, 1, i - 1) \o SubSeq(backlog, i + 1, Len(backlog))
        PROVE  BacklogInv'
    <3>1. /\ backlog' \in Seq(Peers) /\ Len(backlog') = Len(backlog) - 1
          /\ \A k \in DOMAIN backlog' : backlog'[k] = backlog[IF k < i THEN k ELSE k + 1]
      BY <2>3, Removal DEF TypeOK
    <3>2. /\ Len(backlog) \in Nat /\ DOMAIN backlog = 1 .. Len(backlog) /\ i \in 1 .. Len(backlog)
          /\ DOMAIN backlog' = 1 .. Len(backlog')
      BY <3>1, LenProperties DEF TypeOK
    <3>3. \A k \in DOMAIN backlog' : k \in Int /\ (IF k < i THEN k ELSE k + 1) \in DOMAIN backlog
      BY <3>1, <3>2
    <3>4. \A j, k \in DOMAIN backlog' : backlog'[j] = backlog'[k] => j = k
      <4> SUFFICES ASSUME NEW j \in DOMAIN backlog', NEW k \in DOMAIN backlog',
                          backlog'[j] = backlog'[k]
                   PROVE  j = k
        OBVIOUS
      <4>1. (IF j < i THEN j ELSE j + 1) = (IF k < i THEN k ELSE k + 1)
        BY <3>1, <3>3 DEF BacklogInv
      <4> QED
        BY <3>2, <3>3, <4>1
    <3>5. ASSUME NEW k \in DOMAIN backlog'
          PROVE  peer'[backlog'[k]] # "idle" /\ \A f \in Fds : fdPeer'[f] # backlog'[k]
      <4>1. PICK n \in DOMAIN backlog : backlog'[k] = backlog[n]
        BY <3>1, <3>3
      <4> QED
        BY <1>b, <2>1, <4>1 DEF BacklogInv, HasFd, TypeOK
    <3> QED
      BY <3>4, <3>5 DEF BacklogInv, HasFd
  <2> QED
    BY <1>3, <2>2, <2>3 DEF PeerReset
<1>4. CASE Accept
  <2>1. backlog # <<>> /\ backlog' = Tail(backlog) /\ peer' = peer
    BY <1>4 DEF Accept
  <2>2. PICK fresh \in FreeFds : fdPeer' = [fdPeer EXCEPT ![fresh] = Head(backlog)]
    BY <1>4 DEF Accept
  <2>3. ASSUME NEW k \in DOMAIN backlog'
        PROVE  peer'[backlog'[k]] # "idle" /\ \A f \in Fds : fdPeer'[f] # backlog'[k]
    <3>1. backlog'[k] = backlog[k + 1] /\ k + 1 \in DOMAIN backlog /\ backlog'[k] # Head(backlog)
      BY <2>1, BacklogTail DEF Range
    <3> QED
      BY <2>1, <2>2, <3>1 DEF BacklogInv, HasFd, TypeOK, FreeFds
  <2> QED
    BY <2>1, <2>3, BacklogTail DEF BacklogInv, HasFd
<1>5. CASE AcceptFails
  <2>1. peer' = peer /\ fdPeer' = fdPeer
    BY <1>5 DEF AcceptFails
  <2>2. CASE backlog' = backlog
    BY <1>2, <2>1, <2>2
  <2>3. CASE backlog # <<>> /\ backlog' = Tail(backlog)
    BY <2>1, <2>3, BacklogTail DEF BacklogInv, HasFd
  <2> QED
    BY <1>5, <2>2, <2>3 DEF AcceptFails
<1>6. CASE Disconnected
  BY <1>2, <1>6 DEF Disconnected, Drop, netVars, TypeOK
<1>7. CASE ClientError
  BY <1>2, <1>7 DEF ClientError, Drop, TypeOK
<1>8. ASSUME NEW p \in Peers, PeerSend(p) \/ PeerClose(p) PROVE BacklogInv'
  BY <1>2, <1>8 DEF PeerSend, PeerClose, serverVars, TypeOK
<1>9. CASE Select \/ ProcessReads \/ BatchDone \/ EchoLine \/ EchoFails \/ ReadRunsDry
  BY <1>2, <1>9 DEF Select, ProcessReads, BatchDone, EchoLine, EchoFails, ReadRunsDry, netVars
<1> QED
  BY <1>1, <1>3, <1>4, <1>5, <1>6, <1>7, <1>8, <1>9 DEF Next, Network, Server

\* The tables agree.
LEMMA TablesStep ==
    ASSUME ServerInv, Next
    PROVE  TablesInv'
<1> USE DEF ServerInv
<1>1. ASSUME clients' = clients, watched' = watched, fdPeer' = fdPeer,
             \A p \in Peers : peer'[p] = "idle" => peer[p] = "idle"
      PROVE  TablesInv'
  BY <1>1, Clients DEF TablesInv, Open
<1>2. CASE Accept
  <2>1. PICK f \in FreeFds : /\ fdPeer' = [fdPeer EXCEPT ![f] = Head(backlog)]
                             /\ watched' = watched \union {f} /\ clients' = clients \union {f}
    BY <1>2 DEF Accept
  <2>2. /\ Head(backlog) \in Peers /\ peer[Head(backlog)] # "idle" /\ peer' = peer
        /\ \A g \in Fds : fdPeer[g] # Head(backlog)
    BY <1>2, BacklogTail DEF Accept, BacklogInv, HasFd
  <2>3. f \in Fds /\ f \notin clients /\ fdPeer'[f] = Head(backlog) /\ Head(backlog) # NoPeer
    BY <2>1, <2>2, NoPeerAssumption DEF FreeFds, TablesInv, TypeOK
  <2>4. \A g \in Fds : g # f => fdPeer'[g] = fdPeer[g]
    BY <2>1 DEF TypeOK
  <2>5. clients' = {g \in Fds : Open(g)'}
    BY <2>1, <2>3, <2>4 DEF TablesInv, Open
  <2>6. \A g, h \in clients' : fdPeer'[g] = fdPeer'[h] => g = h
    BY <2>1, <2>2, <2>3, <2>4, Clients DEF TablesInv
  <2>7. \A g \in clients' : peer'[fdPeer'[g]] # "idle"
    BY <2>1, <2>2, <2>3, <2>4, Clients DEF TablesInv
  <2> QED
    BY <2>1, <2>5, <2>6, <2>7 DEF TablesInv, Open
<1>3. ASSUME cur \in clients, Drop(cur),
             \A p \in Peers : peer'[p] = "idle" => peer[p] = "idle"
      PROVE  TablesInv'
  <2>1. cur \in Fds /\ cur # ServerFd
    BY <1>3, Clients
  <2> QED
    BY <1>3, <2>1, Clients DEF TablesInv, Drop, Open, TypeOK
<1>4. CASE Disconnected
  BY <1>3, <1>4 DEF Disconnected, BatchInv, netVars
<1>5. CASE ClientError
  BY <1>3, <1>5 DEF ClientError, BatchInv, TypeOK
<1>6. ASSUME NEW p \in Peers, Connect(p) \/ PeerSend(p) \/ PeerClose(p) \/ PeerReset(p)
      PROVE TablesInv'
  BY <1>1, <1>6 DEF Connect, PeerSend, PeerClose, PeerReset, serverVars, TypeOK
<1>7. CASE \/ Select \/ ProcessReads \/ BatchDone \/ AcceptFails
           \/ EchoLine \/ EchoFails \/ ReadRunsDry
  BY <1>1, <1>7 DEF Select, ProcessReads, BatchDone, AcceptFails, EchoLine, EchoFails,
                    ReadRunsDry, netVars
<1> QED
  BY <1>2, <1>4, <1>5, <1>6, <1>7 DEF Next, Network, Server

\* What is left of a batch is true, and is about others than the one being processed.
LEMMA BatchStep ==
    ASSUME ServerInv, Next
    PROVE  BatchInv'
<1> USE DEF ServerInv
<1>1. ASSUME NEW p \in Peers, Connect(p) \/ PeerSend(p) \/ PeerClose(p) \/ PeerReset(p)
      PROVE BatchInv'
  <2>1. clients' = clients /\ fdPeer' = fdPeer /\ pc' = pc /\ batch' = batch /\ cur' = cur
    BY <1>1 DEF Connect, PeerSend, PeerClose, PeerReset, serverVars
  <2> QED
    BY <2>1 DEF BatchInv
<1>2. CASE Select
  <2>1. /\ batch' = {[fd |-> f, peer |-> Behind(f)] : f \in {g \in watched : Readable(g)}}
        /\ pc' = "dispatch" /\ clients' = clients /\ fdPeer' = fdPeer
    BY <1>2 DEF Select
  <2>2. \A r \in batch' : r.fd \in clients \union {ServerFd} /\ r = [fd |-> r.fd, peer |-> Behind(r.fd)]
    BY <2>1 DEF TablesInv
  <2>3. \A r, s \in batch' : r.fd = s.fd => r = s
    BY <2>2
  <2>4. \A r \in batch' : r.fd # ServerFd => r.fd \in clients' /\ fdPeer'[r.fd] = r.peer
    <3> SUFFICES ASSUME NEW r \in batch', r.fd # ServerFd
                 PROVE  r.fd \in clients /\ fdPeer[r.fd] = r.peer
      BY <2>1
    <3>1. r = [fd |-> r.fd, peer |-> Behind(r.fd)] /\ r.fd \in clients
      BY <2>2
    <3>2. r.peer = Behind(r.fd)
      BY <3>1
    <3> QED
      BY <3>1, <3>2 DEF Behind
  <2> QED
    BY <2>1, <2>3, <2>4 DEF BatchInv
<1>3. CASE ProcessReads
  <2>1. PICK r \in batch : batch' = batch \ {r} /\ cur' = r.fd /\ pc' = Branch(r.fd)
    BY <1>3 DEF ProcessReads
  <2>2. clients' = clients /\ fdPeer' = fdPeer
    BY <1>3 DEF ProcessReads
  <2>3. r.fd = ServerFd \/ r.fd \in clients
    BY DEF BatchInv
  <2> QED
    BY <2>1, <2>2, <2>3 DEF BatchInv, Branch
<1>4. CASE BatchDone
  BY <1>4 DEF BatchDone, BatchInv
<1>5. CASE Accept
  <2>1. PICK f \in FreeFds : /\ fdPeer' = [fdPeer EXCEPT ![f] = Head(backlog)]
                             /\ clients' = clients \union {f}
    BY <1>5 DEF Accept
  <2>2. \A g \in clients : g # f /\ fdPeer'[g] = fdPeer[g]
    BY <2>1 DEF TablesInv, TypeOK, FreeFds
  <2>3. batch' = batch /\ pc' = "dispatch"
    BY <1>5 DEF Accept
  <2> QED
    BY <2>1, <2>2, <2>3 DEF BatchInv
<1>6. CASE AcceptFails \/ EchoLine \/ EchoFails \/ ReadRunsDry
  <2>1. /\ clients' = clients /\ fdPeer' = fdPeer /\ batch' = batch /\ cur' = cur
        /\ pc' \in {"dispatch", "dead"}
    BY <1>6 DEF AcceptFails, EchoLine, EchoFails, ReadRunsDry
  <2> QED
    BY <2>1 DEF BatchInv
<1>7. CASE Disconnected \/ ClientError
  <2>1. pc = "read" /\ Drop(cur) /\ batch' = batch /\ cur' = cur /\ pc' = "dispatch"
    BY <1>7 DEF Disconnected, ClientError
  <2>2. \A r \in batch : r.fd # cur
    BY <2>1 DEF BatchInv
  <2> QED
    BY <2>1, <2>2, Clients DEF BatchInv, Drop, TypeOK
<1> QED
  BY <1>1, <1>2, <1>3, <1>4, <1>5, <1>6, <1>7 DEF Next, Network, Server

\* A reset leaves those who still wait.
LEMMA ResetLeaves ==
    ASSUME TypeOK, NEW p \in Peers, PeerReset(p)
    PROVE  Range(backlog') \subseteq Range(backlog)
<1>1. CASE backlog' = backlog
  BY <1>1
<1>2. ASSUME NEW i \in DOMAIN backlog,
             backlog' = SubSeq(backlog, 1, i - 1) \o SubSeq(backlog, i + 1, Len(backlog))
      PROVE  Range(backlog') \subseteq Range(backlog)
  <2>1. /\ backlog' \in Seq(Peers) /\ Len(backlog') = Len(backlog) - 1
        /\ \A k \in DOMAIN backlog' : backlog'[k] = backlog[IF k < i THEN k ELSE k + 1]
    BY <1>2, Removal DEF TypeOK
  <2>2. /\ Len(backlog) \in Nat /\ DOMAIN backlog = 1 .. Len(backlog) /\ i \in 1 .. Len(backlog)
        /\ DOMAIN backlog' = 1 .. Len(backlog')
    BY <2>1, LenProperties DEF TypeOK
  <2>3. \A k \in DOMAIN backlog' : (IF k < i THEN k ELSE k + 1) \in DOMAIN backlog
    BY <2>1, <2>2
  <2> QED
    BY <2>1, <2>3 DEF Range
<1> QED
  BY <1>1, <1>2 DEF PeerReset

\* The log and what was received grow together.
LEMMA LogStep ==
    ASSUME ServerInv, Next
    PROVE  LogInv'
<1> USE DEF ServerInv
<1>1. ASSUME got' = got, log' = log, joined' = joined, Range(backlog') \subseteq Range(backlog),
             \A p \in Peers : /\ peer'[p] = "idle" => peer[p] = "idle"
                              /\ peer'[p] = "connected" => peer[p] = "connected",
             clients' \subseteq clients, \A f \in clients' : fdPeer'[f] = fdPeer[f],
             pc' # "dead" => pc # "dead"
      PROVE  LogInv'
  <2>1. BroadcastInOrder'
    BY <1>1, Clients DEF LogInv, BroadcastInOrder
  <2> QED
    BY <1>1, <2>1 DEF LogInv
<1>2. ASSUME NEW p \in Peers, Connect(p) PROVE LogInv'
  <2>1. /\ peer[p] = "idle" /\ peer' = [peer EXCEPT ![p] = "connected"]
        /\ backlog' = Append(backlog, p) /\ got' = got /\ log' = log /\ joined' = joined
        /\ fdPeer' = fdPeer /\ clients' = clients /\ pc' = pc
    BY <1>2 DEF Connect, serverVars
  <2>2. Range(backlog') \subseteq Range(backlog) \union {p}
    BY <2>1, BacklogAppend DEF Range
  <2>3. \A q \in Peers : q # p => peer'[q] = peer[q]
    BY <2>1 DEF TypeOK
  <2>4. \A f \in clients : fdPeer[f] # p
    BY <2>1 DEF TablesInv
  <2>5. BroadcastInOrder'
    BY <2>1, <2>3, <2>4, Clients DEF LogInv, BroadcastInOrder
  <2> QED
    BY <2>1, <2>2, <2>3, <2>5 DEF LogInv
<1>3. ASSUME NEW p \in Peers, PeerReset(p) PROVE LogInv'
  BY <1>1, <1>3, ResetLeaves DEF PeerReset, serverVars, TypeOK
<1>4. ASSUME NEW p \in Peers, PeerSend(p) \/ PeerClose(p) PROVE LogInv'
  BY <1>1, <1>4 DEF PeerSend, PeerClose, serverVars, TypeOK
<1>5. CASE Select \/ ProcessReads \/ BatchDone \/ ReadRunsDry
  BY <1>1, <1>5 DEF Select, ProcessReads, BatchDone, ReadRunsDry, netVars
<1>6. CASE AcceptFails
  <2>1. Range(backlog') \subseteq Range(backlog)
    BY <1>6, BacklogTail DEF AcceptFails
  <2> QED
    BY <1>1, <1>6, <2>1 DEF AcceptFails
<1>7. CASE Disconnected
  BY <1>1, <1>7, Clients DEF Disconnected, Drop, netVars, TypeOK
<1>8. CASE ClientError
  BY <1>1, <1>8, Clients DEF ClientError, Drop, TypeOK
<1>9. CASE Accept
  <2> DEFINE p == Head(backlog)
  <2>1. /\ p \in Peers /\ p \in Range(backlog) /\ p \notin Range(backlog')
        /\ Range(backlog') \subseteq Range(backlog)
    BY <1>9, BacklogTail DEF Accept
  <2>2. PICK f \in FreeFds : /\ fdPeer' = [fdPeer EXCEPT ![f] = p]
                             /\ clients' = clients \union {f}
    BY <1>9 DEF Accept
  <2>3. /\ joined' = [joined EXCEPT ![p] = Len(log)] /\ got' = got /\ log' = log
        /\ peer' = peer /\ pc = "accept"
    BY <1>9 DEF Accept
  <2>4. Len(log) \in Nat /\ \A q \in Peers : joined'[q] <= Len(log)
    BY <2>3, LenProperties DEF TypeOK, LogInv
  <2>5. \A g \in clients : g # f /\ g \in Fds /\ fdPeer'[g] = fdPeer[g] /\ fdPeer[g] # p
    <3>1. \A g \in Fds : fdPeer[g] # p
      BY <1>9, BacklogTail DEF Accept, BacklogInv, HasFd
    <3> QED
      BY <2>2, <3>1 DEF TablesInv, TypeOK, FreeFds
  <2>6. got[p] = <<>> /\ joined'[p] = Len(log) /\ fdPeer'[f] = p
    BY <2>1, <2>2, <2>3 DEF LogInv, TypeOK, FreeFds
  <2>7. SubSeq(log, Len(log) + 1, Len(log)) = <<>>
    BY <2>4, SubSeqEmpty
  <2>8. \A g \in clients : joined'[fdPeer[g]] = joined[fdPeer[g]]
    BY <2>3, <2>5, Clients DEF TypeOK
  <2>9. ASSUME NEW g \in clients', peer[fdPeer'[g]] = "connected"
        PROVE  got[fdPeer'[g]] = SubSeq(log, joined'[fdPeer'[g]] + 1, Len(log))
    <3>1. CASE g = f
      BY <2>6, <2>7, <3>1
    <3>2. CASE g \in clients
      BY <2>3, <2>5, <2>8, <2>9, <3>2 DEF LogInv, BroadcastInOrder
    <3> QED
      BY <2>2, <3>1, <3>2
  <2>10. BroadcastInOrder'
    BY <2>3, <2>9 DEF BroadcastInOrder
  <2> QED
    BY <2>1, <2>3, <2>4, <2>10 DEF LogInv
<1>10. CASE EchoLine
  <2> DEFINE line == Head(rx[fdPeer[cur]])
  <2>1. cur \in clients /\ fdPeer[cur] \in Peers
    BY <1>10, Clients DEF EchoLine, BatchInv
  <2>2. line \in Line
    BY <1>10, <2>1, HeadTailProperties DEF TypeOK, EchoLine
  <2>3. /\ log' = Append(log, line) /\ got' = Deliver(line, clients) /\ pc = "read"
        /\ UNCHANGED <<peer, backlog, fdPeer, clients, joined>>
    BY <1>10 DEF EchoLine
  <2> HIDE DEF line
  <2>4. Len(log) \in Nat /\ log \in Seq(Line) /\ Len(log') = Len(log) + 1
    BY <2>2, <2>3, LenProperties, AppendProperties DEF TypeOK
  <2>5. \A p \in Peers : joined'[p] <= Len(log')
    <3>1. \A p \in Peers : joined[p] \in Nat /\ joined[p] <= Len(log)
      BY DEF TypeOK, LogInv
    <3> QED
      BY <2>3, <2>4, <3>1
  <2>6. \A p \in Peers : peer[p] = "idle" \/ p \in Range(backlog) => got'[p] = got[p]
    <3>1. \A p \in Peers : peer[p] = "idle" \/ p \in Range(backlog) =>
                            \A f \in clients : fdPeer[f] # p
      BY Clients DEF TablesInv, BacklogInv, HasFd, Range
    <3> QED
      BY <2>3, <3>1 DEF Deliver
  <2>7. ASSUME NEW f \in clients, peer[fdPeer[f]] = "connected"
        PROVE  got'[fdPeer[f]] = SubSeq(log', joined[fdPeer[f]] + 1, Len(log'))
    <3> DEFINE p == fdPeer[f]
    <3>1. p \in Peers /\ joined[p] \in 0 .. Len(log)
      BY <2>4, Clients DEF TypeOK, LogInv
    <3>2. got[p] = SubSeq(log, joined[p] + 1, Len(log))
      BY <2>3, <2>7 DEF LogInv, BroadcastInOrder
    <3>3. got'[p] = Append(got[p], line)
      BY <2>3, <2>7, <3>1 DEF Deliver
    <3>4. Append(SubSeq(log, joined[p] + 1, Len(log)), line)
            = SubSeq(Append(log, line), joined[p] + 1, Len(Append(log, line)))
      BY <2>2, <2>4, <3>1, SuffixGrows
    <3> QED
      BY <2>3, <3>2, <3>3, <3>4
  <2>8. BroadcastInOrder'
    BY <2>3, <2>7 DEF BroadcastInOrder
  <2> QED
    BY <2>3, <2>5, <2>6, <2>8 DEF LogInv
<1>11. CASE EchoFails
  <2> DEFINE line == Head(rx[fdPeer[cur]])
  <2>1. cur \in clients /\ fdPeer[cur] \in Peers
    BY <1>11, Clients DEF EchoFails, BatchInv
  <2>2. line \in Line
    BY <1>11, <2>1, HeadTailProperties DEF TypeOK, EchoFails
  <2>3. /\ log' = Append(log, line) /\ pc' = "dead"
        /\ UNCHANGED <<peer, backlog, fdPeer, clients, joined>>
    BY <1>11 DEF EchoFails
  <2>4. PICK targets \in SUBSET clients : got' = Deliver(line, targets)
    BY <1>11 DEF EchoFails
  <2> HIDE DEF line
  <2>5. \A p \in Peers : joined'[p] <= Len(log')
    <3>1. \A p \in Peers : joined[p] \in Nat /\ joined[p] <= Len(log)
      BY DEF TypeOK, LogInv
    <3>2. Len(log) \in Nat /\ Len(log') = Len(log) + 1
      BY <2>2, <2>3, LenProperties, AppendProperties DEF TypeOK
    <3> QED
      BY <2>3, <3>1, <3>2
  <2>6. \A p \in Peers : peer[p] = "idle" \/ p \in Range(backlog) => got'[p] = got[p]
    <3>1. \A p \in Peers : peer[p] = "idle" \/ p \in Range(backlog) =>
                            \A f \in clients : fdPeer[f] # p
      BY Clients DEF TablesInv, BacklogInv, HasFd, Range
    <3> QED
      BY <2>4, <3>1 DEF Deliver
  <2>7. BroadcastInOrder'
    <3>1. pc' = "dead"
      BY <2>3
    <3> QED
      BY ONLY <3>1 DEF BroadcastInOrder
  <2> QED
    BY <2>3, <2>5, <2>6, <2>7 DEF LogInv
<1> QED
  BY <1>2, <1>3, <1>4, <1>5, <1>6, <1>7, <1>8, <1>9, <1>10, <1>11 DEF Next, Network, Server

-----------------------------------------------------------------------------

\* The invariant of tables, batch and log.
LEMMA ServerInvariance == Spec => []ServerInv
<1>1. Init => ServerInv
  <2> SUFFICES ASSUME Init PROVE ServerInv
    OBVIOUS
  <2>1. TypeOK
    BY MaxLinesAssumption, EmptySeq DEF Init, TypeOK, Pcs
  <2>2. BacklogInv
    BY DEF Init, BacklogInv
  <2>3. TablesInv
    BY DEF Init, TablesInv, Open
  <2>4. BatchInv
    BY DEF Init, BatchInv
  <2>5. LogInv
    <3>1. Len(log) = 0 /\ \A p \in Peers : joined[p] = 0 /\ got[p] = <<>>
      BY EmptySeq DEF Init
    <3> QED
      BY <3>1 DEF Init, LogInv, BroadcastInOrder
  <2> QED
    BY <2>1, <2>2, <2>3, <2>4, <2>5 DEF ServerInv
<1>2. ServerInv /\ [Next]_vars => ServerInv'
  <2>1. ASSUME ServerInv, Next PROVE ServerInv'
    BY <2>1, TypeStep, BacklogStep, TablesStep, BatchStep, LogStep DEF ServerInv
  <2>2. ASSUME ServerInv, UNCHANGED vars PROVE ServerInv'
    <3>1. TypeOK' /\ BacklogInv'
      BY <2>2 DEF ServerInv, vars, TypeOK, BacklogInv, HasFd
    <3>2. TablesInv' /\ BatchInv'
      BY <2>2 DEF ServerInv, vars, TablesInv, Open, BatchInv
    <3>3. LogInv'
      BY <2>2 DEF ServerInv, vars, LogInv, BroadcastInOrder
    <3> QED
      BY <3>1, <3>2, <3>3 DEF ServerInv
  <2> QED
    BY <2>1, <2>2
<1> QED
  BY <1>1, <1>2, PTL DEF Spec

\* The clients table, the selector and the open descriptors agree, and no connection has
\* two descriptors, for any number of clients that come and go.
THEOREM TablesNeverDisagree == Spec => []TablesAgree
<1>1. ServerInv => TablesAgree
  BY DEF ServerInv, TablesInv, TablesAgree
<1> QED
  BY <1>1, ServerInvariance, PTL

\* Working off a batch never makes the rest of it stale, and the branch for an unknown
\* socket is dead code.
THEOREM BatchesStayCurrent == Spec => []BatchIsCurrent
<1>1. ServerInv => BatchIsCurrent
  BY DEF ServerInv, BatchInv, BatchIsCurrent
<1> QED
  BY <1>1, ServerInvariance, PTL

\* The echo is a broadcast in one order to all who are connected.
THEOREM EchoIsBroadcast == Spec => []BroadcastInOrder
<1>1. ServerInv => BroadcastInOrder
  BY DEF ServerInv, LogInv
<1> QED
  BY <1>1, ServerInvariance, PTL

\* The types, for any constants.
THEOREM TypeCorrect == Spec => []TypeOK
<1>1. ServerInv => TypeOK
  BY DEF ServerInv
<1> QED
  BY <1>1, ServerInvariance, PTL
=============================================================================
