-------------------------- MODULE RpcCarriersProofs --------------------------
(***************************************************************************)
(* Proofs about RpcCarriers, for any clients and any number of requests, with *)
(* each of the four carriers: what is behind an item is intact when the other *)
(* task reads it.                                                             *)
(***************************************************************************)
EXTENDS RpcCarriers, SequenceTheorems, TLAPS

USE DEF clientVars, serverVars, taskVars

-----------------------------------------------------------------------------
(* What waits to be received *)

\* What is in a client's stream, and no more than the client has made, is its own.
StreamInv ==
    /\ inbox \in [Clients -> Seq(Request)]
    /\ issued \in [Clients -> 0 .. MaxRequests]
    /\ \A c \in Clients : \A i \in 1 .. Len(inbox[c]) : inbox[c][i].from = c

\* A piece of a stream is still the client's.
LEMMA PieceOfStream ==
    ASSUME StreamInv, NEW c \in Clients, NEW n \in 1 .. Len(inbox[c])
    PROVE  /\ SubSeq(inbox[c], n + 1, Len(inbox[c])) \in Seq(Request)
           /\ \A i \in 1 .. Len(SubSeq(inbox[c], n + 1, Len(inbox[c]))) :
                SubSeq(inbox[c], n + 1, Len(inbox[c]))[i].from = c
<1>1. inbox[c] \in Seq(Request) /\ Len(inbox[c]) \in Nat
  BY LenProperties DEF StreamInv
<1>2. \A i \in n + 1 .. Len(inbox[c]) : i \in 1 .. Len(inbox[c]) /\ inbox[c][i] \in Request
  BY <1>1, ElementOfSeq
<1> DEFINE s == SubSeq(inbox[c], n + 1, Len(inbox[c]))
<1>3. /\ s \in Seq(Request)
      /\ Len(s) = IF n + 1 <= Len(inbox[c]) THEN Len(inbox[c]) - (n + 1) + 1 ELSE 0
      /\ \A i \in 1 .. Len(inbox[c]) - (n + 1) + 1 : s[i] = inbox[c][(n + 1) + i - 1]
  BY <1>1, <1>2, SubSeqProperties
<1>4. ASSUME NEW i \in 1 .. Len(s) PROVE s[i].from = c
  <2>1. i \in 1 .. Len(inbox[c]) - (n + 1) + 1 /\ (n + 1) + i - 1 \in 1 .. Len(inbox[c])
    BY <1>1, <1>3
  <2> QED
    BY <1>3, <2>1 DEF StreamInv
<1> QED
  BY <1>3, <1>4

\* The first request of a stream.
LEMMA FirstOfStream ==
    ASSUME StreamInv, NEW c \in Clients, inbox[c] # <<>>
    PROVE  Head(inbox[c]) \in Request /\ Head(inbox[c]).from = c
<1>1. inbox[c] \in Seq(Request)
  BY DEF StreamInv
<1>2. 1 \in 1 .. Len(inbox[c]) /\ Head(inbox[c]) = inbox[c][1]
  BY <1>1, EmptySeq, LenProperties
<1> QED
  BY <1>1, <1>2, ElementOfSeq DEF StreamInv

\* Only a client puts requests in its stream, and only the handler takes them out.
LEMMA StreamStep ==
    ASSUME StreamInv, [Next]_vars
    PROVE  StreamInv'
<1>1. CASE UNCHANGED <<inbox, issued>>
  BY <1>1 DEF StreamInv
<1>2. ASSUME NEW c \in Clients, ClientSend(c) PROVE StreamInv'
  <2> DEFINE r == [from |-> c, id |-> issued[c] + 1]
  <2>1. r \in Request /\ issued[c] + 1 \in 0 .. MaxRequests
    BY <1>2, BoundsAssumption DEF ClientSend, StreamInv, Request
  <2>2. /\ Append(inbox[c], r) \in Seq(Request) /\ Len(Append(inbox[c], r)) = Len(inbox[c]) + 1
        /\ \A i \in 1 .. Len(inbox[c]) : Append(inbox[c], r)[i] = inbox[c][i]
        /\ Append(inbox[c], r)[Len(inbox[c]) + 1] = r
    BY <2>1, AppendProperties DEF StreamInv
  <2>3. Len(inbox[c]) \in Nat
    BY LenProperties DEF StreamInv
  <2>4. \A i \in 1 .. Len(Append(inbox[c], r)) : Append(inbox[c], r)[i].from = c
    BY <2>2, <2>3 DEF StreamInv
  <2> HIDE DEF r
  <2>5. inbox' = [inbox EXCEPT ![c] = Append(@, r)] /\ issued' = [issued EXCEPT ![c] = @ + 1]
    BY <1>2 DEF ClientSend, r
  <2> QED
    BY <2>1, <2>2, <2>4, <2>5 DEF StreamInv
<1>3. ASSUME NEW c \in Clients, NEW n \in 1 .. Len(inbox[c]), UNCHANGED issued,
             inbox' = [inbox EXCEPT ![c] = SubSeq(@, n + 1, Len(@))]
      PROVE  StreamInv'
  BY <1>3, PieceOfStream DEF StreamInv
<1>4. ASSUME NEW c \in Clients, RecvRequest(c) PROVE StreamInv'
  BY <1>3, <1>4 DEF RecvRequest
<1>5. ASSUME NEW c \in Clients, RecvJson(c) PROVE StreamInv'
  BY <1>3, <1>5 DEF RecvJson
<1>6. ASSUME NEW c \in Clients, RecvGarbage(c) PROVE StreamInv'
  <2>1. inbox[c] \in Seq(Request) /\ inbox[c] # <<>>
    BY <1>6 DEF RecvGarbage, StreamInv
  <2>2. Tail(inbox[c]) = SubSeq(inbox[c], 1 + 1, Len(inbox[c])) /\ 1 \in 1 .. Len(inbox[c])
    BY <2>1, TailIsSubSeq, EmptySeq, LenProperties
  <2> QED
    BY <1>3, <1>6, <2>2 DEF RecvGarbage
<1>7. CASE RouteInline \/ SendRequest \/ ReceiveResponse \/ Reply \/ ReplyFails \/ Task
  BY <1>1, <1>7 DEF RouteInline, SendRequest, ReceiveResponse, Reply, ReplyFails, Task,
        TaskReceive, TaskRoute, TaskRaises, TaskSend
<1> QED
  BY <1>1, <1>2, <1>4, <1>5, <1>6, <1>7 DEF Next, Handler, vars

-----------------------------------------------------------------------------
(* The hand-over *)

Serving(r) == r \in Request /\ r.from = cur

\* There is one request in service.  Until the handler has sent it the queues and the RPC
\* task are empty, and afterwards it is in one place only: then only the task whose turn
\* it is touches what is behind an item.
HandOver ==
    /\ carrier \in {"slots", "channel", "pointer", "json"}
    /\ cur \in Clients
    /\ srvPc \in {"select", "send", "wait", "route", "reply", "dead"}
    /\ taskPc \in {"receive", "route", "send"}
    /\ srvPc \in {"send", "wait"} => carrier # "json"
    /\ srvPc = "route" => carrier = "json"
    /\ mem = [req |-> mem.req, rsp |-> mem.rsp]
    /\ srvPc # "wait" => inQueue = <<>> /\ outQueue = <<>> /\ taskPc = "receive"
    /\ srvPc = "send" => Serving(mem.req)
    /\ inQueue # <<>> =>
        /\ inQueue = <<Item("req")>> /\ Serving(mem.req)
        /\ outQueue = <<>> /\ taskPc = "receive"
    /\ taskPc # "receive" => Serving(taskCall) /\ outQueue = <<>>
    /\ taskPc = "send" => mem.rsp = taskCall
    /\ outQueue # <<>> =>
        /\ outQueue = <<Item("rsp")>> /\ mem.rsp = taskCall /\ Serving(taskCall)
    /\ srvPc \in {"route", "reply"} => Serving(res)
    /\ srvPc = "reply" /\ carrier # "json" => res = taskCall

\* What a receiver reads is what was behind the item when it was queued.
LEMMA ItemHasData ==
    /\ Data(Item("req")) = mem.req
    /\ Data(Item("rsp")) = mem.rsp
BY DEF Data, Item

\* A queue of one item.
LEMMA OneItem ==
    ASSUME NEW item
    PROVE  /\ <<item>> # <<>> /\ Head(<<item>>) = item /\ Tail(<<item>>) = <<>>
           /\ <<item>>[1] = item /\ Append(<<>>, item) = <<item>>
OBVIOUS

\* Neither the handler nor the RPC task disturbs the other's data.
LEMMA HandOverStep ==
    ASSUME StreamInv, HandOver, [Next]_vars
    PROVE  HandOver'
<1> USE DEF HandOver, Serving
<1>1. CASE UNCHANGED vars
  BY <1>1 DEF vars, Item
<1>2. ASSUME NEW c \in Clients, ClientSend(c) PROVE HandOver'
  BY <1>2 DEF ClientSend, Item
<1>3. ASSUME NEW c \in Clients, RecvRequest(c) PROVE HandOver'
  BY <1>3, FirstOfStream DEF RecvRequest
<1>4. ASSUME NEW c \in Clients, RecvJson(c) PROVE HandOver'
  <2>1. inbox[c] # <<>>
    BY <1>4, EmptySeq, LenProperties DEF RecvJson, StreamInv
  <2> QED
    BY <1>4, <2>1, FirstOfStream DEF RecvJson
<1>5. ASSUME NEW c \in Clients, RecvGarbage(c) PROVE HandOver'
  BY <1>5 DEF RecvGarbage
<1>6. CASE RouteInline
  BY <1>6 DEF RouteInline
<1>7. CASE SendRequest
  <2>1. inQueue' = <<Item("req")>>
    BY <1>7, OneItem DEF SendRequest, Send
  <2> QED
    BY <1>7, <2>1 DEF SendRequest, Item
<1>8. CASE ReceiveResponse
  <2>1. res' = mem.rsp /\ outQueue' = <<>>
    BY <1>8, OneItem, ItemHasData DEF ReceiveResponse
  <2>2. inQueue = <<>> /\ taskPc = "receive" /\ mem.rsp = taskCall /\ Serving(taskCall)
    BY <1>8 DEF ReceiveResponse
  <2> QED
    BY <1>8, <2>1, <2>2 DEF ReceiveResponse
<1>9. CASE Reply
  BY <1>9 DEF Reply, ScopeEnds
<1>10. CASE ReplyFails
  BY <1>10 DEF ReplyFails, ScopeEnds
<1>11. CASE TaskReceive
  <2>1. taskCall' = mem.req /\ inQueue' = <<>>
    BY <1>11, OneItem, ItemHasData DEF TaskReceive
  <2> QED
    BY <1>11, <2>1, OneItem DEF TaskReceive, Item
<1>12. CASE TaskRoute
  BY <1>12 DEF TaskRoute
<1>13. CASE TaskRaises
  BY <1>13 DEF TaskRaises
<1>14. CASE TaskSend
  <2>1. outQueue' = <<Item("rsp")>>
    BY <1>14, OneItem DEF TaskSend, Send
  <2> QED
    BY <1>14, <2>1 DEF TaskSend, Item
<1> QED
  BY <1>1, <1>2, <1>3, <1>4, <1>5, <1>6, <1>7, <1>8, <1>9, <1>10, <1>11, <1>12, <1>13, <1>14
     DEF Next, Handler, Task

\* In none of the servers is a request overwritten, freed or taken for another while it is
\* in service, and the handler answers what it was asked.
THEOREM DataIsIntact == Spec => []SharedDataIntact
<1>1. Init => StreamInv /\ HandOver
  <2> SUFFICES ASSUME Init PROVE StreamInv /\ HandOver
    OBVIOUS
  <2>1. \A c \in Clients : inbox[c] = <<>> /\ Len(inbox[c]) = 0
    BY DEF Init
  <2>2. inbox \in [Clients -> Seq(Request)] /\ issued \in [Clients -> 0 .. MaxRequests]
    BY BoundsAssumption, EmptySeq DEF Init
  <2> QED
    BY <2>1, <2>2 DEF Init, StreamInv, HandOver
<1>2. StreamInv /\ HandOver /\ [Next]_vars => (StreamInv /\ HandOver)'
  BY StreamStep, HandOverStep
<1>3. HandOver => SharedDataIntact
  BY ItemHasData, OneItem DEF HandOver, Serving, SharedDataIntact
<1> QED
  BY <1>1, <1>2, <1>3, PTL DEF Spec

-----------------------------------------------------------------------------
(* The refinement of RpcExchange *)

\* Requests are made, wait and are served in the order of their numbers.
OrderInv ==
    /\ outbox \in [Clients -> Seq(Request)]
    /\ \A c \in Clients : \A i \in 1 .. Len(inbox[c]) : inbox[c][i].id <= issued[c]
    /\ \A c \in Clients : \A i, j \in 1 .. Len(inbox[c]) : i < j => inbox[c][i].id < inbox[c][j].id
    /\ \A r \in Request : InService(r) =>
        /\ r.from = cur
        /\ r.id <= issued[cur]
        /\ \A i \in 1 .. Len(inbox[cur]) : r.id < inbox[cur][i].id

CarrierInv == StreamInv /\ HandOver /\ OrderInv

\* Requests are numbered.
LEMMA IdsAreNumbers ==
    /\ \A r \in Request : r.id \in 1 .. MaxRequests /\ r.id \in Nat
                            /\ r = [from |-> r.from, id |-> r.id]
    /\ \A c \in Clients, n \in 1 .. MaxRequests :
        /\ [from |-> c, id |-> n] \in Request
        /\ [from |-> c, id |-> n].from = c /\ [from |-> c, id |-> n].id = n
BY BoundsAssumption DEF Request

\* The steps that bring nothing in.
PassesOn ==
    \/ RouteInline \/ SendRequest \/ ReceiveResponse \/ ReplyFails
    \/ Task
    \/ UNCHANGED vars

\* They change neither streams nor what is in service, except to end it.
LEMMA PassedOn ==
    ASSUME HandOver, PassesOn
    PROVE  /\ UNCHANGED <<cur, issued, inbox, outbox>>
           /\ \A r \in Request : InService(r)' => InService(r)
<1>1. UNCHANGED <<cur, issued, inbox, outbox>>
  BY DEF PassesOn, RouteInline, SendRequest, ReceiveResponse, ReplyFails, Task, TaskReceive,
     TaskRoute, TaskRaises, TaskSend, vars
<1>2. ASSUME NEW r \in Request, InService(r)' PROVE InService(r)
  <2> USE <1>2 DEF InService, HandOver, Serving
  <2>1. CASE RouteInline
    BY <2>1 DEF RouteInline
  <2>2. CASE SendRequest
    <3>1. inQueue' = <<Item("req")>> /\ Item("req")' = Item("req") /\ Data(Item("req"))' = mem.req
      BY <2>2, OneItem, ItemHasData DEF SendRequest, Send, Item, Data
    <3> QED
      BY <2>2, <3>1, OneItem DEF SendRequest, Data
  <2>3. CASE ReceiveResponse
    <3>1. res' = mem.rsp /\ outQueue' = <<>> /\ inQueue = <<>> /\ Data(outQueue[1]) = mem.rsp
      BY <2>3, OneItem, ItemHasData DEF ReceiveResponse
    <3> QED
      BY <2>3, <3>1 DEF ReceiveResponse
  <2>4. CASE ReplyFails
    BY <2>4 DEF ReplyFails
  <2>5. CASE TaskReceive
    <3>1. taskCall' = mem.req /\ inQueue' = <<>> /\ Data(inQueue[1]) = mem.req
      BY <2>5, OneItem, ItemHasData DEF TaskReceive
    <3> QED
      BY <2>5, <3>1 DEF TaskReceive
  <2>6. CASE TaskRoute
    BY <2>6 DEF TaskRoute
  <2>7. CASE TaskRaises
    BY <2>7 DEF TaskRaises
  <2>8. CASE TaskSend
    <3>1. outQueue' = <<Item("rsp")>> /\ Item("rsp")' = Item("rsp") /\ Data(Item("rsp"))' = mem.rsp
      BY <2>8, OneItem, ItemHasData DEF TaskSend, Send, Item, Data
    <3> QED
      BY <2>8, <3>1, OneItem DEF TaskSend, Data
  <2>9. CASE UNCHANGED vars
    BY <2>9 DEF vars, Data
  <2> QED
    BY <2>1, <2>2, <2>3, <2>4, <2>5, <2>6, <2>7, <2>8, <2>9 DEF PassesOn, Task
<1> QED
  BY <1>1, <1>2

\* The three ways to read take a piece of a stream, and at most its first request is served.
LEMMA Reads ==
    ASSUME StreamInv, HandOver, NEW c \in Clients, RecvRequest(c) \/ RecvJson(c) \/ RecvGarbage(c)
    PROVE  /\ cur' = c /\ UNCHANGED <<issued, outbox>>
           /\ \A r \in Request : ~ InService(r)
           /\ \A r \in Request : InService(r)' => r = inbox[c][1]
           /\ \E n \in 1 .. Len(inbox[c]) :
                inbox' = [inbox EXCEPT ![c] = SubSeq(inbox[c], n + 1, Len(inbox[c]))]
<1>1. cur' = c /\ UNCHANGED <<issued, outbox>> /\ UNCHANGED <<inQueue, outQueue, taskPc>> /\ srvPc = "select"
  BY DEF RecvRequest, RecvJson, RecvGarbage
<1>2. inQueue = <<>> /\ outQueue = <<>> /\ taskPc = "receive"
  BY <1>1 DEF HandOver
<1>3. \A r \in Request : ~ InService(r)
  BY <1>1, <1>2 DEF InService
<1>4. inbox[c] \in Seq(Request) /\ inbox[c] # <<>> /\ Len(inbox[c]) \in Nat \ {0}
  BY EmptySeq, LenProperties DEF StreamInv, RecvRequest, RecvJson, RecvGarbage
<1>5. Head(inbox[c]) = inbox[c][1]
  BY <1>4
<1>6. \E n \in 1 .. Len(inbox[c]) :
        inbox' = [inbox EXCEPT ![c] = SubSeq(inbox[c], n + 1, Len(inbox[c]))]
  <2>1. CASE RecvRequest(c)
    BY <2>1 DEF RecvRequest
  <2>2. CASE RecvJson(c)
    BY <2>2 DEF RecvJson
  <2>3. CASE RecvGarbage(c)
    <3>1. Tail(inbox[c]) = SubSeq(inbox[c], 1 + 1, Len(inbox[c])) /\ 1 \in 1 .. Len(inbox[c])
      BY <1>4, TailIsSubSeq
    <3> QED
      BY <2>3, <3>1 DEF RecvGarbage
  <2> QED
    BY <2>1, <2>2, <2>3
<1>7. \A r \in Request : InService(r)' => r = inbox[c][1]
  <2>1. CASE RecvRequest(c)
    <3>1. mem'.req = Head(inbox[c]) /\ srvPc' = "send"
      BY <2>1 DEF RecvRequest, HandOver
    <3> QED
      BY <1>1, <1>2, <1>5, <3>1 DEF InService
  <2>2. CASE RecvJson(c)
    <3>1. srvPc' = "dead" \/ (srvPc' = "route" /\ res' = Head(inbox[c]))
      BY <2>2 DEF RecvJson
    <3> QED
      BY <1>1, <1>2, <1>5, <3>1 DEF InService
  <2>3. CASE RecvGarbage(c)
    BY <1>1, <1>2, <2>3 DEF RecvGarbage, InService
  <2> QED
    BY <2>1, <2>2, <2>3
<1> QED
  BY <1>1, <1>3, <1>6, <1>7

\* The rest of a stream.
LEMMA RestOfStream ==
    ASSUME NEW s \in Seq(Request), NEW n \in 1 .. Len(s)
    PROVE  /\ Len(SubSeq(s, n + 1, Len(s))) = Len(s) - n
           /\ \A i \in 1 .. Len(s) - n : n + i \in 2 .. Len(s) /\ SubSeq(s, n + 1, Len(s))[i] = s[n + i]
<1>1. Len(s) \in Nat
  BY LenProperties
<1>2. \A i \in n + 1 .. Len(s) : s[i] \in Request
  BY <1>1, ElementOfSeq
<1> DEFINE t == SubSeq(s, n + 1, Len(s))
<1>3. /\ Len(t) = IF n + 1 <= Len(s) THEN Len(s) - (n + 1) + 1 ELSE 0
      /\ \A i \in 1 .. Len(s) - (n + 1) + 1 : t[i] = s[n + 1 + i - 1]
  BY <1>1, <1>2, SubSeqProperties
<1>4. Len(t) = Len(s) - n
  BY <1>1, <1>3
<1> HIDE DEF t
<1>5. ASSUME NEW i \in 1 .. Len(s) - n PROVE n + i \in 2 .. Len(s) /\ t[i] = s[n + i]
  BY <1>1, <1>3, <1>5
<1> QED
  BY <1>4, <1>5 DEF t

\* Making a request, reading and handing over keep the order.
LEMMA OrderStep ==
    ASSUME CarrierInv, [Next]_vars
    PROVE  OrderInv'
<1> USE DEF CarrierInv
<1>0. \A c \in Clients : inbox[c] \in Seq(Request) /\ Len(inbox[c]) \in Nat
  BY LenProperties DEF StreamInv
<1>1. ASSUME NEW c \in Clients, ClientSend(c) PROVE OrderInv'
  <2> DEFINE next == [from |-> c, id |-> issued[c] + 1]
             grown == Append(inbox[c], next)
  <2>1. issued[c] \in Nat /\ issued[c] + 1 \in 1 .. MaxRequests /\ next \in Request
    BY <1>1, BoundsAssumption DEF ClientSend, StreamInv, Request
  <2>2. /\ Len(grown) = Len(inbox[c]) + 1
        /\ \A i \in 1 .. Len(inbox[c]) : grown[i] = inbox[c][i]
        /\ grown[Len(inbox[c]) + 1] = next
    BY <1>0, <2>1, AppendProperties
  <2>3. next.id = issued[c] + 1
    OBVIOUS
  <2>4. \A i \in 1 .. Len(grown) : i \in 1 .. Len(inbox[c]) \/ i = Len(inbox[c]) + 1
    BY <1>0, <2>2
  <2>5. /\ inbox'[c] = grown /\ issued'[c] = issued[c] + 1
        /\ \A d \in Clients \ {c} : inbox'[d] = inbox[d] /\ issued'[d] = issued[d]
    BY <1>1 DEF ClientSend, StreamInv
  <2>6. cur' = cur /\ outbox' = outbox /\ \A r \in Request : InService(r)' <=> InService(r)
    BY <1>1 DEF ClientSend, InService, Data
  <2> HIDE DEF grown, next
  <2>7. \A i \in 1 .. Len(inbox[c]) : inbox[c][i].id <= issued[c] /\ inbox[c][i].id \in Nat
    <3>1. \A i \in 1 .. Len(inbox[c]) : inbox[c][i] \in Request
      BY <1>0, ElementOfSeq
    <3> QED
      BY <3>1, IdsAreNumbers DEF OrderInv
  <2>8. \A i \in 1 .. Len(grown) : grown[i].id <= issued[c] + 1
    BY <2>1, <2>2, <2>3, <2>4, <2>7
  <2>9. \A i, j \in 1 .. Len(grown) : i < j => grown[i].id < grown[j].id
    <3> SUFFICES ASSUME NEW i \in 1 .. Len(grown), NEW j \in 1 .. Len(grown), i < j
                 PROVE  grown[i].id < grown[j].id
      OBVIOUS
    <3>1. i \in 1 .. Len(inbox[c])
      BY <1>0, <2>2
    <3>2. CASE j \in 1 .. Len(inbox[c])
      BY <2>2, <3>1, <3>2 DEF OrderInv
    <3>3. CASE j = Len(inbox[c]) + 1
      BY <2>1, <2>2, <2>3, <2>7, <3>1, <3>3
    <3> QED
      BY <2>4, <3>2, <3>3
  <2>10. ASSUME NEW r \in Request, InService(r)
         PROVE  /\ r.from = cur /\ r.id <= issued'[cur]
                /\ \A i \in 1 .. Len(inbox'[cur]) : r.id < inbox'[cur][i].id
    <3>1. /\ r.from = cur /\ r.id <= issued[cur] /\ r.id \in Nat
          /\ \A i \in 1 .. Len(inbox[cur]) : r.id < inbox[cur][i].id
      BY <2>10, IdsAreNumbers DEF OrderInv
    <3>2. CASE cur = c
      <4>1. \A i \in 1 .. Len(grown) : r.id < grown[i].id
        BY <2>1, <2>2, <2>3, <2>4, <3>1, <3>2
      <4> QED
        BY <2>1, <2>5, <3>1, <3>2, <4>1
    <3>3. CASE cur # c
      BY <2>5, <3>1, <3>3 DEF HandOver
    <3> QED
      BY <3>2, <3>3
  <2>11. ASSUME NEW d \in Clients
         PROVE  /\ \A i \in 1 .. Len(inbox'[d]) : inbox'[d][i].id <= issued'[d]
                /\ \A i, j \in 1 .. Len(inbox'[d]) : i < j => inbox'[d][i].id < inbox'[d][j].id
    <3>1. CASE d = c
      BY <2>5, <2>8, <2>9, <3>1
    <3>2. CASE d # c
      BY <2>5, <3>2 DEF OrderInv
    <3> QED
      BY <3>1, <3>2
  <2> QED
    BY <2>6, <2>10, <2>11 DEF OrderInv
<1>2. ASSUME NEW c \in Clients, RecvRequest(c) \/ RecvJson(c) \/ RecvGarbage(c) PROVE OrderInv'
  <2> DEFINE old == inbox[c]
  <2>1. /\ cur' = c /\ UNCHANGED <<issued, outbox>>
        /\ \A r \in Request : InService(r)' => r = old[1]
    BY <1>2, Reads
  <2>2. PICK n \in 1 .. Len(old) : inbox' = [inbox EXCEPT ![c] = SubSeq(old, n + 1, Len(old))]
    BY <1>2, Reads
  <2> DEFINE new == SubSeq(old, n + 1, Len(old))
  <2>3. inbox'[c] = new /\ \A d \in Clients \ {c} : inbox'[d] = inbox[d]
    BY <2>2 DEF StreamInv
  <2>4. /\ Len(new) = Len(old) - n
        /\ \A i \in 1 .. Len(old) - n : n + i \in 2 .. Len(old) /\ new[i] = old[n + i]
    BY <1>0, RestOfStream
  <2>5. /\ \A i \in 1 .. Len(old) : old[i].id <= issued[c]
        /\ \A i, j \in 1 .. Len(old) : i < j => old[i].id < old[j].id
        /\ \A i \in 1 .. Len(old) : old[i].from = c
    BY DEF OrderInv, StreamInv
  <2>6. Len(old) \in Nat
    BY <1>0
  <2> HIDE DEF new, old
  <2>7. 1 \in 1 .. Len(old) /\ \A k \in 2 .. Len(old) : k \in 1 .. Len(old) /\ 1 < k
    BY <2>6
  <2>8. \A i \in 1 .. Len(new) : new[i].id <= issued[c] /\ old[1].id < new[i].id
    BY <2>4, <2>5, <2>7
  <2>9. \A i, j \in 1 .. Len(new) : i < j => new[i].id < new[j].id
    <3>1. \A i, j \in 1 .. Len(new) : i < j => n + i < n + j
      BY <2>4, <2>6
    <3> QED
      BY <2>4, <2>5, <2>7, <3>1
  <2>10. old[1].from = c /\ old[1].id <= issued[c]
    BY <2>5, <2>7
  <2>11. ASSUME NEW d \in Clients
         PROVE  /\ \A i \in 1 .. Len(inbox'[d]) : inbox'[d][i].id <= issued[d]
                /\ \A i, j \in 1 .. Len(inbox'[d]) : i < j => inbox'[d][i].id < inbox'[d][j].id
    <3>1. CASE d = c
      BY <2>3, <2>8, <2>9, <3>1
    <3>2. CASE d # c
      BY <2>3, <3>2 DEF OrderInv
    <3> QED
      BY <3>1, <3>2
  <2> QED
    BY <2>1, <2>3, <2>8, <2>10, <2>11 DEF OrderInv
<1>3. CASE Reply
  <2>1. /\ UNCHANGED <<issued, inbox, cur>> /\ outbox' = [outbox EXCEPT ![cur] = Append(@, res)]
        /\ srvPc = "reply" /\ srvPc' = "select" /\ UNCHANGED <<inQueue, outQueue, taskPc>>
    BY <1>3 DEF Reply
  <2>2. inQueue = <<>> /\ outQueue = <<>> /\ taskPc = "receive" /\ res \in Request /\ cur \in Clients
    BY <2>1 DEF HandOver, Serving
  <2>3. \A r \in Request : ~ InService(r)'
    BY <2>1, <2>2 DEF InService
  <2>4. outbox' \in [Clients -> Seq(Request)]
    BY <2>1, <2>2, AppendProperties DEF OrderInv
  <2> QED
    BY <2>1, <2>3, <2>4 DEF OrderInv
<1>4. CASE PassesOn
  BY <1>4, PassedOn DEF OrderInv
<1> QED
  BY <1>1, <1>2, <1>3, <1>4 DEF Next, Handler, PassesOn

\* The invariant of the four servers.
LEMMA CarrierInvariance == Spec => []CarrierInv
<1>1. Init => CarrierInv
  <2> SUFFICES ASSUME Init PROVE CarrierInv
    OBVIOUS
  <2>1. \A c \in Clients : inbox[c] = <<>> /\ outbox[c] = <<>> /\ Len(inbox[c]) = 0
    BY EmptySeq DEF Init
  <2>2. /\ inbox \in [Clients -> Seq(Request)] /\ outbox \in [Clients -> Seq(Request)]
        /\ issued \in [Clients -> 0 .. MaxRequests]
    BY BoundsAssumption, EmptySeq DEF Init
  <2>3. \A r \in Request : ~ InService(r)
    BY DEF Init, InService
  <2>4. StreamInv /\ HandOver
    BY <2>1, <2>2 DEF Init, StreamInv, HandOver
  <2>5. OrderInv
    BY <2>1, <2>2, <2>3 DEF OrderInv
  <2> QED
    BY <2>4, <2>5 DEF CarrierInv
<1>2. CarrierInv /\ [Next]_vars => CarrierInv'
  BY StreamStep, HandOverStep, OrderStep DEF CarrierInv
<1> QED
  BY <1>1, <1>2, PTL DEF Spec

\* Only the client that is served can have its oldest request out of its stream.
LEMMA OthersWait ==
    ASSUME OrderInv, NEW c \in Clients, c # cur
    PROVE  PendingOf(c) = {n \in 1 .. MaxRequests : \E i \in 1 .. Len(inbox[c]) : inbox[c][i].id = n}
<1>1. \A n \in 1 .. MaxRequests : ~ InService([from |-> c, id |-> n])
  BY IdsAreNumbers DEF OrderInv
<1> QED
  BY <1>1 DEF PendingOf

\* A step after which one client has fewer requests pending abandons them.
LEMMA GivesUp ==
    ASSUME UNCHANGED <<issued, outbox>>, NEW c \in Clients,
           PendingOf(c)' \subseteq PendingOf(c),
           \A d \in Clients \ {c} : PendingOf(d)' = PendingOf(d)
    PROVE  [Exchange!Next]_(Exchange!vars)
<1> DEFINE pend == [d \in Clients |-> PendingOf(d)]
           answ == [d \in Clients |-> AnsweredOf(d)]
           lost == PendingOf(c) \ PendingOf(c)'
<1>1. answ' = answ
  BY DEF AnsweredOf
<1>2. pend' = [pend EXCEPT ![c] = @ \ lost]
  <2>1. \A d \in Clients : pend'[d] = PendingOf(d)' /\ pend[d] = PendingOf(d)
    OBVIOUS
  <2>2. PendingOf(c) \ lost = PendingOf(c)'
    OBVIOUS
  <2>3. DOMAIN pend' = Clients /\ DOMAIN [pend EXCEPT ![c] = @ \ lost] = Clients
    OBVIOUS
  <2>4. \A d \in Clients : pend'[d] = [pend EXCEPT ![c] = @ \ lost][d]
    BY <2>1, <2>2
  <2> QED
    BY <2>3, <2>4
<1>3. CASE lost = {}
  <2>1. pend' = pend
    BY <1>2, <1>3
  <2> QED
    BY <1>1, <2>1 DEF Exchange!vars
<1>4. CASE lost # {}
  <2>1. lost \in (SUBSET pend[c]) \ {{}}
    BY <1>4
  <2>2. Exchange!Abandon(c)
    BY <1>1, <1>2, <2>1 DEF Exchange!Abandon
  <2> QED
    BY <2>2 DEF Exchange!Next
<1> QED
  BY <1>3, <1>4

\* A client's request is pending from the moment it is written.
LEMMA SendIsIssue ==
    ASSUME CarrierInv, NEW c \in Clients, ClientSend(c)
    PROVE  Exchange!Issue(c)
<1> DEFINE next == [from |-> c, id |-> issued[c] + 1]
           grown == Append(inbox[c], next)
<1>1. issued[c] \in Nat /\ issued[c] + 1 \in 1 .. MaxRequests /\ next \in Request
  BY BoundsAssumption DEF ClientSend, CarrierInv, StreamInv, Request
<1>2. inbox[c] \in Seq(Request)
  BY DEF CarrierInv, StreamInv
<1>3. /\ Len(inbox[c]) \in Nat /\ Len(grown) = Len(inbox[c]) + 1
      /\ \A i \in 1 .. Len(inbox[c]) : grown[i] = inbox[c][i]
      /\ grown[Len(inbox[c]) + 1] = next
  BY <1>1, <1>2, AppendProperties, LenProperties
<1>4. inbox' = [inbox EXCEPT ![c] = grown] /\ UNCHANGED outbox
  BY DEF ClientSend
<1>5. \A d \in Clients, n \in 1 .. MaxRequests :
        InService([from |-> d, id |-> n])' <=> InService([from |-> d, id |-> n])
  BY DEF ClientSend, InService, Data
<1> HIDE DEF grown
<1>6. PendingOf(c)' = PendingOf(c) \union {issued[c] + 1}
  <2>1. inbox'[c] = grown
    BY <1>4 DEF CarrierInv, StreamInv
  <2>2. \A i \in 1 .. Len(grown) : i \in 1 .. Len(inbox[c]) \/ i = Len(inbox[c]) + 1
    BY <1>3
  <2>3. next.id = issued[c] + 1
    OBVIOUS
  <2>4. 1 .. Len(inbox[c]) \subseteq 1 .. Len(grown) /\ Len(inbox[c]) + 1 \in 1 .. Len(grown)
    BY <1>3
  <2> HIDE DEF next
  <2>5. \A n \in 1 .. MaxRequests :
          (\E i \in 1 .. Len(grown) : grown[i].id = n)
            <=> (\E i \in 1 .. Len(inbox[c]) : inbox[c][i].id = n) \/ n = issued[c] + 1
    BY <1>3, <2>2, <2>3, <2>4
  <2> QED
    BY <1>1, <1>5, <2>1, <2>5 DEF PendingOf
<1>7. \A d \in Clients \ {c} : PendingOf(d)' = PendingOf(d)
  <2> SUFFICES ASSUME NEW d \in Clients \ {c} PROVE PendingOf(d)' = PendingOf(d)
    OBVIOUS
  <2>1. inbox'[d] = inbox[d]
    BY <1>4 DEF CarrierInv, StreamInv
  <2> QED
    BY <1>5, <2>1 DEF PendingOf
<1> DEFINE pend == [d \in Clients |-> PendingOf(d)]
           answ == [d \in Clients |-> AnsweredOf(d)]
<1>8. answ' = answ
  BY <1>4 DEF AnsweredOf
<1>9. pend' = [pend EXCEPT ![c] = @ \union {issued[c] + 1}]
  BY <1>6, <1>7
<1>10. issued[c] < MaxRequests /\ issued' = [issued EXCEPT ![c] = @ + 1]
  BY DEF ClientSend
<1> QED
  BY <1>8, <1>9, <1>10 DEF Exchange!Issue

\* What is read and not served is abandoned.
LEMMA ReadIsSeen ==
    ASSUME CarrierInv, NEW c \in Clients, RecvRequest(c) \/ RecvJson(c) \/ RecvGarbage(c)
    PROVE  [Exchange!Next]_(Exchange!vars)
<1> DEFINE old == inbox[c]
<1>1. /\ cur' = c /\ UNCHANGED <<issued, outbox>>
      /\ \A r \in Request : ~ InService(r)
      /\ \A r \in Request : InService(r)' => r = old[1]
  BY Reads DEF CarrierInv
<1>2. PICK k \in 1 .. Len(old) : inbox' = [inbox EXCEPT ![c] = SubSeq(old, k + 1, Len(old))]
  BY Reads DEF CarrierInv
<1> DEFINE new == SubSeq(old, k + 1, Len(old))
<1>3. inbox'[c] = new /\ \A d \in Clients \ {c} : inbox'[d] = inbox[d]
  BY <1>2 DEF CarrierInv, StreamInv
<1>4. old \in Seq(Request) /\ Len(old) \in Nat
  BY LenProperties DEF CarrierInv, StreamInv
<1>5. \A i \in 1 .. Len(new) : \E j \in 1 .. Len(old) : new[i] = old[j]
  <2>1. /\ Len(new) = Len(old) - k
        /\ \A i \in 1 .. Len(old) - k : k + i \in 2 .. Len(old) /\ new[i] = old[k + i]
    BY <1>4, RestOfStream
  <2>2. \A j \in 2 .. Len(old) : j \in 1 .. Len(old)
    BY <1>4
  <2> HIDE DEF new, old
  <2> QED
    BY <2>1, <2>2
<1>6. 1 \in 1 .. Len(old) /\ old[1].from = c
  BY <1>4 DEF CarrierInv, StreamInv
<1>7. PendingOf(c)' \subseteq PendingOf(c)
  <2> SUFFICES ASSUME NEW n \in PendingOf(c)'
               PROVE  n \in 1 .. MaxRequests /\ \E j \in 1 .. Len(old) : old[j].id = n
    BY DEF PendingOf
  <2>1. n \in 1 .. MaxRequests
    BY DEF PendingOf
  <2> HIDE DEF new, old
  <2>2. CASE InService([from |-> c, id |-> n])'
    BY <1>1, <1>6, <2>1, <2>2, IdsAreNumbers
  <2>3. CASE \E i \in 1 .. Len(new) : new[i].id = n
    BY <1>5, <2>1, <2>3
  <2>4. InService([from |-> c, id |-> n])' \/ \E i \in 1 .. Len(new) : new[i].id = n
    BY <1>3 DEF PendingOf
  <2> QED
    BY <2>2, <2>3, <2>4
<1> HIDE DEF new, old
<1>8. ASSUME NEW d \in Clients \ {c} PROVE PendingOf(d)' = PendingOf(d)
  <2>1. \A n \in 1 .. MaxRequests : ~ InService([from |-> d, id |-> n])'
    BY <1>1, <1>6, IdsAreNumbers
  <2>2. \A n \in 1 .. MaxRequests : ~ InService([from |-> d, id |-> n])
    BY <1>1, IdsAreNumbers
  <2> QED
    BY <1>3, <2>1, <2>2 DEF PendingOf
<1> QED
  BY <1>1, <1>7, <1>8, GivesUp

\* To hand the request over is nothing to the clients; to drop it abandons it.
LEMMA PassingIsSeen ==
    ASSUME CarrierInv, PassesOn
    PROVE  [Exchange!Next]_(Exchange!vars)
<1>1. UNCHANGED <<issued, inbox, outbox>> /\ \A r \in Request : InService(r)' => InService(r)
  BY PassedOn DEF CarrierInv
<1>2. ASSUME NEW c \in Clients PROVE PendingOf(c)' \subseteq PendingOf(c)
  BY <1>1, IdsAreNumbers DEF PendingOf
<1>3. ASSUME NEW c \in Clients \ {cur} PROVE PendingOf(c)' = PendingOf(c)
  <2>1. PendingOf(c) \subseteq PendingOf(c)'
    BY <1>1, OthersWait DEF PendingOf, CarrierInv
  <2> QED
    BY <1>2, <2>1
<1> QED
  BY <1>1, <1>2, <1>3, GivesUp DEF CarrierInv, HandOver

\* The numbers of the responses, and of one more.
LEMMA AnsweredGrows ==
    ASSUME NEW old \in Seq(Request), NEW r \in Request
    PROVE  [i \in 1 .. Len(Append(old, r)) |-> Append(old, r)[i].id]
                = Append([i \in 1 .. Len(old) |-> old[i].id], r.id)
<1> DEFINE grown == Append(old, r)
           a == [i \in 1 .. Len(old) |-> old[i].id]
           b == [i \in 1 .. Len(grown) |-> grown[i].id]
<1>1. /\ Len(old) \in Nat /\ grown \in Seq(Request) /\ Len(grown) = Len(old) + 1
      /\ \A i \in 1 .. Len(old) : grown[i] = old[i]
      /\ grown[Len(old) + 1] = r
  BY AppendProperties, LenProperties
<1>2. \A s \in Seq(Request) : \A i \in 1 .. Len(s) : s[i].id \in Nat
  <2>1. \A s \in Seq(Request) : \A i \in 1 .. Len(s) : s[i] \in Request
    BY ElementOfSeq
  <2> QED
    BY <2>1, IdsAreNumbers
<1>3. a \in [1 .. Len(old) -> Nat] /\ b \in [1 .. Len(grown) -> Nat]
  BY <1>1, <1>2
<1>4. a \in Seq(Nat) /\ b \in Seq(Nat)
  BY <1>1, <1>3, SeqDef
<1>5. /\ Len(a) = Len(old) /\ \A i \in 1 .. Len(old) : a[i] = old[i].id
      /\ Len(b) = Len(old) + 1 /\ \A i \in 1 .. Len(old) + 1 : b[i] = grown[i].id
  BY <1>1, <1>3, <1>4, LenProperties
<1>6. r.id \in Nat
  BY IdsAreNumbers
<1> HIDE DEF a, b, grown
<1>7. /\ Append(a, r.id) \in Seq(Nat) /\ Len(Append(a, r.id)) = Len(old) + 1
      /\ \A i \in 1 .. Len(old) : Append(a, r.id)[i] = old[i].id
      /\ Append(a, r.id)[Len(old) + 1] = r.id
  BY <1>4, <1>5, <1>6, AppendProperties
<1>8. \A i \in 1 .. Len(old) + 1 : i \in 1 .. Len(old) \/ i = Len(old) + 1
  BY <1>1
<1>9. \A i \in 1 .. Len(old) + 1 : b[i] = Append(a, r.id)[i]
  BY <1>1, <1>5, <1>7, <1>8
<1>10. b = Append(a, r.id)
  BY <1>4, <1>5, <1>7, <1>9, SeqEqual
<1> QED
  BY <1>10 DEF a, b, grown

\* The request in service is its client's oldest, so the reply answers that one.
LEMMA ReplyIsAnswer ==
    ASSUME CarrierInv, Reply
    PROVE  Exchange!Answer(cur)
<1> DEFINE n == res.id
           waiting == {m \in 1 .. MaxRequests : \E i \in 1 .. Len(inbox[cur]) : inbox[cur][i].id = m}
<1>1. /\ UNCHANGED <<issued, inbox, cur>> /\ outbox' = [outbox EXCEPT ![cur] = Append(@, res)]
      /\ srvPc = "reply" /\ srvPc' = "select" /\ UNCHANGED <<inQueue, outQueue, taskPc>>
  BY DEF Reply
<1>2. inQueue = <<>> /\ outQueue = <<>> /\ taskPc = "receive" /\ res \in Request /\ cur \in Clients
  BY <1>1 DEF CarrierInv, HandOver, Serving
<1>3. \A r \in Request : (InService(r) <=> r = res) /\ ~ InService(r)'
  BY <1>1, <1>2 DEF InService
<1>4. res.from = cur /\ \A i \in 1 .. Len(inbox[cur]) : n < inbox[cur][i].id
  BY <1>2, <1>3 DEF CarrierInv, OrderInv
<1>5. n \in 1 .. MaxRequests /\ res = [from |-> cur, id |-> n]
  BY <1>2, <1>4, IdsAreNumbers
<1>6. \A i \in 1 .. Len(inbox[cur]) : inbox[cur][i].id \in Nat
  <2>1. \A i \in 1 .. Len(inbox[cur]) : inbox[cur][i] \in Request
    BY <1>2, ElementOfSeq DEF CarrierInv, StreamInv
  <2> QED
    BY <2>1, IdsAreNumbers
<1> HIDE DEF n
<1>7. PendingOf(cur) = {n} \union waiting
  <2>1. \A m \in 1 .. MaxRequests : InService([from |-> cur, id |-> m]) <=> m = n
    BY <1>2, <1>3, <1>5, IdsAreNumbers
  <2> QED
    BY <1>5, <2>1 DEF PendingOf
<1>8. PendingOf(cur)' = waiting
  BY <1>1, <1>2, <1>3, IdsAreNumbers DEF PendingOf
<1>9. \A m \in waiting : n < m
  BY <1>4 DEF n
<1>10. n \notin waiting /\ \A m \in PendingOf(cur) : n <= m
  BY <1>5, <1>7, <1>9
<1> HIDE DEF waiting
<1>11. PendingOf(cur)' = PendingOf(cur) \ {n}
  BY <1>7, <1>8, <1>10
<1>12. \A c \in Clients \ {cur} : PendingOf(c)' = PendingOf(c)
  BY <1>1, <1>3, OthersWait, IdsAreNumbers DEF PendingOf, CarrierInv
<1>13. AnsweredOf(cur)' = Append(AnsweredOf(cur), n)
  <2>1. outbox[cur] \in Seq(Request) /\ outbox'[cur] = Append(outbox[cur], res)
    BY <1>1, <1>2 DEF CarrierInv, OrderInv
  <2> QED
    BY <1>1, <1>2, <2>1, AnsweredGrows DEF AnsweredOf, n
<1>14. \A c \in Clients \ {cur} : AnsweredOf(c)' = AnsweredOf(c)
  <2>1. \A c \in Clients \ {cur} : outbox'[c] = outbox[c]
    BY <1>1 DEF CarrierInv, OrderInv
  <2> QED
    BY <2>1 DEF AnsweredOf
<1> DEFINE pend == [d \in Clients |-> PendingOf(d)]
           answ == [d \in Clients |-> AnsweredOf(d)]
<1>15. pend' = [pend EXCEPT ![cur] = @ \ {n}]
  <2>1. \A d \in Clients : pend'[d] = PendingOf(d)' /\ pend[d] = PendingOf(d)
    OBVIOUS
  <2>2. \A d \in Clients : pend'[d] = [pend EXCEPT ![cur] = @ \ {n}][d]
    BY <1>1, <1>2, <1>11, <1>12, <2>1
  <2> QED
    BY <2>2
<1>16. answ' = [answ EXCEPT ![cur] = Append(@, n)]
  <2>1. \A d \in Clients : answ'[d] = AnsweredOf(d)' /\ answ[d] = AnsweredOf(d)
    OBVIOUS
  <2>2. \A d \in Clients : answ'[d] = [answ EXCEPT ![cur] = Append(@, n)][d]
    BY <1>1, <1>2, <1>13, <1>14, <2>1
  <2> QED
    BY <2>2
<1>17. n \in pend[cur] /\ \A m \in pend[cur] : n <= m
  BY <1>2, <1>7, <1>10
<1> QED
  BY <1>1, <1>15, <1>16, <1>17 DEF Exchange!Answer

\* Every server keeps the promise of RpcExchange, whatever crosses its queues.
THEOREM CarriersAreExchanges == Spec => ImplementsExchange
<1>1. Init => Exchange!Init
  <2> SUFFICES ASSUME Init PROVE Exchange!Init
    OBVIOUS
  <2>1. \A c \in Clients : inbox[c] = <<>> /\ outbox[c] = <<>> /\ \A r : ~ InService(r)
    BY DEF Init, InService
  <2>2. Len(<<>>) = 0
    BY EmptySeq
  <2>3. \A c \in Clients : PendingOf(c) = {}
    <3>1. \A c \in Clients : \A i \in 1 .. Len(inbox[c]) : FALSE
      BY <2>1, <2>2
    <3>2. \A c \in Clients, n \in 1 .. MaxRequests : ~ InService([from |-> c, id |-> n])
      BY <2>1
    <3> QED
      BY <3>1, <3>2 DEF PendingOf
  <2>4. \A c \in Clients : AnsweredOf(c) = <<>>
    <3> SUFFICES ASSUME NEW c \in Clients PROVE AnsweredOf(c) = <<>>
      OBVIOUS
    <3>1. AnsweredOf(c) \in [1 .. 0 -> Nat]
      BY <2>1, <2>2 DEF AnsweredOf
    <3>2. AnsweredOf(c) \in Seq(Nat) /\ Len(AnsweredOf(c)) = 0
      BY <3>1, SeqDef, LenProperties
    <3> QED
      BY <3>2, EmptySeq
  <2> QED
    BY <2>3, <2>4 DEF Init, Exchange!Init
<1>2. CarrierInv /\ [Next]_vars => [Exchange!Next]_(Exchange!vars)
  <2> SUFFICES ASSUME CarrierInv, [Next]_vars PROVE [Exchange!Next]_(Exchange!vars)
    OBVIOUS
  <2>1. ASSUME NEW c \in Clients, ClientSend(c) PROVE [Exchange!Next]_(Exchange!vars)
    BY <2>1, SendIsIssue DEF Exchange!Next
  <2>2. ASSUME NEW c \in Clients, RecvRequest(c) \/ RecvJson(c) \/ RecvGarbage(c)
        PROVE  [Exchange!Next]_(Exchange!vars)
    BY <2>2, ReadIsSeen
  <2>3. CASE Reply
    BY <2>3, ReplyIsAnswer DEF CarrierInv, HandOver, Exchange!Next
  <2>4. CASE PassesOn
    BY <2>4, PassingIsSeen
  <2> QED
    BY <2>1, <2>2, <2>3, <2>4 DEF Next, Handler, PassesOn
<1> QED
  BY <1>1, <1>2, CarrierInvariance, PTL DEF Spec, ImplementsExchange, Exchange!Spec

-----------------------------------------------------------------------------
(* Types *)

\* HandOver says which items the queues can hold, and what is behind them.
LEMMA TypeStep ==
    ASSUME TypeOK, CarrierInv, CarrierInv', [Next]_vars
    PROVE  TypeOK'
<1> USE DEF CarrierInv
<1>1. /\ carrier' \in {"slots", "channel", "pointer", "json"}
      /\ issued' \in [Clients -> 0 .. MaxRequests]
      /\ inbox' \in [Clients -> Seq(Request)]
      /\ srvPc' \in {"select", "send", "wait", "route", "reply", "dead"}
      /\ cur' \in Clients
      /\ taskPc' \in {"receive", "route", "send"}
  BY DEF StreamInv, HandOver
<1>2. outbox' \in [Clients -> Seq(Request)]
  BY DEF OrderInv
<1>3. ASSUME NEW c \in Clients, RecvRequest(c) \/ RecvJson(c)
      PROVE  Head(inbox[c]) \in Request
  <2>1. inbox[c] # <<>>
    BY <1>3, EmptySeq, LenProperties DEF RecvRequest, RecvJson, StreamInv
  <2> QED
    BY <2>1, FirstOfStream
<1>4. res' \in Stored /\ taskCall' \in Stored /\ mem' \in [req : Stored, rsp : Stored]
  <2>1. ASSUME NEW c \in Clients, ClientSend(c) \/ RecvRequest(c) \/ RecvJson(c) \/ RecvGarbage(c)
        PROVE  res' \in Stored /\ taskCall' = taskCall /\ mem' \in [req : Stored, rsp : Stored]
    BY <1>3, <2>1 DEF ClientSend, RecvRequest, RecvJson, RecvGarbage, TypeOK, Stored
  <2>2. CASE RouteInline \/ SendRequest \/ TaskRaises \/ TaskSend
    BY <2>2 DEF RouteInline, SendRequest, TaskRaises, TaskSend, TypeOK
  <2>3. CASE ReceiveResponse
    <3>1. res' = mem.rsp
      BY <2>3, OneItem, ItemHasData DEF ReceiveResponse, HandOver
    <3> QED
      BY <2>3, <3>1 DEF ReceiveResponse, TypeOK
  <2>4. CASE Reply \/ ReplyFails
    BY <2>4 DEF Reply, ReplyFails, ScopeEnds, TypeOK, Stored
  <2>5. CASE TaskReceive
    <3>1. inQueue = <<Item("req")>>
      BY <2>5 DEF TaskReceive, HandOver
    <3>2. taskCall' = mem.req /\ Head(inQueue) = Item("req")
      BY <2>5, <3>1, OneItem, ItemHasData DEF TaskReceive
    <3>3. mem' = IF carrier = "slots" THEN [mem EXCEPT !.req = NoData] ELSE mem
      BY <2>5, <3>2 DEF TaskReceive, Item
    <3> QED
      BY <2>5, <3>2, <3>3 DEF TaskReceive, TypeOK, Stored
  <2>6. CASE TaskRoute
    BY <2>6 DEF TaskRoute, TypeOK
  <2>7. CASE UNCHANGED vars
    BY <2>7 DEF vars, TypeOK
  <2> QED
    BY <2>1, <2>2, <2>3, <2>4, <2>5, <2>6, <2>7 DEF Next, Handler, Task, TypeOK
<1>5. ASSUME NEW item \in Items PROVE <<item>> \in Seq(Items)
  BY <1>5
<1>6. inQueue' \in Seq(Items)
  <2>1. CASE inQueue' = <<>>
    BY <2>1
  <2>2. CASE inQueue' # <<>>
    <3>1. inQueue' = <<Item("req")>>' /\ mem'.req \in Request
      BY <2>2 DEF HandOver, Serving
    <3>2. (Item("req"))' \in Items
      BY <3>1 DEF Item, Items
    <3> QED
      BY <1>5, <3>1, <3>2
  <2> QED
    BY <2>1, <2>2
<1>7. outQueue' \in Seq(Items)
  <2>1. CASE outQueue' = <<>>
    BY <2>1
  <2>2. CASE outQueue' # <<>>
    <3>1. outQueue' = <<Item("rsp")>>' /\ mem'.rsp \in Request
      BY <2>2 DEF HandOver, Serving
    <3>2. (Item("rsp"))' \in Items
      BY <3>1 DEF Item, Items
    <3> QED
      BY <1>5, <3>1, <3>2
  <2> QED
    BY <2>1, <2>2
<1> QED
  BY <1>1, <1>2, <1>4, <1>6, <1>7 DEF TypeOK

\* Type correctness of the four servers, for every value of the constants.
THEOREM TypeCorrect == Spec => []TypeOK
<1>1. Init => TypeOK
  <2> SUFFICES ASSUME Init PROVE TypeOK
    OBVIOUS
  <2>1. inbox \in [Clients -> Seq(Request)] /\ outbox \in [Clients -> Seq(Request)]
    BY EmptySeq DEF Init
  <2>2. inQueue \in Seq(Items) /\ outQueue \in Seq(Items) /\ issued \in [Clients -> 0 .. MaxRequests]
    BY BoundsAssumption DEF Init
  <2> QED
    BY <2>1, <2>2 DEF Init, TypeOK, Stored
<1>2. TypeOK /\ CarrierInv /\ CarrierInv' /\ [Next]_vars => TypeOK'
  BY TypeStep
<1> QED
  BY <1>1, <1>2, CarrierInvariance, PTL DEF Spec
=============================================================================
