--------------------------- MODULE RpcQueueProofs ---------------------------
(***************************************************************************)
(* Proofs about RpcQueue, for every set of clients, every number of         *)
(* requests and every pipeline depth, faults included.                      *)
(***************************************************************************)
EXTENDS RpcQueue, SequenceTheorems, TLAPS

USE DEF ServerPcs, TaskPcs, QueueLength

\* Types are kept: every variable stays in its set whatever the two tasks and
\* the clients do.
LEMMA TypeStep ==
    ASSUME TypeOK, NodesInPlace, [Next]_vars
    PROVE  TypeOK'
<1> USE DEF TypeOK
<1>1. ASSUME NEW c \in Clients, ClientSend(c) PROVE TypeOK'
  <2>1. issued[c] + 1 \in 1 .. MaxRequests /\ issued'[c] = issued[c] + 1
    BY <1>1, BoundsAssumption DEF ClientSend
  <2>2. [from |-> c, id |-> issued[c] + 1] \in Request
    BY <2>1 DEF Request
  <2>3. inbox' \in [Clients -> Seq(Request)]
    BY <1>1, <2>2 DEF ClientSend
  <2>4. issued' \in [Clients -> 0 .. MaxRequests]
    BY <1>1, <2>1 DEF ClientSend
  <2> QED
    BY <1>1, <2>3, <2>4 DEF ClientSend, serverVars, taskVars, queueVars, heapVars
<1>2. ASSUME NEW c \in Clients, ClientClose(c) PROVE TypeOK'
  BY <1>2 DEF ClientClose, serverVars, taskVars, queueVars, heapVars
<1>3. CASE Select
  BY <1>3 DEF Select, clientVars, taskVars, queueVars, heapVars
<1>4. ASSUME NEW c \in Clients, Dispatch(c) PROVE TypeOK'
  BY <1>4 DEF Dispatch, clientVars, taskVars, queueVars, heapVars
<1>5. CASE BatchDone
  BY <1>5 DEF BatchDone, clientVars, taskVars, queueVars, heapVars
<1>6. CASE RecvRequest
  <2>1. inbox[cur] \in Seq(Request) /\ inbox[cur] # <<>>
    BY <1>6 DEF RecvRequest
  <2>2. Head(inbox[cur]) \in Request
    BY <2>1, HeadTailProperties
  <2>3. inbox' \in [Clients -> Seq(Request)]
    <3>1. PICK n \in 1 .. Len(inbox[cur]) :
             inbox' = [inbox EXCEPT ![cur] = SubSeq(@, n + 1, Len(@))]
      BY <1>6 DEF RecvRequest
    <3>2. SubSeq(inbox[cur], n + 1, Len(inbox[cur])) \in Seq(Request)
      BY <2>1, ElementOfSeq, SubSeqProperties
    <3> QED
      BY <3>1, <3>2
  <2> QED
    BY <1>6, <2>2, <2>3 DEF RecvRequest, taskVars, queueVars
<1>7. CASE RecvGarbage
  <2>1. Tail(inbox[cur]) \in Seq(Request)
    BY <1>7, HeadTailProperties DEF RecvGarbage
  <2> QED
    BY <1>7, <2>1 DEF RecvGarbage, taskVars, queueVars, heapVars
<1>8. CASE RecvDisconnected
  BY <1>8 DEF RecvDisconnected, taskVars, queueVars, heapVars
<1>9. CASE SendRequest
  <2>1. rcall \in Request
    BY <1>9 DEF SendRequest, NodesInPlace
  <2> QED
    BY <1>9, <2>1 DEF SendRequest, XQueueSend, clientVars, taskVars, heapVars
<1>10. CASE ForgetRequest
  BY <1>10 DEF ForgetRequest, clientVars, taskVars, queueVars, heapVars
<1>11. CASE ReceiveResponse
  BY <1>11, HeadTailProperties DEF ReceiveResponse, clientVars, taskVars, heapVars
<1>12. CASE Reply
  <2>1. res \in Request
    BY <1>12 DEF Reply, NodesInPlace
  <2> QED
    BY <1>12, <2>1 DEF Reply, Destroyed, taskVars, queueVars
<1>13. CASE ReplyFails
  BY <1>13 DEF ReplyFails, Destroyed, clientVars, taskVars, queueVars
<1>14. CASE TaskReceive
  BY <1>14, HeadTailProperties DEF TaskReceive, clientVars, serverVars, heapVars
<1>15. CASE TaskRoute
  <2>1. taskCall \in Request
    BY <1>15 DEF TaskRoute, NodesInPlace
  <2> QED
    BY <1>15, <2>1 DEF TaskRoute, clientVars, serverVars, queueVars
<1>16. CASE TaskRouteRaises
  BY <1>16 DEF TaskRouteRaises, Destroyed, clientVars, serverVars, queueVars
<1>17. CASE TaskSend
  <2>1. taskRes \in Request
    BY <1>17 DEF TaskSend, NodesInPlace
  <2> QED
    BY <1>17, <2>1 DEF TaskSend, XQueueSend, clientVars, serverVars, heapVars
<1>18. CASE TaskForget
  BY <1>18 DEF TaskForget, Destroyed, clientVars, serverVars, queueVars
<1>19. CASE UNCHANGED vars
  BY <1>19 DEF vars
<1> QED
  BY <1>1, <1>2, <1>3, <1>4, <1>5, <1>6, <1>7, <1>8, <1>9, <1>10, <1>11, <1>12,
     <1>13, <1>14, <1>15, <1>16, <1>17, <1>18, <1>19
  DEF Next, Environment, Server, Task

\* Which place holds a node is what the program counters say it is, at every step.
LEMMA NodesInPlaceStep ==
    ASSUME TypeOK, NodesInPlace, [Next]_vars
    PROVE  NodesInPlace'
<1> USE DEF TypeOK, NodesInPlace
<1>1. CASE Environment
  BY <1>1 DEF Environment, ClientSend, ClientClose, serverVars, taskVars
<1>2. CASE Server
  <2>1. CASE RecvRequest
    <3>1. Head(inbox[cur]) \in Request
      BY <2>1, HeadTailProperties DEF RecvRequest
    <3> QED
      BY <2>1, <3>1 DEF RecvRequest, taskVars
  <2>2. CASE ReceiveResponse
    BY <2>2, HeadTailProperties DEF ReceiveResponse, taskVars
  <2>3. CASE Select \/ (\E c \in Clients : Dispatch(c)) \/ BatchDone
               \/ RecvGarbage \/ RecvDisconnected
    BY <2>3 DEF Select, Dispatch, BatchDone, RecvGarbage, RecvDisconnected, taskVars
  <2>4. CASE SendRequest \/ ForgetRequest \/ Reply \/ ReplyFails
    BY <2>4 DEF SendRequest, ForgetRequest, Reply, ReplyFails, taskVars
  <2> QED
    BY <1>2, <2>1, <2>2, <2>3, <2>4 DEF Server
<1>3. CASE Task
  BY <1>3, HeadTailProperties DEF Task, TaskReceive, TaskRoute, TaskRouteRaises, TaskSend, TaskForget,
       serverVars
<1>4. CASE UNCHANGED vars
  BY <1>4 DEF vars
<1> QED
  BY <1>1, <1>2, <1>3, <1>4 DEF Next

\* The hand-over is in lock step: no action puts a second request into the
\* window between a request and its response.
LEMMA LockStepStep ==
    ASSUME TypeOK, LockStep, [Next]_vars
    PROVE  LockStep'
<1> USE DEF TypeOK, LockStep
<1>1. CASE Environment
  BY <1>1 DEF Environment, ClientSend, ClientClose, serverVars, taskVars, queueVars
<1>2. CASE Select \/ (\E c \in Clients : Dispatch(c)) \/ BatchDone
  BY <1>2 DEF Select, Dispatch, BatchDone, taskVars, queueVars
<1>3. CASE RecvRequest \/ RecvGarbage \/ RecvDisconnected
  BY <1>3 DEF RecvRequest, RecvGarbage, RecvDisconnected, taskVars, queueVars
<1>4. CASE SendRequest
  BY <1>4 DEF SendRequest, XQueueSend, taskVars
<1>5. CASE ForgetRequest
  BY <1>5 DEF ForgetRequest, taskVars, queueVars
<1>6. CASE ReceiveResponse
  <2>1. Tail(outQueue) = <<>> /\ inQueue = <<>>
    BY <1>6, HeadTailProperties, EmptySeq DEF ReceiveResponse
  <2> QED
    BY <1>6, <2>1 DEF ReceiveResponse, taskVars
<1>7. CASE Reply \/ ReplyFails
  BY <1>7 DEF Reply, ReplyFails, taskVars, queueVars
<1>8. CASE TaskReceive
  <2>1. Tail(inQueue) = <<>> /\ outQueue = <<>>
    BY <1>8, HeadTailProperties, EmptySeq DEF TaskReceive
  <2> QED
    BY <1>8, <2>1 DEF TaskReceive, serverVars
<1>9. CASE TaskRoute \/ TaskRouteRaises \/ TaskForget
  BY <1>9 DEF TaskRoute, TaskRouteRaises, TaskForget, serverVars, queueVars
<1>10. CASE TaskSend
  BY <1>10 DEF TaskSend, XQueueSend, serverVars
<1>11. CASE UNCHANGED vars
  BY <1>11 DEF vars
<1> QED
  BY <1>1, <1>2, <1>3, <1>4, <1>5, <1>6, <1>7, <1>8, <1>9, <1>10, <1>11
  DEF Next, Server, Task

\* While the queues and the RPC task are empty nothing is in service but what the
\* handler holds.
LEMMA ServiceOutsideWindow ==
    ASSUME TypeOK, LockStep, NEW r \in Request, InService(r), srvPc \notin {"moved", "wait"}
    PROVE  \/ srvPc = "send" /\ r = rcall
           \/ srvPc = "reply" /\ r = res
  BY DEF TypeOK, LockStep, InService

\* Handing the request in service over, or dropping it, keeps every order.
LEMMA HandOver ==
    ASSUME ServiceOrder, StreamOrder, AnswersGoHome,
           UNCHANGED <<cur, issued, inbox, outbox>>,
           \A r \in Request : InService(r)' => InService(r)
    PROVE  ServiceOrder' /\ StreamOrder' /\ AnswersGoHome'
  BY DEF ServiceOrder, StreamOrder, AnswersGoHome

\* Receiving takes the head of the client's stream, which is younger than all it
\* got answers to and older than all that is left.
LEMMA RecvKeepsOrder ==
    ASSUME TypeOK, LockStep, ServiceOrder, StreamOrder, AnswersGoHome, RecvRequest
    PROVE  ServiceOrder' /\ StreamOrder' /\ AnswersGoHome'
<1> DEFINE old == inbox[cur]
<1>1. old \in Seq(Request) /\ old # <<>> /\ Len(old) \in Nat \ {0}
  BY EmptySeq DEF TypeOK, RecvRequest
<1>2. PICK n \in 1 .. Len(old) : inbox' = [inbox EXCEPT ![cur] = SubSeq(@, n + 1, Len(@))]
  BY DEF RecvRequest
<1> DEFINE new == SubSeq(old, n + 1, Len(old))
<1>3. /\ new \in Seq(Request)
      /\ Len(new) = Len(old) - n
      /\ \A i \in 1 .. Len(new) : new[i] = old[n + i]
  <2>1. \A i \in n + 1 .. Len(old) : old[i] \in Request
    BY <1>1, ElementOfSeq
  <2>2. /\ new \in Seq(Request)
        /\ Len(new) = IF n + 1 <= Len(old) THEN Len(old) - (n + 1) + 1 ELSE 0
        /\ \A i \in 1 .. Len(old) - (n + 1) + 1 : new[i] = old[n + 1 + i - 1]
    BY <1>1, <2>1, SubSeqProperties
  <2>3. Len(new) = Len(old) - n
    BY <1>1, <2>2
  <2>4. ASSUME NEW i \in 1 .. Len(new) PROVE new[i] = old[n + i]
    BY <1>1, <2>2, <2>3
  <2> QED
    BY <2>2, <2>3, <2>4
<1>4. /\ inbox'[cur] = new
      /\ \A c \in Clients \ {cur} : inbox'[c] = inbox[c]
  BY <1>2 DEF TypeOK
<1>5. /\ UNCHANGED <<cur, issued, outbox>>
      /\ rcall' = old[1]
      /\ srvPc = "recv" /\ srvPc' = "send"
      /\ UNCHANGED <<inQueue, outQueue, taskPc>>
  BY <1>1 DEF RecvRequest, taskVars, queueVars
<1>6. cur \in Clients
  BY DEF TypeOK
<1>7. \A i \in 1 .. Len(new) : n + i \in 1 .. Len(old) /\ 1 < n + i /\ i \in Int
  BY <1>1, <1>3
<1> HIDE DEF new, old
<1>8. AnswersGoHome'
  BY <1>5 DEF AnswersGoHome
<1>9. StreamOrder'
  <2> SUFFICES ASSUME NEW c \in Clients
               PROVE  /\ \A i \in 1 .. Len(inbox'[c]) :
                            inbox'[c][i].from = c /\ inbox'[c][i].id <= issued[c]
                      /\ \A i, j \in 1 .. Len(inbox'[c]) : i < j => inbox'[c][i].id < inbox'[c][j].id
                      /\ \A i \in 1 .. Len(outbox[c]) : outbox[c][i].id <= issued[c]
                      /\ \A i \in 1 .. Len(outbox[c]), j \in 1 .. Len(inbox'[c]) :
                            outbox[c][i].id < inbox'[c][j].id
    BY <1>5 DEF StreamOrder
  <2>1. CASE c # cur
    BY <2>1, <1>4 DEF StreamOrder
  <2>2. CASE c = cur
    <3>1. \A i \in 1 .. Len(new) : new[i] = old[n + i] /\ n + i \in 1 .. Len(old)
      BY <1>3, <1>7
    <3>2. \A i, j \in 1 .. Len(new) : i < j => n + i < n + j
      BY <1>1, <1>3
    <3>3. /\ \A i \in 1 .. Len(old) : old[i].from = c /\ old[i].id <= issued[c]
          /\ \A i, j \in 1 .. Len(old) : i < j => old[i].id < old[j].id
          /\ \A i \in 1 .. Len(outbox[c]) : outbox[c][i].id <= issued[c]
          /\ \A i \in 1 .. Len(outbox[c]), j \in 1 .. Len(old) : outbox[c][i].id < old[j].id
      BY <2>2 DEF StreamOrder, old
    <3>4. inbox'[c] = new
      BY <1>4, <2>2
    <3>5. \A i \in 1 .. Len(new) : new[i].from = c /\ new[i].id <= issued[c]
      BY <3>1, <3>3
    <3>6. \A i, j \in 1 .. Len(new) : i < j => new[i].id < new[j].id
      BY <3>1, <3>2, <3>3
    <3>7. \A i \in 1 .. Len(outbox[c]), j \in 1 .. Len(new) : outbox[c][i].id < new[j].id
      BY <3>1, <3>3
    <3> QED
      BY <3>3, <3>4, <3>5, <3>6, <3>7
  <2> QED
    BY <2>1, <2>2
<1>10. ServiceOrder'
  <2>1. LockStep /\ inQueue = <<>> /\ outQueue = <<>> /\ taskPc \notin {"route", "send"}
    BY <1>5 DEF LockStep
  <2>2. \A r \in Request : InService(r)' => r = old[1]
    BY <2>1, <1>5 DEF InService
  <2>3. /\ old[1].from = cur
        /\ old[1].id <= issued[cur]
        /\ \A i \in 1 .. Len(outbox[cur]) : outbox[cur][i].id < old[1].id
        /\ \A i \in 1 .. Len(old) : 1 < i => old[1].id < old[i].id
    BY <1>1, <1>6 DEF StreamOrder, old
  <2>4. \A i \in 1 .. Len(new) : old[1].id < new[i].id
    BY <2>3, <1>3, <1>7
  <2> QED
    BY <2>2, <2>3, <2>4, <1>4, <1>5 DEF ServiceOrder
<1> QED
  BY <1>8, <1>9, <1>10

\* A client's next request is younger than everything it has made so far.
LEMMA ClientSendKeepsOrder ==
    ASSUME TypeOK, ServiceOrder, StreamOrder, AnswersGoHome,
           NEW c \in Clients, ClientSend(c)
    PROVE  ServiceOrder' /\ StreamOrder' /\ AnswersGoHome'
<1> DEFINE next == [from |-> c, id |-> issued[c] + 1]
<1>1. issued[c] \in Nat /\ issued[c] + 1 \in 1 .. MaxRequests /\ next \in Request
  BY BoundsAssumption DEF TypeOK, ClientSend, Request
<1>2. inbox[c] \in Seq(Request) /\ Len(inbox[c]) \in Nat
  BY LenProperties DEF TypeOK
<1> DEFINE grown == Append(inbox[c], next)
<1>3. /\ Len(grown) = Len(inbox[c]) + 1
      /\ \A i \in 1 .. Len(inbox[c]) : grown[i] = inbox[c][i]
      /\ grown[Len(inbox[c]) + 1] = next
  BY <1>1, <1>2, AppendProperties
<1>4. \A i \in 1 .. Len(grown) : i \in 1 .. Len(inbox[c]) \/ i = Len(inbox[c]) + 1
  BY <1>2, <1>3
<1>5. /\ inbox'[c] = grown
      /\ \A d \in Clients \ {c} : inbox'[d] = inbox[d]
      /\ issued'[c] = issued[c] + 1
      /\ \A d \in Clients \ {c} : issued'[d] = issued[d]
      /\ UNCHANGED <<outbox, cur, srvPc, rcall, res, inQueue, outQueue, taskPc, taskCall, taskRes>>
  BY DEF TypeOK, ClientSend, serverVars, taskVars, queueVars
<1>6. next.from = c /\ next.id = issued[c] + 1
  OBVIOUS
<1>7. /\ \A i \in 1 .. Len(inbox[c]) : inbox[c][i].id \in Nat
      /\ \A i \in 1 .. Len(outbox[c]) : outbox[c][i].id \in Nat
      /\ \A r \in Request : r.id \in Nat
  <2>1. \A r \in Request : r.id \in Nat
    BY BoundsAssumption DEF Request
  <2>2. outbox[c] \in Seq(Request)
    BY DEF TypeOK
  <2>3. ASSUME NEW i \in 1 .. Len(inbox[c]) PROVE inbox[c][i].id \in Nat
    <3>1. inbox[c][i] \in Request
      BY <1>2, ElementOfSeq
    <3> QED
      BY <2>1, <3>1
  <2>4. ASSUME NEW i \in 1 .. Len(outbox[c]) PROVE outbox[c][i].id \in Nat
    <3>1. outbox[c][i] \in Request
      BY <2>2, ElementOfSeq
    <3> QED
      BY <2>1, <3>1
  <2> QED
    BY <2>1, <2>3, <2>4
<1> HIDE DEF grown, next
<1>8. AnswersGoHome'
  BY <1>5 DEF AnswersGoHome
<1>9. ASSUME NEW d \in Clients
      PROVE  /\ \A i \in 1 .. Len(inbox'[d]) :
                   inbox'[d][i].from = d /\ inbox'[d][i].id <= issued'[d]
             /\ \A i, j \in 1 .. Len(inbox'[d]) : i < j => inbox'[d][i].id < inbox'[d][j].id
             /\ \A i \in 1 .. Len(outbox[d]) : outbox[d][i].id <= issued'[d]
             /\ \A i \in 1 .. Len(outbox[d]), j \in 1 .. Len(inbox'[d]) :
                   outbox[d][i].id < inbox'[d][j].id
  <2>1. CASE d # c
    BY <2>1, <1>5 DEF StreamOrder
  <2>2. CASE d = c
    <3>1. /\ \A i \in 1 .. Len(inbox[c]) : inbox[c][i].from = c /\ inbox[c][i].id <= issued[c]
          /\ \A i, j \in 1 .. Len(inbox[c]) : i < j => inbox[c][i].id < inbox[c][j].id
          /\ \A i \in 1 .. Len(outbox[c]) : outbox[c][i].id <= issued[c]
          /\ \A i \in 1 .. Len(outbox[c]), j \in 1 .. Len(inbox[c]) :
                outbox[c][i].id < inbox[c][j].id
      BY DEF StreamOrder
    <3>2. ASSUME NEW i \in 1 .. Len(grown)
          PROVE  grown[i].from = c /\ grown[i].id <= issued[c] + 1
      <4>1. CASE i \in 1 .. Len(inbox[c])
        <5>1. inbox[c][i].id \in Nat /\ inbox[c][i].id <= issued[c] /\ inbox[c][i].from = c
          BY <4>1, <1>7, <3>1
        <5> QED
          BY <4>1, <5>1, <1>1, <1>3
      <4>2. CASE i = Len(inbox[c]) + 1
        BY <4>2, <1>1, <1>3, <1>6
      <4> QED
        BY <4>1, <4>2, <1>4
    <3>3. ASSUME NEW i \in 1 .. Len(grown), NEW j \in 1 .. Len(grown), i < j
          PROVE  grown[i].id < grown[j].id
      <4>1. i \in 1 .. Len(inbox[c])
        BY <3>3, <1>2, <1>3
      <4>2. CASE j \in 1 .. Len(inbox[c])
        BY <4>1, <4>2, <3>3, <3>1, <1>3
      <4>3. CASE j = Len(inbox[c]) + 1
        BY <4>1, <4>3, <3>1, <1>1, <1>3, <1>6, <1>7
      <4> QED
        BY <4>2, <4>3, <1>4
    <3>4. \A i \in 1 .. Len(outbox[c]) : outbox[c][i].id <= issued[c] + 1
      BY <3>1, <1>1, <1>7
    <3>5. ASSUME NEW i \in 1 .. Len(outbox[c]), NEW j \in 1 .. Len(grown)
          PROVE  outbox[c][i].id < grown[j].id
      <4>1. CASE j \in 1 .. Len(inbox[c])
        BY <4>1, <3>1, <1>3
      <4>2. CASE j = Len(inbox[c]) + 1
        <5>1. outbox[c][i].id \in Nat /\ outbox[c][i].id <= issued[c]
          BY <1>7, <3>1
        <5> QED
          BY <4>2, <5>1, <1>1, <1>3, <1>6
      <4> QED
        BY <4>1, <4>2, <1>4
    <3> QED
      BY <2>2, <3>2, <3>3, <3>4, <3>5, <1>5
  <2> QED
    BY <2>1, <2>2
<1>10. StreamOrder'
  BY <1>9, <1>5 DEF StreamOrder
<1>11. ServiceOrder'
  <2> SUFFICES ASSUME NEW r \in Request, InService(r)'
               PROVE  /\ r.from = cur
                      /\ r.id <= issued'[cur]
                      /\ \A i \in 1 .. Len(outbox[cur]) : outbox[cur][i].id < r.id
                      /\ \A i \in 1 .. Len(inbox'[cur]) : r.id < inbox'[cur][i].id
    BY <1>5 DEF ServiceOrder
  <2>1. InService(r)
    BY <1>5 DEF InService
  <2>2. /\ r.from = cur
        /\ r.id <= issued[cur]
        /\ \A i \in 1 .. Len(outbox[cur]) : outbox[cur][i].id < r.id
        /\ \A i \in 1 .. Len(inbox[cur]) : r.id < inbox[cur][i].id
    BY <2>1 DEF ServiceOrder
  <2>3. CASE cur # c
    <3>1. inbox'[cur] = inbox[cur] /\ issued'[cur] = issued[cur]
      BY <2>3, <1>5 DEF TypeOK
    <3> QED
      BY <2>2, <3>1
  <2>4. CASE cur = c
    <3>1. r.id < issued[c] + 1
      BY <2>2, <2>4, <1>1, <1>7
    <3>2. \A i \in 1 .. Len(grown) : r.id < grown[i].id
      BY <3>1, <2>2, <2>4, <1>3, <1>4, <1>6
    <3> QED
      BY <2>2, <2>4, <3>1, <3>2, <1>1, <1>5, <1>7
  <2> QED
    BY <2>3, <2>4
<1> QED
  BY <1>8, <1>10, <1>11

\* Writing the response keeps the order: it is the request in service that is
\* answered, and then nothing is in service.
LEMMA ReplyKeepsOrder ==
    ASSUME TypeOK, LockStep, NodesInPlace, ServiceOrder, StreamOrder, AnswersGoHome, Reply
    PROVE  ServiceOrder' /\ StreamOrder' /\ AnswersGoHome'
<1>1. res \in Request /\ cur \in Clients /\ outbox[cur] \in Seq(Request)
  BY DEF Reply, NodesInPlace, TypeOK
<1>2. /\ res.from = cur
      /\ res.id <= issued[cur]
      /\ \A i \in 1 .. Len(outbox[cur]) : outbox[cur][i].id < res.id
      /\ \A i \in 1 .. Len(inbox[cur]) : res.id < inbox[cur][i].id
  <2>1. InService(res)
    BY DEF InService, Reply
  <2> QED
    BY <1>1, <2>1 DEF ServiceOrder
<1> DEFINE grown == Append(outbox[cur], res)
<1>3. /\ Len(outbox[cur]) \in Nat
      /\ Len(grown) = Len(outbox[cur]) + 1
      /\ \A i \in 1 .. Len(outbox[cur]) : grown[i] = outbox[cur][i]
      /\ grown[Len(outbox[cur]) + 1] = res
  BY <1>1, AppendProperties, LenProperties
<1>4. \A i \in 1 .. Len(grown) : i \in 1 .. Len(outbox[cur]) \/ i = Len(outbox[cur]) + 1
  BY <1>3
<1>5. /\ outbox'[cur] = grown
      /\ \A c \in Clients \ {cur} : outbox'[c] = outbox[c]
      /\ UNCHANGED <<issued, inbox, cur, inQueue, outQueue, taskPc, taskCall, taskRes>>
      /\ srvPc = "reply" /\ srvPc' = "dispatch"
  BY <1>1 DEF Reply, TypeOK, taskVars, queueVars
<1> HIDE DEF grown
<1>6. ASSUME NEW i \in 1 .. Len(grown), NEW j \in 1 .. Len(grown), i < j
      PROVE  grown[i].id < grown[j].id
  <2>1. i \in 1 .. Len(outbox[cur])
    BY <1>6, <1>3
  <2>2. CASE j \in 1 .. Len(outbox[cur])
    BY <1>1, <1>6, <2>1, <2>2, <1>3 DEF AnswersGoHome
  <2>3. CASE j = Len(outbox[cur]) + 1
    BY <2>1, <2>3, <1>2, <1>3
  <2> QED
    BY <2>2, <2>3, <1>4
<1>7. AnswersGoHome'
  <2>1. \A i \in 1 .. Len(grown) : grown[i].from = cur
    BY <1>1, <1>2, <1>3, <1>4 DEF AnswersGoHome
  <2> QED
    BY <2>1, <1>5, <1>6 DEF AnswersGoHome
<1>8. StreamOrder'
  <2>1. \A i \in 1 .. Len(grown) : grown[i].id <= issued[cur]
    BY <1>1, <1>2, <1>3, <1>4 DEF StreamOrder
  <2>2. \A i \in 1 .. Len(grown), j \in 1 .. Len(inbox[cur]) : grown[i].id < inbox[cur][j].id
    BY <1>1, <1>2, <1>3, <1>4 DEF StreamOrder
  <2>3. ASSUME NEW c \in Clients
        PROVE  /\ \A i \in 1 .. Len(outbox'[c]) : outbox'[c][i].id <= issued[c]
               /\ \A i \in 1 .. Len(outbox'[c]), j \in 1 .. Len(inbox[c]) :
                     outbox'[c][i].id < inbox[c][j].id
    <3>1. CASE c = cur
      BY <3>1, <2>1, <2>2, <1>5
    <3>2. CASE c # cur
      BY <3>2, <1>5 DEF StreamOrder
    <3> QED
      BY <3>1, <3>2
  <2> QED
    BY <2>3, <1>5 DEF StreamOrder
<1>9. ServiceOrder'
  <2>1. inQueue = <<>> /\ outQueue = <<>> /\ taskPc \notin {"route", "send"}
    BY <1>5 DEF LockStep
  <2>2. \A r \in Request : ~ InService(r)'
    BY <2>1, <1>5 DEF InService
  <2> QED
    BY <2>2 DEF ServiceOrder
<1> QED
  BY <1>7, <1>8, <1>9

\* Giving up on a garbled buffer only shortens the stream; nothing is in service.
LEMMA GarbageKeepsOrder ==
    ASSUME TypeOK, LockStep, StreamOrder, AnswersGoHome, RecvGarbage
    PROVE  ServiceOrder' /\ StreamOrder' /\ AnswersGoHome'
<1> DEFINE old == inbox[cur]
           new == Tail(old)
<1>1. /\ old \in Seq(Request) /\ old # <<>> /\ Len(old) \in Nat
      /\ Len(new) = Len(old) - 1
      /\ \A i \in 1 .. Len(new) : new[i] = old[i + 1]
  BY HeadTailProperties, LenProperties DEF TypeOK, RecvGarbage
<1>2. \A i \in 1 .. Len(new) : i \in Int /\ i + 1 \in 1 .. Len(old)
  BY <1>1
<1>3. /\ inbox'[cur] = new
      /\ \A c \in Clients \ {cur} : inbox'[c] = inbox[c]
      /\ UNCHANGED <<issued, outbox, inQueue, outQueue, taskPc>>
      /\ srvPc = "recv" /\ srvPc' = "dead"
  BY DEF TypeOK, RecvGarbage, taskVars, queueVars
<1> HIDE DEF new
<1>4. StreamOrder'
  <2> SUFFICES ASSUME NEW c \in Clients
               PROVE  /\ \A i \in 1 .. Len(inbox'[c]) :
                            inbox'[c][i].from = c /\ inbox'[c][i].id <= issued[c]
                      /\ \A i, j \in 1 .. Len(inbox'[c]) : i < j => inbox'[c][i].id < inbox'[c][j].id
                      /\ \A i \in 1 .. Len(outbox[c]) : outbox[c][i].id <= issued[c]
                      /\ \A i \in 1 .. Len(outbox[c]), j \in 1 .. Len(inbox'[c]) :
                            outbox[c][i].id < inbox'[c][j].id
    BY <1>3 DEF StreamOrder
  <2>1. CASE c # cur
    BY <2>1, <1>3 DEF StreamOrder
  <2>2. CASE c = cur
    <3>1. \A i, j \in 1 .. Len(new) : i < j => i + 1 < j + 1
      BY <1>2
    <3>2. /\ \A i \in 1 .. Len(old) : old[i].from = c /\ old[i].id <= issued[c]
          /\ \A i, j \in 1 .. Len(old) : i < j => old[i].id < old[j].id
          /\ \A i \in 1 .. Len(outbox[c]) : outbox[c][i].id <= issued[c]
          /\ \A i \in 1 .. Len(outbox[c]), j \in 1 .. Len(old) : outbox[c][i].id < old[j].id
      BY <2>2 DEF StreamOrder
    <3>3. /\ \A i \in 1 .. Len(new) : new[i].from = c /\ new[i].id <= issued[c]
          /\ \A i \in 1 .. Len(outbox[c]), j \in 1 .. Len(new) : outbox[c][i].id < new[j].id
      BY ONLY <1>1, <1>2, <3>2
    <3>4. \A i, j \in 1 .. Len(new) : i < j => new[i].id < new[j].id
      BY ONLY <1>1, <1>2, <3>1, <3>2
    <3>5. inbox'[c] = new
      BY <1>3, <2>2
    <3> QED
      BY ONLY <3>2, <3>3, <3>4, <3>5
  <2> QED
    BY <2>1, <2>2
<1>5. ServiceOrder'
  BY <1>3 DEF LockStep, InService, ServiceOrder
<1> QED
  BY <1>3, <1>4, <1>5 DEF AnswersGoHome

\* The steps that bring nothing in: they hand the request in service over, drop it, or have
\* nothing to do with it.
PassesOn ==
    \/ \E c \in Clients : ClientClose(c)
    \/ Select \/ BatchDone \/ RecvDisconnected
    \/ SendRequest \/ ForgetRequest \/ ReceiveResponse \/ ReplyFails
    \/ Task
    \/ UNCHANGED vars

\* They change neither streams nor what is in service, except to end it.
LEMMA PassedOn ==
    ASSUME TypeOK, LockStep, PassesOn
    PROVE  /\ UNCHANGED <<cur, issued, inbox, outbox>>
           /\ \A r \in Request : InService(r)' => InService(r)
<1>1. UNCHANGED <<cur, issued, inbox, outbox>>
  BY DEF PassesOn, ClientClose, Select, BatchDone, RecvDisconnected, SendRequest, ForgetRequest,
     ReceiveResponse, ReplyFails, Task, TaskReceive, TaskRoute, TaskRouteRaises, TaskSend,
     TaskForget, clientVars, serverVars, vars
<1>2. ASSUME NEW r \in Request, InService(r)' PROVE InService(r)
  <2> USE <1>2 DEF InService, LockStep, TypeOK
  <2>1. CASE \E c \in Clients : ClientClose(c)
    BY <2>1 DEF ClientClose, serverVars, taskVars, queueVars
  <2>2. CASE Select \/ BatchDone \/ RecvDisconnected
    BY <2>2 DEF Select, BatchDone, RecvDisconnected, taskVars, queueVars
  <2>3. CASE SendRequest
    BY <2>3 DEF SendRequest, XQueueSend, taskVars
  <2>4. CASE ForgetRequest \/ ReplyFails
    BY <2>4 DEF ForgetRequest, ReplyFails, taskVars, queueVars
  <2>5. CASE ReceiveResponse
    <3>1. Tail(outQueue) = <<>> /\ Head(outQueue) = outQueue[1]
      BY <2>5, HeadTailProperties, EmptySeq DEF ReceiveResponse
    <3> QED
      BY <2>5, <3>1 DEF ReceiveResponse, taskVars
  <2>6. CASE TaskReceive
    <3>1. Tail(inQueue) = <<>> /\ Head(inQueue) = inQueue[1]
      BY <2>6, HeadTailProperties, EmptySeq DEF TaskReceive
    <3> QED
      BY <2>6, <3>1 DEF TaskReceive, serverVars
  <2>7. CASE TaskRoute \/ TaskRouteRaises \/ TaskForget
    BY <2>7 DEF TaskRoute, TaskRouteRaises, TaskForget, serverVars, queueVars
  <2>8. CASE TaskSend
    BY <2>8 DEF TaskSend, XQueueSend, serverVars
  <2>9. CASE UNCHANGED vars
    BY <2>9 DEF vars
  <2> QED
    BY <2>1, <2>2, <2>3, <2>4, <2>5, <2>6, <2>7, <2>8, <2>9 DEF PassesOn, Task
<1> QED
  BY <1>1, <1>2

\* The three orders are kept by every step.
LEMMA OrderStep ==
    ASSUME IInv, [Next]_vars
    PROVE  ServiceOrder' /\ StreamOrder' /\ AnswersGoHome'
<1> USE DEF IInv
<1>1. ASSUME NEW c \in Clients, ClientSend(c) PROVE ServiceOrder' /\ StreamOrder' /\ AnswersGoHome'
  BY <1>1, ClientSendKeepsOrder
<1>2. CASE RecvRequest
  BY <1>2, RecvKeepsOrder
<1>3. CASE RecvGarbage
  BY <1>3, GarbageKeepsOrder
<1>4. CASE Reply
  BY <1>4, ReplyKeepsOrder
<1>5. ASSUME NEW c \in Clients, Dispatch(c) PROVE ServiceOrder' /\ StreamOrder' /\ AnswersGoHome'
  <2>1. /\ \A r \in Request : ~ InService(r)'
        /\ UNCHANGED <<issued, inbox, outbox>>
    BY <1>5 DEF Dispatch, LockStep, InService, clientVars, taskVars, queueVars
  <2> QED
    BY <2>1 DEF ServiceOrder, StreamOrder, AnswersGoHome
<1>6. CASE PassesOn
  BY <1>6, PassedOn, HandOver
<1> QED
  BY <1>1, <1>2, <1>3, <1>4, <1>5, <1>6 DEF Next, Environment, Server, PassesOn

-----------------------------------------------------------------------------

\* The inductive invariant holds in every reachable state.
THEOREM Invariance == Spec => []IInv
<1>1. Init => IInv
  <2> SUFFICES ASSUME Init PROVE IInv
    OBVIOUS
  <2>1. TypeOK
    <3>1. raised \in BOOLEAN
      BY DEF Init
    <3>2. 0 \in 0 .. MaxRequests
      BY BoundsAssumption
    <3> QED
      BY <3>1, <3>2 DEF Init, TypeOK, ServerPcs, TaskPcs
  <2>2. LockStep /\ NodesInPlace
    BY DEF Init, LockStep, NodesInPlace
  <2>3. \A r \in Request : ~ InService(r)
    BY DEF Init, InService
  <2> QED
    BY <2>1, <2>2, <2>3 DEF Init, IInv, ServiceOrder, StreamOrder, AnswersGoHome
<1>2. IInv /\ [Next]_vars => IInv'
  <2> SUFFICES ASSUME IInv, [Next]_vars PROVE IInv'
    OBVIOUS
  <2>1. TypeOK'
    BY TypeStep DEF IInv
  <2>2. NodesInPlace'
    BY NodesInPlaceStep DEF IInv
  <2>3. LockStep'
    BY LockStepStep DEF IInv
  <2>4. ServiceOrder' /\ StreamOrder' /\ AnswersGoHome'
    BY OrderStep
  <2> QED
    BY <2>1, <2>2, <2>3, <2>4 DEF IInv
<1> QED
  BY <1>1, <1>2, PTL DEF Spec

\* Type correctness of the two tasks and their queues.
THEOREM TypeCorrect == Spec => []TypeOK
<1>1. IInv => TypeOK
  BY DEF IInv
<1> QED
  BY <1>1, Invariance, PTL

\* The discarded results of xQueueSend never hide a lost message: in every state
\* in which a task is about to send, its queue has room.
THEOREM NoLostHandOver == Spec => []QueuesHaveRoom
<1>1. IInv => QueuesHaveRoom
  BY DEF IInv, TypeOK, LockStep, QueuesHaveRoom
<1> QED
  BY <1>1, Invariance, PTL

\* No client ever gets another client's answer, an answer twice, or answers out of
\* the order of its requests.
THEOREM NoCrossDelivery == Spec => []AnswersGoHome
<1>1. IInv => AnswersGoHome
  BY DEF IInv
<1> QED
  BY <1>1, Invariance, PTL
-----------------------------------------------------------------------------
(* The refinement of RpcExchange *)

\* Only the client that is served can have its oldest request out of its stream.
LEMMA OthersWait ==
    ASSUME IInv, NEW c \in Clients, c # cur
    PROVE  PendingOf(c) = {n \in 1 .. MaxRequests : \E i \in 1 .. Len(inbox[c]) : inbox[c][i].id = n}
<1>1. \A n \in 1 .. MaxRequests : ~ InService([from |-> c, id |-> n])
  <2> SUFFICES ASSUME NEW n \in 1 .. MaxRequests, InService([from |-> c, id |-> n]) PROVE FALSE
    OBVIOUS
  <2>1. [from |-> c, id |-> n] \in Request
    BY DEF Request
  <2>2. [from |-> c, id |-> n].from = cur
    BY <2>1 DEF IInv, ServiceOrder
  <2> QED
    BY <2>2
<1> QED
  BY <1>1 DEF PendingOf

\* A step after which one client has fewer requests pending abandons them.
LEMMA GivesUp ==
    ASSUME UNCHANGED <<issued, outbox>>, NEW c \in Clients,
           PendingOf(c)' \subseteq PendingOf(c),
           \A d \in Clients \ {c} : PendingOf(d)' = PendingOf(d)
    PROVE  [Exchange!Next]_(Exchange!vars)
<1> DEFINE pend == [d \in Clients |-> PendingOf(d)]
           answ == [d \in Clients |-> AnsweredOf(d)]
           lost == PendingOf(c) \ PendingOf(c)'
<1>1. answ' = answ
  BY DEF AnsweredOf
<1>2. pend' = [pend EXCEPT ![c] = @ \ lost]
  <2>1. \A d \in Clients : pend'[d] = PendingOf(d)' /\ pend[d] = PendingOf(d)
    OBVIOUS
  <2>2. PendingOf(c) \ lost = PendingOf(c)'
    OBVIOUS
  <2>3. DOMAIN pend' = Clients /\ DOMAIN [pend EXCEPT ![c] = @ \ lost] = Clients
    OBVIOUS
  <2>4. \A d \in Clients : pend'[d] = [pend EXCEPT ![c] = @ \ lost][d]
    BY <2>1, <2>2
  <2> QED
    BY <2>3, <2>4
<1>3. CASE lost = {}
  <2>1. pend' = pend
    BY <1>2, <1>3
  <2> QED
    BY <1>1, <2>1 DEF Exchange!vars
<1>4. CASE lost # {}
  <2>1. lost \in (SUBSET pend[c]) \ {{}}
    BY <1>4
  <2>2. Exchange!Abandon(c)
    BY <1>1, <1>2, <2>1 DEF Exchange!Abandon
  <2> QED
    BY <2>2 DEF Exchange!Next
<1> QED
  BY <1>3, <1>4

\* To hand the request over is nothing to the clients; to drop it abandons it.
LEMMA PassingIsSeen ==
    ASSUME IInv, UNCHANGED <<issued, inbox, outbox>>,
           \A r \in Request : InService(r)' => InService(r)
    PROVE  [Exchange!Next]_(Exchange!vars)
<1>1. ASSUME NEW c \in Clients PROVE PendingOf(c)' \subseteq PendingOf(c)
  <2>1. \A n \in 1 .. MaxRequests : [from |-> c, id |-> n] \in Request
    BY DEF Request
  <2> QED
    BY <2>1 DEF PendingOf
<1>2. ASSUME NEW c \in Clients \ {cur} PROVE PendingOf(c)' = PendingOf(c)
  <2>1. PendingOf(c) \subseteq PendingOf(c)'
    BY <1>2, OthersWait DEF PendingOf
  <2> QED
    BY <1>1, <2>1
<1> QED
  BY <1>1, <1>2, GivesUp DEF IInv, TypeOK

\* A client's request is pending from the moment it is written.
LEMMA SendIsIssue ==
    ASSUME TypeOK, NEW c \in Clients, ClientSend(c)
    PROVE  Exchange!Issue(c)
<1> DEFINE next == [from |-> c, id |-> issued[c] + 1]
           grown == Append(inbox[c], next)
<1>1. issued[c] \in Nat /\ issued[c] + 1 \in 1 .. MaxRequests /\ next \in Request
  BY BoundsAssumption DEF TypeOK, ClientSend, Request
<1>2. inbox[c] \in Seq(Request)
  BY DEF TypeOK
<1>3. /\ Len(inbox[c]) \in Nat /\ Len(grown) = Len(inbox[c]) + 1
      /\ \A i \in 1 .. Len(inbox[c]) : grown[i] = inbox[c][i]
      /\ grown[Len(inbox[c]) + 1] = next
  BY <1>1, <1>2, AppendProperties, LenProperties
<1>4. inbox' = [inbox EXCEPT ![c] = grown] /\ UNCHANGED outbox
  BY DEF ClientSend
<1>5. \A d \in Clients, n \in 1 .. MaxRequests :
        InService([from |-> d, id |-> n])' <=> InService([from |-> d, id |-> n])
  BY DEF ClientSend, InService, serverVars, taskVars, queueVars
<1> HIDE DEF grown
<1>6. PendingOf(c)' = PendingOf(c) \union {issued[c] + 1}
  <2>1. inbox'[c] = grown
    BY <1>4 DEF TypeOK
  <2>2. \A i \in 1 .. Len(grown) : i \in 1 .. Len(inbox[c]) \/ i = Len(inbox[c]) + 1
    BY <1>3
  <2>3. next.id = issued[c] + 1
    OBVIOUS
  <2>4. 1 .. Len(inbox[c]) \subseteq 1 .. Len(grown) /\ Len(inbox[c]) + 1 \in 1 .. Len(grown)
    BY <1>3
  <2> HIDE DEF next
  <2>5. \A n \in 1 .. MaxRequests :
          (\E i \in 1 .. Len(grown) : grown[i].id = n)
            <=> (\E i \in 1 .. Len(inbox[c]) : inbox[c][i].id = n) \/ n = issued[c] + 1
    BY <1>3, <2>2, <2>3, <2>4
  <2> QED
    BY <1>1, <1>5, <2>1, <2>5 DEF PendingOf
<1>7. \A d \in Clients \ {c} : PendingOf(d)' = PendingOf(d)
  <2> SUFFICES ASSUME NEW d \in Clients \ {c} PROVE PendingOf(d)' = PendingOf(d)
    OBVIOUS
  <2>1. inbox'[d] = inbox[d]
    BY <1>4 DEF TypeOK
  <2> QED
    BY <1>5, <2>1 DEF PendingOf
<1> DEFINE pend == [d \in Clients |-> PendingOf(d)]
           answ == [d \in Clients |-> AnsweredOf(d)]
<1>8. answ' = answ
  BY <1>4 DEF AnsweredOf
<1>9. pend' = [pend EXCEPT ![c] = @ \union {issued[c] + 1}]
  BY <1>6, <1>7
<1>10. issued[c] < MaxRequests /\ issued' = [issued EXCEPT ![c] = @ + 1]
  BY DEF ClientSend
<1> QED
  BY <1>8, <1>9, <1>10 DEF Exchange!Issue

\* What is left of a stream that is read was in it.
LEMMA ReadIsSeen ==
    ASSUME IInv, UNCHANGED <<cur, issued, outbox>>,
           NEW new, inbox' = [inbox EXCEPT ![cur] = new],
           \A i \in 1 .. Len(new) : \E j \in 1 .. Len(inbox[cur]) : new[i] = inbox[cur][j],
           \A r \in Request : InService(r)' =>
                \E j \in 1 .. Len(inbox[cur]) : r.from = cur /\ r = inbox[cur][j]
    PROVE  [Exchange!Next]_(Exchange!vars)
<1>1. cur \in Clients /\ inbox'[cur] = new /\ \A c \in Clients \ {cur} : inbox'[c] = inbox[c]
  BY DEF IInv, TypeOK
<1>2. \A c \in Clients, n \in 1 .. MaxRequests :
        [from |-> c, id |-> n] \in Request /\ [from |-> c, id |-> n].from = c
            /\ [from |-> c, id |-> n].id = n
  BY DEF Request
<1>3. PendingOf(cur)' \subseteq PendingOf(cur)
  <2> SUFFICES ASSUME NEW n \in PendingOf(cur)'
               PROVE  n \in 1 .. MaxRequests /\ \E j \in 1 .. Len(inbox[cur]) : inbox[cur][j].id = n
    BY DEF PendingOf
  <2>1. n \in 1 .. MaxRequests
    BY DEF PendingOf
  <2>2. CASE InService([from |-> cur, id |-> n])'
    BY <1>1, <1>2, <2>1, <2>2
  <2>3. CASE \E i \in 1 .. Len(new) : new[i].id = n
    BY <2>1, <2>3
  <2>4. InService([from |-> cur, id |-> n])' \/ \E i \in 1 .. Len(new) : new[i].id = n
    BY <1>1 DEF PendingOf
  <2> QED
    BY <2>2, <2>3, <2>4
<1>4. ASSUME NEW c \in Clients \ {cur} PROVE PendingOf(c)' = PendingOf(c)
  <2>1. PendingOf(c) = {n \in 1 .. MaxRequests : \E i \in 1 .. Len(inbox[c]) : inbox[c][i].id = n}
    BY OthersWait
  <2>2. \A n \in 1 .. MaxRequests : ~ InService([from |-> c, id |-> n])'
    BY <1>2
  <2> QED
    BY <1>1, <2>1, <2>2 DEF PendingOf
<1> QED
  BY <1>1, <1>3, <1>4, GivesUp

\* Received requests but the first are abandoned.
LEMMA RecvIsSeen ==
    ASSUME IInv, RecvRequest
    PROVE  [Exchange!Next]_(Exchange!vars)
<1> DEFINE old == inbox[cur]
<1>1. old \in Seq(Request) /\ old # <<>> /\ Len(old) \in Nat \ {0} /\ cur \in Clients
  BY EmptySeq DEF IInv, TypeOK, RecvRequest
<1>2. PICK n \in 1 .. Len(old) : inbox' = [inbox EXCEPT ![cur] = SubSeq(@, n + 1, Len(@))]
  BY DEF RecvRequest
<1> DEFINE new == SubSeq(old, n + 1, Len(old))
<1>3. \A i \in 1 .. Len(new) : \E j \in 1 .. Len(old) : new[i] = old[j]
  <2>1. \A i \in n + 1 .. Len(old) : old[i] \in Request
    BY <1>1, ElementOfSeq
  <2>2. /\ Len(new) = IF n + 1 <= Len(old) THEN Len(old) - (n + 1) + 1 ELSE 0
        /\ \A i \in 1 .. Len(old) - (n + 1) + 1 : new[i] = old[n + 1 + i - 1]
    BY <1>1, <2>1, SubSeqProperties
  <2>3. Len(new) = Len(old) - n
    BY <1>1, <2>2
  <2> HIDE DEF new, old
  <2>4. ASSUME NEW i \in 1 .. Len(new) PROVE n + i \in 1 .. Len(old) /\ new[i] = old[n + i]
    BY <1>1, <2>2, <2>3
  <2> QED
    BY <2>4
<1>4. /\ UNCHANGED <<cur, issued, outbox>>
      /\ rcall' = old[1]
      /\ srvPc = "recv" /\ srvPc' = "send"
      /\ UNCHANGED <<inQueue, outQueue, taskPc>>
  BY <1>1 DEF RecvRequest, taskVars, queueVars
<1>5. inQueue = <<>> /\ outQueue = <<>> /\ taskPc \notin {"route", "send"}
  BY <1>4 DEF IInv, LockStep
<1>6. \A r \in Request : InService(r)' => r = old[1]
  BY <1>4, <1>5 DEF InService
<1>7. old[1].from = cur /\ 1 \in 1 .. Len(old)
  BY <1>1 DEF IInv, StreamOrder
<1>8. inbox' = [inbox EXCEPT ![cur] = new]
  BY <1>1, <1>2
<1> HIDE DEF new, old
<1> QED
  BY <1>3, <1>4, <1>6, <1>7, <1>8, ReadIsSeen DEF old

\* A garbled request is abandoned.
LEMMA GarbageIsSeen ==
    ASSUME IInv, RecvGarbage
    PROVE  [Exchange!Next]_(Exchange!vars)
<1> DEFINE old == inbox[cur]
           new == Tail(old)
<1>1. /\ old \in Seq(Request) /\ old # <<>> /\ Len(old) \in Nat
      /\ Len(new) = Len(old) - 1
      /\ \A i \in 1 .. Len(new) : new[i] = old[i + 1]
  BY HeadTailProperties, EmptySeq DEF IInv, TypeOK, RecvGarbage
<1>2. \A i \in 1 .. Len(new) : i + 1 \in 1 .. Len(old)
  BY <1>1
<1>3. /\ UNCHANGED <<cur, issued, outbox>>
      /\ srvPc = "recv" /\ srvPc' = "dead"
      /\ UNCHANGED <<inQueue, outQueue, taskPc>>
      /\ inbox' = [inbox EXCEPT ![cur] = new]
  BY DEF RecvGarbage, taskVars, queueVars
<1>4. \A r \in Request : ~ InService(r)'
  <2>1. inQueue = <<>> /\ outQueue = <<>> /\ taskPc \notin {"route", "send"}
    BY <1>3 DEF IInv, LockStep
  <2> QED
    BY <1>3, <2>1 DEF InService
<1>5. \A i \in 1 .. Len(new) : \E j \in 1 .. Len(old) : new[i] = old[j]
  BY <1>1, <1>2
<1> HIDE DEF new
<1> QED
  BY <1>3, <1>4, <1>5, ReadIsSeen

\* Requests are numbered.
LEMMA IdsAreNumbers ==
    ASSUME NEW s \in Seq(Request)
    PROVE  \A i \in 1 .. Len(s) : s[i].id \in Nat
<1>1. \A i \in 1 .. Len(s) : s[i] \in Request
  BY ElementOfSeq
<1>2. \A r \in Request : r.id \in Nat
  BY BoundsAssumption DEF Request
<1> QED
  BY <1>1, <1>2

\* The request in service is its client's oldest, so the reply answers that one.
LEMMA ReplyIsAnswer ==
    ASSUME IInv, Reply
    PROVE  Exchange!Answer(cur)
<1> DEFINE n == res.id
           old == outbox[cur]
           grown == Append(old, res)
<1>1. res \in Request /\ cur \in Clients /\ old \in Seq(Request) /\ inbox[cur] \in Seq(Request)
  BY DEF Reply, IInv, NodesInPlace, TypeOK
<1>2. InService(res)
  BY DEF InService, Reply
<1>3. res.from = cur /\ \A i \in 1 .. Len(inbox[cur]) : n < inbox[cur][i].id
  BY <1>1, <1>2 DEF IInv, ServiceOrder
<1>4. n \in 1 .. MaxRequests /\ res = [from |-> cur, id |-> n]
  BY <1>1, <1>3 DEF Request
<1>5. /\ outbox' = [outbox EXCEPT ![cur] = grown]
      /\ UNCHANGED <<issued, inbox, cur, inQueue, outQueue, taskPc, taskCall, taskRes>>
      /\ srvPc = "reply" /\ srvPc' = "dispatch"
  BY DEF Reply, taskVars, queueVars
<1>6. inQueue = <<>> /\ outQueue = <<>> /\ taskPc \notin {"route", "send"}
  BY <1>5 DEF IInv, LockStep
<1>7. \A r \in Request : (InService(r) => r = res) /\ ~ InService(r)'
  BY <1>5, <1>6 DEF InService
<1>8. \A c \in Clients, m \in 1 .. MaxRequests :
        /\ [from |-> c, id |-> m] \in Request
        /\ [from |-> c, id |-> m].from = c /\ [from |-> c, id |-> m].id = m
  BY DEF Request
<1> HIDE DEF n
<1>9. PendingOf(cur) = {n} \union {m \in 1 .. MaxRequests : \E i \in 1 .. Len(inbox[cur]) : inbox[cur][i].id = m}
  <2>1. \A m \in 1 .. MaxRequests : InService([from |-> cur, id |-> m]) <=> m = n
    BY <1>1, <1>2, <1>4, <1>7, <1>8
  <2> QED
    BY <1>4, <2>1 DEF PendingOf
<1>10. PendingOf(cur)' = {m \in 1 .. MaxRequests : \E i \in 1 .. Len(inbox[cur]) : inbox[cur][i].id = m}
  BY <1>1, <1>5, <1>7, <1>8 DEF PendingOf
<1>11. \A m \in PendingOf(cur) : n <= m
  <2>1. \A i \in 1 .. Len(inbox[cur]) : inbox[cur][i].id \in Nat
    BY <1>1, IdsAreNumbers
  <2> QED
    BY <1>3, <1>4, <1>9, <2>1
<1>12. n \notin PendingOf(cur)'
  <2>1. \A i \in 1 .. Len(inbox[cur]) : inbox[cur][i].id # n
    <3>1. \A i \in 1 .. Len(inbox[cur]) : inbox[cur][i].id \in Nat
      BY <1>1, IdsAreNumbers
    <3> QED
      BY <1>3, <1>4, <3>1 DEF n
  <2> QED
    BY <1>10, <2>1
<1>13. PendingOf(cur)' = PendingOf(cur) \ {n}
  BY <1>9, <1>10, <1>12
<1>14. ASSUME NEW c \in Clients \ {cur} PROVE PendingOf(c)' = PendingOf(c)
  BY <1>5, <1>7, <1>8, OthersWait DEF PendingOf
<1>15. AnsweredOf(cur)' = Append(AnsweredOf(cur), n)
  <2>1. /\ Len(old) \in Nat /\ Len(grown) = Len(old) + 1
        /\ \A i \in 1 .. Len(old) : grown[i] = old[i]
        /\ grown[Len(old) + 1] = res
    BY <1>1, AppendProperties, LenProperties
  <2>2. outbox'[cur] = grown
    BY <1>1, <1>5 DEF IInv, TypeOK
  <2> DEFINE a == AnsweredOf(cur)
             b == [i \in 1 .. Len(grown) |-> grown[i].id]
  <2>3. AnsweredOf(cur)' = b
    BY <1>5, <2>2 DEF AnsweredOf
  <2>4. a \in Seq(Nat) /\ Len(a) = Len(old) /\ \A i \in 1 .. Len(old) : a[i] = old[i].id
    <3>1. \A i \in 1 .. Len(old) : old[i].id \in Nat
      BY <1>1, IdsAreNumbers
    <3>2. a \in [1 .. Len(old) -> Nat]
      BY <3>1 DEF AnsweredOf
    <3>3. a \in Seq(Nat)
      BY <2>1, <3>2, SeqDef
    <3> QED
      BY <2>1, <3>2, <3>3, LenProperties DEF AnsweredOf
  <2>5. b \in Seq(Nat) /\ Len(b) = Len(old) + 1 /\ \A i \in 1 .. Len(old) + 1 : b[i] = grown[i].id
    <3>1. \A i \in 1 .. Len(grown) : grown[i].id \in Nat
      <4>1. grown \in Seq(Request)
        BY <1>1, AppendProperties
      <4> QED
        BY <4>1, IdsAreNumbers
    <3>2. b \in [1 .. Len(grown) -> Nat]
      BY <3>1
    <3>3. b \in Seq(Nat)
      BY <2>1, <3>2, SeqDef
    <3> QED
      BY <2>1, <3>2, <3>3, LenProperties
  <2>6. n \in Nat /\ res.id = n
    BY <1>4 DEF n
  <2> HIDE DEF a, b, grown, old
  <2>7. /\ Append(a, n) \in Seq(Nat) /\ Len(Append(a, n)) = Len(old) + 1
        /\ \A i \in 1 .. Len(old) : Append(a, n)[i] = old[i].id
        /\ Append(a, n)[Len(old) + 1] = n
    BY <2>4, <2>6, AppendProperties
  <2>8. \A i \in 1 .. Len(old) + 1 : i \in 1 .. Len(old) \/ i = Len(old) + 1
    BY <2>1
  <2>9. \A i \in 1 .. Len(old) + 1 : b[i] = Append(a, n)[i]
    BY <2>1, <2>5, <2>6, <2>7, <2>8
  <2>10. b = Append(a, n)
    BY <2>5, <2>7, <2>9, SeqEqual
  <2> QED
    BY <2>3, <2>10 DEF a
<1>16. \A c \in Clients \ {cur} : AnsweredOf(c)' = AnsweredOf(c)
  <2>1. \A c \in Clients \ {cur} : outbox'[c] = outbox[c]
    BY <1>5 DEF IInv, TypeOK
  <2> QED
    BY <2>1 DEF AnsweredOf
<1> DEFINE pend == [d \in Clients |-> PendingOf(d)]
           answ == [d \in Clients |-> AnsweredOf(d)]
<1>17. pend' = [pend EXCEPT ![cur] = @ \ {n}]
  <2>1. \A d \in Clients : pend'[d] = PendingOf(d)' /\ pend[d] = PendingOf(d)
    OBVIOUS
  <2>2. \A d \in Clients : pend'[d] = [pend EXCEPT ![cur] = @ \ {n}][d]
    BY <1>1, <1>5, <1>13, <1>14, <2>1
  <2> QED
    BY <2>2
<1>18. answ' = [answ EXCEPT ![cur] = Append(@, n)]
  <2>1. \A d \in Clients : answ'[d] = AnsweredOf(d)' /\ answ[d] = AnsweredOf(d)
    OBVIOUS
  <2>2. \A d \in Clients : answ'[d] = [answ EXCEPT ![cur] = Append(@, n)][d]
    BY <1>1, <1>5, <1>15, <1>16, <2>1
  <2> QED
    BY <2>2
<1>19. n \in pend[cur] /\ \A m \in pend[cur] : n <= m
  BY <1>1, <1>9, <1>11
<1> QED
  BY <1>5, <1>17, <1>18, <1>19 DEF Exchange!Answer

\* Every step is one of RpcExchange, or is not seen there.
LEMMA ExchangeStep ==
    ASSUME IInv, [Next]_vars
    PROVE  [Exchange!Next]_(Exchange!vars)
<1>1. ASSUME NEW c \in Clients, ClientSend(c) PROVE [Exchange!Next]_(Exchange!vars)
  BY <1>1, SendIsIssue DEF IInv, Exchange!Next
<1>2. CASE RecvRequest
  BY <1>2, RecvIsSeen
<1>3. CASE RecvGarbage
  BY <1>3, GarbageIsSeen
<1>4. CASE Reply
  BY <1>4, ReplyIsAnswer DEF IInv, TypeOK, Exchange!Next
<1>5. ASSUME NEW c \in Clients, Dispatch(c) PROVE [Exchange!Next]_(Exchange!vars)
  <2>1. /\ \A r \in Request : ~ InService(r)'
        /\ UNCHANGED <<issued, inbox, outbox>>
    BY <1>5 DEF Dispatch, IInv, LockStep, InService, clientVars, taskVars, queueVars
  <2> QED
    BY <2>1, PassingIsSeen
<1>6. CASE PassesOn
  BY <1>6, PassedOn, PassingIsSeen DEF IInv
<1> QED
  BY <1>1, <1>2, <1>3, <1>4, <1>5, <1>6 DEF Next, Environment, Server, PassesOn

\* The two tasks, with all that can go wrong, keep the promise of RpcExchange: an answer is
\* for the oldest request of its client that is still going to be answered.
THEOREM QueueIsExchange == Spec => ImplementsExchange
<1>1. Init => Exchange!Init
  <2> SUFFICES ASSUME Init PROVE Exchange!Init
    OBVIOUS
  <2>1. \A c \in Clients : inbox[c] = <<>> /\ outbox[c] = <<>> /\ \A r : ~ InService(r)
    BY DEF Init, InService
  <2>2. Len(<<>>) = 0
    BY EmptySeq
  <2>3. \A c \in Clients : PendingOf(c) = {}
    BY <2>1, <2>2 DEF PendingOf
  <2>4. \A c \in Clients : AnsweredOf(c) = <<>>
    <3> SUFFICES ASSUME NEW c \in Clients PROVE AnsweredOf(c) = <<>>
      OBVIOUS
    <3>1. AnsweredOf(c) \in [1 .. 0 -> Nat]
      BY <2>1, <2>2 DEF AnsweredOf
    <3>2. AnsweredOf(c) \in Seq(Nat) /\ Len(AnsweredOf(c)) = 0
      BY <3>1, SeqDef, LenProperties
    <3> QED
      BY <3>2, EmptySeq
  <2> QED
    BY <2>3, <2>4 DEF Init, Exchange!Init
<1>2. IInv /\ [Next]_vars => [Exchange!Next]_(Exchange!vars)
  BY ExchangeStep
<1> QED
  BY <1>1, <1>2, Invariance, PTL DEF Spec, ImplementsExchange, Exchange!Spec

-----------------------------------------------------------------------------
(* Who owns the nodes that cross the queues: NodesOwnedOnce, on top of the     *)
(* inductive invariant above.                                                  *)

\* What a queue of one slot owns.
InQueue(q) == IF q = <<>> THEN {} ELSE {q[1]}

\* A queue of one slot that is not empty.
LEMMA NonEmptyLen ==
    ASSUME NEW q \in Seq(Request), Len(q) <= 1, q # <<>>
    PROVE  Len(q) = 1
<1>1. Len(q) \in Nat /\ Len(q) # 0
  BY EmptySeq, LenProperties
<1> QED
  BY <1>1

\* It owns the one node in it.
LEMMA QueueOwns ==
    ASSUME NEW q \in Seq(Request), Len(q) <= 1
    PROVE  Range(q) = InQueue(q)
<1>1. CASE q = <<>>
  BY <1>1 DEF Range, InQueue
<1>2. CASE q # <<>>
  <2>1. Len(q) = 1
    BY <1>2, NonEmptyLen
  <2>2. DOMAIN q = 1 .. 1
    BY <2>1, LenProperties
  <2> QED
    BY <1>2, <2>2 DEF Range, InQueue
<1> QED
  BY <1>1, <1>2

\* Receiving takes that node and leaves none.
LEMMA OneSlot ==
    ASSUME NEW q \in Seq(Request), Len(q) <= 1, q # <<>>
    PROVE  q[1] \in Request /\ Head(q) = q[1] /\ Tail(q) = <<>>
<1>1. Len(q) = 1
  BY NonEmptyLen
<1>2. Len(Tail(q)) = 0 /\ Tail(q) \in Seq(Request)
  BY <1>1, HeadTailProperties
<1>3. Tail(q) = <<>>
  BY <1>2, EmptySeq
<1>4. q[1] \in Request
  BY <1>1, ElementOfSeq
<1> QED
  BY <1>3, <1>4

\* Sending to an empty queue puts the node there.
LEMMA SendToEmpty ==
    ASSUME NEW node
    PROVE  InQueue(XQueueSend(<<>>, node)) = {node}
BY DEF XQueueSend, QueueLength, InQueue

\* When the RPC task is at the end of a call, that request is over: it is none of those
\* that wait, and none that the handler has taken since.
CallIsOver ==
    taskPc # "receive" =>
        /\ taskCall \in Request
        /\ taskCall.id <= issued[taskCall.from]
        /\ \A i \in 1 .. Len(inbox[taskCall.from]) : taskCall.id < inbox[taskCall.from][i].id
        /\ srvPc = "send" => rcall # taskCall
        /\ taskCall \notin InQueue(inQueue)

OwnersInv ==
    /\ calls = Held(rcall, srvPc = "send") \union InQueue(inQueue) \union Held(taskCall, taskPc # "receive")
    /\ replies = Held(taskRes, taskPc = "send") \union InQueue(outQueue) \union Held(res, srvPc = "reply")
    /\ srvPc \notin {"send", "moved"} => rcall = NoNode
    /\ taskPc \notin {"send", "moved"} => taskRes = NoNode
    /\ CallIsOver

\* Outside RecvRequest and TaskReceive nothing comes in that could be the call that ends.
LEMMA StillOver ==
    ASSUME CallIsOver, UNCHANGED <<inbox, issued, taskCall>>,
           taskPc' # "receive" => taskPc # "receive",
           srvPc' = "send" => srvPc = "send" /\ rcall' = rcall,
           \/ UNCHANGED inQueue
           \/ srvPc = "send" /\ InQueue(inQueue') = {rcall}
    PROVE  CallIsOver'
BY DEF CallIsOver, InQueue

\* The order of the requests keeps a call that ends apart from the next one.
LEMMA CallIsOverStep ==
    ASSUME IInv, OwnersInv, [Next]_vars
    PROVE  CallIsOver'
<1> USE DEF IInv, TypeOK, LockStep, OwnersInv
<1>1. CASE UNCHANGED vars
  BY <1>1, StillOver DEF vars
<1>2. ASSUME NEW c \in Clients, ClientSend(c) PROVE CallIsOver'
  <2> DEFINE r == [from |-> c, id |-> issued[c] + 1]
  <2>1. /\ inbox' = [inbox EXCEPT ![c] = Append(@, r)] /\ issued' = [issued EXCEPT ![c] = @ + 1]
        /\ UNCHANGED <<serverVars, taskVars, queueVars>> /\ issued[c] < MaxRequests
    BY <1>2 DEF ClientSend
  <2>2. r \in Request
    BY <2>1, BoundsAssumption DEF Request
  <2>3. /\ Len(Append(inbox[c], r)) = Len(inbox[c]) + 1 /\ Len(inbox[c]) \in Nat
        /\ \A i \in 1 .. Len(inbox[c]) : Append(inbox[c], r)[i] = inbox[c][i]
        /\ Append(inbox[c], r)[Len(inbox[c]) + 1] = r
    BY <2>2, AppendProperties, LenProperties
  <2>4. ASSUME taskPc # "receive", taskCall.from = c
        PROVE  /\ taskCall.id <= issued'[c]
               /\ \A i \in 1 .. Len(inbox'[c]) : taskCall.id < inbox'[c][i].id
    <3>1. taskCall.id \in Nat /\ taskCall.id <= issued[c] /\ issued[c] \in Nat /\ issued'[c] = issued[c] + 1
      BY <2>1, <2>4 DEF CallIsOver, Request
    <3>2. \A i \in 1 .. Len(inbox[c]) : taskCall.id < inbox[c][i].id
      BY <2>4 DEF CallIsOver
    <3>3. inbox'[c] = Append(inbox[c], r) /\ r.id = issued[c] + 1
      BY <2>1
    <3> HIDE DEF r
    <3>4. ASSUME NEW i \in 1 .. Len(inbox'[c]) PROVE taskCall.id < inbox'[c][i].id
      <4>1. i \in 1 .. Len(inbox[c]) \/ i = Len(inbox[c]) + 1
        BY <2>3, <3>3
      <4> QED
        BY <2>3, <3>1, <3>2, <3>3, <4>1
    <3> QED
      BY <3>1, <3>4
  <2>5. ASSUME taskPc # "receive", taskCall.from # c
        PROVE  issued'[taskCall.from] = issued[taskCall.from] /\ inbox'[taskCall.from] = inbox[taskCall.from]
    <3>1. taskCall.from \in Clients
      BY <2>5 DEF CallIsOver, Request
    <3> QED
      BY <2>1, <2>5, <3>1
  <2>6. /\ taskPc' = taskPc /\ taskCall' = taskCall /\ srvPc' = srvPc /\ rcall' = rcall
        /\ InQueue(inQueue)' = InQueue(inQueue)
    BY <2>1 DEF serverVars, taskVars, queueVars, InQueue
  <2> HIDE DEF r
  <2> QED
    BY <2>4, <2>5, <2>6 DEF CallIsOver
<1>3. (\E c \in Clients : ClientClose(c)) => CallIsOver'
  BY StillOver DEF ClientClose, serverVars, taskVars, queueVars
<1>4. CASE Select \/ (\E c \in Clients : Dispatch(c)) \/ BatchDone \/ RecvDisconnected
  BY <1>4, StillOver DEF Select, Dispatch, BatchDone, RecvDisconnected, clientVars, taskVars, queueVars
<1>a. ASSUME srvPc = "recv", inbox[cur] # <<>>, NEW n \in 1 .. Len(inbox[cur]),
             inbox' = [inbox EXCEPT ![cur] = SubSeq(@, n + 1, Len(@))],
             UNCHANGED <<issued, taskVars, queueVars>>,
             srvPc' = "send" => rcall' = Head(inbox[cur])
      PROVE  CallIsOver'
  <2>1. inbox[cur] \in Seq(Request) /\ Len(inbox[cur]) \in Nat
    BY LenProperties
  <2>2. 1 \in 1 .. Len(inbox[cur]) /\ Head(inbox[cur]) = inbox[cur][1]
    BY <1>a, <2>1, EmptySeq
  <2>3. \A i \in n + 1 .. Len(inbox[cur]) : inbox[cur][i] \in Request
    BY <2>1, ElementOfSeq
  <2>4. /\ \A i \in 1 .. Len(inbox'[cur]) : /\ (n + 1) + i - 1 \in 1 .. Len(inbox[cur])
                                            /\ inbox'[cur][i] = inbox[cur][(n + 1) + i - 1]
    <3>1. inbox'[cur] = SubSeq(inbox[cur], n + 1, Len(inbox[cur]))
      BY <1>a
    <3> QED
      BY <2>1, <2>3, <3>1, SubSeqProperties
  <2>5. /\ taskPc' = taskPc /\ taskCall' = taskCall /\ issued' = issued
        /\ InQueue(inQueue)' = InQueue(inQueue) /\ inQueue = <<>>
    BY <1>a DEF taskVars, queueVars, InQueue
  <2>6. ASSUME taskPc # "receive"
        PROVE  /\ \A i \in 1 .. Len(inbox'[taskCall.from]) :
                        taskCall.id < inbox'[taskCall.from][i].id
               /\ Head(inbox[cur]) # taskCall
    <3>1. taskCall \in Request /\ taskCall.from \in Clients
      BY <2>6 DEF CallIsOver, Request
    <3>2. Head(inbox[cur]).from = cur
      BY <2>2 DEF StreamOrder
    <3>3. CASE taskCall.from = cur
      <4>1. \A i \in 1 .. Len(inbox[cur]) : taskCall.id < inbox[cur][i].id
        BY <2>6, <3>3 DEF CallIsOver
      <4>2. taskCall.id \in Nat
        BY <3>1 DEF Request
      <4>3. \A i \in 1 .. Len(inbox'[cur]) : taskCall.id < inbox'[cur][i].id
        BY <2>4, <4>1
      <4>4. taskCall.id < Head(inbox[cur]).id
        BY <2>2, <4>1
      <4> QED
        BY <3>3, <4>2, <4>3, <4>4
    <3>4. CASE taskCall.from # cur
      BY <1>a, <2>6, <3>1, <3>2, <3>4 DEF CallIsOver
    <3> QED
      BY <3>3, <3>4
  <2> QED
    BY <1>a, <2>5, <2>6 DEF CallIsOver, InQueue
<1>5. CASE RecvRequest
  BY <1>a, <1>5 DEF RecvRequest
<1>6. CASE RecvGarbage
  <2>1. inbox[cur] \in Seq(Request) /\ inbox[cur] # <<>>
    BY <1>6 DEF RecvGarbage
  <2>2. Tail(inbox[cur]) = SubSeq(inbox[cur], 1 + 1, Len(inbox[cur])) /\ 1 \in 1 .. Len(inbox[cur])
    BY <2>1, TailIsSubSeq, EmptySeq, LenProperties
  <2> QED
    BY <1>a, <1>6, <2>2 DEF RecvGarbage
<1>7. CASE SendRequest
  <2>1. inQueue = <<>> /\ inQueue' = XQueueSend(inQueue, rcall)
    BY <1>7 DEF SendRequest
  <2>2. InQueue(inQueue') = {rcall}
    BY <2>1, SendToEmpty
  <2> QED
    BY <1>7, <2>2, StillOver DEF SendRequest, clientVars, taskVars
<1>8. CASE ForgetRequest \/ ReceiveResponse \/ Reply \/ ReplyFails
  BY <1>8, StillOver DEF ForgetRequest, ReceiveResponse, Reply, ReplyFails, clientVars, taskVars, queueVars
<1>9. CASE TaskReceive
  <2>1. /\ inQueue # <<>> /\ inQueue[1] \in Request /\ taskCall' = inQueue[1] /\ inQueue' = <<>>
        /\ UNCHANGED <<inbox, issued, srvPc>> /\ srvPc # "send"
    BY <1>9, OneSlot DEF TaskReceive, clientVars, serverVars
  <2>2. InService(inQueue[1])
    BY <2>1 DEF InService
  <2>3. /\ inQueue[1].from = cur /\ inQueue[1].id <= issued[cur]
        /\ \A i \in 1 .. Len(inbox[cur]) : inQueue[1].id < inbox[cur][i].id
    BY <2>1, <2>2 DEF ServiceOrder
  <2> QED
    BY <2>1, <2>3 DEF CallIsOver, InQueue
<1>10. CASE TaskRoute \/ TaskSend
  BY <1>10, StillOver DEF TaskRoute, TaskSend, clientVars, serverVars, queueVars
<1>11. CASE TaskRouteRaises \/ TaskForget
  BY <1>11 DEF TaskRouteRaises, TaskForget, CallIsOver
<1> QED
  BY <1>1, <1>2, <1>3, <1>4, <1>5, <1>6, <1>7, <1>8, <1>9, <1>10, <1>11
  DEF Next, Environment, Server, Task
\* A node is made by its task, changes hands with a send and a receive, and ends with the
\* scope of the last local that has it.
LEMMA OwnersStep ==
    ASSUME IInv, OwnersInv, [Next]_vars
    PROVE  OwnersInv'
<1> USE NoNodeAssumption DEF IInv, TypeOK, LockStep, NodesInPlace, OwnersInv, Held
<1>0. CallIsOver'
  BY CallIsOverStep
<1>1. CASE UNCHANGED vars
  BY <1>0, <1>1 DEF vars, InQueue
<1>2. CASE Environment
  BY <1>0, <1>2 DEF Environment, ClientSend, ClientClose, serverVars, taskVars, queueVars, heapVars, InQueue
<1>3. CASE Select \/ (\E c \in Clients : Dispatch(c)) \/ BatchDone \/ RecvDisconnected \/ RecvGarbage
  BY <1>0, <1>3 DEF Select, Dispatch, BatchDone, RecvDisconnected, RecvGarbage, taskVars, queueVars,
        heapVars, InQueue
<1>4. CASE RecvRequest
  BY <1>0, <1>4 DEF RecvRequest, taskVars, queueVars, InQueue
<1>5. CASE SendRequest
  <2>1. inQueue = <<>> /\ inQueue' = XQueueSend(inQueue, rcall)
    BY <1>5 DEF SendRequest
  <2>2. InQueue(inQueue') = {rcall}
    BY <2>1, SendToEmpty
  <2> QED
    BY <1>0, <1>5, <2>1, <2>2 DEF SendRequest, taskVars, heapVars, InQueue
<1>6. CASE ForgetRequest
  BY <1>0, <1>6 DEF ForgetRequest, taskVars, queueVars, heapVars, InQueue
<1>7. CASE ReceiveResponse
  <2>1. outQueue' = <<>> /\ res' = outQueue[1] /\ outQueue # <<>>
    BY <1>7, OneSlot DEF ReceiveResponse
  <2>2. replies' = replies /\ taskPc' = taskPc /\ taskRes' = taskRes /\ srvPc' = "reply" /\ taskPc # "send"
    BY <1>7 DEF ReceiveResponse, taskVars, heapVars
  <2>3. /\ calls' = calls /\ rcall' = rcall /\ inQueue' = inQueue /\ taskCall' = taskCall /\ srvPc = "wait"
    BY <1>7 DEF ReceiveResponse, taskVars, heapVars
  <2> QED
    BY <1>0, <2>1, <2>2, <2>3 DEF InQueue
<1>8. CASE Reply \/ ReplyFails
  <2>1. /\ calls' = calls \ {rcall} /\ replies' = replies \ {res} /\ rcall' = NoNode
        /\ srvPc = "reply" /\ srvPc' \notin {"send", "reply"} /\ UNCHANGED <<taskVars, queueVars>>
    BY <1>8 DEF Reply, ReplyFails, Destroyed
  <2>2. rcall \notin calls
    BY <2>1
  <2>3. replies = {res} /\ taskPc # "send"
    BY <2>1 DEF InQueue
  <2> QED
    BY <1>0, <2>1, <2>2, <2>3 DEF taskVars, queueVars, InQueue
<1>9. CASE TaskReceive
  <2>1. inQueue' = <<>> /\ taskCall' = inQueue[1] /\ inQueue # <<>>
    BY <1>9, OneSlot DEF TaskReceive
  <2> QED
    BY <1>0, <1>9, <2>1 DEF TaskReceive, serverVars, heapVars, InQueue
<1>10. CASE TaskRoute
  <2>1. outQueue = <<>> /\ srvPc # "reply"
    BY <1>10 DEF TaskRoute
  <2> QED
    BY <1>0, <1>10, <2>1 DEF TaskRoute, serverVars, queueVars, InQueue
<1>11. CASE TaskRouteRaises
  <2>1. inQueue = <<>> /\ srvPc # "send" /\ calls = {taskCall}
    BY <1>11 DEF TaskRouteRaises, InQueue
  <2> QED
    BY <1>0, <1>11, <2>1 DEF TaskRouteRaises, Destroyed, serverVars, queueVars, InQueue
<1>12. CASE TaskSend
  <2>1. outQueue = <<>> /\ outQueue' = XQueueSend(outQueue, taskRes)
    BY <1>12 DEF TaskSend
  <2>2. InQueue(outQueue') = {taskRes}
    BY <2>1, SendToEmpty
  <2> QED
    BY <1>0, <1>12, <2>1, <2>2 DEF TaskSend, serverVars, heapVars, InQueue
<1>13. CASE TaskForget
  <2>1. calls' = calls \ {taskCall} /\ taskPc # "receive" /\ taskPc' = "receive" /\ UNCHANGED <<serverVars, queueVars>>
    BY <1>13 DEF TaskForget, Destroyed
  <2>2. (srvPc = "send" => rcall # taskCall) /\ taskCall \notin InQueue(inQueue)
    BY <2>1 DEF CallIsOver
  <2>3. calls' = Held(rcall, srvPc = "send") \union InQueue(inQueue)
    BY <2>1, <2>2
  <2> QED
    BY <1>0, <1>13, <2>1, <2>3 DEF TaskForget, serverVars, queueVars, InQueue
<1> QED
  BY <1>1, <1>2, <1>3, <1>4, <1>5, <1>6, <1>7, <1>8, <1>9, <1>10, <1>11, <1>12, <1>13
  DEF Next, Server, Task

\* Every node that was decoded or built is owned by one place, which passes it on or
\* destroys it: none leaks, and none is destroyed twice, in whatever order the tasks run.
THEOREM OneOwner == Spec => []NodesOwnedOnce
<1>1. Init => OwnersInv
  BY DEF Init, OwnersInv, CallIsOver, Held, InQueue
<1>2. IInv /\ OwnersInv /\ [Next]_vars => OwnersInv'
  BY OwnersStep
<1>3. IInv /\ OwnersInv => NodesOwnedOnce
  <2> SUFFICES ASSUME IInv, OwnersInv PROVE NodesOwnedOnce
    OBVIOUS
  <2>1. Range(inQueue) = InQueue(inQueue) /\ Range(outQueue) = InQueue(outQueue)
    BY QueueOwns DEF IInv, TypeOK, LockStep
  <2>2. srvPc = "send" => InQueue(inQueue) = {}
    BY DEF IInv, LockStep, InQueue
  <2>3. taskPc = "send" => InQueue(outQueue) = {}
    BY DEF IInv, LockStep, InQueue
  <2> QED
    BY <2>1, <2>2, <2>3 DEF OwnersInv, NodesOwnedOnce, CallOwners, ReplyOwners
<1> QED
  BY <1>1, <1>2, <1>3, Invariance, PTL DEF Spec
=============================================================================
