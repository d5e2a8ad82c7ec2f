------------------------------ MODULE RpcQueue ------------------------------
(***************************************************************************)
(* The queued MessagePack RPC server (servers/rpc/rpcsocket_queue_mpack.nim *)
(* on servers/tcpsocket.nim).  Two FreeRTOS tasks: the server task runs the *)
(* select loop and the read handler, the RPC task runs the router.  They    *)
(* hand one pointer to a JsonNode to each other through two queues.         *)
(*                                                                          *)
(* A request is known by the client that made it and its number; a response *)
(* carries the request it answers.  The client is not in the message the    *)
(* code sends: which socket gets a response is decided by control flow      *)
(* only, and the tag is there to say so.                                    *)
(***************************************************************************)
EXTENDS Naturals, Sequences, Functions

CONSTANTS
    Clients,        \* accepted TCP connections
    MaxRequests,    \* bound: requests each client makes
    Pipeline,       \* requests a client sends without waiting for an answer
    NoNode,         \* a nil JsonNode
    ParseMayFail,   \* can a received buffer be no MessagePack object?
    RouteMayRaise,  \* can route raise instead of building a reply?
    SendMayFail     \* can a send to a client fail?

ASSUME BoundsAssumption == MaxRequests \in Nat /\ Pipeline \in Nat \ {0}
ASSUME FaultsAssumption ==
    /\ ParseMayFail \in BOOLEAN
    /\ RouteMayRaise \in BOOLEAN
    /\ SendMayFail \in BOOLEAN

Request == [from : Clients, id : 1 .. MaxRequests]

ASSUME NoNodeAssumption == NoNode \notin Request

VARIABLES
    conn,       \* conn[c]: "open", "closed" by the client, or "gone" from the table
    issued,     \* issued[c]: requests c has written so far
    inbox,      \* inbox[c]: requests written by c that the server has not received
    outbox,     \* outbox[c]: responses written to c
    srvPc,      \* where the server task is
    batch,      \* clients select() reported and the loop has not dispatched
    cur,        \* client whose read handler runs (or ran last)
    rcall,      \* the handler's local rcall
    res,        \* the handler's local res
    inQueue,    \* requests on their way to the RPC task
    outQueue,   \* responses on their way back
    taskPc,     \* where the RPC task is
    taskCall,   \* the RPC task's local rcall
    taskRes,    \* the RPC task's local res
    raised,     \* history: has route raised, so that no response was queued?
    calls,      \* request nodes that are allocated
    replies     \* response nodes that are allocated

clientVars == <<conn, issued, inbox, outbox>>
serverVars == <<srvPc, batch, cur, rcall, res>>
taskVars == <<taskPc, taskCall, taskRes, raised>>
queueVars == <<inQueue, outQueue>>
heapVars == <<calls, replies>>
vars == <<conn, issued, inbox, outbox, srvPc, batch, cur, rcall, res,
          inQueue, outQueue, taskPc, taskCall, taskRes, raised, calls, replies>>

ServerPcs == {"select", "dispatch", "recv", "send", "moved", "wait", "reply", "dead"}
TaskPcs == {"receive", "route", "send", "moved"}

\* xQueueCreate(1, sizeof(JsonNode)), for both queues.
QueueLength == 1

\* xQueueSend with a timeout and a discarded result: when the queue stays full
\* for the whole wait the item is not queued and the caller goes on.
XQueueSend(q, item) == IF Len(q) < QueueLength THEN Append(q, item) ELSE q

\* Going out of scope destroys what a local still refers to.
Destroyed(heap, local) == heap \ {local}

Init ==
    /\ conn = [c \in Clients |-> "open"]
    /\ issued = [c \in Clients |-> 0]
    /\ inbox = [c \in Clients |-> <<>>]
    /\ outbox = [c \in Clients |-> <<>>]
    /\ srvPc = "select"
    /\ batch = {}
    /\ cur \in Clients
    /\ rcall = NoNode
    /\ res = NoNode
    /\ inQueue = <<>>
    /\ outQueue = <<>>
    /\ taskPc = "receive"
    /\ taskCall = NoNode
    /\ taskRes = NoNode
    /\ raised = FALSE
    /\ calls = {}
    /\ replies = {}

-----------------------------------------------------------------------------
(* The clients. *)

ClientSend(c) ==
    /\ conn[c] = "open"
    /\ issued[c] < MaxRequests
    /\ issued[c] < Len(outbox[c]) + Pipeline
    /\ issued' = [issued EXCEPT ![c] = @ + 1]
    /\ inbox' = [inbox EXCEPT ![c] = Append(@, [from |-> c, id |-> issued[c] + 1])]
    /\ UNCHANGED <<conn, outbox>>
    /\ UNCHANGED <<serverVars, taskVars, queueVars, heapVars>>

ClientClose(c) ==
    /\ conn[c] = "open"
    /\ conn' = [conn EXCEPT ![c] = "closed"]
    /\ UNCHANGED <<issued, inbox, outbox>>
    /\ UNCHANGED <<serverVars, taskVars, queueVars, heapVars>>

-----------------------------------------------------------------------------
(* The server task: the loop of startSocketServer and processReads. *)

\* What the selector reports: data to read, or the end of the stream.
Readable(c) == conn[c] # "gone" /\ (inbox[c] # <<>> \/ conn[c] = "closed")

Select ==
    /\ srvPc = "select"
    /\ \E c \in Clients : Readable(c)
    /\ batch' = {c \in Clients : Readable(c)}
    /\ srvPc' = "dispatch"
    /\ UNCHANGED <<cur, rcall, res>>
    /\ UNCHANGED <<clientVars, taskVars, queueVars, heapVars>>

Dispatch(c) ==
    /\ srvPc = "dispatch"
    /\ c \in batch
    /\ batch' = batch \ {c}
    /\ cur' = c
    /\ srvPc' = "recv"
    /\ UNCHANGED <<rcall, res>>
    /\ UNCHANGED <<clientVars, taskVars, queueVars, heapVars>>

BatchDone ==
    /\ srvPc = "dispatch"
    /\ batch = {}
    /\ srvPc' = "select"
    /\ UNCHANGED <<batch, cur, rcall, res>>
    /\ UNCHANGED <<clientVars, taskVars, queueVars, heapVars>>

-----------------------------------------------------------------------------
(* The server task: rpcMsgPackQueueReadHandler. *)

\* recv takes what has arrived, up to the buffer size: one request or several.
\* Only the first object of the buffer is decoded, the others go with it.
RecvRequest ==
    /\ srvPc = "recv"
    /\ inbox[cur] # <<>>
    /\ \E n \in 1 .. Len(inbox[cur]) :
          inbox' = [inbox EXCEPT ![cur] = SubSeq(@, n + 1, Len(@))]
    /\ rcall' = Head(inbox[cur])
    /\ calls' = calls \union {Head(inbox[cur])}
    /\ srvPc' = "send"
    /\ UNCHANGED <<conn, issued, outbox, batch, cur, res, replies>>
    /\ UNCHANGED <<taskVars, queueVars>>

\* toJsonNode raises; nothing in the handler or the loop catches it.
RecvGarbage ==
    /\ ParseMayFail
    /\ srvPc = "recv"
    /\ inbox[cur] # <<>>
    /\ inbox' = [inbox EXCEPT ![cur] = Tail(@)]
    /\ srvPc' = "dead"
    /\ UNCHANGED <<conn, issued, outbox, batch, cur, rcall, res>>
    /\ UNCHANGED <<taskVars, queueVars, heapVars>>

\* An empty buffer is the end of the stream: TcpClientDisconnected.
RecvDisconnected ==
    /\ srvPc = "recv"
    /\ inbox[cur] = <<>>
    /\ conn[cur] = "closed"
    /\ conn' = [conn EXCEPT ![cur] = "gone"]
    /\ srvPc' = "dispatch"
    /\ UNCHANGED <<issued, inbox, outbox, batch, cur, rcall, res>>
    /\ UNCHANGED <<taskVars, queueVars, heapVars>>

SendRequest ==
    /\ srvPc = "send"
    /\ inQueue' = XQueueSend(inQueue, rcall)
    /\ srvPc' = "moved"
    /\ UNCHANGED <<batch, cur, rcall, res, outQueue>>
    /\ UNCHANGED <<clientVars, taskVars, heapVars>>

\* Mutation of ForgetRequest: wasMoved is left out.
ForgetRequestKeepsNode ==
    /\ srvPc = "moved"
    /\ srvPc' = "wait"
    /\ UNCHANGED <<batch, cur, rcall, res>>
    /\ UNCHANGED <<clientVars, taskVars, queueVars, heapVars>>

\* wasMoved(rcall): the queue owns the node now.
ForgetRequest ==
    /\ srvPc = "moved"
    /\ rcall' = NoNode
    /\ srvPc' = "wait"
    /\ UNCHANGED <<batch, cur, res>>
    /\ UNCHANGED <<clientVars, taskVars, queueVars, heapVars>>

\* Mutation of ReceiveResponse: one wait without the loop, so a handler whose wait
\* times out returns without a response.
ReceiveResponseOnce ==
    /\ srvPc = "wait"
    /\ \/ /\ outQueue # <<>>
          /\ res' = Head(outQueue)
          /\ outQueue' = Tail(outQueue)
          /\ srvPc' = "reply"
       \/ /\ outQueue = <<>>
          /\ srvPc' = "dispatch"
          /\ UNCHANGED <<res, outQueue>>
    /\ UNCHANGED <<batch, cur, rcall, inQueue>>
    /\ UNCHANGED <<clientVars, taskVars, heapVars>>

\* Mutation of ReceiveResponse: xQueuePeek, which leaves the item in the queue.
ReceiveResponsePeeks ==
    /\ srvPc = "wait"
    /\ outQueue # <<>>
    /\ res' = Head(outQueue)
    /\ srvPc' = "reply"
    /\ UNCHANGED <<batch, cur, rcall, inQueue, outQueue>>
    /\ UNCHANGED <<clientVars, taskVars, heapVars>>

\* The loop around xQueueReceive: a wait that times out starts again.
ReceiveResponse ==
    /\ srvPc = "wait"
    /\ outQueue # <<>>
    /\ res' = Head(outQueue)
    /\ outQueue' = Tail(outQueue)
    /\ srvPc' = "reply"
    /\ UNCHANGED <<batch, cur, rcall, inQueue>>
    /\ UNCHANGED <<clientVars, taskVars, heapVars>>

\* fromJsonNode, sendLength, sendChunks, and the end of the handler's scope.
Reply ==
    /\ srvPc = "reply"
    /\ outbox' = [outbox EXCEPT ![cur] = Append(@, res)]
    /\ calls' = Destroyed(calls, rcall)
    /\ replies' = Destroyed(replies, res)
    /\ rcall' = NoNode
    /\ res' = NoNode
    /\ srvPc' = "dispatch"
    /\ UNCHANGED <<conn, issued, inbox, batch, cur>>
    /\ UNCHANGED <<taskVars, queueVars>>

\* A send raises OSError: the locals are destroyed, the server task is left.
ReplyFails ==
    /\ SendMayFail
    /\ srvPc = "reply"
    /\ calls' = Destroyed(calls, rcall)
    /\ replies' = Destroyed(replies, res)
    /\ rcall' = NoNode
    /\ res' = NoNode
    /\ srvPc' = "dead"
    /\ UNCHANGED <<batch, cur>>
    /\ UNCHANGED <<clientVars, taskVars, queueVars>>

-----------------------------------------------------------------------------
(* The RPC task: execRpcSocketTask. *)

\* Mutation of TaskReceive: a finite wait whose result is not looked at.
TaskReceiveUnchecked ==
    /\ taskPc = "receive"
    /\ taskCall' = IF inQueue = <<>> THEN NoNode ELSE Head(inQueue)
    /\ inQueue' = IF inQueue = <<>> THEN inQueue ELSE Tail(inQueue)
    /\ taskPc' = "route"
    /\ UNCHANGED <<taskRes, raised, outQueue>>
    /\ UNCHANGED <<clientVars, serverVars, heapVars>>

TaskReceive ==
    /\ taskPc = "receive"
    /\ inQueue # <<>>
    /\ taskCall' = Head(inQueue)
    /\ inQueue' = Tail(inQueue)
    /\ taskPc' = "route"
    /\ UNCHANGED <<taskRes, raised, outQueue>>
    /\ UNCHANGED <<clientVars, serverVars, heapVars>>

\* Mutation of TaskRoute: a call that ends in an error reply is only logged.
TaskRouteDropsErrors ==
    /\ taskPc = "route"
    /\ \/ /\ taskRes' = taskCall
          /\ replies' = replies \union {taskCall}
          /\ taskPc' = "send"
       \/ /\ taskPc' = "moved"
          /\ UNCHANGED <<taskRes, replies>>
    /\ UNCHANGED <<taskCall, raised, calls>>
    /\ UNCHANGED <<clientVars, serverVars, queueVars>>

\* route returns a reply: a result, METHOD_NOT_FOUND or SERVER_ERROR.
TaskRoute ==
    /\ taskPc = "route"
    /\ taskRes' = taskCall
    /\ replies' = replies \union {taskCall}
    /\ taskPc' = "send"
    /\ UNCHANGED <<taskCall, raised, calls>>
    /\ UNCHANGED <<clientVars, serverVars, queueVars>>

\* route raises (no "id" or "method", a Defect in a procedure): the bare except
\* of the loop logs it, and no response is ever queued.
TaskRouteRaises ==
    /\ RouteMayRaise
    /\ taskPc = "route"
    /\ calls' = Destroyed(calls, taskCall)
    /\ taskCall' = NoNode
    /\ taskPc' = "receive"
    /\ raised' = TRUE
    /\ UNCHANGED <<taskRes, replies>>
    /\ UNCHANGED <<clientVars, serverVars, queueVars>>

TaskSend ==
    /\ taskPc = "send"
    /\ outQueue' = XQueueSend(outQueue, taskRes)
    /\ taskPc' = "moved"
    /\ UNCHANGED <<taskCall, taskRes, raised, inQueue>>
    /\ UNCHANGED <<clientVars, serverVars, heapVars>>

\* wasMoved(res), and the end of the scope of rcall.
TaskForget ==
    /\ taskPc = "moved"
    /\ taskRes' = NoNode
    /\ calls' = Destroyed(calls, taskCall)
    /\ taskCall' = NoNode
    /\ taskPc' = "receive"
    /\ UNCHANGED <<raised, replies>>
    /\ UNCHANGED <<clientVars, serverVars, queueVars>>

-----------------------------------------------------------------------------

Environment == \E c \in Clients : ClientSend(c) \/ ClientClose(c)

Server ==
    \/ Select
    \/ \E c \in Clients : Dispatch(c)
    \/ BatchDone
    \/ RecvRequest \/ RecvGarbage \/ RecvDisconnected
    \/ SendRequest \/ ForgetRequest \/ ReceiveResponse
    \/ Reply \/ ReplyFails

Task == TaskReceive \/ TaskRoute \/ TaskRouteRaises \/ TaskSend \/ TaskForget

Next == Environment \/ Server \/ Task

Spec == Init /\ [][Next]_vars

\* Both tasks have the same priority and no affinity: FreeRTOS time slicing
\* runs a task that stays ready.
FairSpec == Spec /\ WF_vars(Server) /\ WF_vars(Task)

-----------------------------------------------------------------------------

TypeOK ==
    /\ conn \in [Clients -> {"open", "closed", "gone"}]
    /\ issued \in [Clients -> 0 .. MaxRequests]
    /\ inbox \in [Clients -> Seq(Request)]
    /\ outbox \in [Clients -> Seq(Request)]
    /\ srvPc \in ServerPcs
    /\ batch \in SUBSET Clients
    /\ cur \in Clients
    /\ rcall \in Request \union {NoNode}
    /\ res \in Request \union {NoNode}
    /\ inQueue \in Seq(Request)
    /\ outQueue \in Seq(Request)
    /\ taskPc \in TaskPcs
    /\ taskCall \in Request \union {NoNode}
    /\ taskRes \in Request \union {NoNode}
    /\ raised \in BOOLEAN
    /\ calls \in SUBSET Request
    /\ replies \in SUBSET Request

Held(local, there) == IF there THEN {local} ELSE {}

\* The places that own a request node, and those that own a response node.
CallOwners ==
    Held(rcall, srvPc = "send") \union Range(inQueue) \union Held(taskCall, taskPc # "receive")

ReplyOwners ==
    Held(taskRes, taskPc = "send") \union Range(outQueue) \union Held(res, srvPc = "reply")

\* Nobody reads the result of xQueueSend: a request that finds its queue full is
\* lost and its client waits for ever.  The queues have one slot each, and the
\* hand-over is in lock step: there is always room when a task comes to send.
QueuesHaveRoom ==
    /\ srvPc = "send" => Len(inQueue) < QueueLength
    /\ taskPc = "send" => Len(outQueue) < QueueLength

\* The response has no address: the handler writes whatever comes out of
\* outQueue to the client it is serving.  Still each client only gets answers to
\* its own requests, each once, and in the order it made them.
AnswersGoHome ==
    \A c \in Clients :
        /\ \A i \in 1 .. Len(outbox[c]) : outbox[c][i].from = c
        /\ \A i, j \in 1 .. Len(outbox[c]) : i < j => outbox[c][i].id < outbox[c][j].id

\* The queues carry bare pointers to reference-counted nodes, and wasMoved is what
\* hands the reference over.  Every allocated node is owned by exactly one place
\* that will destroy it or pass it on: none leaks, and none is destroyed twice.
NodesOwnedOnce ==
    /\ calls = CallOwners
    /\ replies = ReplyOwners
    /\ srvPc \notin {"send", "moved"} => rcall = NoNode
    /\ taskPc \notin {"send", "moved"} => taskRes = NoNode
    /\ srvPc = "send" => rcall \notin Range(inQueue)
    /\ taskPc = "send" => taskRes \notin Range(outQueue)

\* What QueuesHaveRoom and AnswersGoHome rest on.  The one request in service moves
\* from place to place, and r is in service while one of them holds it.
InService(r) ==
    \/ srvPc = "send" /\ r = rcall
    \/ inQueue # <<>> /\ r = inQueue[1]
    \/ taskPc = "route" /\ r = taskCall
    \/ taskPc = "send" /\ r = taskRes
    \/ outQueue # <<>> /\ r = outQueue[1]
    \/ srvPc = "reply" /\ r = res

\* Between the hand-over of a request and the response nothing else is handed
\* over, and outside that window the queues and the RPC task are empty.
LockStep ==
    /\ Len(inQueue) <= 1 /\ Len(outQueue) <= 1
    /\ srvPc \notin {"moved", "wait"} =>
          inQueue = <<>> /\ outQueue = <<>> /\ taskPc \notin {"route", "send"}
    /\ inQueue # <<>> => outQueue = <<>> /\ taskPc \notin {"route", "send"}
    /\ outQueue # <<>> => taskPc \notin {"route", "send"}

\* A place holds a node when its program counter says so.
NodesInPlace ==
    /\ srvPc = "send" => rcall \in Request
    /\ srvPc = "reply" => res \in Request
    /\ taskPc = "route" => taskCall \in Request
    /\ taskPc = "send" => taskRes \in Request

\* A request in service is the served client's, younger than all it got answers to
\* and older than all it has waiting.
ServiceOrder ==
    \A r \in Request : InService(r) =>
        /\ r.from = cur
        /\ r.id <= issued[cur]
        /\ \A i \in 1 .. Len(outbox[cur]) : outbox[cur][i].id < r.id
        /\ \A i \in 1 .. Len(inbox[cur]) : r.id < inbox[cur][i].id

\* The streams of each client are its own and in order.
StreamOrder ==
    \A c \in Clients :
        /\ \A i \in 1 .. Len(inbox[c]) : inbox[c][i].from = c /\ inbox[c][i].id <= issued[c]
        /\ \A i, j \in 1 .. Len(inbox[c]) : i < j => inbox[c][i].id < inbox[c][j].id
        /\ \A i \in 1 .. Len(outbox[c]) : outbox[c][i].id <= issued[c]
        /\ \A i \in 1 .. Len(outbox[c]), j \in 1 .. Len(inbox[c]) :
              outbox[c][i].id < inbox[c][j].id

\* The inductive invariant.
IInv ==
    /\ TypeOK
    /\ LockStep
    /\ NodesInPlace
    /\ ServiceOrder
    /\ StreamOrder
    /\ AnswersGoHome

\* The server answers like RpcExchange: at most once, to the right client, in order.
PendingOf(c) ==
    {n \in 1 .. MaxRequests : \/ InService([from |-> c, id |-> n])
                              \/ \E i \in 1 .. Len(inbox[c]) : inbox[c][i].id = n}

AnsweredOf(c) == [i \in 1 .. Len(outbox[c]) |-> outbox[c][i].id]

Exchange == INSTANCE RpcExchange WITH
    pending <- [c \in Clients |-> PendingOf(c)],
    answered <- [c \in Clients |-> AnsweredOf(c)]

ImplementsExchange == Exchange!Spec

\* The oldest request a client has waiting at the server is answered, whatever the
\* other clients do, unless the client hangs up, an exception ends the server, or a
\* procedure raised and left the handler without a response.  A client that waits for
\* each answer thus gets all of them; a younger request in the same packet may be
\* thrown away.
OldestIsAnswered ==
    \A c \in Clients : \A n \in 1 .. MaxRequests :
        (inbox[c] # <<>> /\ Head(inbox[c]).id = n)
            ~> \/ conn[c] # "open" \/ srvPc = "dead" \/ raised
               \/ \E i \in DOMAIN outbox[c] : outbox[c][i].id = n
=============================================================================
