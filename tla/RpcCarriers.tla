----------------------------- MODULE RpcCarriers -----------------------------
(***************************************************************************)
(* The other servers of the router.  Three hand requests to an RPC task, and *)
(* differ from RpcQueue in what crosses the queues:                         *)
(*   "slots"    rpcsocket_queue_arr_mpack.nim: indices of two cells of a     *)
(*              global array, cell 0 for requests and cell 1 for responses;  *)
(*   "channel"  rpcsocket_channel_mpack.nim: copies of strings;              *)
(*   "pointer"  rpcsocket_queue_mpackstr.nim: addresses, of the handler's    *)
(*              own string and of a malloc'd buffer.                         *)
(* In the fourth, "json", rpcsocket_json.nim, the handler calls route itself. *)
(*                                                                          *)
(* Connections are as in RpcQueue and TcpServer; here clients stay, and the *)
(* select loop picks any client that has something to read.                 *)
(***************************************************************************)
EXTENDS Naturals, Sequences

CONSTANTS
    Clients,        \* connections
    MaxRequests,    \* bound: requests each client makes
    NoData,         \* an empty cell, or a string that is gone
    BadRequests,    \* can a request be no JSON or MessagePack?
    RouteMayRaise,  \* can route raise?
    SendMayFail     \* can the send of a response fail?

ASSUME BoundsAssumption == MaxRequests \in Nat

Request == [from : Clients, id : 1 .. MaxRequests]

ASSUME NoDataAssumption == NoData \notin Request

VARIABLES
    carrier,    \* which of the servers this is
    issued,     \* issued[c]: requests c has made
    inbox,      \* inbox[c]: requests of c the server has not received
    outbox,     \* outbox[c]: responses written to c
    srvPc,      \* the handler: "select", "send", "wait", "route", "reply", "dead"
    cur,        \* the client it serves
    res,        \* its response, or the request the handler itself routes
    mem,        \* what the two shared places hold, "req" and "rsp"
    inQueue,    \* items on their way to the RPC task
    outQueue,   \* items on their way back
    taskPc,     \* the RPC task: "receive", "route", "send"
    taskCall    \* its request

clientVars == <<issued, inbox, outbox>>
serverVars == <<srvPc, cur, res>>
taskVars == <<taskPc, taskCall>>
vars == <<carrier, issued, inbox, outbox, srvPc, cur, res, mem, inQueue, outQueue, taskPc, taskCall>>

Init ==
    /\ carrier \in {"slots", "channel", "pointer", "json"}
    /\ issued = [c \in Clients |-> 0]
    /\ inbox = [c \in Clients |-> <<>>]
    /\ outbox = [c \in Clients |-> <<>>]
    /\ srvPc = "select"
    /\ cur \in Clients
    /\ res = NoData
    /\ mem = [req |-> NoData, rsp |-> NoData]
    /\ inQueue = <<>>
    /\ outQueue = <<>>
    /\ taskPc = "receive"
    /\ taskCall = NoData

\* What is queued: a place, or the data itself.
Item(place) == IF carrier = "channel" THEN mem[place] ELSE [place |-> place]

\* What the receiver of an item reads.
Data(item) == IF carrier = "channel" THEN item ELSE mem[item.place]

\* xQueueSend on a queue of one, its result discarded; a channel has no bound.
Send(q, item) == IF carrier = "channel" \/ q = <<>> THEN Append(q, item) ELSE q

-----------------------------------------------------------------------------

ClientSend(c) ==
    /\ issued[c] < MaxRequests
    /\ issued' = [issued EXCEPT ![c] = @ + 1]
    /\ inbox' = [inbox EXCEPT ![c] = Append(@, [from |-> c, id |-> issued[c] + 1])]
    /\ UNCHANGED <<carrier, outbox, serverVars, mem, inQueue, outQueue, taskVars>>

-----------------------------------------------------------------------------
(* rpcMsgPackQueueReadHandler. *)

\* recv, up to what has arrived; the first object counts.  Into cell 0, or into msg.
RecvRequest(c) ==
    /\ carrier # "json"
    /\ srvPc = "select"
    /\ inbox[c] # <<>>
    /\ \E n \in 1 .. Len(inbox[c]) : inbox' = [inbox EXCEPT ![c] = SubSeq(@, n + 1, Len(@))]
    /\ mem' = [mem EXCEPT !.req = Head(inbox[c])]
    /\ cur' = c
    /\ srvPc' = "send"
    /\ UNCHANGED <<carrier, issued, outbox, res, inQueue, outQueue, taskVars>>

\* parseJson wants the end of its text after the first value: two requests that arrived
\* together raise.
RecvJson(c) ==
    /\ carrier = "json"
    /\ srvPc = "select"
    /\ \E n \in 1 .. Len(inbox[c]) :
        /\ inbox' = [inbox EXCEPT ![c] = SubSeq(@, n + 1, Len(@))]
        /\ IF n = 1 THEN srvPc' = "route" /\ res' = Head(inbox[c])
                    ELSE srvPc' = "dead" /\ UNCHANGED res
    /\ cur' = c
    /\ UNCHANGED <<carrier, issued, outbox, mem, inQueue, outQueue, taskVars>>

RouteInline ==
    /\ srvPc = "route"
    /\ srvPc' = "reply" \/ (RouteMayRaise /\ srvPc' = "dead")
    /\ UNCHANGED <<carrier, clientVars, cur, res, mem, inQueue, outQueue, taskVars>>

\* Two of the servers parse in the handler: toJsonNode and parseJson raise.
RecvGarbage(c) ==
    /\ BadRequests /\ carrier \in {"slots", "json"}
    /\ srvPc = "select"
    /\ inbox[c] # <<>>
    /\ inbox' = [inbox EXCEPT ![c] = Tail(@)]
    /\ cur' = c
    /\ srvPc' = "dead"
    /\ UNCHANGED <<carrier, issued, outbox, res, mem, inQueue, outQueue, taskVars>>

SendRequest ==
    /\ srvPc = "send"
    /\ inQueue' = Send(inQueue, Item("req"))
    /\ srvPc' = "wait"
    /\ UNCHANGED <<carrier, clientVars, cur, res, mem, outQueue, taskVars>>

ReceiveResponse ==
    /\ srvPc = "wait"
    /\ outQueue # <<>>
    /\ res' = Data(Head(outQueue))
    /\ outQueue' = Tail(outQueue)
    /\ srvPc' = "reply"
    /\ UNCHANGED <<carrier, clientVars, cur, mem, inQueue, taskVars>>

\* The end of the handler's scope destroys msg.
ScopeEnds == mem' = IF carrier = "slots" THEN mem ELSE [mem EXCEPT !.req = NoData]

\* Mutation of Reply: the handler is left while the response is still looked at.
ReplyTwice ==
    /\ srvPc = "reply"
    /\ outbox' = [outbox EXCEPT ![cur] = Append(@, res)]
    /\ srvPc' \in {"select", "reply"}
    /\ ScopeEnds
    /\ UNCHANGED <<carrier, issued, inbox, cur, res, inQueue, outQueue, taskVars>>

Reply ==
    /\ srvPc = "reply"
    /\ outbox' = [outbox EXCEPT ![cur] = Append(@, res)]
    /\ srvPc' = "select"
    /\ ScopeEnds
    /\ UNCHANGED <<carrier, issued, inbox, cur, res, inQueue, outQueue, taskVars>>

\* Two of the servers discard the result of their send; the others raise.
ReplyFails ==
    /\ SendMayFail
    /\ srvPc = "reply"
    /\ srvPc' = IF carrier \in {"pointer", "json"} THEN "select" ELSE "dead"
    /\ ScopeEnds
    /\ UNCHANGED <<carrier, clientVars, cur, res, inQueue, outQueue, taskVars>>

-----------------------------------------------------------------------------
(* The RPC task. *)

\* Mutation of TaskReceive: the index or the address is taken for the data.
TaskReceiveItem ==
    /\ taskPc = "receive"
    /\ inQueue # <<>>
    /\ taskCall' = Head(inQueue)
    /\ inQueue' = Tail(inQueue)
    /\ taskPc' = "route"
    /\ UNCHANGED <<carrier, clientVars, serverVars, mem, outQueue>>

\* Cell 0 is emptied; a string behind a pointer is copied.
TaskReceive ==
    /\ taskPc = "receive"
    /\ inQueue # <<>>
    /\ taskCall' = Data(Head(inQueue))
    /\ mem' = IF carrier = "slots" THEN [mem EXCEPT ![Head(inQueue).place] = NoData] ELSE mem
    /\ inQueue' = Tail(inQueue)
    /\ taskPc' = "route"
    /\ UNCHANGED <<carrier, clientVars, serverVars, outQueue>>

\* Mutation of TaskRoute: the response goes into the cell the request came in.
TaskRouteInPlace ==
    /\ taskPc = "route"
    /\ mem' = [mem EXCEPT !.req = taskCall]
    /\ taskPc' = "send"
    /\ UNCHANGED <<carrier, clientVars, serverVars, inQueue, outQueue, taskCall>>

\* route, and its reply into cell 1, a string, or a buffer from malloc.
TaskRoute ==
    /\ taskPc = "route"
    /\ mem' = [mem EXCEPT !.rsp = taskCall]
    /\ taskPc' = "send"
    /\ UNCHANGED <<carrier, clientVars, serverVars, inQueue, outQueue, taskCall>>

\* route raises, or parseJson in the two servers whose task parses.
TaskRaises ==
    /\ RouteMayRaise \/ (BadRequests /\ carrier # "slots")
    /\ taskPc = "route"
    /\ taskPc' = "receive"
    /\ UNCHANGED <<carrier, clientVars, serverVars, mem, inQueue, outQueue, taskCall>>

TaskSend ==
    /\ taskPc = "send"
    /\ outQueue' = Send(outQueue, Item("rsp"))
    /\ taskPc' = "receive"
    /\ UNCHANGED <<carrier, clientVars, serverVars, mem, inQueue, taskCall>>

-----------------------------------------------------------------------------

Handler ==
    \/ \E c \in Clients : RecvRequest(c) \/ RecvJson(c) \/ RecvGarbage(c)
    \/ RouteInline \/ SendRequest \/ ReceiveResponse \/ Reply \/ ReplyFails

Task == TaskReceive \/ TaskRoute \/ TaskRaises \/ TaskSend

Next == (\E c \in Clients : ClientSend(c)) \/ Handler \/ Task

Spec == Init /\ [][Next]_vars

-----------------------------------------------------------------------------

Stored == Request \union {NoData}
Items == Request \union [place : {"req", "rsp"}]

TypeOK ==
    /\ carrier \in {"slots", "channel", "pointer", "json"}
    /\ issued \in [Clients -> 0 .. MaxRequests]
    /\ inbox \in [Clients -> Seq(Request)]
    /\ outbox \in [Clients -> Seq(Request)]
    /\ srvPc \in {"select", "send", "wait", "route", "reply", "dead"}
    /\ cur \in Clients
    /\ res \in Stored
    /\ mem \in [req : Stored, rsp : Stored]
    /\ inQueue \in Seq(Items)
    /\ outQueue \in Seq(Items)
    /\ taskPc \in {"receive", "route", "send"}
    /\ taskCall \in Stored

\* Nothing guards the shared cells, and a pointer does not keep its string alive: that
\* a task finds in them what the other one left there rests on the hand-over alone.
\* While a request is in service nobody overwrites or frees what is behind an item.
SharedDataIntact ==
    /\ inQueue # <<>> => Data(inQueue[1]) \in Request /\ Data(inQueue[1]).from = cur
    /\ outQueue # <<>> => Data(outQueue[1]) = taskCall
    /\ taskPc # "receive" => taskCall \in Request /\ taskCall.from = cur /\ srvPc = "wait"
    /\ srvPc \in {"route", "reply"} => res.from = cur
    /\ srvPc = "reply" /\ carrier # "json" => res = taskCall

\* The request in service is where the program counters say.
InService(r) ==
    \/ srvPc = "send" /\ r = mem.req
    \/ inQueue # <<>> /\ r = Data(inQueue[1])
    \/ taskPc # "receive" /\ r = taskCall
    \/ outQueue # <<>> /\ r = Data(outQueue[1])
    \/ srvPc \in {"route", "reply"} /\ r = res

\* The servers keep the promise of RpcExchange, each with its own carrier.
PendingOf(c) ==
    {n \in 1 .. MaxRequests : \/ InService([from |-> c, id |-> n])
                              \/ \E i \in 1 .. Len(inbox[c]) : inbox[c][i].id = n}

AnsweredOf(c) == [i \in 1 .. Len(outbox[c]) |-> outbox[c][i].id]

Exchange == INSTANCE RpcExchange WITH
    pending <- [c \in Clients |-> PendingOf(c)],
    answered <- [c \in Clients |-> AnsweredOf(c)]

ImplementsExchange == Exchange!Spec
=============================================================================
