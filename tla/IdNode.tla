------------------------------- MODULE IdNode -------------------------------
(***************************************************************************)
(* The id node of one call of rpcsocket_queue_mpack.nim.  wrapReply and       *)
(* wrapReplyError put the node the request holds into the reply as well, the  *)
(* RPC task sends the reply and then drops the request, while the server      *)
(* encodes the reply and then drops that: two tasks count the references of   *)
(* one node, and a count of --gc:arc is not atomic.                           *)
(***************************************************************************)
EXTENDS Naturals, FiniteSets

Tasks == {"server", "rpc"}

VARIABLES
    callPc,     \* the call: "decoded", "handed", "replied" or "received"
    refs,       \* refs[t]: references to the node that task t still has
    count,      \* the count in the node's header: one less than its references
    nodePc,     \* nodePc[t]: "idle", or inside one release "decrement" or "store"
    loaded,     \* loaded[t]: the count the release of t has read
    encoded,    \* has the server written the reply, id and all, to a string?
    frees,      \* times the node was given back to the allocator
    overlapped  \* history: were both tasks inside a release at once?

nodeVars == <<callPc, refs, count, nodePc, loaded, encoded, frees, overlapped>>

\* toJsonNode has built the request.
NodeInit ==
    /\ callPc = "decoded"
    /\ refs = [t \in Tasks |-> IF t = "server" THEN 1 ELSE 0]
    /\ count = 0
    /\ nodePc = [t \in Tasks |-> "idle"]
    /\ loaded = [t \in Tasks |-> 0]
    /\ encoded = FALSE
    /\ frees = 0
    /\ overlapped = FALSE

-----------------------------------------------------------------------------
(* The call, until the reply is in the out queue. *)

\* xQueueSend copies the pointer, wasMoved forgets it here, xQueueReceive has it there.
HandOver ==
    /\ callPc = "decoded"
    /\ refs' = [refs EXCEPT !["server"] = 0, !["rpc"] = 1]
    /\ callPc' = "handed"
    /\ UNCHANGED <<count, nodePc, loaded, encoded, frees, overlapped>>

\* Mutation of RouteCall: the reply takes the node as if the request were moved into it.
RouteCallUncounted ==
    /\ callPc = "handed"
    /\ \E n \in {1, 2} : refs' = [refs EXCEPT !["rpc"] = @ + n]
    /\ callPc' = "replied"
    /\ UNCHANGED <<count, nodePc, loaded, encoded, frees, overlapped>>

\* wrapReply puts the id in once, wrapReplyError once more in the error of wrapError.  The
\* server waits, so nobody else counts; route's own id is gone when it returns.
RouteCall ==
    /\ callPc = "handed"
    /\ \E n \in {1, 2} :
        /\ refs' = [refs EXCEPT !["rpc"] = @ + n]
        /\ count' = count + n
    /\ callPc' = "replied"
    /\ UNCHANGED <<nodePc, loaded, encoded, frees, overlapped>>

\* The reply is moved through the out queue; rcall still has the request.
SendReply ==
    /\ callPc = "replied"
    /\ refs' = [refs EXCEPT !["server"] = refs["rpc"] - 1, !["rpc"] = 1]
    /\ callPc' = "received"
    /\ UNCHANGED <<count, nodePc, loaded, encoded, frees, overlapped>>

\* fromJsonNode, sendLength and sendChunks.
EncodeReply ==
    /\ callPc = "received" /\ ~ encoded
    /\ encoded' = TRUE
    /\ UNCHANGED <<callPc, refs, count, nodePc, loaded, frees, overlapped>>

-----------------------------------------------------------------------------
(* The end of a scope: rcall of execRpcSocketTask, res of the read handler. *)

Scope(t) == callPc = "received" /\ (t = "server" => encoded)

\* The last reference frees the node; any other is counted down below.
BeginRelease(t) ==
    /\ Scope(t) /\ nodePc[t] = "idle" /\ refs[t] > 0
    /\ IF count = 0
       THEN /\ frees' = frees + 1
            /\ refs' = [refs EXCEPT ![t] = @ - 1]
            /\ UNCHANGED nodePc
       ELSE /\ nodePc' = [nodePc EXCEPT ![t] = "decrement"]
            /\ UNCHANGED <<frees, refs>>
    /\ overlapped' = (overlapped \/ \E u \in Tasks \ {t} : nodePc[u] # "idle")
    /\ loaded' = [loaded EXCEPT ![t] = count]
    /\ UNCHANGED <<callPc, count, encoded>>

\* The compiler may have the count from the test, or read it again.
ReadAgain(t) ==
    /\ nodePc[t] = "decrement"
    /\ \E value \in {loaded[t], count} : loaded' = [loaded EXCEPT ![t] = value]
    /\ nodePc' = [nodePc EXCEPT ![t] = "store"]
    /\ UNCHANGED <<callPc, refs, count, encoded, frees, overlapped>>

\* A count that was read again after the other task's last one goes below zero, which is
\* not zero either: it is stored as a large number.
BelowZero == 99

StoreCount(t) ==
    /\ nodePc[t] = "store"
    /\ count' = IF loaded[t] = 0 THEN BelowZero ELSE loaded[t] - 1
    /\ refs' = [refs EXCEPT ![t] = @ - 1]
    /\ nodePc' = [nodePc EXCEPT ![t] = "idle"]
    /\ UNCHANGED <<callPc, loaded, encoded, frees, overlapped>>

-----------------------------------------------------------------------------

NodeNext ==
    \/ HandOver \/ RouteCall \/ SendReply \/ EncodeReply
    \/ \E t \in Tasks : BeginRelease(t) \/ ReadAgain(t) \/ StoreCount(t)

-----------------------------------------------------------------------------

NodeTypeOK ==
    /\ callPc \in {"decoded", "handed", "replied", "received"}
    /\ refs \in [Tasks -> 0 .. 3]
    /\ count \in 0 .. 2 \union {BelowZero}
    /\ nodePc \in [Tasks -> {"idle", "decrement", "store"}]
    /\ loaded \in [Tasks -> 0 .. 2 \union {BelowZero}]
    /\ encoded \in BOOLEAN
    /\ frees \in 0 .. 3
    /\ overlapped \in BOOLEAN

\* Updates of the count can be lost, but only in the direction that keeps the node: it is
\* not freed while a task refers to it, before the reply is written, or twice, in whatever
\* order the tasks end their scopes.  It is never freed only if two releases overlapped.
IdNodeKept ==
    /\ frees > 0 => frees = 1 /\ encoded /\ \A t \in Tasks : refs[t] = 0
    /\ (callPc = "received" /\ \A t \in Tasks : refs[t] = 0) => frees = 1 \/ overlapped
=============================================================================
