----------------------------- MODULE RpcExchange -----------------------------
(***************************************************************************)
(* What an RPC server of nesper promises to its clients, whatever is        *)
(* between the socket and the procedure: a request is answered at most      *)
(* once, to the client that made it, and never before an older request of   *)
(* that client which is still going to be answered.  Requests may be        *)
(* abandoned (a client that hangs up, a packet that holds a second request, *)
(* a procedure that raises), since nothing in the protocol retries.         *)
(***************************************************************************)
EXTENDS Naturals, Sequences

CONSTANTS
    Clients,        \* the connections to the server
    MaxRequests     \* bound: requests each client makes

VARIABLES
    issued,         \* issued[c]: how many requests c has made; request n is the n-th
    pending,        \* pending[c]: requests of c that may still be answered
    answered        \* answered[c]: requests of c that were answered, in that order

vars == <<issued, pending, answered>>

Init ==
    /\ issued = [c \in Clients |-> 0]
    /\ pending = [c \in Clients |-> {}]
    /\ answered = [c \in Clients |-> <<>>]

Issue(c) ==
    /\ issued[c] < MaxRequests
    /\ issued' = [issued EXCEPT ![c] = @ + 1]
    /\ pending' = [pending EXCEPT ![c] = @ \union {issued[c] + 1}]
    /\ UNCHANGED answered

\* Requests are numbered in the order they are made: the oldest comes first.
Answer(c) ==
    /\ \E n \in pending[c] :
          /\ \A m \in pending[c] : n <= m
          /\ answered' = [answered EXCEPT ![c] = Append(@, n)]
          /\ pending' = [pending EXCEPT ![c] = @ \ {n}]
    /\ UNCHANGED issued

Abandon(c) ==
    /\ \E lost \in (SUBSET pending[c]) \ {{}} : pending' = [pending EXCEPT ![c] = @ \ lost]
    /\ UNCHANGED <<issued, answered>>

Next == \E c \in Clients : Issue(c) \/ Answer(c) \/ Abandon(c)

Spec == Init /\ [][Next]_vars

=============================================================================
