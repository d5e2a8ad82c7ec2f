------------------------------ MODULE RpcRouter ------------------------------
(***************************************************************************)
(* The router of servers/rpc/router.nim with the unpacking of parameters    *)
(* that servers/rpc/marshal.nim generates for each procedure.               *)
(*                                                                          *)
(* A JSON value is known by its kind.  A signature is a sequence of         *)
(* parameters, each with the kind its type asks for and whether it is an    *)
(* Option.  What the caller cannot see is what route does when a request    *)
(* is not what it assumes: it raises, and the servers send no reply then.   *)
(***************************************************************************)
EXTENDS Naturals, Sequences

CONSTANTS
    Paths,      \* names of procedures
    NotAPath,   \* a method that is a string and no procedure's name
    Ids,        \* ids of requests
    ArgKinds,   \* kinds of values that parameters have
    MaxItems,   \* bound: values of a parameter array
    Sigs        \* signatures procedures are registered with

ASSUME PathsAssumption == NotAPath \notin Paths
ASSUME KindsAssumption ==
    ArgKinds \intersect {"none", "JNull", "JObject", "JArray", "absent"} = {}
ASSUME MaxItemsAssumption == MaxItems \in Nat
ASSUME SigsAssumption == Sigs \subseteq Seq([kind : ArgKinds, opt : BOOLEAN])

Kinds == ArgKinds \union {"JNull", "JObject"}

\* What a node can be that claims to be a request: its "method", "id" and "params".
Methods == Paths \union {NotAPath, "absent", "notString"}
NodeIds == Ids \union {"absent"}
Params == [kind : {"absent", "JNull", "JObject"} \union ArgKinds, items : {<<>>}]
          \union [kind : {"JArray"}, items : UNION {[1 .. n -> Kinds] : n \in 0 .. MaxItems}]

Codes == {"METHOD_NOT_FOUND", "SERVER_ERROR"}

\* How the body of a procedure ends.
Endings == {"returns", "raises", "defect"}

NoCall == [called |-> FALSE]
NoReply == [kind |-> "raised"]

VARIABLES
    procs,      \* router.procs: the signatures of registered procedures
    request,    \* the request being served, or <<>>
    call,       \* the call of a procedure it led to, or NoCall
    reply       \* what route returned, or NoReply when it raised

vars == <<procs, request, call, reply>>

-----------------------------------------------------------------------------
(* jsonToNim: unpacking a JSON array into the parameters of a signature. *)

\* i < minLength: a parameter after i is not optional.
NeededAfter(sig, i) == \E j \in DOMAIN sig : j > i /\ ~ sig[j].opt

\* Mutation of LengthAccepted: every optional parameter may be missing, not only
\* the trailing ones.
LengthAcceptedAnyOptional(sig, n) ==
    IF \E i \in DOMAIN sig : sig[i].opt
    THEN \A j \in DOMAIN sig : (\A i \in 1 .. j : ~ sig[i].opt) => j <= n
    ELSE n = Len(sig)

\* expectArrayLen, or expectOptionalArrayLen when there is an optional parameter:
\* at least as many values as the last parameter that is not optional needs.
LengthAccepted(sig, n) ==
    IF \E i \in DOMAIN sig : sig[i].opt
    THEN \A j \in DOMAIN sig : ~ sig[j].opt => j <= n
    ELSE n = Len(sig)

Missing(items, i) == i > Len(items)

\* An optional parameter gets no value: a null before the last parameter that is
\* needed, a missing value after it.
LeftOut(sig, items, i) ==
    /\ sig[i].opt
    /\ IF NeededAfter(sig, i) THEN ~ Missing(items, i) /\ items[i] = "JNull" ELSE Missing(items, i)

\* Mutation of Mismatch: the kind of an optional value is not looked at.
MismatchUnlessOptional(sig, items, i) ==
    ~ Missing(items, i) /\ ~ sig[i].opt /\ items[i] # sig[i].kind

\* fromJson raises ValueError: expect finds another kind.
Mismatch(sig, items, i) ==
    ~ Missing(items, i) /\ ~ LeftOut(sig, items, i) /\ items[i] # sig[i].kind

\* params[pos] is beyond the array: an IndexDefect, unless a ValueError came first.
IndexDefect(sig, items) ==
    \E i \in DOMAIN sig :
        /\ Missing(items, i) /\ ~ LeftOut(sig, items, i)
        /\ \A j \in 1 .. i - 1 : ~ Mismatch(sig, items, j)

Unpacks(sig, items) ==
    \A i \in DOMAIN sig :
        LeftOut(sig, items, i) \/ (~ Missing(items, i) /\ ~ Mismatch(sig, items, i))

Unpacked(sig, items) ==
    [i \in DOMAIN sig |-> IF LeftOut(sig, items, i) THEN "none" ELSE items[i]]

-----------------------------------------------------------------------------

Init ==
    /\ procs = [p \in {} |-> <<>>]
    /\ request = <<>>
    /\ call = NoCall
    /\ reply = NoReply

\* rpc registers a procedure; a path that is taken gets the new one.
Register(path, sig) ==
    /\ request = <<>>
    /\ procs' = [p \in DOMAIN procs \union {path} |-> IF p = path THEN sig ELSE procs[p]]
    /\ UNCHANGED <<request, call, reply>>

Clear ==
    /\ request = <<>>
    /\ procs' = [p \in {} |-> <<>>]
    /\ UNCHANGED <<request, call, reply>>

ErrorReply(id, code) == [kind |-> "error", id |-> id, code |-> code]
ResultReply(id) == [kind |-> "result", id |-> id]

\* Mutation of Malformed: a request without an id is served.
MalformedMethod(method, id) == method \in {"absent", "notString"}

\* node["method"].str and node["id"] are read before anything is caught.
Malformed(method, id) == method \in {"absent", "notString"} \/ id = "absent"

Serve(method, id, params, outcome, answer) ==
    /\ request' = <<[method |-> method, id |-> id, params |-> params]>>
    /\ call' = outcome
    /\ reply' = answer
    /\ UNCHANGED procs

RouteRaises(method, id, params) ==
    /\ Malformed(method, id)
    /\ Serve(method, id, params, NoCall, NoReply)

RouteUnknown(method, id, params) ==
    /\ ~ Malformed(method, id)
    /\ method \notin DOMAIN procs
    /\ Serve(method, id, params, NoCall, ErrorReply(id, "METHOD_NOT_FOUND"))

Known(method, id) == ~ Malformed(method, id) /\ method \in DOMAIN procs

Accepted(sig, params) == params.kind = "JArray" /\ LengthAccepted(sig, Len(params.items))

\* No params, not an array, a wrong number, a wrong kind: SERVER_ERROR.  An
\* IndexDefect is not a CatchableError and leaves route.
RouteRefuses(method, id, params) ==
    /\ Known(method, id)
    /\ ~ (Accepted(procs[method], params) /\ Unpacks(procs[method], params.items))
    /\ Serve(method, id, params, NoCall,
             IF Accepted(procs[method], params) /\ IndexDefect(procs[method], params.items)
             THEN NoReply ELSE ErrorReply(id, "SERVER_ERROR"))

RouteCalls(method, id, params) ==
    /\ Known(method, id)
    /\ Accepted(procs[method], params)
    /\ Unpacks(procs[method], params.items)
    /\ \E ending \in Endings :
          Serve(method, id, params,
                [called |-> TRUE, args |-> Unpacked(procs[method], params.items), ending |-> ending],
                CASE ending = "returns" -> ResultReply(id)
                  [] ending = "raises" -> ErrorReply(id, "SERVER_ERROR")
                  [] ending = "defect" -> NoReply)

Route(method, id, params) ==
    \/ RouteRaises(method, id, params)
    \/ RouteUnknown(method, id, params)
    \/ RouteRefuses(method, id, params)
    \/ RouteCalls(method, id, params)

\* The server takes the reply, or the exception, and waits for another request.
Done ==
    /\ request # <<>>
    /\ request' = <<>>
    /\ call' = NoCall
    /\ reply' = NoReply
    /\ UNCHANGED procs

Serving ==
    /\ request = <<>>
    /\ \E method \in Methods, id \in NodeIds, params \in Params : Route(method, id, params)

Next ==
    \/ \E path \in Paths, sig \in Sigs : Register(path, sig)
    \/ Clear
    \/ Serving
    \/ Done

Spec == Init /\ [][Next]_vars

-----------------------------------------------------------------------------

TypeOK ==
    /\ \E reg \in SUBSET Paths : procs \in [reg -> Sigs]
    /\ request = <<>> \/ request[1] \in [method : Methods, id : NodeIds, params : Params]
    /\ call.called => DOMAIN call.args = DOMAIN procs[request[1].method] /\ call.ending \in Endings
    /\ \/ reply = NoReply
       \/ \E i \in Ids : reply = ResultReply(i)
       \/ \E i \in Ids, c \in Codes : reply = ErrorReply(i, c)

\* A request that names its method and its id always gets a reply, with its id, unless
\* the procedure itself dies of a Defect: no list of parameters, however short or
\* wrong, makes the generated code index beyond it.
AlwaysAnswered ==
    request # <<>> /\ ~ Malformed(request[1].method, request[1].id) =>
        IF call.called /\ call.ending = "defect" THEN reply = NoReply
        ELSE reply # NoReply /\ reply.id = request[1].id

\* The contract, said without the generated code: an array of exactly the kinds of
\* the signature.
Matches(sig, params) ==
    params.kind = "JArray" /\ params.items = [i \in DOMAIN sig |-> sig[i].kind]

\* A procedure is only called with values of the kinds its parameters have, every
\* parameter that is not optional has one, and they are the request's.  A procedure
\* without optional parameters is called if and only if the request matches its signature.
CallsMatchSignature ==
    /\ call.called =>
        LET sig == procs[request[1].method]
            items == request[1].params.items
        IN  \A i \in DOMAIN sig :
                /\ call.args[i] = sig[i].kind \/ (sig[i].opt /\ call.args[i] = "none")
                /\ call.args[i] # "none" => i <= Len(items) /\ call.args[i] = items[i]
    /\ request # <<>> /\ Known(request[1].method, request[1].id) =>
        LET sig == procs[request[1].method]
        IN  (\A i \in DOMAIN sig : ~ sig[i].opt) => (call.called <=> Matches(sig, request[1].params))

\* "Expected at least minLength and maximum maxLength Json parameter(s)": no procedure
\* is called with more values than it has parameters.
MaximumIsKept ==
    call.called => Len(request[1].params.items) <= Len(procs[request[1].method])
=============================================================================
