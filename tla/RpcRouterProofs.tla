--------------------------- MODULE RpcRouterProofs ---------------------------
(***************************************************************************)
(* Proofs about RpcRouter, for signatures and parameter arrays of any length. *)
(***************************************************************************)
EXTENDS RpcRouter, SequenceTheorems, TLAPS

\* Positions of parameters and of values.
LEMMA Positions ==
    ASSUME NEW sig \in Sigs
    PROVE  /\ Len(sig) \in Nat /\ DOMAIN sig = 1 .. Len(sig)
           /\ \A i \in DOMAIN sig : sig[i] \in [kind : ArgKinds, opt : BOOLEAN]
<1>1. sig \in Seq([kind : ArgKinds, opt : BOOLEAN])
  BY SigsAssumption
<1> QED
  BY <1>1, LenProperties, ElementOfSeq

\* The length check leaves no needed position without a value: where the array ends the
\* parameters are optional and so are all that follow, so the generated code does not
\* index beyond it.
LEMMA NoIndexDefect ==
    ASSUME NEW sig \in Sigs, NEW items, Len(items) \in Nat, LengthAccepted(sig, Len(items))
    PROVE  \A i \in DOMAIN sig : Missing(items, i) => LeftOut(sig, items, i)
<1>1. CASE \E i \in DOMAIN sig : sig[i].opt
  <2>1. \A j \in DOMAIN sig : ~ sig[j].opt => j <= Len(items)
    BY <1>1 DEF LengthAccepted
  <2>2. ASSUME NEW i \in DOMAIN sig, Missing(items, i) PROVE LeftOut(sig, items, i)
    <3>1. i > Len(items) /\ i \in Nat
      BY <2>2, Positions DEF Missing
    <3>2. sig[i].opt
      BY <2>1, <3>1
    <3>3. ~ NeededAfter(sig, i)
      BY <2>1, <3>1, Positions DEF NeededAfter
    <3> QED
      BY <2>2, <3>2, <3>3 DEF LeftOut
  <2> QED
    BY <2>2
<1>2. CASE ~ \E i \in DOMAIN sig : sig[i].opt
  BY <1>2, Positions DEF LengthAccepted, Missing
<1> QED
  BY <1>1, <1>2

\* A parameter array has a length.
LEMMA ItemsHaveLength ==
    ASSUME NEW params \in Params, params.kind = "JArray"
    PROVE  Len(params.items) \in Nat /\ DOMAIN params.items = 1 .. Len(params.items)
<1>1. "JArray" \notin {"absent", "JNull", "JObject"} \union ArgKinds
  BY KindsAssumption
<1>2. params.items \in UNION {[1 .. n -> Kinds] : n \in 0 .. MaxItems}
  BY <1>1 DEF Params
<1>3. PICK n \in 0 .. MaxItems : params.items \in [1 .. n -> Kinds]
  BY <1>2
<1>4. n \in Nat /\ params.items \in Seq(Kinds)
  BY <1>3, MaxItemsAssumption, SeqDef
<1> QED
  BY <1>4, LenProperties

-----------------------------------------------------------------------------

\* Procedures are registered with signatures, and there is a call only while a request is
\* served.
RouterInv ==
    /\ DOMAIN procs \subseteq Paths
    /\ \A p \in DOMAIN procs : procs[p] \in Sigs
    /\ request = <<>> => call = NoCall
    /\ AlwaysAnswered
    /\ CallsMatchSignature

\* What is called fits the signature, and nothing else does when nothing is optional.
LEMMA UnpackedMatches ==
    ASSUME NEW sig \in Sigs, NEW params \in Params, Accepted(sig, params)
    PROVE  /\ Unpacks(sig, params.items) =>
                \A i \in DOMAIN sig :
                    LET arg == Unpacked(sig, params.items)[i]
                    IN  /\ arg = sig[i].kind \/ (sig[i].opt /\ arg = "none")
                        /\ arg # "none" => i <= Len(params.items) /\ arg = params.items[i]
           /\ (\A i \in DOMAIN sig : ~ sig[i].opt) =>
                (Unpacks(sig, params.items) <=> Matches(sig, params))
           /\ ~ IndexDefect(sig, params.items)
<1> DEFINE items == params.items
<1>1. Len(items) \in Nat /\ DOMAIN items = 1 .. Len(items) /\ LengthAccepted(sig, Len(items))
  BY ItemsHaveLength DEF Accepted
<1>2. Len(sig) \in Nat /\ DOMAIN sig = 1 .. Len(sig)
  BY Positions
<1>3. \A i \in DOMAIN sig : Missing(items, i) => LeftOut(sig, items, i)
  BY <1>1, NoIndexDefect
<1> HIDE DEF items
<1>4. ~ IndexDefect(sig, items)
  BY <1>3 DEF IndexDefect
<1>5. ASSUME Unpacks(sig, items), NEW i \in DOMAIN sig
      PROVE  /\ LeftOut(sig, items, i) => sig[i].opt /\ Unpacked(sig, items)[i] = "none"
             /\ ~ LeftOut(sig, items, i) => /\ Unpacked(sig, items)[i] = items[i]
                                            /\ i <= Len(items) /\ items[i] = sig[i].kind
  BY <1>1, <1>2, <1>5 DEF Unpacks, Unpacked, LeftOut, Missing, Mismatch
<1>6. ASSUME \A i \in DOMAIN sig : ~ sig[i].opt
      PROVE  Unpacks(sig, items) <=> Matches(sig, params)
  <2>1. Len(items) = Len(sig) /\ params.kind = "JArray"
    BY <1>1, <1>6 DEF LengthAccepted, Accepted
  <2>2. Unpacks(sig, items) <=> \A i \in DOMAIN sig : items[i] = sig[i].kind
    BY <1>1, <1>2, <1>6, <2>1 DEF Unpacks, LeftOut, Missing, Mismatch
  <2>3. items = [i \in DOMAIN items |-> items[i]]
    <3>1. PICK n \in Nat : items \in [1 .. n -> Kinds]
      <4>1. "JArray" \notin {"absent", "JNull", "JObject"} \union ArgKinds
        BY KindsAssumption
      <4>2. items \in UNION {[1 .. n -> Kinds] : n \in 0 .. MaxItems}
        BY <2>1, <4>1 DEF Params, items
      <4> QED
        BY <4>2, MaxItemsAssumption
    <3> QED
      BY <3>1
  <2>4. Matches(sig, params) <=> items = [i \in DOMAIN sig |-> sig[i].kind]
    BY <2>1 DEF Matches, items
  <2>5. DOMAIN items = DOMAIN sig
    BY <1>1, <1>2, <2>1
  <2> QED
    BY <2>2, <2>3, <2>4, <2>5
<1> QED
  BY <1>4, <1>5, <1>6 DEF items

\* One request is served in one step, from a table of signatures.
LEMMA RouterStep ==
    ASSUME RouterInv, [Next]_vars
    PROVE  RouterInv'
<1> USE DEF RouterInv
<1>1. CASE UNCHANGED vars
  <2>1. request' = request /\ call' = call /\ reply' = reply /\ procs' = procs
    BY <1>1 DEF vars
  <2>2. AlwaysAnswered'
    BY <2>1 DEF AlwaysAnswered
  <2>3. CallsMatchSignature'
    BY ONLY CallsMatchSignature, <2>1 DEF CallsMatchSignature, Known
  <2> QED
    BY <2>1, <2>2, <2>3
<1>2. ASSUME NEW path \in Paths, NEW sig \in Sigs, Register(path, sig) PROVE RouterInv'
  <2>1. request' = <<>> /\ call' = NoCall
    BY <1>2 DEF Register
  <2>2. AlwaysAnswered' /\ CallsMatchSignature'
    BY <2>1 DEF AlwaysAnswered, CallsMatchSignature, NoCall
  <2> QED
    BY <1>2, <2>1, <2>2 DEF Register
<1>3. CASE Clear
  <2>1. request' = <<>> /\ call' = NoCall
    BY <1>3 DEF Clear
  <2>2. AlwaysAnswered' /\ CallsMatchSignature'
    BY <2>1 DEF AlwaysAnswered, CallsMatchSignature, NoCall
  <2> QED
    BY <1>3, <2>1, <2>2 DEF Clear
<1>4. CASE Done
  <2>1. request' = <<>> /\ call' = NoCall /\ procs' = procs
    BY <1>4 DEF Done
  <2>2. AlwaysAnswered' /\ CallsMatchSignature'
    BY <2>1 DEF AlwaysAnswered, CallsMatchSignature, NoCall
  <2> QED
    BY <2>1, <2>2
<1>5. ASSUME NEW method \in Methods, NEW id \in NodeIds, NEW params \in Params,
             Route(method, id, params)
      PROVE  RouterInv'
  <2>0. /\ request' = <<[method |-> method, id |-> id, params |-> params]>> /\ procs' = procs
        /\ request'[1].method = method /\ request'[1].id = id /\ request'[1].params = params
        /\ request' # <<>>
    <3>1. \E outcome, answer : Serve(method, id, params, outcome, answer)
      BY <1>5 DEF Route, RouteRaises, RouteUnknown, RouteRefuses, RouteCalls
    <3> QED
      BY ONLY <3>1 DEF Serve
  <2> DEFINE sig == procs[method]
  <2>a. Known(method, id) => sig \in Sigs
    BY DEF Known
  <2>b. SUFFICES AlwaysAnswered' /\ CallsMatchSignature'
    BY <2>0
  <2>1. CASE RouteRaises(method, id, params)
    <3>1. Malformed(method, id) /\ call' = NoCall /\ ~ Known(method, id)
      BY <2>1 DEF RouteRaises, Serve, Known
    <3>2. ~ (Known(method, id))'
      BY <2>0, <3>1 DEF Known
    <3> QED
      BY <2>0, <3>1, <3>2 DEF AlwaysAnswered, CallsMatchSignature, NoCall, Known
  <2>2. CASE RouteUnknown(method, id, params)
    <3>1. call' = NoCall /\ ~ Known(method, id) /\ reply' = ErrorReply(id, "METHOD_NOT_FOUND")
      BY <2>2 DEF RouteUnknown, Serve, Known
    <3>2. ~ call'.called /\ reply' # NoReply /\ reply'.id = id
      BY <3>1 DEF NoCall, NoReply, ErrorReply
    <3> QED
      BY <2>0, <3>1, <3>2 DEF AlwaysAnswered, CallsMatchSignature, Known
  <2>3. CASE RouteRefuses(method, id, params)
    <3>1. /\ call' = NoCall /\ Known(method, id)
          /\ ~ (Accepted(sig, params) /\ Unpacks(sig, params.items))
      BY <2>3 DEF RouteRefuses, Serve
    <3>2. ~ (Accepted(sig, params) /\ IndexDefect(sig, params.items))
      BY <2>a, <3>1, UnpackedMatches
    <3>3. reply' = ErrorReply(id, "SERVER_ERROR")
      BY <2>3, <3>2 DEF RouteRefuses, Serve
    <3>4. ~ call'.called /\ reply' # NoReply /\ reply'.id = id
      BY <3>1, <3>3 DEF NoCall, NoReply, ErrorReply
    <3>5. (\A i \in DOMAIN sig : ~ sig[i].opt) => ~ Matches(sig, params)
      <4>1. SUFFICES ASSUME \A i \in DOMAIN sig : ~ sig[i].opt, Matches(sig, params) PROVE FALSE
        OBVIOUS
      <4>2. Len(sig) \in Nat /\ DOMAIN sig = 1 .. Len(sig)
        BY <2>a, <3>1, Positions
      <4>3. params.kind = "JArray" /\ DOMAIN params.items = DOMAIN sig
        BY <4>1 DEF Matches
      <4>4. Len(params.items) = Len(sig)
        BY <4>2, <4>3, ItemsHaveLength
      <4>5. Accepted(sig, params)
        BY <4>1, <4>3, <4>4 DEF Accepted, LengthAccepted
      <4> QED
        BY <2>a, <3>1, <4>1, <4>5, UnpackedMatches
    <3> QED
      BY <2>0, <3>1, <3>4, <3>5 DEF AlwaysAnswered, CallsMatchSignature
  <2>4. CASE RouteCalls(method, id, params)
    <3>1. PICK ending \in Endings :
            /\ Known(method, id) /\ Accepted(sig, params) /\ Unpacks(sig, params.items)
            /\ call' = [called |-> TRUE, args |-> Unpacked(sig, params.items), ending |-> ending]
            /\ reply' = CASE ending = "returns" -> ResultReply(id)
                          [] ending = "raises" -> ErrorReply(id, "SERVER_ERROR")
                          [] ending = "defect" -> NoReply
      BY <2>4 DEF RouteCalls, Serve
    <3>2. call'.called /\ call'.args = Unpacked(sig, params.items) /\ call'.ending = ending
      BY <3>1
    <3>3. IF ending = "defect" THEN reply' = NoReply ELSE reply' # NoReply /\ reply'.id = id
      BY <3>1 DEF Endings, ResultReply, ErrorReply, NoReply
    <3>4. AlwaysAnswered'
      BY <2>0, <3>2, <3>3 DEF AlwaysAnswered
    <3>5. CallsMatchSignature'
      BY <2>0, <2>a, <3>1, <3>2, UnpackedMatches DEF CallsMatchSignature
    <3> QED
      BY <3>4, <3>5
  <2> QED
    BY <1>5, <2>1, <2>2, <2>3, <2>4 DEF Route
<1> QED
  BY <1>1, <1>2, <1>3, <1>4, <1>5 DEF Next, Serving

\* The invariant of the router.
LEMMA RouterInvariance == Spec => []RouterInv
<1>1. Init => RouterInv
  BY DEF Init, RouterInv, AlwaysAnswered, CallsMatchSignature, NoCall
<1>2. RouterInv /\ [Next]_vars => RouterInv'
  BY RouterStep
<1> QED
  BY <1>1, <1>2, PTL DEF Spec

\* A procedure is called exactly as its signature says, however long that is.
THEOREM CallsAreRight == Spec => []CallsMatchSignature
<1>1. RouterInv => CallsMatchSignature
  BY DEF RouterInv
<1> QED
  BY <1>1, RouterInvariance, PTL

\* No list of parameters makes the generated code index beyond it: what names its method
\* and its id is answered, but for a Defect of the procedure itself.
THEOREM RequestsAreAnswered == Spec => []AlwaysAnswered
<1>1. RouterInv => AlwaysAnswered
  BY DEF RouterInv
<1> QED
  BY <1>1, RouterInvariance, PTL

-----------------------------------------------------------------------------
(* Types *)

\* Registering, clearing and routing keep the types.
LEMMA TypeStep ==
    ASSUME TypeOK, RouterInv, [Next]_vars
    PROVE  TypeOK'
<1>1. CASE UNCHANGED vars
  BY <1>1 DEF vars, TypeOK
<1>2. CASE /\ request' = <<>> /\ call' = NoCall /\ reply' = NoReply
           /\ \E reg \in SUBSET Paths : procs' \in [reg -> Sigs]
  BY <1>2 DEF TypeOK, NoCall
<1>3. ASSUME NEW path \in Paths, NEW sig \in Sigs, Register(path, sig) PROVE TypeOK'
  <2>1. PICK reg \in SUBSET Paths : procs \in [reg -> Sigs]
    BY DEF TypeOK
  <2>2. procs' \in [reg \union {path} -> Sigs] /\ reg \union {path} \in SUBSET Paths
    BY <1>3, <2>1 DEF Register
  <2>3. \E r \in SUBSET Paths : procs' \in [r -> Sigs]
    BY <2>2
  <2>4. request' = <<>> /\ call' = NoCall /\ reply' = reply
    BY <1>3 DEF Register, RouterInv
  <2> QED
    BY <2>3, <2>4 DEF TypeOK, NoCall
<1>4. CASE Clear
  <2>1. procs' \in [{} -> Sigs]
    BY <1>4 DEF Clear
  <2>2. \E reg \in SUBSET Paths : procs' \in [reg -> Sigs]
    BY <2>1
  <2>3. request' = <<>> /\ call' = NoCall /\ reply' = reply
    BY <1>4 DEF Clear, RouterInv
  <2> QED
    BY <2>2, <2>3 DEF TypeOK, NoCall
<1>5. CASE Done
  BY <1>2, <1>5 DEF Done, TypeOK
<1>6. ASSUME NEW method \in Methods, NEW id \in NodeIds, NEW params \in Params,
             Route(method, id, params)
      PROVE  TypeOK'
  <2>1. /\ request' = <<[method |-> method, id |-> id, params |-> params]>> /\ procs' = procs
        /\ request'[1] = [method |-> method, id |-> id, params |-> params]
    BY <1>6 DEF Route, RouteRaises, RouteUnknown, RouteRefuses, RouteCalls, Serve
  <2>2. /\ request'[1] \in [method : Methods, id : NodeIds, params : Params]
        /\ request'[1].method = method
        /\ \E reg \in SUBSET Paths : procs' \in [reg -> Sigs]
    BY <2>1 DEF TypeOK
  <2>3. ~ Malformed(method, id) => id \in Ids
    BY DEF Malformed, NodeIds
  <2>4. call'.called =>
            DOMAIN call'.args = DOMAIN procs'[request'[1].method] /\ call'.ending \in Endings
    BY <1>6, <2>1, <2>2
       DEF Route, RouteRaises, RouteUnknown, RouteRefuses, RouteCalls, Serve, NoCall, Unpacked
  <2>5. \/ reply' = NoReply
        \/ id \in Ids /\ reply' = ResultReply(id)
        \/ id \in Ids /\ \E code \in Codes : reply' = ErrorReply(id, code)
    BY <1>6, <2>3
       DEF Route, RouteRaises, RouteUnknown, RouteRefuses, RouteCalls, Serve, Known, Endings, Codes
  <2> QED
    BY <2>2, <2>4, <2>5 DEF TypeOK
<1> QED
  BY <1>1, <1>3, <1>4, <1>5, <1>6 DEF Next, Serving

\* Type correctness of the router, for every value of the constants.
THEOREM TypeCorrect == Spec => []TypeOK
<1>1. Init => TypeOK
  <2> SUFFICES ASSUME Init PROVE TypeOK
    OBVIOUS
  <2>1. procs \in [{} -> Sigs]
    BY DEF Init
  <2>2. \E reg \in SUBSET Paths : procs \in [reg -> Sigs]
    BY <2>1
  <2> QED
    BY <2>2 DEF Init, TypeOK, NoCall
<1>2. TypeOK /\ RouterInv /\ [Next]_vars => TypeOK'
  BY TypeStep
<1> QED
  BY <1>1, <1>2, RouterInvariance, PTL DEF Spec
=============================================================================
