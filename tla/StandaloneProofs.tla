--------------------------- MODULE StandaloneProofs ---------------------------
(***************************************************************************)
(* Proofs about parts of MCStandalone, for all constants: the port objects    *)
(* of I2C, the non-volatile storage, the id node of a call, the networking of *)
(* the template, reads from a UART, broadcasts over UDP, the buffers of a SPI *)
(* transfer, the SPI transactions the driver has, and the bus they share, as  *)
(* SpiMasterProofs proves it; and at the end the types of all of them.  Each  *)
(* part has an inductive invariant of its own, which the steps of the others  *)
(* leave alone.                                                               *)
(***************************************************************************)
EXTENDS MCStandalone, SpiMasterProofs

\* A step of the whole is a step of each part, or leaves the part as it is.
LEMMA PartSteps ==
    ASSUME [Next]_vars
    PROVE  /\ [I2cNext]_i2cVars
           /\ [NvsNext]_nvsVars
           /\ [SpiqNext]_spiqVars
           /\ [UartNext]_uartVars
           /\ [NodeNext]_nodeVars
           /\ [NetNext]_networkingVars
           /\ [UdpNext]_udpVars
           /\ [SpiNext]_spiVars
           /\ [BusNext]_busVars
<1>1. CASE UNCHANGED vars
  BY <1>1 DEF vars
<1>2. CASE Next
  BY <1>2 DEF Next, Only
<1> QED
  BY <1>1, <1>2

-----------------------------------------------------------------------------
(* I2cPorts *)

\* DriversHaveOwners is inductive with its types: a driver goes with the object it was
\* installed for.
I2cInv == I2cTypeOK /\ DriversHaveOwners

\* Before the first constructor there is neither an object nor a driver.
LEMMA I2cInvInit == I2cInit => I2cInv
BY PortsAssumption DEF I2cInit, I2cInv, I2cTypeOK, DriversHaveOwners, NoObject

\* Constructors that succeed or raise, and destructors, keep it.
LEMMA I2cInvStep ==
    ASSUME I2cInv, [I2cNext]_i2cVars
    PROVE  I2cInv'
<1> USE PortsAssumption DEF I2cInv, I2cTypeOK, DriversHaveOwners, NoObject
<1>1. CASE UNCHANGED i2cVars
  BY <1>1 DEF i2cVars
<1>2. ASSUME NEW v \in Vars, NEW port \in Ports, NewPort(v, port)
      PROVE  I2cInv'
  <2>1. v \in Vars /\ port \in Nat /\ port # NoObject
    OBVIOUS
  <2>2. CASE object[v] = NoObject
    <3>1. I2cTypeOK'
      BY <1>2, <2>1, <2>2 DEF NewPort
    <3>2. ASSUME NEW p \in installed' PROVE \E w \in Vars : object'[w] = p
      <4>1. CASE p = port
        BY <1>2, <4>1 DEF NewPort
      <4>2. CASE p # port
        <5>1. PICK w \in Vars : object[w] = p
          BY <1>2, <2>2, <4>2 DEF NewPort
        <5>2. w # v
          BY <1>2, <2>2, <4>2, <5>1 DEF NewPort
        <5> QED
          BY <1>2, <5>1, <5>2 DEF NewPort
      <4> QED
        BY <4>1, <4>2
    <3>3. ~ initFailed' =>
            /\ \A w \in Vars : object'[w] # NoObject => object'[w] \in installed'
            /\ \A w, u \in Vars : w # u /\ object'[w] = object'[u] => object'[w] = NoObject
      BY <1>2, <2>1, <2>2 DEF NewPort
    <3>4. ~ initFailed' => ~ destroyFailed'
      BY <1>2, <2>2 DEF NewPort
    <3> QED
      BY <3>1, <3>2, <3>3, <3>4
  <2>3. CASE object[v] # NoObject
    <3>1. object' \in [Vars -> Ports \union {NoObject}]
      BY <1>2, <2>1 DEF NewPort
    <3>2. installed' \subseteq Ports
      BY <1>2, <2>1, <2>3 DEF NewPort, DeleteDriver
    <3>3. initFailed' \in BOOLEAN /\ destroyFailed' \in BOOLEAN
      BY <1>2, <2>1, <2>3 DEF NewPort, DeleteDriver
    <3>4. \A p \in installed' : \E w \in Vars : object'[w] = p
      BY <1>2, <2>1, <2>3 DEF NewPort, DeleteDriver
    <3>5. ~ initFailed' =>
            /\ \A w \in Vars : object'[w] # NoObject => object'[w] \in installed'
            /\ \A w, u \in Vars : w # u /\ object'[w] = object'[u] => object'[w] = NoObject
      BY <1>2, <2>1, <2>3 DEF NewPort, DeleteDriver
    <3>6. ~ initFailed' => ~ destroyFailed'
      BY <1>2, <2>1, <2>3 DEF NewPort, DeleteDriver
    <3> QED
      BY <3>1, <3>2, <3>3, <3>4, <3>5, <3>6
  <2> QED
    BY <2>2, <2>3
<1>3. ASSUME NEW v \in Vars, NEW port \in Ports, NewPortFails(v, port)
      PROVE  I2cInv'
  BY <1>3 DEF NewPortFails, DeleteDriver
<1>4. ASSUME NEW v \in Vars, DropPort(v)
      PROVE  I2cInv'
  BY <1>4 DEF DropPort, DeleteDriver
<1> QED
  BY <1>1, <1>2, <1>3, <1>4 DEF I2cNext

\* However constructors, failures and destructors follow each other, every driver has an
\* object that will delete it, and until a constructor raises every object its own driver.
THEOREM I2cDriversHaveOwners == Spec => []DriversHaveOwners
<1>1. Init => I2cInv
  BY I2cInvInit DEF Init
<1>2. I2cInv /\ [Next]_vars => I2cInv'
  BY I2cInvStep, PartSteps
<1>3. I2cInv => DriversHaveOwners
  BY DEF I2cInv
<1> QED
  BY <1>1, <1>2, <1>3, PTL DEF Spec

-----------------------------------------------------------------------------
(* NvsStore *)

\* What was promised is both in flash and in what the driver answers with; a reset makes
\* the second out of the first, and the driver may write the second into the first.
NvsInv ==
    /\ NvsTypeOK
    /\ \A k \in NvsKeys : acked[k] # NoValue => nvsFlash[k] = acked[k] /\ nvsView[k] = acked[k]

\* Nothing is promised at first.
LEMMA NvsInvInit == NvsInit => NvsInv
<1> SUFFICES ASSUME NvsInit PROVE NvsInv
  OBVIOUS
<1>1. NvsTypeOK
  <2>1. nvsFlash \in [NvsKeys -> NvsValues \union {NoValue}]
    BY DEF NvsInit
  <2>2. acked \in [NvsKeys -> NvsValues \union {NoValue}]
    BY DEF NvsInit
  <2>3. fills \in 0 .. MaxFills
    BY NvsBoundsAssumption DEF NvsInit
  <2> QED
    BY <2>1, <2>2, <2>3 DEF NvsInit, NvsTypeOK
<1>2. \A k \in NvsKeys : acked[k] = NoValue
  BY DEF NvsInit
<1> QED
  BY <1>1, <1>2 DEF NvsInv

\* Every call, whether it succeeds or fails, keeps what was promised, and so does a reset.
LEMMA NvsInvStep ==
    ASSUME NvsInv, [NvsNext]_nvsVars
    PROVE  NvsInv'
<1> USE NvsBoundsAssumption, NoValueAssumption DEF NvsInv, NvsTypeOK
<1>1. CASE UNCHANGED nvsVars
  BY <1>1 DEF nvsVars
<1>2. CASE NewNvs
  BY <1>2 DEF NewNvs
<1>3. CASE InitFindsFull
  BY <1>3 DEF InitFindsFull
<1>4. CASE InitErases
  BY <1>4 DEF InitErases, Erase
<1>5. CASE InitFails
  BY <1>5 DEF InitFails, Erase
<1>6. CASE EraseNvs
  <2>1. PICK gone \in SUBSET NvsKeys : Erase(gone) /\ full' = (full /\ gone # NvsKeys)
    BY <1>6 DEF EraseNvs
  <2>2. opened' = FALSE /\ nvsPc' = nvsPc /\ fills' = fills
    BY <1>6 DEF EraseNvs
  <2> QED
    BY <2>1, <2>2 DEF Erase
<1>7. CASE DeInitNvs
  BY <1>7 DEF DeInitNvs
<1>8. ASSUME NEW k \in IntKeys, NEW value \in NvsValues, SetInt(k, value)
      PROVE  NvsInv'
  BY <1>8 DEF SetInt, NvsKeys
<1>9. CASE CommitInt
  BY <1>9 DEF CommitInt
<1>10. CASE CommitFails
  BY <1>10 DEF CommitFails
<1>11. ASSUME NEW k \in StrKeys, NEW value \in NvsValues, SetStr(k, value)
       PROVE  NvsInv'
  BY <1>11 DEF SetStr, NvsKeys
<1>12. ASSUME NEW k \in NvsKeys, WriteBack(k)
       PROVE  NvsInv'
  BY <1>12 DEF WriteBack
<1>13. CASE Fills
  BY <1>13 DEF Fills
<1>14. CASE NvsReset
  BY <1>14 DEF NvsReset
<1> QED
  BY <1>1, <1>2, <1>3, <1>4, <1>5, <1>6, <1>7, <1>8, <1>9, <1>10, <1>11, <1>12, <1>13, <1>14
     DEF NvsNext

\* What a setInt has committed, its own value and the strings before it, outlives every
\* reset and every failing call until it is written over or erased.
THEOREM NvsCommittedSurvives == Spec => []CommittedSurvives
<1>1. Init => NvsInv
  BY NvsInvInit DEF Init
<1>2. NvsInv /\ [Next]_vars => NvsInv'
  BY NvsInvStep, PartSteps
<1>3. NvsInv => CommittedSurvives
  BY DEF NvsInv, CommittedSurvives, GetInt, NvsKeys
<1> QED
  BY <1>1, <1>2, <1>3, PTL DEF Spec

-----------------------------------------------------------------------------
(* IdNode *)

References == refs["server"] + refs["rpc"]

\* A count that is stored late is never lower than the references that are left, less one:
\* neither is one that a release has read, since references only go.  If no two releases
\* overlap it is exact.
NodeInv ==
    /\ callPc \in {"decoded", "handed", "replied", "received"}
    /\ refs \in [Tasks -> Nat] /\ count \in Nat /\ loaded \in [Tasks -> Nat]
    /\ nodePc \in [Tasks -> {"idle", "decrement", "store"}]
    /\ encoded \in BOOLEAN /\ overlapped \in BOOLEAN /\ frees \in Nat
    /\ callPc # "received" =>
        /\ nodePc["server"] = "idle" /\ nodePc["rpc"] = "idle"
        /\ frees = 0 /\ References > 0
    /\ callPc = "decoded" => refs["rpc"] = 0 /\ References = 1
    /\ callPc = "handed" => refs["server"] = 0 /\ References = 1
    /\ callPc = "replied" => refs["server"] = 0 /\ References > 1
    /\ callPc = "received" /\ ~ encoded => refs["server"] > 0 /\ nodePc["server"] = "idle"
    /\ count + 1 >= References
    /\ \A t \in Tasks : nodePc[t] # "idle" => refs[t] > 0 /\ loaded[t] + 1 >= References
    /\ frees > 0 => frees = 1 /\ encoded /\ References = 0
    /\ ~ overlapped =>
        /\ nodePc["server"] = "idle" \/ nodePc["rpc"] = "idle"
        /\ References > 0 => count + 1 = References
        /\ References = 0 => frees = 1
        /\ \A t \in Tasks : nodePc[t] # "idle" => count > 0 /\ loaded[t] = count

\* The server has the only reference to the node of a request it has just decoded.
LEMMA NodeInvInit == NodeInit => NodeInv
<1> SUFFICES ASSUME NodeInit PROVE NodeInv
  OBVIOUS
<1> USE DEF NodeInit, Tasks
<1>1. /\ refs["server"] = 1 /\ refs["rpc"] = 0
      /\ nodePc["server"] = "idle" /\ nodePc["rpc"] = "idle"
  OBVIOUS
<1>2. /\ refs \in [Tasks -> Nat] /\ loaded \in [Tasks -> Nat]
      /\ nodePc \in [Tasks -> {"idle", "decrement", "store"}]
  OBVIOUS
<1>3. \A t \in Tasks : nodePc[t] = "idle"
  OBVIOUS
<1>4. References = 1
  BY <1>1 DEF References
<1>5. callPc = "decoded" /\ count = 0 /\ encoded = FALSE /\ overlapped = FALSE /\ frees = 0
  OBVIOUS
<1> QED
  <2>1. frees \in Nat /\ count \in Nat
    BY <1>5
  <2>2. encoded \in BOOLEAN /\ overlapped \in BOOLEAN
    BY <1>5
  <2>3. References > 0 /\ count + 1 = References /\ frees = 0
    BY <1>4, <1>5
  <2>4. callPc # "received" /\ callPc # "handed" /\ callPc # "replied"
    BY <1>5
  <2>5.  \A t \in Tasks : nodePc[t] # "idle" => refs[t] > 0 /\ loaded[t] + 1 >= References
    BY <1>3
  <2>6. \A t \in Tasks : nodePc[t] # "idle" => count > 0 /\ loaded[t] = count
    BY <1>3
  <2> QED
    BY <1>1, <1>2, <1>4, <1>5, <2>1, <2>2, <2>3, <2>4, <2>5, <2>6 DEF NodeInv

\* Each of the three steps of a release keeps the count high enough.
LEMMA NodeInvStep ==
    ASSUME NodeInv, [NodeNext]_nodeVars
    PROVE  NodeInv'
<1> USE DEF NodeInv, Tasks, References
<1>1. CASE UNCHANGED nodeVars
  BY <1>1 DEF nodeVars
<1>2. CASE HandOver
  BY <1>2 DEF HandOver
<1>3. CASE RouteCall
  BY <1>3 DEF RouteCall
<1>4. CASE SendReply
  BY <1>4 DEF SendReply
<1>5. CASE EncodeReply
  BY <1>5 DEF EncodeReply
<1>6. ASSUME NEW t \in Tasks, BeginRelease(t)
      PROVE  NodeInv'
  <2>1. CASE count = 0
    BY <1>6, <2>1 DEF BeginRelease, Scope
  <2>2. CASE count # 0
    <3>1. /\ nodePc' = [nodePc EXCEPT ![t] = "decrement"] /\ loaded' = [loaded EXCEPT ![t] = count]
          /\ callPc = "received" /\ nodePc[t] = "idle" /\ refs[t] > 0
          /\ UNCHANGED <<callPc, count, encoded, frees, refs>>
      BY <1>6, <2>2 DEF BeginRelease, Scope
    <3>2. overlapped' \in BOOLEAN /\ (overlapped' <=> overlapped \/ \E u \in Tasks \ {t} : nodePc[u] # "idle")
      BY <1>6 DEF BeginRelease
    <3>3. \A u \in Tasks : nodePc'[u] # "idle" => refs'[u] > 0 /\ loaded'[u] + 1 >= References'
      BY <3>1
    <3>4. ASSUME ~ overlapped'
          PROVE  /\ nodePc'["server"] = "idle" \/ nodePc'["rpc"] = "idle"
                 /\ \A u \in Tasks : nodePc'[u] # "idle" => count' > 0 /\ loaded'[u] = count'
      BY <2>2, <3>1, <3>2, <3>4
    <3>5. t = "server" => encoded
      BY <1>6 DEF BeginRelease, Scope
    <3> QED
      BY <3>1, <3>2, <3>3, <3>4, <3>5
  <2> QED
    BY <2>1, <2>2
<1>7. ASSUME NEW t \in Tasks, ReadAgain(t)
      PROVE  NodeInv'
  BY <1>7 DEF ReadAgain
<1>8. ASSUME NEW t \in Tasks, StoreCount(t)
      PROVE  NodeInv'
  <2>1. /\ nodePc[t] # "idle" /\ nodePc' = [nodePc EXCEPT ![t] = "idle"]
        /\ refs' = [refs EXCEPT ![t] = @ - 1]
        /\ UNCHANGED <<callPc, loaded, encoded, frees, overlapped>>
    BY <1>8 DEF StoreCount
  <2>2. refs[t] > 0 /\ loaded[t] + 1 >= References /\ callPc = "received"
    BY <2>1
  <2>3. References' = References - 1 /\ References \in Nat
    BY <2>1, <2>2
  <2>4. count' \in Nat /\ count' + 1 >= References' /\ (loaded[t] > 0 => count' = loaded[t] - 1)
    BY <1>8, <2>2, <2>3 DEF StoreCount, BelowZero
  <2>5. callPc = "received" /\ ~ encoded => refs'["server"] > 0 /\ nodePc'["server"] = "idle"
    BY <2>1
  <2> QED
    BY <2>1, <2>2, <2>3, <2>4, <2>5
<1> QED
  BY <1>1, <1>2, <1>3, <1>4, <1>5, <1>6, <1>7, <1>8 DEF NodeNext

\* In no order of the two tasks' reads and stores is the id freed early or twice.
THEOREM NodeIsKept == Spec => []IdNodeKept
<1>1. Init => NodeInv
  BY NodeInvInit DEF Init
<1>2. NodeInv /\ [Next]_vars => NodeInv'
  BY NodeInvStep, PartSteps
<1>3. NodeInv => IdNodeKept
  BY DEF NodeInv, IdNodeKept, Tasks, References
<1> QED
  BY <1>1, <1>2, <1>3, PTL DEF Spec

-----------------------------------------------------------------------------
(* Networking *)

\* The main task has a group everywhere between its creation and forgetting it.
WithGroup ==
    {"init", "regDisconnect", "regIp", "config", "start", "join", "wait", "serve", "failed", "forget"}

\* A group is allocated as long as the global variable refers to it, except between the two
\* statements that delete it and forget it.
GroupInv ==
    /\ sessions \in Nat /\ group \in 0 .. sessions
    /\ main \in WithGroup => group # NoGroup
    /\ main \in {"unregDisconnect", "unregIp", "stop", "deinit"} => group = NoGroup
    /\ main = "forget" => live = {}
    /\ main # "forget" => live = {group} \ {NoGroup}
    /\ gotIp \subseteq live

\* What is there of a session, place by place on the way through networkingDisconnect and
\* into the next networkingConnect.
UndoneInv ==
    /\ link # "down" => driver = "started"
    /\ driver # "off" => sessions > 0
    /\ main = "join" => driver = "started"
    /\ main = "idle" /\ group = NoGroup => handlers = {} /\ driver = "off"
    /\ main = "init" => handlers = {} /\ driver = "off"
    /\ main = "regDisconnect" => handlers = {} /\ driver # "started"
    /\ main = "regIp" => "ip" \notin handlers
    /\ main = "unregIp" => "disconnect" \notin handlers
    /\ handlers \subseteq {"disconnect", "ip"}
    /\ main = "stop" => handlers = {}
    /\ main = "deinit" => handlers = {} /\ driver = "init"

Posted == {events[i].session : i \in DOMAIN events}

\* An event in the queue that is of this session was posted by a started driver, unless
\* nobody listens any more.
EventsInv ==
    /\ events \in Seq([kind : {"lost", "ip"}, session : Nat \ {0}])
    /\ Posted \subseteq 1 .. sessions
    /\ driver # "started" /\ (main = "init" \/ main = "regDisconnect" \/ "disconnect" \in handlers)
            => sessions \notin Posted

\* An address is stored before its bit is set, and while the handler that does both runs it
\* cannot be unregistered.
AddressInv ==
    /\ evt \in {"idle", "setBits"}
    /\ evt = "setBits" => "ip" \in handlers
    /\ main = "serve" \/ gotIp # {} \/ evt = "setBits" =>
            ipAddr # NoGroup /\ (stale \/ ipAddr = sessions)
    /\ fault = "callback" => stale

NetInv == GroupInv /\ UndoneInv /\ EventsInv /\ AddressInv

\* Before the first networkingConnect there is nothing.
LEMMA NetInvInit == NetInit => NetInv
<1> SUFFICES ASSUME NetInit PROVE NetInv
  OBVIOUS
<1>1. Posted = {}
  BY DEF NetInit, Posted
<1>2. events \in Seq([kind : {"lost", "ip"}, session : Nat \ {0}])
  BY DEF NetInit
<1>3. GroupInv /\ UndoneInv
  BY DEF NetInit, GroupInv, UndoneInv, WithGroup, NoGroup
<1>4. AddressInv
  BY DEF NetInit, AddressInv
<1> QED
  BY <1>1, <1>2, <1>3, <1>4 DEF NetInit, NetInv, EventsInv

\* A queue that stays has the same events.
LEMMA PostedStays ==
    ASSUME events' = events
    PROVE  Posted' = Posted
BY DEF Posted

\* The head of the queue was posted, and handling it posts nothing.
LEMMA PostedHead ==
    ASSUME EventsInv, events # <<>>
    PROVE  /\ Head(events) \in [kind : {"lost", "ip"}, session : Nat \ {0}]
           /\ Head(events).session \in Posted
           /\ events' = Tail(events) =>
                /\ Posted' \subseteq Posted
                /\ events' \in Seq([kind : {"lost", "ip"}, session : Nat \ {0}])
<1> DEFINE Event == [kind : {"lost", "ip"}, session : Nat \ {0}]
<1>1. events \in Seq(Event)
  BY DEF EventsInv
<1>2. Head(events) = events[1] /\ 1 \in DOMAIN events /\ events[1] \in Event
  <2>1. Len(events) \in Nat \ {0}
    BY <1>1, EmptySeq
  <2>2. DOMAIN events = 1 .. Len(events)
    BY <1>1, LenProperties
  <2>3. 1 \in DOMAIN events
    BY <2>1, <2>2
  <2>4. events[1] \in Event
    BY <1>1, <2>2, <2>3, ElementOfSeq
  <2>5. Head(events) = events[1]
    BY <1>1, <2>1
  <2> QED
    BY <2>3, <2>4, <2>5
<1>3. ASSUME events' = Tail(events)
      PROVE  Posted' \subseteq Posted /\ events' \in Seq(Event)
  <2>1. \A j \in DOMAIN events' : j + 1 \in DOMAIN events /\ events'[j] = events[j + 1]
    BY <1>1, <1>3
  <2>2. events' \in Seq(Event)
    BY <1>1, <1>3
  <2> QED
    BY <2>1, <2>2 DEF Posted
<1> QED
  BY <1>2, <1>3 DEF Posted

\* What is posted is of the session that is on.
LEMMA PostedAppend ==
    ASSUME EventsInv, NEW kind \in {"lost", "ip"}, sessions \in Nat \ {0},
           events' = Append(events, [kind |-> kind, session |-> sessions])
    PROVE  /\ Posted' = Posted \union {sessions}
           /\ events' \in Seq([kind : {"lost", "ip"}, session : Nat \ {0}])
<1> DEFINE Event == [kind : {"lost", "ip"}, session : Nat \ {0}]
<1>1. events \in Seq(Event) /\ [kind |-> kind, session |-> sessions] \in Event
  BY DEF EventsInv
<1>2. events' \in Seq(Event)
  BY <1>1
<1>3. DOMAIN events' = DOMAIN events \union {Len(events) + 1}
  BY <1>1
<1>4. \A j \in DOMAIN events : events'[j] = events[j]
  BY <1>1
<1>5. events'[Len(events) + 1].session = sessions
  BY <1>1
<1> QED
  BY <1>2, <1>3, <1>4, <1>5 DEF Posted

\* The group and its bit.
LEMMA GroupStep ==
    ASSUME GroupInv, AddressInv, [NetNext]_networkingVars
    PROVE  GroupInv'
<1> USE DEF GroupInv, WithGroup, NoGroup, groupVars
<1>1. CASE UNCHANGED networkingVars
  BY <1>1 DEF networkingVars
<1>2. CASE CreateGroup
  BY <1>2 DEF CreateGroup, MainGoto
<1>3. CASE ConnectRefused
  BY <1>3 DEF ConnectRefused, MainGoto
<1>4. CASE WifiInit
  BY <1>4 DEF WifiInit, MainGoto
<1>5. CASE RegisterHandler("regDisconnect", "regIp", "disconnect")
  BY <1>5 DEF RegisterHandler, MainGoto
<1>6. CASE RegisterHandler("regIp", "config", "ip")
  BY <1>6 DEF RegisterHandler, MainGoto
<1>7. CASE WifiConfig
  BY <1>7 DEF WifiConfig, MainGoto
<1>8. CASE WifiStart
  BY <1>8 DEF WifiStart, MainGoto
<1>9. CASE WifiConnect
  BY <1>9 DEF WifiConnect, MainGoto, Joining
<1>10. CASE WifiStartFails
  BY <1>10 DEF WifiStartFails, MainGoto
<1>11. CASE Retry
  BY <1>11 DEF Retry, MainGoto
<1>12. CASE OnNetworking
  BY <1>12 DEF OnNetworking, MainGoto
<1>13. CASE DeleteGroup
  BY <1>13 DEF DeleteGroup, MainGoto
<1>14. CASE ForgetGroup
  BY <1>14 DEF ForgetGroup, MainGoto
<1>15. CASE UnregisterHandler("unregDisconnect", "unregIp", "disconnect")
  BY <1>15 DEF UnregisterHandler, MainGoto
<1>16. CASE UnregisterHandler("unregIp", "stop", "ip")
  BY <1>16 DEF UnregisterHandler, MainGoto
<1>17. CASE WifiStop
  BY <1>17 DEF WifiStop, MainGoto
<1>18. CASE WifiStopFails
  BY <1>18 DEF WifiStopFails, MainGoto
<1>19. CASE WifiDeinit
  BY <1>19 DEF WifiDeinit, MainGoto
<1>20. CASE IpReceived
  BY <1>20 DEF IpReceived, Takes, NotesSession
<1>21. CASE SetBits
  BY <1>21 DEF SetBits
<1>22. CASE OnWifiDisconnect
  BY <1>22 DEF OnWifiDisconnect, Takes, NotesSession, Joining
<1>23. CASE NoHandler
  BY <1>23 DEF NoHandler, Takes
<1>24. CASE Join
  BY <1>24 DEF Join, netUnchanged
<1>25. CASE ObtainAddress
  BY <1>25 DEF ObtainAddress, netUnchanged
<1>26. CASE LoseLink
  BY <1>26 DEF LoseLink, netUnchanged
<1> QED
  BY <1>1, <1>2, <1>3, <1>4, <1>5, <1>6, <1>7, <1>8, <1>9, <1>10, <1>11, <1>12, <1>13,
     <1>14, <1>15, <1>16, <1>17, <1>18, <1>19, <1>20, <1>21, <1>22, <1>23, <1>24, <1>25, <1>26
     DEF NetNext, Connect, Disconnect, EventTask, AccessPoint

\* The handlers, the driver and the link.
LEMMA UndoneStep ==
    ASSUME GroupInv, UndoneInv, [NetNext]_networkingVars
    PROVE  UndoneInv'
<1> USE DEF GroupInv, UndoneInv, WithGroup, NoGroup, groupVars, netVars
<1>1. CASE UNCHANGED networkingVars
  BY <1>1 DEF networkingVars
<1>2. CASE CreateGroup
  BY <1>2 DEF CreateGroup, MainGoto
<1>3. CASE ConnectRefused
  BY <1>3 DEF ConnectRefused, MainGoto
<1>4. CASE WifiInit
  BY <1>4 DEF WifiInit, MainGoto
<1>5. CASE RegisterHandler("regDisconnect", "regIp", "disconnect")
  BY <1>5 DEF RegisterHandler, MainGoto
<1>6. CASE RegisterHandler("regIp", "config", "ip")
  BY <1>6 DEF RegisterHandler, MainGoto
<1>7. CASE WifiConfig
  BY <1>7 DEF WifiConfig, MainGoto
<1>8. CASE WifiStart
  BY <1>8 DEF WifiStart, MainGoto
<1>9. CASE WifiConnect
  BY <1>9 DEF WifiConnect, MainGoto, Joining
<1>10. CASE WifiStartFails
  BY <1>10 DEF WifiStartFails, MainGoto
<1>11. CASE Retry
  BY <1>11 DEF Retry, MainGoto
<1>12. CASE OnNetworking
  BY <1>12 DEF OnNetworking, MainGoto
<1>13. CASE DeleteGroup
  BY <1>13 DEF DeleteGroup, MainGoto
<1>14. CASE ForgetGroup
  BY <1>14 DEF ForgetGroup, MainGoto
<1>15. CASE UnregisterHandler("unregDisconnect", "unregIp", "disconnect")
  BY <1>15 DEF UnregisterHandler, MainGoto
<1>16. CASE UnregisterHandler("unregIp", "stop", "ip")
  BY <1>16 DEF UnregisterHandler, MainGoto
<1>17. CASE WifiStop
  BY <1>17 DEF WifiStop, MainGoto
<1>18. CASE WifiStopFails
  BY <1>18 DEF WifiStopFails, MainGoto
<1>19. CASE WifiDeinit
  BY <1>19 DEF WifiDeinit, MainGoto
<1>20. CASE IpReceived
  BY <1>20 DEF IpReceived, Takes, NotesSession
<1>21. CASE SetBits
  BY <1>21 DEF SetBits
<1>22. CASE OnWifiDisconnect
  BY <1>22 DEF OnWifiDisconnect, Takes, NotesSession, Joining
<1>23. CASE NoHandler
  BY <1>23 DEF NoHandler, Takes
<1>24. CASE Join
  BY <1>24 DEF Join, netUnchanged
<1>25. CASE ObtainAddress
  BY <1>25 DEF ObtainAddress, netUnchanged
<1>26. CASE LoseLink
  BY <1>26 DEF LoseLink, netUnchanged
<1> QED
  BY <1>1, <1>2, <1>3, <1>4, <1>5, <1>6, <1>7, <1>8, <1>9, <1>10, <1>11, <1>12, <1>13,
     <1>14, <1>15, <1>16, <1>17, <1>18, <1>19, <1>20, <1>21, <1>22, <1>23, <1>24, <1>25, <1>26
     DEF NetNext, Connect, Disconnect, EventTask, AccessPoint

\* The queue of the event loop.
LEMMA EventsStep ==
    ASSUME GroupInv, UndoneInv, EventsInv, [NetNext]_networkingVars
    PROVE  EventsInv'
<1> USE DEF GroupInv, UndoneInv, EventsInv, WithGroup, groupVars, netVars
<1>1. CASE UNCHANGED networkingVars
  BY <1>1, PostedStays DEF networkingVars
<1>2. CASE CreateGroup
  <2>1. events' = events /\ sessions' = sessions + 1 /\ sessions \in Nat
    BY <1>2 DEF CreateGroup
  <2>2. Posted' = Posted
    BY <2>1, PostedStays
  <2>3. sessions' \notin 1 .. sessions /\ 1 .. sessions \subseteq 1 .. sessions'
    BY <2>1
  <2> QED
    BY <2>1, <2>2, <2>3
<1>3. CASE ConnectRefused
  BY <1>3, PostedStays DEF ConnectRefused, MainGoto
<1>4. CASE WifiInit
  BY <1>4, PostedStays DEF WifiInit, MainGoto
<1>5. CASE RegisterHandler("regDisconnect", "regIp", "disconnect")
  BY <1>5, PostedStays DEF RegisterHandler, MainGoto
<1>6. CASE RegisterHandler("regIp", "config", "ip")
  BY <1>6, PostedStays DEF RegisterHandler, MainGoto
<1>7. CASE WifiConfig
  BY <1>7, PostedStays DEF WifiConfig, MainGoto
<1>8. CASE WifiStart
  BY <1>8, PostedStays DEF WifiStart, MainGoto
<1>9. CASE WifiConnect
  BY <1>9, PostedStays DEF WifiConnect, MainGoto, Joining
<1>10. CASE WifiStartFails
  BY <1>10, PostedStays DEF WifiStartFails, MainGoto
<1>11. CASE Retry
  BY <1>11, PostedStays DEF Retry, MainGoto
<1>12. CASE OnNetworking
  BY <1>12, PostedStays DEF OnNetworking, MainGoto
<1>13. CASE DeleteGroup
  BY <1>13, PostedStays DEF DeleteGroup, MainGoto
<1>14. CASE ForgetGroup
  BY <1>14, PostedStays DEF ForgetGroup, MainGoto
<1>15. CASE UnregisterHandler("unregDisconnect", "unregIp", "disconnect")
  BY <1>15, PostedStays DEF UnregisterHandler, MainGoto
<1>16. CASE UnregisterHandler("unregIp", "stop", "ip")
  BY <1>16, PostedStays DEF UnregisterHandler, MainGoto
<1>17. CASE WifiStop
  <2>1. driver = "started" => sessions \in Nat \ {0}
    OBVIOUS
  <2>2. events' = events \/ events' = Append(events, [kind |-> "lost", session |-> sessions])
    BY <1>17 DEF WifiStop, MainGoto
  <2>3. CASE events' = events
    BY <1>17, <2>3, PostedStays DEF WifiStop, MainGoto
  <2>4. CASE events' = Append(events, [kind |-> "lost", session |-> sessions])
    <3>1. link # "down"
      BY <1>17, <2>4 DEF WifiStop, MainGoto
    <3>2. Posted' = Posted \union {sessions} /\ events' \in Seq([kind : {"lost", "ip"}, session : Nat \ {0}])
      BY <2>1, <2>4, <3>1, PostedAppend
    <3> QED
      BY <1>17, <2>1, <3>1, <3>2 DEF WifiStop, MainGoto
  <2> QED
    BY <2>2, <2>3, <2>4
<1>18. CASE WifiStopFails
  BY <1>18, PostedStays DEF WifiStopFails, MainGoto
<1>19. CASE WifiDeinit
  BY <1>19, PostedStays DEF WifiDeinit, MainGoto
<1>20. CASE IpReceived
  BY <1>20, PostedHead DEF IpReceived, Takes, NotesSession
<1>21. CASE SetBits
  BY <1>21, PostedStays DEF SetBits
<1>22. CASE OnWifiDisconnect
  BY <1>22, PostedHead DEF OnWifiDisconnect, Takes, NotesSession, Joining
<1>23. CASE NoHandler
  BY <1>23, PostedHead DEF NoHandler, Takes
<1>24. CASE Join
  BY <1>24, PostedStays DEF Join, netUnchanged
<1>25. CASE ObtainAddress
  <2>1. driver = "started" => sessions \in Nat \ {0}
    OBVIOUS
  <2>2. events' = events \/ events' = Append(events, [kind |-> "ip", session |-> sessions])
    BY <1>25 DEF ObtainAddress, netUnchanged
  <2>3. CASE events' = events
    BY <1>25, <2>3, PostedStays DEF ObtainAddress, netUnchanged
  <2>4. CASE events' = Append(events, [kind |-> "ip", session |-> sessions])
    <3>1. link # "down"
      BY <1>25, <2>4 DEF ObtainAddress, netUnchanged
    <3>2. Posted' = Posted \union {sessions} /\ events' \in Seq([kind : {"lost", "ip"}, session : Nat \ {0}])
      BY <2>1, <2>4, <3>1, PostedAppend
    <3> QED
      BY <1>25, <2>1, <3>1, <3>2 DEF ObtainAddress, netUnchanged
  <2> QED
    BY <2>2, <2>3, <2>4
<1>26. CASE LoseLink
  <2>1. driver = "started" => sessions \in Nat \ {0}
    OBVIOUS
  <2>2. events' = events \/ events' = Append(events, [kind |-> "lost", session |-> sessions])
    BY <1>26 DEF LoseLink, netUnchanged
  <2>3. CASE events' = events
    BY <1>26, <2>3, PostedStays DEF LoseLink, netUnchanged
  <2>4. CASE events' = Append(events, [kind |-> "lost", session |-> sessions])
    <3>1. link # "down"
      BY <1>26, <2>4 DEF LoseLink, netUnchanged
    <3>2. Posted' = Posted \union {sessions} /\ events' \in Seq([kind : {"lost", "ip"}, session : Nat \ {0}])
      BY <2>1, <2>4, <3>1, PostedAppend
    <3> QED
      BY <1>26, <2>1, <3>1, <3>2 DEF LoseLink, netUnchanged
  <2> QED
    BY <2>2, <2>3, <2>4
<1> QED
  BY <1>1, <1>2, <1>3, <1>4, <1>5, <1>6, <1>7, <1>8, <1>9, <1>10, <1>11, <1>12, <1>13,
     <1>14, <1>15, <1>16, <1>17, <1>18, <1>19, <1>20, <1>21, <1>22, <1>23, <1>24, <1>25, <1>26
     DEF NetNext, Connect, Disconnect, EventTask, AccessPoint

\* The address, and the two handlers that use what both tasks share.
LEMMA AddressStep ==
    ASSUME GroupInv, UndoneInv, EventsInv, AddressInv, [NetNext]_networkingVars
    PROVE  AddressInv'
<1> USE DEF GroupInv, UndoneInv, EventsInv, AddressInv, WithGroup, NoGroup, groupVars, netVars
<1>1. CASE UNCHANGED networkingVars
  BY <1>1 DEF networkingVars
<1>2. CASE CreateGroup
  BY <1>2 DEF CreateGroup, MainGoto
<1>3. CASE ConnectRefused
  BY <1>3 DEF ConnectRefused, MainGoto
<1>4. CASE WifiInit
  BY <1>4 DEF WifiInit, MainGoto
<1>5. CASE RegisterHandler("regDisconnect", "regIp", "disconnect")
  BY <1>5 DEF RegisterHandler, MainGoto
<1>6. CASE RegisterHandler("regIp", "config", "ip")
  BY <1>6 DEF RegisterHandler, MainGoto
<1>7. CASE WifiConfig
  BY <1>7 DEF WifiConfig, MainGoto
<1>8. CASE WifiStart
  BY <1>8 DEF WifiStart, MainGoto
<1>9. CASE WifiConnect
  BY <1>9 DEF WifiConnect, MainGoto, Joining
<1>10. CASE WifiStartFails
  BY <1>10 DEF WifiStartFails, MainGoto
<1>11. CASE Retry
  BY <1>11 DEF Retry, MainGoto
<1>12. CASE OnNetworking
  BY <1>12 DEF OnNetworking, MainGoto
<1>13. CASE DeleteGroup
  BY <1>13 DEF DeleteGroup, MainGoto
<1>14. CASE ForgetGroup
  BY <1>14 DEF ForgetGroup, MainGoto
<1>15. CASE UnregisterHandler("unregDisconnect", "unregIp", "disconnect")
  BY <1>15 DEF UnregisterHandler, MainGoto
<1>16. CASE UnregisterHandler("unregIp", "stop", "ip")
  BY <1>16 DEF UnregisterHandler, MainGoto
<1>17. CASE WifiStop
  BY <1>17 DEF WifiStop, MainGoto
<1>18. CASE WifiStopFails
  BY <1>18 DEF WifiStopFails, MainGoto
<1>19. CASE WifiDeinit
  BY <1>19 DEF WifiDeinit, MainGoto
<1>20. CASE IpReceived
  BY <1>20, PostedHead DEF IpReceived, Takes, NotesSession
<1>21. CASE SetBits
  BY <1>21 DEF SetBits
<1>22. CASE OnWifiDisconnect
  BY <1>22, PostedHead DEF OnWifiDisconnect, Takes, NotesSession, Joining
<1>23. CASE NoHandler
  BY <1>23, PostedHead DEF NoHandler, Takes
<1>24. CASE Join
  BY <1>24 DEF Join, netUnchanged
<1>25. CASE ObtainAddress
  BY <1>25 DEF ObtainAddress, netUnchanged
<1>26. CASE LoseLink
  BY <1>26 DEF LoseLink, netUnchanged
<1> QED
  BY <1>1, <1>2, <1>3, <1>4, <1>5, <1>6, <1>7, <1>8, <1>9, <1>10, <1>11, <1>12, <1>13,
     <1>14, <1>15, <1>16, <1>17, <1>18, <1>19, <1>20, <1>21, <1>22, <1>23, <1>24, <1>25, <1>26
     DEF NetNext, Connect, Disconnect, EventTask, AccessPoint

\* The four parts together are inductive.
LEMMA NetInvStep ==
    ASSUME NetInv, [NetNext]_networkingVars
    PROVE  NetInv'
BY GroupStep, UndoneStep, EventsStep, AddressStep DEF NetInv

\* The invariant of the networking part holds of the whole.
LEMMA NetInvAlways == Spec => []NetInv
<1>1. Init => NetInv
  BY NetInvInit DEF Init
<1>2. NetInv /\ [Next]_vars => NetInv'
  BY NetInvStep, PartSteps
<1> QED
  BY <1>1, <1>2, PTL DEF Spec

\* However often networkingConnect fails, and whatever the event task does meanwhile, no
\* event group is lost, and networkingDisconnect leaves nothing behind.
THEOREM NetNothingLeaks == Spec => []NothingLeaks
<1>1. NetInv => NothingLeaks
  BY DEF NetInv, GroupInv, UndoneInv, NothingLeaks
<1> QED
  BY <1>1, NetInvAlways, PTL

\* The server starts with an address, and with that of its own session unless an event of
\* an earlier one was handled late.
THEOREM NetAddressBeforeServer == Spec => []AddressBeforeServer
<1>1. NetInv => AddressBeforeServer
  BY DEF NetInv, AddressInv, AddressBeforeServer
<1> QED
  BY <1>1, NetInvAlways, PTL
-----------------------------------------------------------------------------
(* UartPort *)

InRead == IF uartPc = "reading" THEN buff ELSE <<>>

\* What read has returned, what it has copied and what is in the ring are the bytes that
\* were accepted, cut in three; bytes are behind the buffer only inside a read that asked
\* for more than there was, or after it has raised.
UartInv ==
    /\ uartPc \in {"closed", "idle", "reading", "raised"}
    /\ arrived \in Nat /\ size \in Nat /\ avail \in Nat
    /\ accepted \in Seq(Nat) /\ ring \in Seq(Nat) /\ buff \in Seq(Nat)
    /\ spilled \in BOOLEAN
    /\ spilled => uartPc \in {"reading", "raised"} /\ Len(buff) > avail /\ size > avail
    /\ ~ spilled =>
        /\ uartPc # "raised"
        /\ uartPc = "reading" => Len(buff) <= avail
        /\ delivered \in Seq(Nat)
        /\ delivered \o (InRead \o ring) = accepted

\* Where three sequences of bytes are cut does not matter.
LEMMA BytesAssociative ==
    \A a, b, c \in Seq(Nat) : (a \o b) \o c = a \o (b \o c)
BY ConcatAssociative

\* Before newUart nothing has been accepted.
LEMMA UartInvInit == UartInit => UartInv
<1> SUFFICES ASSUME UartInit PROVE UartInv
  OBVIOUS
<1>1. <<>> \in Seq(Nat) /\ <<>> \o (<<>> \o <<>>) = <<>>
  BY EmptySeq, ConcatEmptySeq
<1>2. spilled \in BOOLEAN /\ ~ spilled
  BY DEF UartInit
<1> QED
  BY <1>1, <1>2 DEF UartInit, UartInv, InRead

\* A byte goes to the end, a copy moves the cut between buffer and ring, and a read that
\* returns the one between what was delivered and the buffer.
LEMMA UartInvStep ==
    ASSUME UartInv, [UartNext]_uartVars
    PROVE  UartInv'
<1> USE UartAssumption DEF UartInv
<1>0. <<>> \in Seq(Nat)
  BY EmptySeq
<1>1. CASE UNCHANGED uartVars
  BY <1>1 DEF uartVars, InRead
<1>2. CASE NewUart
  BY <1>2 DEF NewUart, InRead
<1>3. CASE ByteArrives
  <2>1. CASE Len(ring) < RingSize
    <3>1. /\ ring' = Append(ring, arrived') /\ accepted' = Append(accepted, arrived')
          /\ arrived' \in Nat /\ UNCHANGED <<uartPc, size, buff, avail, delivered, spilled>>
      BY <1>3, <2>1 DEF ByteArrives
    <3>2. ring' = ring \o <<arrived'>> /\ accepted' = accepted \o <<arrived'>>
      BY <3>1, AppendIsConcat
    <3>3. ring' \in Seq(Nat) /\ accepted' \in Seq(Nat) /\ <<arrived'>> \in Seq(Nat)
      BY <3>1, AppendProperties
    <3>4. ASSUME ~ spilled PROVE delivered \o (InRead \o ring') = accepted'
      <4>1. InRead \in Seq(Nat) /\ InRead \o ring \in Seq(Nat) /\ delivered \in Seq(Nat)
        BY <1>0, <3>4, ConcatProperties DEF InRead
      <4>2. InRead \o ring' = (InRead \o ring) \o <<arrived'>>
        BY <3>2, <3>3, <4>1, BytesAssociative
      <4>3. delivered \o ((InRead \o ring) \o <<arrived'>>) = (delivered \o (InRead \o ring)) \o <<arrived'>>
        <5> DEFINE kept == InRead \o ring
                   byte == <<arrived'>>
        <5>1. delivered \in Seq(Nat) /\ kept \in Seq(Nat) /\ byte \in Seq(Nat)
          BY <3>3, <4>1
        <5> HIDE DEF kept, byte
        <5>2. delivered \o (kept \o byte) = (delivered \o kept) \o byte
          BY ONLY <5>1, BytesAssociative
        <5> QED
          BY ONLY <5>2 DEF kept, byte
      <4>4. delivered \o (InRead \o ring) = accepted
        BY <3>4
      <4> QED
        BY ONLY <3>2, <4>2, <4>3, <4>4
    <3>5. InRead' = InRead
      BY <3>1 DEF InRead
    <3> QED
      BY <3>1, <3>3, <3>4, <3>5
  <2>2. CASE ~ Len(ring) < RingSize
    <3>1. /\ UNCHANGED <<ring, accepted, uartPc, size, buff, avail, delivered, spilled>>
          /\ arrived' \in Nat
      BY <1>3, <2>2 DEF ByteArrives
    <3>2. InRead' = InRead
      BY <3>1 DEF InRead
    <3> QED
      BY <3>1, <3>2
  <2> QED
    BY <2>1, <2>2
<1>4. ASSUME NEW n \in 0 .. UartBytes, MeasureAvailable(n)
      PROVE  UartInv'
  BY <1>0, <1>4 DEF MeasureAvailable, InRead
<1>5. CASE CopyBytes
  <2>1. PICK n \in 1 .. Len(ring) :
          /\ Len(buff) + n <= size
          /\ buff' = buff \o SubSeq(ring, 1, n)
          /\ ring' = SubSeq(ring, n + 1, Len(ring))
    BY <1>5 DEF CopyBytes
  <2>2. /\ uartPc = "reading" /\ spilled' \in BOOLEAN /\ (spilled' <=> spilled \/ Len(buff') > avail)
        /\ UNCHANGED <<uartPc, arrived, accepted, size, avail, delivered>>
    BY <1>5 DEF CopyBytes
  <2>3. Len(ring) \in Nat /\ Len(buff) \in Nat /\ \A i \in 1 .. Len(ring) : ring[i] \in Nat
    BY LenProperties, ElementOfSeq
  <2>4. /\ SubSeq(ring, 1, n) \in Seq(Nat) /\ Len(SubSeq(ring, 1, n)) = n
        /\ SubSeq(ring, n + 1, Len(ring)) \in Seq(Nat)
    BY <2>3, SubSeqProperties
  <2>5. buff' \in Seq(Nat) /\ ring' \in Seq(Nat) /\ Len(buff') = Len(buff) + n
    BY <2>1, <2>4, ConcatProperties
  <2>6. buff' \o ring' = buff \o ring
    <3>1. SubSeq(ring, 1, n) \o SubSeq(ring, n + 1, Len(ring)) = ring
      BY <2>3, ConcatAdjacentSubSeq, SubSeqFull
    <3>2. buff \in Seq(Nat)
      OBVIOUS
    <3>3. (buff \o SubSeq(ring, 1, n)) \o SubSeq(ring, n + 1, Len(ring))
              = buff \o (SubSeq(ring, 1, n) \o SubSeq(ring, n + 1, Len(ring)))
      BY ONLY <2>4, <3>2, BytesAssociative
    <3> QED
      BY <2>1, <3>1, <3>3
  <2> QED
    <3>1. InRead = buff /\ InRead' = buff'
      BY <2>2 DEF InRead
    <3>2. ASSUME ~ spilled' PROVE delivered' \o (InRead' \o ring') = accepted' /\ delivered' \in Seq(Nat)
      BY <2>2, <2>6, <3>1, <3>2
    <3>3. spilled' => Len(buff') > avail' /\ size' > avail'
      BY <2>1, <2>2, <2>3, <2>5
    <3>4. uartPc' # "raised" /\ (~ spilled' => Len(buff') <= avail')
      BY <2>2, <2>3, <2>5
    <3> QED
      BY <2>2, <2>5, <3>2, <3>3, <3>4
<1>6. CASE ReadReturns
  <2>1. CASE Len(buff) <= avail
    <3>1. /\ ~ spilled /\ uartPc = "reading" /\ uartPc' = "idle" /\ delivered' = delivered \o buff
          /\ UNCHANGED <<arrived, accepted, ring, size, buff, avail, spilled>>
      BY <1>6, <2>1 DEF ReadReturns
    <3>2. delivered' \in Seq(Nat) /\ <<>> \o ring = ring
      BY <3>1, ConcatProperties, ConcatEmptySeq
    <3>3. delivered \in Seq(Nat) /\ buff \in Seq(Nat) /\ ring \in Seq(Nat)
      BY <3>1
    <3>4. (delivered \o buff) \o ring = delivered \o (buff \o ring)
      BY ONLY <3>3, BytesAssociative
    <3> QED
      BY <3>1, <3>2, <3>4 DEF InRead
  <2>2. CASE ~ Len(buff) <= avail
    BY <1>6, <2>2 DEF ReadReturns, InRead
  <2> QED
    BY <2>1, <2>2
<1>7. CASE ReadRaises
  BY <1>7 DEF ReadRaises, InRead
<1> QED
  BY <1>1, <1>2, <1>3, <1>4, <1>5, <1>6, <1>7 DEF UartNext

\* Whenever bytes arrive, the reads return each accepted byte once and in order, until
\* bytes were copied behind the buffer of a read that asked for more than there was.
THEOREM UartReadIsExact == Spec => []ReadIsExact
<1>1. Init => UartInv
  BY UartInvInit DEF Init
<1>2. UartInv /\ [Next]_vars => UartInv'
  BY UartInvStep, PartSteps
<1>3. UartInv => ReadIsExact
  <2> SUFFICES ASSUME UartInv PROVE ReadIsExact
    OBVIOUS
  <2>1. InRead \in Seq(Nat)
    BY EmptySeq DEF UartInv, InRead
  <2>2. ASSUME ~ spilled PROVE (delivered \o InRead) \o ring = delivered \o (InRead \o ring)
    <3>1. delivered \in Seq(Nat) /\ ring \in Seq(Nat)
      BY <2>2 DEF UartInv
    <3> QED
      BY ONLY <2>1, <3>1, BytesAssociative
  <2> QED
    BY <2>2 DEF UartInv, ReadIsExact, InRead
<1> QED
  BY <1>1, <1>2, <1>3, PTL DEF Spec
-----------------------------------------------------------------------------
(* SpiQueue *)

Among(t, s) == \E i \in DOMAIN s : s[i] = t
Distinct(s) == \A i, j \in DOMAIN s : s[i] = s[j] => i = j

\* What is taken from a sequence of distinct elements is no longer in it.
LEMMA TailLeaves ==
    ASSUME NEW S, NEW s \in Seq(S), s # <<>>, Distinct(s)
    PROVE  /\ Head(s) \in S /\ Among(Head(s), s)
           /\ Tail(s) \in Seq(S) /\ Distinct(Tail(s))
           /\ \A t : Among(t, Tail(s)) <=> Among(t, s) /\ t # Head(s)
<1>1. Len(s) \in Nat \ {0} /\ DOMAIN s = 1 .. Len(s) /\ Head(s) = s[1]
  BY EmptySeq, LenProperties
<1>2. /\ Head(s) \in S /\ Tail(s) \in Seq(S) /\ Len(Tail(s)) = Len(s) - 1
      /\ \A i \in 1 .. Len(Tail(s)) : Tail(s)[i] = s[i + 1]
  BY HeadTailProperties
<1>3. DOMAIN Tail(s) = 1 .. Len(s) - 1
  BY <1>2, LenProperties
<1>4. Distinct(Tail(s))
  BY <1>1, <1>2, <1>3 DEF Distinct
<1>5. ASSUME NEW t, Among(t, Tail(s)) PROVE Among(t, s) /\ t # Head(s)
  <2>1. PICK i \in 1 .. Len(s) - 1 : s[i + 1] = t
    BY <1>2, <1>3, <1>5 DEF Among
  <2>2. i + 1 \in DOMAIN s /\ i + 1 # 1 /\ 1 \in DOMAIN s
    BY <1>1
  <2> QED
    BY <1>1, <2>1, <2>2 DEF Among, Distinct
<1>6. ASSUME NEW t, Among(t, s), t # Head(s) PROVE Among(t, Tail(s))
  <2>1. PICK i \in DOMAIN s : s[i] = t
    BY <1>6 DEF Among
  <2>2. i - 1 \in 1 .. Len(s) - 1 /\ (i - 1) + 1 = i
    BY <1>1, <1>6, <2>1
  <2> QED
    BY <1>2, <1>3, <2>1, <2>2 DEF Among
<1>7. Among(Head(s), s)
  BY <1>1 DEF Among
<1> QED
  BY <1>2, <1>4, <1>5, <1>6, <1>7

\* Nothing else comes into a sequence with what is appended to it.
LEMMA AppendAdds ==
    ASSUME NEW S, NEW s \in Seq(S), NEW e \in S, Distinct(s), ~ Among(e, s)
    PROVE  /\ Append(s, e) \in Seq(S) /\ Distinct(Append(s, e))
           /\ \A t : Among(t, Append(s, e)) <=> Among(t, s) \/ t = e
<1>1. Len(s) \in Nat /\ DOMAIN s = 1 .. Len(s)
  BY LenProperties
<1>2. /\ Append(s, e) \in Seq(S) /\ Len(Append(s, e)) = Len(s) + 1
      /\ \A i \in 1 .. Len(s) : Append(s, e)[i] = s[i]
      /\ Append(s, e)[Len(s) + 1] = e
  BY AppendProperties
<1>3. DOMAIN Append(s, e) = DOMAIN s \union {Len(s) + 1}
  BY <1>1, <1>2, LenProperties
<1> QED
  BY <1>1, <1>2, <1>3 DEF Distinct, Among

InDriver(t) == Among(t, queued) \/ Among(t, finished)

\* A transaction is with the driver once.  As long as retrieve has found what it should,
\* the runtime counts the variables that refer to a transaction, and one reference more
\* while the driver has it, except for the transaction that queue is about to pin.
SpiqInv ==
    /\ spiqPc \in {"app", "pin", "fault"}
    /\ pinning \in Transactions \union {Junk}
    /\ spiqPc = "app" => pinning = Junk
    /\ spiqPc = "pin" => pinning # Junk
    /\ held \in [Transactions -> Nat] /\ counted \in [Transactions -> Nat]
    /\ freed \subseteq Transactions
    /\ queued \in Seq(Transactions) /\ finished \in Seq(Transactions)
    /\ Distinct(queued) /\ Distinct(finished)
    /\ \A t \in Transactions : ~ (Among(t, queued) /\ Among(t, finished))
    /\ mixedUp \in BOOLEAN /\ raced \in BOOLEAN
    /\ ~ mixedUp /\ ~ raced =>
        /\ pinning # Junk => InDriver(pinning) /\ held[pinning] > 0
        /\ \A t \in freed : held[t] = 0 /\ counted[t] = 0 /\ ~ InDriver(t)
        /\ \A t \in Transactions \ freed :
                counted[t] = held[t] + (IF InDriver(t) /\ t # pinning THEN 1 ELSE 0)

\* At first there is no transaction.
LEMMA SpiqInvInit == SpiqInit => SpiqInv
<1> SUFFICES ASSUME SpiqInit PROVE SpiqInv
  OBVIOUS
<1>1. queued = <<>> /\ finished = <<>> /\ DOMAIN queued = {} /\ <<>> \in Seq(Transactions)
  BY EmptySeq DEF SpiqInit
<1>2. Distinct(queued) /\ Distinct(finished) /\ \A t : ~ Among(t, queued) /\ ~ Among(t, finished)
  BY <1>1 DEF Distinct, Among
<1>3. held \in [Transactions -> Nat] /\ counted \in [Transactions -> Nat]
  BY DEF SpiqInit
<1>4. mixedUp \in BOOLEAN /\ raced \in BOOLEAN
  BY DEF SpiqInit
<1> QED
  BY <1>1, <1>2, <1>3, <1>4 DEF SpiqInit, SpiqInv, InDriver

\* Queueing and pinning, the driver's work, and retrieving keep the count.
LEMMA SpiqInvStep ==
    ASSUME SpiqInv, [SpiqNext]_spiqVars
    PROVE  SpiqInv'
<1> USE SpiqAssumption DEF SpiqInv, InDriver
<1> DEFINE Same == UNCHANGED <<queued, finished>>
<1>0. ASSUME Same
      PROVE  /\ \A t : Among(t, queued)' <=> Among(t, queued)
             /\ \A t : Among(t, finished)' <=> Among(t, finished)
             /\ Distinct(queued)' /\ Distinct(finished)'
  BY <1>0 DEF Among, Distinct
<1>1. CASE UNCHANGED spiqVars
  BY <1>0, <1>1 DEF spiqVars
<1>2. ASSUME NEW t \in Transactions, NewTrans(t)
      PROVE  SpiqInv'
  <2>1. ~ InDriver(t) /\ held[t] = 0 /\ counted[t] = 0 /\ t \notin freed
    BY <1>2 DEF NewTrans, Fresh, HasIt, Fetchable, Among
  <2>2. /\ held' = [held EXCEPT ![t] = 1] /\ counted' = [counted EXCEPT ![t] = 1]
        /\ UNCHANGED <<spiqPc, pinning, freed, queued, finished, mixedUp, raced>>
    BY <1>2 DEF NewTrans
  <2>3. held' \in [Transactions -> Nat] /\ counted' \in [Transactions -> Nat]
    BY <2>2
  <2> QED
    BY <1>0, <2>1, <2>2, <2>3
<1>3. ASSUME NEW t \in Transactions, StackIsUsed(t)
      PROVE  SpiqInv'
  BY <1>0, <1>3 DEF StackIsUsed
<1>4. ASSUME NEW t \in Transactions, Drop(t)
      PROVE  SpiqInv'
  <2>1. /\ held' = [held EXCEPT ![t] = @ - 1] /\ held[t] > (IF pinning = t THEN 1 ELSE 0)
        /\ counted' = [counted EXCEPT ![t] = IF @ > 0 THEN @ - 1 ELSE 0]
        /\ freed' = IF counted[t] <= 1 THEN freed \union {t} ELSE freed
        /\ UNCHANGED <<spiqPc, pinning, queued, finished, mixedUp, raced>>
    BY <1>4 DEF Drop, Release
  <2>2. held' \in [Transactions -> Nat] /\ counted' \in [Transactions -> Nat] /\ freed' \subseteq Transactions
    BY <2>1
  <2>3. ASSUME ~ mixedUp, ~ raced
        PROVE  /\ pinning # Junk => InDriver(pinning) /\ held'[pinning] > 0
               /\ \A u \in freed' : held'[u] = 0 /\ counted'[u] = 0 /\ ~ InDriver(u)
               /\ \A u \in Transactions \ freed' :
                    counted'[u] = held'[u] + (IF InDriver(u) /\ u # pinning THEN 1 ELSE 0)
    <3>1. t \notin freed /\ counted[t] = held[t] + (IF InDriver(t) /\ t # pinning THEN 1 ELSE 0)
      BY <2>1, <2>3
    <3>2. counted[t] > 0 /\ held[t] > 0
      BY <2>1, <3>1
    <3>3. counted'[t] = counted[t] - 1 /\ held'[t] = held[t] - 1
      BY <2>1, <3>2
    <3>4. \A u \in Transactions : u # t => counted'[u] = counted[u] /\ held'[u] = held[u]
      BY <2>1
    <3>5. pinning # Junk => InDriver(pinning) /\ held'[pinning] > 0
      BY <2>1, <2>3, <3>3, <3>4
    <3>6. counted[t] <= 1 => held[t] = 1 /\ counted[t] = 1 /\ ~ InDriver(t)
      BY <2>1, <2>3, <3>1, <3>2
    <3> QED
      BY <2>1, <2>3, <3>1, <3>3, <3>4, <3>5, <3>6
  <2> QED
    BY <1>0, <2>1, <2>2, <2>3
<1>5. ASSUME NEW t \in Transactions, QueueTrans(t)
      PROVE  SpiqInv'
  <2>1. ~ Among(t, queued) /\ ~ Among(t, finished)
    BY <1>5 DEF QueueTrans, HasIt, Fetchable, Among
  <2>2. /\ queued' \in Seq(Transactions) /\ Distinct(queued)'
        /\ \A u : Among(u, queued)' <=> Among(u, queued) \/ u = t
    BY <1>5, <2>1, AppendAdds DEF QueueTrans
  <2>3. Distinct(finished)' /\ \A u : Among(u, finished)' <=> Among(u, finished)
    BY <1>5 DEF QueueTrans, Distinct, Among
  <2> QED
    BY <1>5, <2>1, <2>2, <2>3 DEF QueueTrans
<1>6. CASE PinTrans
  BY <1>0, <1>6 DEF PinTrans
<1>7. CASE DriverFinishes
  <2> DEFINE t == Head(queued)
  <2>1. queued # <<>> /\ queued' = Tail(queued) /\ finished' = Append(finished, t)
    BY <1>7 DEF DriverFinishes
  <2>2. /\ t \in Transactions /\ Among(t, queued)
        /\ queued' \in Seq(Transactions) /\ Distinct(queued)'
        /\ \A u : Among(u, queued)' <=> Among(u, queued) /\ u # t
    BY <2>1, TailLeaves
  <2>3. /\ finished' \in Seq(Transactions) /\ Distinct(finished)'
        /\ \A u : Among(u, finished)' <=> Among(u, finished) \/ u = t
    BY <2>1, <2>2, AppendAdds
  <2>4. \A u : InDriver(u)' <=> InDriver(u)
    BY <2>2, <2>3
  <2> HIDE DEF t
  <2> QED
    BY <1>7, <2>2, <2>3, <2>4 DEF DriverFinishes
<1>8. CASE Retrieve
  <2>0. PICK t \in Transactions : t = Head(finished)
    BY <1>8, TailLeaves DEF Retrieve
  <2>1. finished # <<>> /\ finished' = Tail(finished) /\ queued' = queued
    BY <1>8 DEF Retrieve
  <2>2. /\ t \in Transactions /\ Among(t, finished)
        /\ finished' \in Seq(Transactions) /\ Distinct(finished)'
        /\ \A u : Among(u, finished)' <=> Among(u, finished) /\ u # t
    BY <2>0, <2>1, TailLeaves
  <2>3. Distinct(queued)' /\ \A u : Among(u, queued)' <=> Among(u, queued)
    BY <2>1 DEF Distinct, Among
  <2>4. /\ mixedUp' \in BOOLEAN /\ raced' \in BOOLEAN
        /\ mixedUp' <=> mixedUp \/ user[t] # t
        /\ raced' <=> raced \/ pinning = t
        /\ UNCHANGED <<pinning, counted, freed>>
    BY <1>8, <2>0 DEF Retrieve
  <2>5. \/ user[t] = Junk /\ spiqPc' = "fault" /\ held' = held
        \/ user[t] # Junk /\ held' = [held EXCEPT ![user[t]] = @ + 1] /\ spiqPc' = spiqPc
    BY <1>8, <2>0 DEF Retrieve
  <2>6. held' \in [Transactions -> Nat]
    <3>1. CASE held' = held
      BY <3>1
    <3>2. CASE held' = [held EXCEPT ![user[t]] = @ + 1]
      <4>1. \A u \in Transactions : held[u] \in Nat /\ held[u] + 1 \in Nat
        OBVIOUS
      <4> QED
        BY <3>2, <4>1
    <3> QED
      BY <2>5, <3>1, <3>2
  <2>7. ASSUME ~ mixedUp', ~ raced'
        PROVE  held' = [held EXCEPT ![t] = @ + 1] /\ ~ mixedUp /\ ~ raced /\ pinning # t /\ t \notin freed
    BY <2>2, <2>4, <2>5, <2>7
  <2>8. /\ spiqPc' \in {"app", "pin", "fault"}
        /\ spiqPc' = "app" => pinning = Junk
        /\ spiqPc' = "pin" => pinning # Junk
    BY <2>5
  <2>9. ASSUME ~ mixedUp', ~ raced'
        PROVE  /\ pinning # Junk => InDriver(pinning)' /\ held'[pinning] > 0
               /\ \A u \in freed : held'[u] = 0 /\ counted[u] = 0 /\ ~ InDriver(u)'
               /\ \A u \in Transactions \ freed :
                    counted[u] = held'[u] + (IF InDriver(u)' /\ u # pinning THEN 1 ELSE 0)
    <3>1. held'[t] = held[t] + 1 /\ \A u \in Transactions : u # t => held'[u] = held[u]
      BY <2>2, <2>7, <2>9
    <3>2. InDriver(t) /\ ~ InDriver(t)'
      BY <2>2, <2>3
    <3>3. \A u \in Transactions : u # t => (InDriver(u)' <=> InDriver(u))
      BY <2>2, <2>3
    <3>4. ASSUME pinning # Junk PROVE InDriver(pinning)' /\ held'[pinning] > 0
      <4>1. /\ pinning \in Transactions /\ pinning # t
            /\ InDriver(pinning) /\ held[pinning] > 0
        BY <2>7, <2>9, <3>4
      <4>2. pinning' = pinning
        BY <2>4
      <4>3. held'[pinning] = held[pinning]
        BY <3>1, <4>1
      <4>4. InDriver(pinning)' <=> InDriver(pinning)
        BY <3>3, <4>1, <4>2
      <4> QED
        BY <4>1, <4>3, <4>4
    <3>5. \A u \in freed : held'[u] = 0 /\ counted[u] = 0 /\ ~ InDriver(u)'
      BY <2>7, <2>9, <3>1, <3>3
    <3>6. ASSUME NEW u \in Transactions \ freed
          PROVE  counted[u] = held'[u] + (IF InDriver(u)' /\ u # pinning THEN 1 ELSE 0)
      <4>1. counted[u] = held[u] + (IF InDriver(u) /\ u # pinning THEN 1 ELSE 0)
        BY <2>7, <2>9, <3>6
      <4>2. CASE u = t
        BY <2>7, <2>9, <3>1, <3>2, <4>1, <4>2
      <4>3. CASE u # t
        BY <3>1, <3>3, <4>1, <4>3
      <4> QED
        BY <4>2, <4>3
    <3> QED
      BY <3>4, <3>5, <3>6
  <2> QED
    BY <2>1, <2>2, <2>3, <2>4, <2>6, <2>8, <2>9
<1>9. CASE RetrieveTimesOut
  BY <1>0, <1>9 DEF RetrieveTimesOut
<1> QED
  BY <1>1, <1>2, <1>3, <1>4, <1>5, <1>6, <1>7, <1>8, <1>9 DEF SpiqNext

\* However many variables go and come while the driver works, a transaction it has is not
\* freed, and one it has given back is freed with its last variable.
THEOREM SpiqQueuedStayAlive == Spec => []QueuedStayAlive
<1>1. Init => SpiqInv
  BY SpiqInvInit DEF Init
<1>2. SpiqInv /\ [Next]_vars => SpiqInv'
  BY SpiqInvStep, PartSteps
<1>3. SpiqInv => QueuedStayAlive
  <2>1. \A t : HasIt(t) <=> Among(t, queued)
    BY DEF HasIt, Among
  <2>2. \A t : Fetchable(t) <=> Among(t, finished)
    BY DEF Fetchable, Among
  <2>3. SpiqInv => \A t \in Transactions : counted[t] \in Nat /\ held[t] \in Nat
    BY DEF SpiqInv
  <2> QED
    BY <2>1, <2>2, <2>3 DEF SpiqInv, QueuedStayAlive, InDriver
<1> QED
  BY <1>1, <1>2, <1>3, PTL DEF Spec

-----------------------------------------------------------------------------
(* UdpServer *)

\* A suffix grows with its sequence.
LEMMA SuffixGrows ==
    ASSUME NEW S, NEW s \in Seq(S), NEW e \in S, NEW n \in 0 .. Len(s)
    PROVE  Append(SubSeq(s, n + 1, Len(s)), e) = SubSeq(Append(s, e), n + 1, Len(Append(s, e)))
<1> DEFINE t == Append(s, e)
           u == SubSeq(s, n + 1, Len(s))
           v == SubSeq(t, n + 1, Len(t))
<1>1. Len(s) \in Nat /\ n \in Nat /\ n <= Len(s) /\ \A k \in 1 .. Len(s) : s[k] \in S
  BY LenProperties, ElementOfSeq
<1>2. /\ t \in Seq(S) /\ Len(t) = Len(s) + 1
      /\ \A k \in 1 .. Len(s) : t[k] = s[k]
      /\ t[Len(s) + 1] = e
  BY <1>1, AppendProperties
<1>3. u \in Seq(S) /\ Len(u) = Len(s) - n /\ \A k \in 1 .. Len(s) - n : u[k] = s[k + n]
  <2>1. \A k \in n + 1 .. Len(s) : s[k] \in S
    BY <1>1
  <2> QED
    BY <1>1, <2>1, SubSeqProperties
<1>4. v \in Seq(S) /\ Len(v) = Len(s) + 1 - n /\ \A k \in 1 .. Len(s) + 1 - n : v[k] = t[k + n]
  <2>1. \A k \in n + 1 .. Len(t) : t[k] \in S
    BY <1>1, <1>2, ElementOfSeq
  <2> QED
    BY <1>1, <1>2, <2>1, SubSeqProperties
<1> HIDE DEF t, u, v
<1>5. /\ Append(u, e) \in Seq(S) /\ Len(Append(u, e)) = Len(s) + 1 - n
      /\ \A k \in 1 .. Len(s) - n : Append(u, e)[k] = u[k]
      /\ Append(u, e)[Len(s) - n + 1] = e
  BY <1>1, <1>3, AppendProperties
<1>6. ASSUME NEW k \in 1 .. Len(s) + 1 - n PROVE Append(u, e)[k] = v[k]
  <2>1. CASE k \in 1 .. Len(s) - n
    BY <1>1, <1>2, <1>3, <1>4, <1>5, <2>1
  <2>2. CASE k = Len(s) - n + 1
    <3>1. k + n = Len(s) + 1
      BY <1>1, <2>2
    <3> QED
      BY <1>2, <1>4, <1>5, <2>2, <3>1
  <2>3. k \in 1 .. Len(s) - n \/ k = Len(s) - n + 1
    <3> DEFINE l == Len(s)
    <3>1. l \in Nat /\ n \in Nat /\ k \in 1 .. l + 1 - n
      BY <1>1
    <3> HIDE DEF l
    <3>2. k \in 1 .. l - n \/ k = l - n + 1
      BY ONLY <3>1
    <3> QED
      BY <3>2 DEF l
  <2> QED
    BY <2>1, <2>2, <2>3
<1>7. Append(u, e) = v
  BY <1>1, <1>4, <1>5, <1>6, SeqEqual
<1> QED
  BY <1>7 DEF t, u, v

\* An address became known at some point of the broadcasts, and the task reads only when
\* there is something to read.
UdpInv ==
    /\ UdpTypeOK
    /\ KnownAreTold
    /\ \A a \in Senders : since[a] <= Len(echoed)
    /\ udpPc = "read" => rxQueue # <<>>

\* Nobody is known at the start.
LEMMA UdpInvInit == UdpInit => UdpInv
<1> SUFFICES ASSUME UdpInit PROVE UdpInv
  OBVIOUS
<1>1. UdpTypeOK
  BY MaxDatagramsAssumption, EmptySeq DEF UdpInit, UdpTypeOK
<1>2. Len(echoed) = 0 /\ Range(echoed) = {}
  BY EmptySeq DEF UdpInit, Range
<1>3. KnownAreTold
  BY <1>2 DEF UdpInit, KnownAreTold
<1> QED
  BY <1>1, <1>2, <1>3 DEF UdpInit, UdpInv

\* A datagram that is read is broadcast to a part of those who are known then.
LEMMA EchoTo ==
    ASSUME UdpInv, udpPc = "read", Learn(Head(rxQueue).src),
           NEW targets \in SUBSET known', told' = TellOnly(targets, Head(rxQueue)),
           echoed' = Append(echoed, Head(rxQueue)), rxQueue' = Tail(rxQueue),
           udpPc' \in {"select", "dead"}, udpPc' = "select" => targets = known',
           sentBy' = sentBy, flight' = flight
    PROVE  UdpInv'
<1> DEFINE d == Head(rxQueue)
<1>0. UdpTypeOK /\ KnownAreTold /\ rxQueue # <<>> /\ \A a \in Senders : since[a] <= Len(echoed)
  BY DEF UdpInv
<1>1. d \in Datagram /\ d.src \in Senders /\ Tail(rxQueue) \in Seq(Datagram)
  <2>1. rxQueue \in Seq(Datagram) /\ rxQueue # <<>>
    BY <1>0 DEF UdpTypeOK
  <2>2. Head(rxQueue) \in Datagram /\ Tail(rxQueue) \in Seq(Datagram)
    BY ONLY <2>1, HeadTailProperties
  <2>3. \A e \in Datagram : e.src \in Senders
    BY DEF Datagram
  <2> QED
    BY <2>2, <2>3
<1> HIDE DEF d
<1>2. echoed \in Seq(Datagram) /\ Len(echoed) \in Nat
  BY <1>0, LenProperties DEF UdpTypeOK
<1>3. /\ echoed' = Append(echoed, d) /\ echoed' \in Seq(Datagram) /\ Len(echoed') = Len(echoed) + 1
      /\ \A i \in 1 .. Len(echoed) : echoed'[i] = echoed[i]
      /\ echoed'[Len(echoed) + 1] = d
  <2>1. echoed' = Append(echoed, d)
    BY DEF d
  <2> QED
    BY <1>1, <1>2, <2>1, AppendProperties
<1>4. /\ known' = known \union {d.src}
      /\ since' = IF d.src \in known THEN since ELSE [since EXCEPT ![d.src] = Len(echoed)]
      /\ told' = [a \in Senders |-> IF a \in targets THEN Append(told[a], d) ELSE told[a]]
  BY DEF Learn, TellOnly, d
<1>5. \A a \in Senders : Append(told[a], d) \in Seq(Datagram)
  BY <1>0, <1>1, AppendProperties DEF UdpTypeOK
<1>6. since \in [Senders -> Nat] /\ since' \in [Senders -> Nat]
  BY <1>0, <1>1, <1>2, <1>4 DEF UdpTypeOK
<1>7. UdpTypeOK'
  <2>1. known' \subseteq Senders /\ told' \in [Senders -> Seq(Datagram)] /\ rxQueue' \in Seq(Datagram)
    <3>1. known' \subseteq Senders
      BY <1>0, <1>1, <1>4 DEF UdpTypeOK
    <3>2. told \in [Senders -> Seq(Datagram)]
      BY <1>0 DEF UdpTypeOK
    <3>3. told' \in [Senders -> Seq(Datagram)]
      <4>1. \A a \in Senders :
              (IF a \in targets THEN Append(told[a], d) ELSE told[a]) \in Seq(Datagram)
        BY <1>5, <3>2
      <4>2. told' = [a \in Senders |-> IF a \in targets THEN Append(told[a], d) ELSE told[a]]
        BY <1>4
      <4> QED
        BY ONLY <4>1, <4>2
    <3> QED
      BY <1>1, <3>1, <3>3
  <2> QED
    BY <1>0, <1>3, <1>6, <2>1 DEF UdpTypeOK
<1>8. \A a \in Senders : since'[a] \in 0 .. Len(echoed)
  <2>1. \A a \in Senders : since[a] \in 0 .. Len(echoed)
    BY <1>0, <1>2, <1>6
  <2> QED
    BY <1>1, <1>2, <1>4, <1>6, <2>1
<1>9. ASSUME NEW a \in Senders
      PROVE  /\ a \in known' /\ udpPc' # "dead" =>
                    told'[a] = SubSeq(echoed', since'[a] + 1, Len(echoed'))
             /\ a \notin known' => told'[a] = <<>>
  <2>1. CASE a \in known' /\ udpPc' = "select"
    <3>1. told[a] = SubSeq(echoed, since'[a] + 1, Len(echoed))
      <4>1. CASE a \in known
        <5>1. since'[a] = since[a]
          BY <1>4, <1>6, <4>1
        <5> QED
          BY <1>0, <4>1, <5>1 DEF KnownAreTold
      <4>2. CASE a \notin known
        <5>1. since'[a] = Len(echoed) /\ told[a] = <<>>
          BY <1>0, <1>4, <1>6, <2>1, <4>2 DEF KnownAreTold
        <5> QED
          BY <1>2, <5>1, SubSeqEmpty
      <4> QED
        BY <4>1, <4>2
    <3>2. told'[a] = Append(told[a], d)
      BY <1>4, <2>1
    <3>3. Append(SubSeq(echoed, since'[a] + 1, Len(echoed)), d)
            = SubSeq(Append(echoed, d), since'[a] + 1, Len(Append(echoed, d)))
      <4>1. since'[a] \in 0 .. Len(echoed)
        BY <1>8
      <4> QED
        BY <1>1, <1>2, <4>1, SuffixGrows
    <3> QED
      BY <1>3, <2>1, <3>1, <3>2, <3>3
  <2>2. CASE a \notin known'
    BY <1>0, <1>4, <2>2 DEF KnownAreTold
  <2> QED
    BY <2>1, <2>2
<1>10. \A e \in Range(echoed') : e.src \in known'
  <2>1. \A e \in Range(echoed) : e.src \in known
    <3> SUFFICES ASSUME NEW e \in Range(echoed) PROVE e.src \in known
      OBVIOUS
    <3>1. PICK i \in DOMAIN echoed : e = echoed[i]
      BY DEF Range
    <3>2. echoed \in Seq(Datagram) /\ i \in 1 .. Len(echoed)
      BY <1>2, LenProperties
    <3>3. e \in Datagram
      BY <3>1, <3>2, ElementOfSeq
    <3>4. e.src \in Senders
      BY <3>3 DEF Datagram
    <3> QED
      BY <1>0, <3>4 DEF KnownAreTold
  <2>2. DOMAIN echoed' = 1 .. Len(echoed) + 1 /\ DOMAIN echoed = 1 .. Len(echoed)
    BY <1>2, <1>3, LenProperties
  <2>3. \A i \in 1 .. Len(echoed) + 1 : echoed'[i] \in Range(echoed) \union {d}
    <3> SUFFICES ASSUME NEW i \in 1 .. Len(echoed) + 1
                 PROVE  echoed'[i] \in Range(echoed) \union {d}
      OBVIOUS
    <3>1. i \in 1 .. Len(echoed) \/ i = Len(echoed) + 1
      BY <1>2
    <3> QED
      BY <1>3, <2>2, <3>1 DEF Range
  <2>4. \A e \in Range(echoed') : e \in Range(echoed) \union {d}
    BY <2>2, <2>3 DEF Range
  <2> QED
    BY <1>4, <2>1, <2>4
<1>11. KnownAreTold'
  BY <1>9, <1>10 DEF KnownAreTold
<1>12. \A a \in Senders : since'[a] <= Len(echoed')
  BY <1>2, <1>3, <1>8
<1> QED
  BY <1>7, <1>11, <1>12 DEF UdpInv

\* Whatever the network does, and whether a send fails.
LEMMA UdpInvStep ==
    ASSUME UdpInv, [UdpNext]_udpVars
    PROVE  UdpInv'
<1>1. CASE UNCHANGED udpVars
  BY <1>1 DEF udpVars, UdpInv, UdpTypeOK, KnownAreTold
<1>2. ASSUME known' = known, told' = told, echoed' = echoed, since' = since,
             UdpTypeOK', udpPc' = "dead" <=> udpPc = "dead", udpPc' = "read" => rxQueue' # <<>>
      PROVE  UdpInv'
  BY <1>2 DEF UdpInv, KnownAreTold
<1>3. ASSUME NEW a \in Senders, Sends(a) PROVE UdpInv'
  <2>1. [src |-> a, num |-> sentBy[a] + 1] \in Datagram /\ sentBy[a] + 1 \in 0 .. MaxDatagrams
    BY <1>3, MaxDatagramsAssumption DEF Sends, UdpInv, UdpTypeOK, Datagram
  <2>2. UdpTypeOK'
    BY <1>3, <2>1 DEF Sends, udpServerVars, UdpInv, UdpTypeOK
  <2> QED
    BY <1>2, <1>3, <2>2 DEF Sends, udpServerVars, UdpInv
<1>4. ASSUME NEW d \in flight, Arrives(d) PROVE UdpInv'
  <2>1. Append(rxQueue, d) \in Seq(Datagram) /\ Append(rxQueue, d) # <<>>
    BY AppendProperties DEF UdpInv, UdpTypeOK
  <2>2. UdpTypeOK'
    BY <1>4, <2>1 DEF Arrives, udpServerVars, UdpInv, UdpTypeOK
  <2> QED
    BY <1>2, <1>4, <2>1, <2>2 DEF Arrives, udpServerVars, UdpInv
<1>5. ASSUME NEW d \in flight, IsLost(d) PROVE UdpInv'
  <2>1. UdpTypeOK'
    BY <1>5 DEF IsLost, udpServerVars, UdpInv, UdpTypeOK
  <2> QED
    BY <1>2, <1>5, <2>1 DEF IsLost, udpServerVars, UdpInv
<1>6. CASE UdpSelect
  <2>1. UdpTypeOK'
    BY <1>6 DEF UdpSelect, UdpInv, UdpTypeOK
  <2> QED
    BY <1>2, <1>6, <2>1 DEF UdpSelect, UdpInv
<1>7. CASE UdpEcho
  BY <1>7, EchoTo DEF UdpEcho
<1>8. CASE UdpEchoFails
  <2>1. PICK before \in SUBSET known' : told' = TellOnly(before, Head(rxQueue))
    BY <1>8 DEF UdpEchoFails
  <2> QED
    BY <1>8, <2>1, EchoTo DEF UdpEchoFails
<1> QED
  BY <1>1, <1>3, <1>4, <1>5, <1>6, <1>7, <1>8 DEF UdpNext, UdpNetwork, UdpTask

\* However the network loses and reorders datagrams, everybody who has been heard is told
\* all that is broadcast from then on, in one order.
THEOREM UdpKnownAreTold == Spec => []KnownAreTold
<1>1. Init => UdpInv
  BY UdpInvInit DEF Init
<1>2. UdpInv /\ [Next]_vars => UdpInv'
  BY UdpInvStep, PartSteps
<1>3. UdpInv => KnownAreTold
  BY DEF UdpInv
<1> QED
  BY <1>1, <1>2, <1>3, PTL DEF Spec

-----------------------------------------------------------------------------
(* SpiTransfer *)

\* Bits and the bytes they need.
LEMMA BitsInBytes ==
    ASSUME NEW b \in Nat
    PROVE  /\ BytesOf(b) \in Nat /\ BytesOf(b) = ReceiveBytes(b)
           /\ b <= 8 * BytesOf(b) /\ 8 * BytesOf(b) <= b + 7
  BY SMT DEF BytesOf, ReceiveBytes

\* n bytes have room for what fits into n bytes of bits.
LEMMA BytesEnough ==
    ASSUME NEW b \in Nat, NEW n \in Nat, b <= 8 * n
    PROVE  BytesOf(b) <= n
<1>1. BytesOf(b) \in Nat /\ 8 * BytesOf(b) <= b + 7
  BY BitsInBytes
<1> QED
  BY <1>1

\* A buffer that was given counts from one.
LEMMA GivenIs ==
    ASSUME NEW n \in Nat
    PROVE  Given(n) \in Seq(Int) /\ Len(Given(n)) = n /\ \A i \in 1 .. n : Given(n)[i] = i
<1>1. Given(n) \in [1 .. n -> Int]
  BY DEF Given
<1>2. Given(n) \in Seq(Int)
  BY <1>1, SeqDef
<1> QED
  BY <1>1, <1>2, LenProperties DEF Given

\* A blank one has its length,
LEMMA BlankIs ==
    ASSUME NEW n \in Nat
    PROVE  Blank(n) \in Seq(Int) /\ Len(Blank(n)) = n
<1>1. Blank(n) \in [1 .. n -> Int]
  BY DEF Blank
<1>2. Blank(n) \in Seq(Int)
  BY <1>1, SeqDef
<1> QED
  BY <1>1, <1>2, LenProperties

\* and one that was written to begins with what came.
LEMMA FilledIs ==
    ASSUME NEW buffer \in Seq(Int), NEW n \in Nat
    PROVE  /\ Filled(buffer, n) \in Seq(Int) /\ Len(Filled(buffer, n)) = Len(buffer)
           /\ \A i \in 1 .. Len(buffer) : i <= n => Filled(buffer, n)[i] = i
<1>1. Len(buffer) \in Nat /\ DOMAIN buffer = 1 .. Len(buffer)
  BY LenProperties
<1>2. \A i \in 1 .. Len(buffer) : buffer[i] \in Int
  BY ElementOfSeq
<1>3. Filled(buffer, n) \in [1 .. Len(buffer) -> Int]
  BY <1>1, <1>2 DEF Filled
<1>4. Filled(buffer, n) \in Seq(Int)
  BY <1>1, <1>3, SeqDef
<1> QED
  BY <1>1, <1>3, <1>4, LenProperties DEF Filled

\* The first m bytes of what begins with 1 .. m.
LEMMA PrefixIs ==
    ASSUME NEW s \in Seq(Int), NEW m \in Nat, m <= Len(s), \A i \in 1 .. m : s[i] = i
    PROVE  SubSeq(s, 1, m) = Given(m)
<1>1. \A i \in 1 .. m : s[i] \in Int
  OBVIOUS
<1>2. /\ SubSeq(s, 1, m) \in Seq(Int) /\ Len(SubSeq(s, 1, m)) = m
      /\ \A i \in 1 .. m : SubSeq(s, 1, m)[i] = s[i]
  BY <1>1, SubSeqProperties
<1>3. \A i \in 1 .. m : SubSeq(s, 1, m)[i] = Given(m)[i]
  BY <1>2, GivenIs
<1> QED
  BY <1>2, <1>3, GivenIs, SeqEqual

\* What a constructor was asked for, in bits.
ToSend(n, tx) == IF tx = Unset THEN 8 * n ELSE tx
ToReceive(n, tx, rx) == IF rx = Unset THEN ToSend(n, tx) ELSE rx

\* The transaction is as fullTrans made it until the driver has been through with it.
SpiInv ==
    /\ asked.bytes \in Nat /\ asked.tx \in Nat \union {Unset} /\ asked.rx \in Nat \union {Unset}
    /\ spiPc = "made" => /\ ~ FullTransRaises(asked.bytes, asked.tx)
                         /\ trn = MadeTrans(asked.bytes, asked.tx, asked.rx)
    /\ TransferIsExact

\* No transaction is made at first.
LEMMA SpiInvInit == SpiInit => SpiInv
BY DEF SpiInit, SpiInv, TransferIsExact

\* fullTrans and its two variants.
LEMMA Makes ==
    ASSUME SpiInv, NEW n \in Nat, NEW tx \in Nat \union {Unset}, NEW rx \in Nat \union {Unset},
           MakeTrans(n, tx, rx)
    PROVE  SpiInv'
<1>1. asked' = [bytes |-> n, tx |-> tx, rx |-> rx]
  BY DEF MakeTrans
<1>2. asked'.bytes = n /\ asked'.tx = tx /\ asked'.rx = rx
  BY <1>1
<1>3. CASE FullTransRaises(n, tx)
  <2>1. spiPc' = "raised"
    BY <1>3 DEF MakeTrans
  <2> QED
    BY <1>2, <2>1 DEF SpiInv, TransferIsExact
<1>4. CASE ~ FullTransRaises(n, tx)
  <2>1. spiPc' = "made" /\ trn' = MadeTrans(n, tx, rx)
    BY <1>4 DEF MakeTrans
  <2> QED
    BY <1>2, <1>4, <2>1 DEF SpiInv, TransferIsExact
<1> QED
  BY <1>3, <1>4

\* What is sent from the place where fullTrans put it, by the three cases of Small.
LEMMA SentIsGiven ==
    ASSUME NEW n \in Nat, NEW L \in Nat, L <= 8 * n, L <= 32 => n <= 4, NEW source,
           L \in 1 .. 32 => source = Filled(Blank(4), n),
           L > 32 => source = Given(n),
           L = 0 => source = <<>>
    PROVE  SubSeq(source, 1, Least(BytesOf(L), Len(source))) = Given(BytesOf(L))
<1>1. BytesOf(L) \in Nat /\ BytesOf(L) <= n
  BY BitsInBytes, BytesEnough
<1>2. SUFFICES /\ source \in Seq(Int) /\ BytesOf(L) <= Len(source)
               /\ \A i \in 1 .. BytesOf(L) : source[i] = i
  <2>1. Least(BytesOf(L), Len(source)) = BytesOf(L)
    BY <1>1, <1>2, LenProperties DEF Least
  <2> QED
    BY <1>1, <1>2, <2>1, PrefixIs
<1>3. CASE L \in 1 .. 32
  <2>1. /\ source \in Seq(Int) /\ Len(source) = 4
        /\ \A i \in 1 .. 4 : i <= n => source[i] = i
    <3>1. source = Filled(Blank(4), n)
      BY <1>3
    <3>2. Blank(4) \in Seq(Int) /\ Len(Blank(4)) = 4
      BY BlankIs
    <3>3. /\ Filled(Blank(4), n) \in Seq(Int) /\ Len(Filled(Blank(4), n)) = 4
          /\ \A i \in 1 .. 4 : i <= n => Filled(Blank(4), n)[i] = i
      BY <3>2, FilledIs
    <3> QED
      BY ONLY <3>1, <3>3
  <2>2. BytesOf(L) <= 4
    BY <1>3, BytesEnough
  <2> QED
    BY <1>1, <2>1, <2>2
<1>4. CASE L > 32
  <2>1. source = Given(n)
    BY <1>4
  <2>2. Given(n) \in Seq(Int) /\ Len(Given(n)) = n /\ \A i \in 1 .. n : Given(n)[i] = i
    BY GivenIs
  <2> QED
    BY ONLY n \in Nat, <1>1, <2>1, <2>2
<1>5. CASE L = 0
  <2>1. source \in Seq(Int) /\ Len(source) = 0
    BY <1>5, EmptySeq
  <2>2. BytesOf(L) = 0
    BY <1>5, BitsInBytes
  <2> QED
    BY <2>1, <2>2
<1> QED
  BY <1>3, <1>4, <1>5

\* A buffer that what came has filled.
LEMMA FilledIsRead ==
    ASSUME NEW m \in Nat, NEW k \in Nat, m <= k
    PROVE  /\ Len(Filled(Blank(k), m)) = k
           /\ SubSeq(Filled(Blank(k), m), 1, m) = Given(m)
<1>1. /\ Filled(Blank(k), m) \in Seq(Int) /\ Len(Filled(Blank(k), m)) = k
      /\ \A i \in 1 .. k : i <= m => Filled(Blank(k), m)[i] = i
  BY BlankIs, FilledIs
<1>2. \A i \in 1 .. m : Filled(Blank(k), m)[i] = i
  BY <1>1
<1> QED
  BY <1>1, <1>2, PrefixIs

\* What fullTrans made, part by part.
Made(n, L, R) ==
    /\ trn.length = L /\ trn.rxlength = R
    /\ trn.useTx <=> L \in 1 .. 32
    /\ trn.useRx <=> R \in 1 .. 32
    /\ L <= 32 => trn.txInline = Filled(Blank(4), n)
    /\ trn.txSeq = TxBuffer(L, n)
    /\ trn.rxInline = Blank(4)
    /\ R <= 32 => trn.rxSeq = <<>>
    /\ R > 32 => trn.rxSeq = Blank(BytesOf(R))
    /\ trn = [length |-> trn.length, rxlength |-> trn.rxlength,
              useTx |-> trn.useTx, useRx |-> trn.useRx,
              txInline |-> trn.txInline, txSeq |-> trn.txSeq,
              rxInline |-> trn.rxInline, rxSeq |-> trn.rxSeq]

\* fullTrans by the two lengths it works out.
LEMMA MadeIs ==
    ASSUME NEW n \in Nat, NEW tx \in Nat \union {Unset}, NEW rx \in Nat \union {Unset},
           NEW L \in Nat, NEW R \in Nat, L = ToSend(n, tx), R = ToReceive(n, tx, rx),
           trn = MadeTrans(n, tx, rx)
    PROVE  Made(n, L, R)
<1>1. L = (IF tx < 0 THEN 8 * n ELSE tx) /\ R = RxLength(rx, L)
  BY DEF ToSend, ToReceive, RxLength, Unset
<1>2. trn = [length |-> L, rxlength |-> R, useTx |-> Small(L), useRx |-> Small(R),
             txInline |-> IF L <= 32 THEN Filled(Blank(4), n) ELSE Blank(4),
             txSeq |-> TxBuffer(L, n), rxInline |-> Blank(4),
             rxSeq |-> IF R <= 32 THEN <<>> ELSE Blank(ReceiveBytes(R))]
  BY <1>1 DEF MadeTrans
<1>3. /\ trn.useTx = Small(L) /\ trn.useRx = Small(R)
  BY ONLY <1>2
<1>4. (trn.useTx <=> L \in 1 .. 32) /\ (trn.useRx <=> R \in 1 .. 32)
  BY ONLY <1>3, Zenon DEF Small
<1>5. /\ trn.length = L /\ trn.rxlength = R
      /\ trn.txInline = IF L <= 32 THEN Filled(Blank(4), n) ELSE Blank(4)
      /\ trn.txSeq = TxBuffer(L, n) /\ trn.rxInline = Blank(4)
      /\ trn.rxSeq = IF R <= 32 THEN <<>> ELSE Blank(ReceiveBytes(R))
  BY ONLY <1>2
<1>6. ReceiveBytes(R) = BytesOf(R)
  BY BitsInBytes
<1>7. /\ L <= 32 => trn.txInline = Filled(Blank(4), n)
      /\ R <= 32 => trn.rxSeq = <<>>
      /\ R > 32 => trn.rxSeq = Blank(BytesOf(R))
  <2>1. L <= 32 => trn.txInline = Filled(Blank(4), n)
    BY ONLY <1>5
  <2>2. R <= 32 => trn.rxSeq = <<>>
    BY ONLY <1>5
  <2>3. R > 32 => trn.rxSeq = Blank(BytesOf(R))
    BY ONLY <1>5, <1>6, R \in Nat
  <2> QED
    BY <2>1, <2>2, <2>3
<1>8. trn = [length |-> trn.length, rxlength |-> trn.rxlength,
             useTx |-> trn.useTx, useRx |-> trn.useRx,
             txInline |-> trn.txInline, txSeq |-> trn.txSeq,
             rxInline |-> trn.rxInline, rxSeq |-> trn.rxSeq]
  BY ONLY <1>2
<1> QED
  BY <1>4, <1>5, <1>7, <1>8 DEF Made

\* The driver sends what was given, and fills no more than there is room for.
LEMMA Transmits ==
    ASSUME SpiInv, Transmit
    PROVE  SpiInv'
<1> DEFINE n == asked.bytes
           L == ToSend(n, asked.tx)
           R == ToReceive(n, asked.tx, asked.rx)
           source == IF trn.useTx THEN trn.txInline ELSE trn.txSeq
           came == IF HasRx THEN BytesOf(trn.rxlength) ELSE 0
<1>1. /\ n \in Nat /\ asked.tx \in Nat \union {Unset} /\ asked.rx \in Nat \union {Unset}
      /\ L \in Nat /\ R \in Nat
  BY DEF SpiInv, ToSend, ToReceive, Unset
<1>2. ~ FullTransRaises(n, asked.tx) /\ trn = MadeTrans(n, asked.tx, asked.rx)
  BY DEF SpiInv, Transmit
<1>3. L <= 8 * n /\ (L <= 32 => n <= 4)
  BY <1>1, <1>2 DEF FullTransRaises, ToSend, Unset
<1> HIDE DEF L, R
<1>4. /\ trn.length = L /\ trn.rxlength = R
      /\ trn.useTx <=> L \in 1 .. 32
      /\ trn.useRx <=> R \in 1 .. 32
      /\ L <= 32 => trn.txInline = Filled(Blank(4), n)
      /\ trn.txSeq = TxBuffer(L, n)
      /\ trn.rxInline = Blank(4)
      /\ R <= 32 => trn.rxSeq = <<>>
      /\ R > 32 => trn.rxSeq = Blank(BytesOf(R))
      /\ trn = [length |-> trn.length, rxlength |-> trn.rxlength,
                useTx |-> trn.useTx, useRx |-> trn.useRx,
                txInline |-> trn.txInline, txSeq |-> trn.txSeq,
                rxInline |-> trn.rxInline, rxSeq |-> trn.rxSeq]
  <2>1. L = ToSend(n, asked.tx) /\ R = ToReceive(n, asked.tx, asked.rx)
    BY DEF L, R
  <2>2. Made(n, L, R)
    BY <1>1, <1>2, <2>1, MadeIs
  <2> HIDE DEF n
  <2> QED
    BY ONLY <2>2 DEF Made
<1> HIDE DEF n
<1>5. /\ sent' = SubSeq(source, 1, Least(BytesOf(trn.length), Len(source)))
      /\ trn' = IF trn.useRx THEN [Checked EXCEPT !.rxInline = Filled(@, came)]
                             ELSE [Checked EXCEPT !.rxSeq = Filled(@, came)]
      /\ overrun' = (came > (IF trn.useRx THEN 4 ELSE Len(trn.rxSeq)))
      /\ spiPc' = "done" /\ asked' = asked
  BY DEF Transmit
<1>6. sent' = Given(BytesOf(L))
  <2>1. L \in 1 .. 32 => source = Filled(Blank(4), n)
    <3> SUFFICES ASSUME L \in 1 .. 32 PROVE source = Filled(Blank(4), n)
      OBVIOUS
    <3>1. trn.useTx
      BY <1>4, Zenon
    <3>2. L <= 32
      OBVIOUS
    <3> QED
      BY ONLY <1>4, <3>1, <3>2
  <2>2. L > 32 => source = Given(n)
    <3> SUFFICES ASSUME L > 32 PROVE source = Given(n)
      OBVIOUS
    <3>1. ~ trn.useTx
      <4>1. L \notin 1 .. 32
        BY <1>1
      <4> QED
        BY <1>4, <4>1, Zenon
    <3>2. TxBuffer(L, n) = Given(n)
      BY ONLY L > 32, <1>1 DEF TxBuffer
    <3> QED
      BY ONLY <1>4, <3>1, <3>2
  <2>3. L = 0 => source = <<>>
    <3> SUFFICES ASSUME L = 0 PROVE source = <<>>
      OBVIOUS
    <3>1. ~ trn.useTx /\ TxBuffer(L, n) = <<>>
      BY <1>4 DEF TxBuffer
    <3> QED
      BY ONLY <1>4, <3>1
  <2>4. sent' = SubSeq(source, 1, Least(BytesOf(L), Len(source)))
    BY <1>4, <1>5
  <2> HIDE DEF source
  <2> QED
    BY ONLY <1>1, <1>3, <2>1, <2>2, <2>3, <2>4, SentIsGiven
<1>7. BytesOf(R) \in Nat /\ (R <= 32 => BytesOf(R) <= 4) /\ (R > 32 => BytesOf(R) > 4)
  BY <1>1, BitsInBytes
<1>8. HasRx <=> R # 0
  <2>1. R > 32 => Blank(BytesOf(R)) # <<>>
    BY <1>7, BlankIs, EmptySeq
  <2>2. CASE R \in 1 .. 32
    <3>1. trn.useRx
      BY <1>4, <2>2, Zenon
    <3> QED
      BY ONLY <2>2, <3>1 DEF HasRx
  <2>3. CASE R > 32
    <3>1. trn.rxSeq # <<>>
      BY ONLY <1>4, <2>1, <2>3
    <3> QED
      BY <2>3, <3>1 DEF HasRx
  <2>4. CASE R = 0
    <3>1. ~ trn.useRx /\ trn.rxSeq = <<>>
      BY <1>4, <2>4
    <3> QED
      BY ONLY <2>4, <3>1 DEF HasRx
  <2> QED
    BY <1>1, <2>2, <2>3, <2>4
<1>9. /\ Checked.rxInline = Blank(4) /\ Checked.rxSeq = trn.rxSeq
      /\ Checked = [length |-> Checked.length, rxlength |-> Checked.rxlength,
                    useTx |-> Checked.useTx, useRx |-> Checked.useRx,
                    txInline |-> Checked.txInline, txSeq |-> Checked.txSeq,
                    rxInline |-> Checked.rxInline, rxSeq |-> Checked.rxSeq]
      /\ R # 0 => Checked.rxlength = R
  BY <1>4 DEF Checked
<1>10. came = (IF R # 0 THEN BytesOf(R) ELSE 0)
  BY <1>4, <1>8
<1> HIDE DEF came
<1>11. ~ overrun'
  <2>1. Len(trn.rxSeq) = (IF R > 32 THEN BytesOf(R) ELSE 0)
    BY <1>1, <1>4, <1>7, BlankIs, EmptySeq
  <2>2. ~ (came > (IF trn.useRx THEN 4 ELSE Len(trn.rxSeq)))
    <3>1. CASE R \in 1 .. 32
      <4>1. trn.useRx
        BY <1>4, <3>1, Zenon
      <4>2. came <= 4 /\ came \in Nat
        BY ONLY <1>7, <1>10, <3>1
      <4> QED
        BY ONLY <4>1, <4>2
    <3>2. CASE R > 32
      <4>1. ~ trn.useRx
        <5>1. R \notin 1 .. 32
          BY <3>2
        <5> QED
          BY <1>4, <5>1, Zenon
      <4>2. came = Len(trn.rxSeq) /\ came \in Nat
        BY ONLY <1>1, <1>7, <1>10, <2>1, <3>2
      <4> QED
        BY ONLY <4>1, <4>2
    <3>3. CASE R = 0
      <4>1. ~ trn.useRx /\ came = Len(trn.rxSeq) /\ came = 0
        BY <1>4, <1>10, <2>1, <3>3
      <4> QED
        BY ONLY <4>1
    <3> QED
      BY <1>1, <3>1, <3>2, <3>3
  <2> QED
    BY ONLY <1>5, <2>2, Zenon
<1>12. R # 32 => Len(GetData') >= BytesOf(R) /\ SubSeq(GetData', 1, BytesOf(R)) = Given(BytesOf(R))
  <2>1. CASE R \in 1 .. 32
    <3>1. trn' = [Checked EXCEPT !.rxInline = Filled(Blank(4), BytesOf(R))]
      <4>1. trn.useRx /\ came = BytesOf(R)
        <5>1. trn.useRx
          BY <1>4, <2>1, Zenon
        <5>2. came = BytesOf(R)
          BY <1>10, <2>1
        <5> QED
          BY <5>1, <5>2
      <4>2. trn' = [Checked EXCEPT !.rxInline = Filled(@, came)]
        BY ONLY <1>5, <4>1
      <4> QED
        BY ONLY <1>9, <4>1, <4>2
    <3>2. trn'.rxlength = R /\ trn'.rxInline = Filled(Blank(4), BytesOf(R))
      BY ONLY <1>9, <2>1, <3>1
    <3>3. R # 32 => GetData' = Filled(Blank(4), BytesOf(R))
      BY <2>1, <3>2 DEF GetData
    <3> QED
      BY <1>7, <2>1, <3>3, FilledIsRead
  <2>2. CASE R > 32
    <3>1. trn' = [Checked EXCEPT !.rxSeq = Filled(Blank(BytesOf(R)), BytesOf(R))]
      <4>1. ~ trn.useRx /\ came = BytesOf(R) /\ trn.rxSeq = Blank(BytesOf(R))
        <5>1. R \notin 1 .. 32 /\ R # 0
          BY <1>1, <2>2
        <5>2. ~ trn.useRx
          BY <1>4, <5>1, Zenon
        <5>3. came = BytesOf(R)
          BY <1>10, <5>1
        <5>4. trn.rxSeq = Blank(BytesOf(R))
          BY <1>4, <2>2, Zenon
        <5> QED
          BY <5>2, <5>3, <5>4
      <4>2. trn' = [Checked EXCEPT !.rxSeq = Filled(@, came)]
        BY ONLY <1>5, <4>1
      <4> QED
        BY ONLY <1>9, <4>1, <4>2
    <3>2. trn'.rxlength = R /\ trn'.rxSeq = Filled(Blank(BytesOf(R)), BytesOf(R))
      BY ONLY <1>1, <1>9, <2>2, <3>1
    <3>3. GetData' = Filled(Blank(BytesOf(R)), BytesOf(R))
      BY <1>1, <2>2, <3>2 DEF GetData
    <3> QED
      BY <1>7, <3>3, FilledIsRead
  <2>3. CASE R = 0
    <3>1. BytesOf(R) = 0
      BY <2>3, BitsInBytes
    <3>2. trn' = [Checked EXCEPT !.rxSeq = Filled(<<>>, 0)]
      <4>1. ~ trn.useRx /\ came = 0 /\ trn.rxSeq = <<>>
        BY <1>4, <1>10, <2>3
      <4>2. trn' = [Checked EXCEPT !.rxSeq = Filled(@, came)]
        BY ONLY <1>5, <4>1
      <4> QED
        BY ONLY <1>9, <4>1, <4>2
    <3>3. trn'.rxInline = Blank(4) /\ trn'.rxSeq = Filled(<<>>, 0)
      BY ONLY <1>9, <3>2
    <3>4. GetData' \in Seq(Int)
      <4>1. Filled(<<>>, 0) \in Seq(Int)
        BY EmptySeq, FilledIs
      <4> QED
        BY <3>3, <4>1, BlankIs DEF GetData
    <3>5. Len(GetData') \in Nat
      BY <3>4, LenProperties
    <3> QED
      BY <3>1, <3>4, <3>5, PrefixIs
  <2> QED
    BY <1>1, <2>1, <2>2, <2>3
<1>13. TransferIsExact'
  BY <1>5, <1>6, <1>11, <1>12 DEF TransferIsExact, L, R, n, ToSend, ToReceive
<1> QED
  BY <1>5, <1>13 DEF SpiInv

\* The constructors, transmit, and a transmit that raises.
LEMMA SpiInvStep ==
    ASSUME SpiInv, [SpiNext]_spiVars
    PROVE  SpiInv'
<1>1. CASE UNCHANGED spiVars
  BY <1>1 DEF spiVars, SpiInv, TransferIsExact, GetData
<1>2. \A b \in {Unset} \union Bits : b \in Nat \union {Unset}
  BY MaxBytesAssumption DEF Bits
<1>3. \A n \in 0 .. MaxBytes : n \in Nat
  BY MaxBytesAssumption
<1>4. ASSUME NEW n \in 0 .. MaxBytes, NEW tx \in {Unset} \union Bits, NEW rx \in {Unset} \union Bits,
             FullTrans(n, tx, rx)
      PROVE  SpiInv'
  BY <1>2, <1>3, <1>4, Makes DEF FullTrans
<1>5. ASSUME NEW n \in 0 .. MaxBytes, NEW tx \in {Unset} \union Bits, WriteTrans(n, tx)
      PROVE  SpiInv'
  <2>1. 0 \in Nat \union {Unset}
    OBVIOUS
  <2> QED
    BY <1>2, <1>3, <1>5, <2>1, Makes DEF WriteTrans
<1>6. ASSUME NEW rx \in {Unset} \union Bits, ReadTrans(rx) PROVE SpiInv'
  <2>1. 0 \in Nat /\ 0 \in Nat \union {Unset} /\ rx \in Nat \union {Unset}
    BY <1>2
  <2>2. (IF rx < 0 THEN 0 ELSE BytesOf(rx)) \in Nat
    BY <2>1, BitsInBytes DEF Unset
  <2> QED
    BY <1>6, <2>1, <2>2, Makes DEF ReadTrans
<1>7. CASE Transmit
  BY <1>7, Transmits
<1>8. CASE TransmitRaises
  BY <1>8 DEF TransmitRaises, SpiInv, TransferIsExact
<1> QED
  BY <1>1, <1>4, <1>5, <1>6, <1>7, <1>8 DEF SpiNext

\* Whatever lengths are asked for, in bits and either way: what was given is sent, what
\* comes has room, and getData returns it, except for exactly 32 bits.
THEOREM SpiTransferIsExact == Spec => []TransferIsExact
<1>1. Init => SpiInv
  BY SpiInvInit DEF Init
<1>2. SpiInv /\ [Next]_vars => SpiInv'
  BY SpiInvStep, PartSteps
<1>3. SpiInv => TransferIsExact
  BY DEF SpiInv
<1> QED
  BY <1>1, <1>2, <1>3, PTL DEF Spec

-----------------------------------------------------------------------------
(* SpiMaster *)

\* However tasks and handler interleave on a bus that is polled or queued on: one transaction
\* at a time is on the wire, under the chip select of its device, which has the bus if one has
\* locked it; what is queued is returned, in hand or waiting, once and in order; and no
\* assertion of the driver fails.
THEOREM BusTransactionsIntact == Spec => []TransactionsIntact
<1>1. Init => BusInv
  <2> SUFFICES ASSUME BusInit PROVE BusInv
    BY DEF Init
  <2>1. PollOnly \/ QueueOnly
    BY StylesAssumption DEF BusInit, PollOnly, QueueOnly
  <2> QED
    BY <2>1, SpiMasterAssumption, BusInvInit
<1>2. BusInv /\ [Next]_vars => BusInv'
  BY SpiMasterAssumption, BusInvStep, PartSteps
<1>3. BusInv => TransactionsIntact
  BY DEF BusInv
<1> QED
  BY <1>1, <1>2, <1>3, PTL DEF Spec
-----------------------------------------------------------------------------
(* The types of all parts *)

\* Nothing has come before newUart.
LEMMA UartTypeInit == UartInit => UartTypeOK
<1>1. <<>> \in Seq(1 .. UartBytes) /\ <<>> \in Seq(0 .. UartBytes) /\ Len(<<>>) = 0
  BY EmptySeq
<1>2. UartInit => spilled \in BOOLEAN
  BY DEF UartInit
<1> QED
  BY <1>1, <1>2, UartAssumption DEF UartInit, UartTypeOK

\* The bytes of a read stay bytes, whatever is cut off and joined.
LEMMA UartTypeStep ==
    ASSUME UartTypeOK, [UartNext]_uartVars
    PROVE  UartTypeOK'
<1> USE UartAssumption DEF UartTypeOK
<1>1. CASE UNCHANGED uartVars
  BY <1>1 DEF uartVars
<1>2. CASE NewUart
  BY <1>2 DEF NewUart
<1>3. CASE ByteArrives
  <2>1. arrived' \in 1 .. UartBytes /\ Len(ring) \in Nat
    BY <1>3, LenProperties DEF ByteArrives
  <2>2. /\ Append(ring, arrived') \in Seq(1 .. UartBytes) /\ Len(Append(ring, arrived')) = Len(ring) + 1
        /\ Append(accepted, arrived') \in Seq(1 .. UartBytes)
    BY <2>1, AppendProperties
  <2>3. ring' \in Seq(1 .. UartBytes) /\ Len(ring') <= RingSize /\ accepted' \in Seq(1 .. UartBytes)
    <3>1. CASE Len(ring) < RingSize
      <4>1. ring' = Append(ring, arrived') /\ accepted' = Append(accepted, arrived')
        BY <1>3, <3>1 DEF ByteArrives
      <4> QED
        BY <2>1, <2>2, <3>1, <4>1
    <3>2. CASE ~ Len(ring) < RingSize
      BY <1>3, <3>2 DEF ByteArrives
    <3> QED
      BY <3>1, <3>2
  <2> QED
    BY <1>3, <2>1, <2>3 DEF ByteArrives
<1>4. ASSUME NEW n \in 0 .. UartBytes, MeasureAvailable(n) PROVE UartTypeOK'
  <2>1. Len(ring) \in 0 .. RingSize /\ <<>> \in Seq(1 .. UartBytes)
    BY LenProperties, EmptySeq
  <2> QED
    BY <1>4, <2>1 DEF MeasureAvailable
<1>5. CASE CopyBytes
  <2>1. PICK n \in 1 .. Len(ring) :
          buff' = buff \o SubSeq(ring, 1, n) /\ ring' = SubSeq(ring, n + 1, Len(ring))
    BY <1>5 DEF CopyBytes
  <2>2. Len(ring) \in Nat /\ \A i \in 1 .. Len(ring) : ring[i] \in 1 .. UartBytes
    BY LenProperties, ElementOfSeq
  <2>3. SubSeq(ring, 1, n) \in Seq(1 .. UartBytes)
    BY <2>2, SubSeqProperties
  <2>4. /\ SubSeq(ring, n + 1, Len(ring)) \in Seq(1 .. UartBytes)
        /\ Len(SubSeq(ring, n + 1, Len(ring))) <= RingSize
    BY <2>2, SubSeqProperties
  <2>5. buff' \in Seq(1 .. UartBytes)
    BY <2>1, <2>3, ConcatProperties
  <2>6. spilled' \in BOOLEAN
    BY <1>5 DEF CopyBytes
  <2>7. UNCHANGED <<uartPc, arrived, accepted, size, avail, delivered>>
    BY <1>5 DEF CopyBytes
  <2> QED
    BY <2>1, <2>4, <2>5, <2>6, <2>7
<1>6. CASE ReadReturns
  <2>1. buff \in Seq(0 .. UartBytes)
    <3>1. DOMAIN buff = 1 .. Len(buff) /\ Len(buff) \in Nat
      BY LenProperties
    <3>2. \A i \in 1 .. Len(buff) : buff[i] \in 0 .. UartBytes
      BY ElementOfSeq
    <3>3. buff \in [1 .. Len(buff) -> 0 .. UartBytes]
      BY <3>1, <3>2
    <3> QED
      BY <3>1, <3>3, SeqDef
  <2>2. delivered \o buff \in Seq(0 .. UartBytes)
    BY <2>1, ConcatProperties
  <2>3. delivered' \in Seq(0 .. UartBytes)
    BY <1>6, <2>2 DEF ReadReturns
  <2>4. uartPc' \in {"idle", "raised"} /\ UNCHANGED <<arrived, accepted, ring, size, buff, avail, spilled>>
    BY <1>6 DEF ReadReturns
  <2> QED
    BY <2>3, <2>4
<1>7. CASE ReadRaises
  BY <1>7 DEF ReadRaises
<1> QED
  BY <1>1, <1>2, <1>3, <1>4, <1>5, <1>6, <1>7 DEF UartNext

\* A slot on the stack has a transaction in it, or junk.
SlotTypeOK == user \in [Transactions -> Transactions \union {Junk}]

\* There is junk on the stack at first, and fullTrans leaves its transaction there.
LEMMA SlotTypeInit == SpiqInit => SlotTypeOK
BY DEF SpiqInit, SlotTypeOK

\* Only fullTrans and other calls write to the slots.
LEMMA SlotTypeStep ==
    ASSUME SlotTypeOK, [SpiqNext]_spiqVars
    PROVE  SlotTypeOK'
<1> USE DEF SlotTypeOK
<1>1. CASE UNCHANGED spiqVars
  BY <1>1 DEF spiqVars
<1>2. ASSUME NEW t \in Transactions, NewTrans(t) PROVE SlotTypeOK'
  BY <1>2 DEF NewTrans
<1>3. ASSUME NEW t \in Transactions, StackIsUsed(t) PROVE SlotTypeOK'
  BY <1>3 DEF StackIsUsed
<1>4. ASSUME UNCHANGED user PROVE SlotTypeOK'
  BY <1>4
<1> QED
  BY <1>1, <1>2, <1>3, <1>4
     DEF SpiqNext, Drop, QueueTrans, PinTrans, DriverFinishes, Retrieve, RetrieveTimesOut

\* A count goes below zero only with the last reference, and then nobody reads it any more.
NodeTypes ==
    /\ NodeTypeOK
    /\ loaded \in [Tasks -> 0 .. 2]
    /\ callPc \in {"decoded", "handed"} => count = 0
    /\ count = BelowZero => References = 0

\* toJsonNode leaves one reference.
LEMMA NodeTypesInit == NodeInit => NodeTypes
<1> SUFFICES ASSUME NodeInit PROVE NodeTypes
  OBVIOUS
<1>1. refs \in [Tasks -> 0 .. 3] /\ loaded \in [Tasks -> 0 .. 2]
  BY DEF NodeInit, Tasks
<1>2. nodePc \in [Tasks -> {"idle", "decrement", "store"}]
  BY DEF NodeInit, Tasks
<1>3. encoded \in BOOLEAN /\ overlapped \in BOOLEAN
  BY DEF NodeInit
<1>4. count = 0 /\ frees = 0 /\ callPc = "decoded"
  BY DEF NodeInit
<1>5. loaded \in [Tasks -> 0 .. 2 \union {BelowZero}]
  BY <1>1
<1> QED
  BY <1>1, <1>2, <1>3, <1>4, <1>5 DEF NodeTypes, NodeTypeOK, BelowZero

\* A call adds at most two references, and a release that stores late has read a count
\* that was still in its range.
LEMMA NodeTypesStep ==
    ASSUME NodeInv, NodeInv', NodeTypes, [NodeNext]_nodeVars
    PROVE  NodeTypes'
<1> DEFINE Counts ==
        /\ refs \in [Tasks -> 0 .. 3] /\ loaded \in [Tasks -> 0 .. 2]
        /\ count \in 0 .. 2 \union {BelowZero}
        /\ callPc \in {"decoded", "handed"} => count = 0
        /\ count = BelowZero => References = 0
<1>1. Counts
  BY DEF NodeTypes, NodeTypeOK
<1>2. \A t \in Tasks : refs[t] \in 0 .. 3 /\ loaded[t] \in 0 .. 2
  BY <1>1
<1>3. /\ refs["server"] \in 0 .. 3 /\ refs["rpc"] \in 0 .. 3 /\ Tasks = {"server", "rpc"}
      /\ References \in Nat /\ \A t \in Tasks : refs[t] <= References
  BY <1>2 DEF Tasks, References
<1>4. ASSUME UNCHANGED nodeVars PROVE Counts'
  BY <1>1, <1>4 DEF nodeVars, References
<1>5. ASSUME HandOver PROVE Counts'
  BY <1>1, <1>3, <1>5 DEF HandOver, NodeInv, BelowZero
<1>6. ASSUME RouteCall PROVE Counts'
  <2>1. PICK n \in {1, 2} : refs' = [refs EXCEPT !["rpc"] = @ + n] /\ count' = count + n
    BY <1>6 DEF RouteCall
  <2>2. count = 0 /\ refs["rpc"] = 1
    BY <1>1, <1>3, <1>6 DEF RouteCall, NodeInv, References
  <2>3. count' \in 1 .. 2 /\ refs' \in [Tasks -> 0 .. 3] /\ callPc' = "replied" /\ loaded' = loaded
    BY <1>1, <1>3, <1>6, <2>1, <2>2 DEF RouteCall
  <2> QED
    BY <1>1, <2>3 DEF BelowZero
<1>7. ASSUME SendReply PROVE Counts'
  <2>1. refs["rpc"] > 1 /\ refs["server"] = 0
    BY <1>3, <1>7 DEF SendReply, NodeInv, References
  <2>2. count # BelowZero
    BY <1>1, <1>3, <2>1 DEF References
  <2>3. refs' \in [Tasks -> 0 .. 3] /\ callPc' = "received" /\ count' = count /\ loaded' = loaded
    BY <1>1, <1>3, <1>7, <2>1 DEF SendReply
  <2> QED
    BY <1>1, <2>2, <2>3
<1>8. ASSUME EncodeReply PROVE Counts'
  BY <1>1, <1>8 DEF EncodeReply, References
<1>9. ASSUME NEW t \in Tasks, BeginRelease(t) PROVE Counts'
  <2>1. count \in 0 .. 2 /\ References > 0
    BY <1>1, <1>2, <1>3, <1>9 DEF BeginRelease
  <2>2. loaded' = [loaded EXCEPT ![t] = count] /\ count' = count /\ callPc' = callPc
    BY <1>9 DEF BeginRelease
  <2>3. refs' = [refs EXCEPT ![t] = @ - 1] \/ refs' = refs
    BY <1>9 DEF BeginRelease
  <2>4. refs[t] \in 1 .. 3
    BY <1>2, <1>9 DEF BeginRelease
  <2>5. refs' \in [Tasks -> 0 .. 3]
    BY <1>1, <2>3, <2>4
  <2>6. loaded' \in [Tasks -> 0 .. 2]
    BY <1>1, <2>1, <2>2
  <2>7. count' = count /\ count # BelowZero /\ callPc' = callPc
    BY <2>1, <2>2 DEF BelowZero
  <2> QED
    BY <1>1, <2>5, <2>6, <2>7
<1>10. ASSUME NEW t \in Tasks, ReadAgain(t) PROVE Counts'
  <2>1. refs[t] > 0
    BY <1>10 DEF ReadAgain, NodeInv
  <2>2. count \in 0 .. 2
    BY <1>1, <1>2, <1>3, <2>1
  <2>3. PICK value \in {loaded[t], count} : loaded' = [loaded EXCEPT ![t] = value]
    BY <1>10 DEF ReadAgain
  <2>4. loaded' \in [Tasks -> 0 .. 2]
    BY <1>1, <1>2, <2>2, <2>3
  <2>5. refs' = refs /\ count' = count /\ callPc' = callPc
    BY <1>10 DEF ReadAgain
  <2> QED
    BY <1>1, <2>4, <2>5 DEF References
<1>11. ASSUME NEW t \in Tasks, StoreCount(t) PROVE Counts'
  <2>1. refs[t] > 0 /\ loaded[t] + 1 >= References /\ callPc = "received"
    BY <1>11 DEF StoreCount, NodeInv, Tasks
  <2>2. /\ refs' = [refs EXCEPT ![t] = @ - 1] /\ loaded' = loaded /\ callPc' = callPc
        /\ count' = IF loaded[t] = 0 THEN BelowZero ELSE loaded[t] - 1
    BY <1>11 DEF StoreCount
  <2>3. refs' \in [Tasks -> 0 .. 3] /\ count' \in 0 .. 2 \union {BelowZero}
    BY <1>1, <1>2, <2>1, <2>2
  <2>4. References' = References - 1
    <3>1. CASE t = "server"
      BY <1>1, <1>3, <2>2, <3>1 DEF References
    <3>2. CASE t = "rpc"
      BY <1>1, <1>3, <2>2, <3>2 DEF References
    <3> QED
      BY <3>1, <3>2 DEF Tasks
  <2>5. count' = BelowZero => References' = 0
    <3>1. count' = BelowZero => loaded[t] = 0
      BY <1>2, <2>2 DEF BelowZero
    <3>2. References >= 1
      BY <1>2, <1>3, <2>1
    <3> QED
      BY <1>2, <1>3, <2>1, <2>4, <3>1, <3>2
  <2> QED
    BY <1>1, <2>1, <2>2, <2>3, <2>5
<1>12. Counts'
  BY <1>4, <1>5, <1>6, <1>7, <1>8, <1>9, <1>10, <1>11 DEF NodeNext
<1>13. loaded' \in [Tasks -> 0 .. 2 \union {BelowZero}]
  BY <1>12
<1>14. frees' \in 0 .. 3
  BY DEF NodeInv
<1> QED
  BY <1>12, <1>13, <1>14 DEF NodeTypes, NodeTypeOK, NodeInv

-----------------------------------------------------------------------------
\* The events in the queue are of sessions there have been, and there are no more of these
\* than the bound allows.
LEMMA EventTypes ==
    ASSUME EventsInv, sessions \in 0 .. MaxSessions
    PROVE  events \in Seq([kind : {"lost", "ip"}, session : 1 .. MaxSessions])
<1> DEFINE Event == [kind : {"lost", "ip"}, session : Nat \ {0}]
           Bounded == [kind : {"lost", "ip"}, session : 1 .. MaxSessions]
<1>1. events \in Seq(Event) /\ Posted \subseteq 1 .. sessions
  BY DEF EventsInv
<1>2. Len(events) \in Nat /\ DOMAIN events = 1 .. Len(events)
  BY <1>1, LenProperties
<1>3. ASSUME NEW i \in 1 .. Len(events) PROVE events[i] \in Bounded
  <2>1. events[i] \in Event
    BY <1>1, <1>3, ElementOfSeq
  <2>2. events[i].session \in 1 .. sessions
    BY <1>1, <1>2 DEF Posted
  <2>3. events[i].session \in 1 .. MaxSessions
    BY <2>2, BoundsAssumption
  <2>4. events[i].kind \in {"lost", "ip"}
    BY <2>1
  <2>5. events[i] = [kind |-> events[i].kind, session |-> events[i].session]
    BY <2>1
  <2> QED
    BY ONLY <2>3, <2>4, <2>5
<1>4. events = [i \in 1 .. Len(events) |-> events[i]]
  BY <1>1, <1>2
<1>5. events \in [1 .. Len(events) -> Bounded]
  BY <1>3, <1>4
<1> QED
  BY <1>2, <1>5, SeqDef, ZenonT(30)

\* The variables the invariant of the networking says nothing of, and the bounds.
NetBounds ==
    /\ main \in {"idle", "init", "regDisconnect", "regIp", "config", "start", "join", "wait", "serve",
                 "failed", "forget", "unregDisconnect", "unregIp", "stop", "deinit"}
    /\ sessions \in 0 .. MaxSessions
    /\ ipAddr \in 0 .. MaxSessions
    /\ driver \in {"off", "init", "started"}
    /\ link \in {"down", "joining", "joined", "address"}
    /\ drops \in 0 .. MaxDrops
    /\ fault \in {"none", "group", "callback"}
    /\ stale \in BOOLEAN

\* Before the first networkingConnect nothing is on.
LEMMA NetBoundsInit == NetInit => NetBounds
<1>1. NetInit => stale \in BOOLEAN
  BY DEF NetInit
<1> QED
  BY <1>1, BoundsAssumption DEF NetInit, NetBounds, NoGroup

\* Each place is followed by one of the list, and an address is of a session there has been.
LEMMA NetBoundsStep ==
    ASSUME NetInv, NetBounds, [NetNext]_networkingVars
    PROVE  NetBounds'
<1> USE BoundsAssumption DEF NetBounds, groupVars, netVars, MainGoto
<1>1. CASE UNCHANGED networkingVars
  BY <1>1 DEF networkingVars
<1>2. CASE CreateGroup
  BY <1>2 DEF CreateGroup
<1>3. CASE ConnectRefused
  BY <1>3 DEF ConnectRefused
<1>4. CASE WifiInit
  BY <1>4 DEF WifiInit
<1>5. CASE RegisterHandler("regDisconnect", "regIp", "disconnect")
  BY <1>5 DEF RegisterHandler
<1>6. CASE RegisterHandler("regIp", "config", "ip")
  BY <1>6 DEF RegisterHandler
<1>7. CASE WifiConfig
  BY <1>7 DEF WifiConfig
<1>8. CASE WifiStart
  BY <1>8 DEF WifiStart
<1>9. CASE WifiConnect
  BY <1>9 DEF WifiConnect, Joining
<1>10. CASE WifiStartFails
  BY <1>10 DEF WifiStartFails
<1>11. CASE Retry
  BY <1>11 DEF Retry
<1>12. CASE OnNetworking
  BY <1>12 DEF OnNetworking
<1>13. CASE DeleteGroup
  BY <1>13 DEF DeleteGroup
<1>14. CASE ForgetGroup
  BY <1>14 DEF ForgetGroup
<1>15. CASE UnregisterHandler("unregDisconnect", "unregIp", "disconnect")
  BY <1>15 DEF UnregisterHandler
<1>16. CASE UnregisterHandler("unregIp", "stop", "ip")
  BY <1>16 DEF UnregisterHandler
<1>17. CASE WifiStop
  BY <1>17 DEF WifiStop
<1>18. CASE WifiStopFails
  BY <1>18 DEF WifiStopFails
<1>19. CASE WifiDeinit
  BY <1>19 DEF WifiDeinit
<1>20. CASE IpReceived
  <2>1. Head(events).session \in 1 .. sessions
    BY <1>20, PostedHead DEF IpReceived, Takes, NetInv, EventsInv
  <2>2. ipAddr' \in 0 .. MaxSessions /\ stale' \in BOOLEAN
    BY <1>20, <2>1 DEF IpReceived, NotesSession
  <2> QED
    BY <1>20, <2>2 DEF IpReceived
<1>21. CASE SetBits
  BY <1>21 DEF SetBits
<1>22. CASE OnWifiDisconnect
  <2>1. stale' \in BOOLEAN
    BY <1>22 DEF OnWifiDisconnect, NotesSession
  <2> QED
    BY <1>22, <2>1 DEF OnWifiDisconnect, Joining
<1>23. CASE NoHandler
  BY <1>23 DEF NoHandler
<1>24. CASE Join
  BY <1>24 DEF Join, netUnchanged
<1>25. CASE ObtainAddress
  BY <1>25 DEF ObtainAddress, netUnchanged
<1>26. CASE LoseLink
  BY <1>26 DEF LoseLink, netUnchanged
<1> QED
  BY <1>1, <1>2, <1>3, <1>4, <1>5, <1>6, <1>7, <1>8, <1>9, <1>10, <1>11, <1>12, <1>13,
     <1>14, <1>15, <1>16, <1>17, <1>18, <1>19, <1>20, <1>21, <1>22, <1>23, <1>24, <1>25, <1>26
     DEF NetNext, Connect, Disconnect, EventTask, AccessPoint

\* What the invariant says of the shared variables completes the bounds.
LEMMA NetTypes == NetInv /\ NetBounds => NetTypeOK
<1> SUFFICES ASSUME NetInv, NetBounds PROVE NetTypeOK
  OBVIOUS
<1>1. events \in Seq([kind : {"lost", "ip"}, session : 1 .. MaxSessions])
  BY EventTypes DEF NetInv, NetBounds
<1>2. /\ group \in 0 .. MaxSessions /\ live \subseteq 1 .. MaxSessions /\ gotIp \subseteq live
  BY BoundsAssumption DEF NetInv, GroupInv, NetBounds, NoGroup
<1> QED
  BY <1>1, <1>2 DEF NetInv, UndoneInv, AddressInv, NetBounds, NetTypeOK

-----------------------------------------------------------------------------
\* The bytes that the buffers hold are numbers up to the bound.
LEMMA BufferTypes ==
    ASSUME NEW n \in 0 .. MaxBytes
    PROVE  /\ Given(n) \in Seq(1 .. MaxBytes)
           /\ Blank(n) \in Seq(0 .. MaxBytes)
           /\ Blank(4) \in Seq(0 .. MaxBytes)
           /\ \A buffer \in Seq(0 .. MaxBytes) : Filled(buffer, n) \in Seq(0 .. MaxBytes)
<1> USE MaxBytesAssumption
<1>1. Given(n) \in [1 .. n -> 1 .. MaxBytes] /\ n \in Nat
  BY DEF Given
<1>2. Blank(n) \in [1 .. n -> 0 .. MaxBytes] /\ Blank(4) \in [1 .. 4 -> 0 .. MaxBytes]
  BY DEF Blank
<1>3. ASSUME NEW buffer \in Seq(0 .. MaxBytes) PROVE Filled(buffer, n) \in Seq(0 .. MaxBytes)
  <2>1. Len(buffer) \in Nat /\ DOMAIN buffer = 1 .. Len(buffer)
    BY LenProperties
  <2>2. \A i \in 1 .. Len(buffer) : buffer[i] \in 0 .. MaxBytes
    BY ElementOfSeq
  <2>3. Filled(buffer, n) \in [1 .. Len(buffer) -> 0 .. MaxBytes]
    BY <1>1, <2>1, <2>2 DEF Filled
  <2> QED
    BY <2>1, <2>3, SeqDef
<1>4. Given(n) \in Seq(1 .. MaxBytes)
  BY <1>1, SeqDef
<1>5. Blank(n) \in Seq(0 .. MaxBytes)
  BY <1>1, <1>2, SeqDef
<1>6. Blank(4) \in Seq(0 .. MaxBytes)
  BY <1>2, SeqDef
<1> QED
  BY <1>3, <1>4, <1>5, <1>6

\* The objects of type SpiTrans.
SpiTrans == [length : Bits, rxlength : Bits, useTx : BOOLEAN, useRx : BOOLEAN,
             txInline : Seq(0 .. MaxBytes), txSeq : Seq(1 .. MaxBytes),
             rxInline : Seq(0 .. MaxBytes), rxSeq : Seq(0 .. MaxBytes)]

\* A length within the bound needs no more bytes than the bound.
LEMMA BytesBound ==
    ASSUME NEW b \in Bits
    PROVE  BytesOf(b) \in 0 .. MaxBytes /\ ReceiveBytes(b) = BytesOf(b)
<1>1. b \in Nat /\ b <= 8 * MaxBytes
  BY MaxBytesAssumption DEF Bits
<1> QED
  BY <1>1, BitsInBytes, BytesEnough, MaxBytesAssumption

\* An empty transaction has lengths of zero.
LEMMA SpiTypeInit == SpiInit => SpiTypeOK
<1> SUFFICES ASSUME SpiInit PROVE SpiTypeOK
  OBVIOUS
<1>1. 0 \in Bits /\ 0 \in 0 .. MaxBytes
  BY MaxBytesAssumption DEF Bits
<1>2. Blank(4) \in Seq(0 .. MaxBytes) /\ <<>> \in Seq(0 .. MaxBytes) /\ <<>> \in Seq(1 .. MaxBytes)
  BY <1>1, BufferTypes, EmptySeq
<1>3. trn \in SpiTrans
  <2>1. trn = NoTrans
    BY DEF SpiInit
  <2> QED
    BY <1>1, <1>2, <2>1 DEF NoTrans, SpiTrans
<1>4. asked \in [bytes : 0 .. MaxBytes, tx : Bits \union {Unset}, rx : Bits \union {Unset}]
  BY <1>1 DEF SpiInit
<1>5. overrun \in BOOLEAN
  BY DEF SpiInit
<1> QED
  BY <1>2, <1>3, <1>4, <1>5 DEF SpiInit, SpiTypeOK, SpiTrans

\* fullTrans and its two variants.
LEMMA MakesTypes ==
    ASSUME SpiTypeOK, NEW n \in 0 .. MaxBytes,
           NEW tx \in Bits \union {Unset}, NEW rx \in Bits \union {Unset}, MakeTrans(n, tx, rx)
    PROVE  SpiTypeOK'
<1> USE MaxBytesAssumption
<1>1. MadeTrans(n, tx, rx) \in SpiTrans
  <2> DEFINE L == IF tx < 0 THEN 8 * n ELSE tx
             R == RxLength(rx, L)
             made == [length |-> L, rxlength |-> R, useTx |-> Small(L), useRx |-> Small(R),
                      txInline |-> IF L <= 32 THEN Filled(Blank(4), n) ELSE Blank(4),
                      txSeq |-> TxBuffer(L, n), rxInline |-> Blank(4),
                      rxSeq |-> IF R <= 32 THEN <<>> ELSE Blank(ReceiveBytes(R))]
  <2>1. L \in Bits
    BY DEF Bits, Unset
  <2>2. R \in Bits
    BY <2>1 DEF RxLength, Bits, Unset
  <2>3. MadeTrans(n, tx, rx) = made
    BY DEF MadeTrans
  <2> HIDE DEF L, R
  <2>4. Small(L) \in BOOLEAN /\ Small(R) \in BOOLEAN
    BY DEF Small
  <2>5. (IF L <= 32 THEN Filled(Blank(4), n) ELSE Blank(4)) \in Seq(0 .. MaxBytes)
    BY BufferTypes
  <2>6. TxBuffer(L, n) \in Seq(1 .. MaxBytes)
    BY BufferTypes, EmptySeq DEF TxBuffer
  <2>7. (IF R <= 32 THEN <<>> ELSE Blank(ReceiveBytes(R))) \in Seq(0 .. MaxBytes)
    BY <2>2, BytesBound, BufferTypes, EmptySeq
  <2>8. Blank(4) \in Seq(0 .. MaxBytes)
    BY BufferTypes
  <2> QED
    BY ONLY <2>1, <2>2, <2>3, <2>4, <2>5, <2>6, <2>7, <2>8 DEF SpiTrans
<1>2. spiPc' \in {"made", "raised"} /\ trn' \in SpiTrans
  BY <1>1 DEF MakeTrans, SpiTypeOK, SpiTrans
<1>3. asked' = [bytes |-> n, tx |-> tx, rx |-> rx] /\ UNCHANGED <<halfDuplex, dma, sent, overrun>>
  BY DEF MakeTrans
<1>4. asked' \in [bytes : 0 .. MaxBytes, tx : Bits \union {Unset}, rx : Bits \union {Unset}]
  BY <1>3
<1> QED
  BY <1>2, <1>3, <1>4 DEF SpiTypeOK, SpiTrans

\* What is sent is part of a buffer, and what comes goes into one.
LEMMA TransmitsTypes ==
    ASSUME SpiTypeOK, Transmit
    PROVE  SpiTypeOK'
<1> DEFINE source == IF trn.useTx THEN trn.txInline ELSE trn.txSeq
           came == IF HasRx THEN BytesOf(trn.rxlength) ELSE 0
<1> USE MaxBytesAssumption
<1>1. trn \in SpiTrans
  BY DEF SpiTypeOK, SpiTrans
<1>2. came \in 0 .. MaxBytes
  <2>1. trn.rxlength \in Bits
    BY <1>1 DEF SpiTrans
  <2> QED
    BY <2>1, BytesBound
<1>3. /\ sent' = SubSeq(source, 1, Least(BytesOf(trn.length), Len(source)))
      /\ trn' = IF trn.useRx THEN [Checked EXCEPT !.rxInline = Filled(@, came)]
                             ELSE [Checked EXCEPT !.rxSeq = Filled(@, came)]
      /\ overrun' \in BOOLEAN /\ spiPc' = "done"
      /\ UNCHANGED <<halfDuplex, dma, asked>>
  BY DEF Transmit
<1>4. Checked \in SpiTrans
  BY <1>1 DEF Checked, SpiTrans
<1>5. trn' \in SpiTrans
  <2>1. Filled(Checked.rxInline, came) \in Seq(0 .. MaxBytes) /\ Filled(Checked.rxSeq, came) \in Seq(0 .. MaxBytes)
    <3>1. Checked.rxInline \in Seq(0 .. MaxBytes) /\ Checked.rxSeq \in Seq(0 .. MaxBytes)
      BY <1>4 DEF SpiTrans
    <3> QED
      BY <1>2, <3>1, BufferTypes
  <2> HIDE DEF came
  <2> QED
    BY ONLY <1>3, <1>4, <2>1 DEF SpiTrans
<1>6. sent' \in Seq(0 .. MaxBytes)
  <2> DEFINE m == Least(BytesOf(trn.length), Len(source))
  <2>1. source \in Seq(0 .. MaxBytes)
    <3>1. trn.txInline \in Seq(0 .. MaxBytes) /\ trn.txSeq \in Seq(1 .. MaxBytes)
      BY <1>1 DEF SpiTrans
    <3>2. trn.txSeq \in Seq(0 .. MaxBytes)
      <4>1. Len(trn.txSeq) \in Nat /\ DOMAIN trn.txSeq = 1 .. Len(trn.txSeq)
        BY <3>1, LenProperties
      <4>2. \A i \in 1 .. Len(trn.txSeq) : trn.txSeq[i] \in 0 .. MaxBytes
        BY <3>1, ElementOfSeq
      <4>3. trn.txSeq = [i \in 1 .. Len(trn.txSeq) |-> trn.txSeq[i]]
        BY <3>1, <4>1
      <4>4. trn.txSeq \in [1 .. Len(trn.txSeq) -> 0 .. MaxBytes]
        BY <4>2, <4>3
      <4> QED
        BY <4>1, <4>4, SeqDef
    <3> QED
      BY <3>1, <3>2
  <2>2. trn.length \in Bits
    BY <1>1 DEF SpiTrans
  <2>3. BytesOf(trn.length) \in 0 .. MaxBytes
    BY <2>2, BytesBound
  <2> HIDE DEF source
  <2>4. Len(source) \in Nat
    BY <2>1, LenProperties
  <2>5. m \in Nat /\ m <= Len(source)
    BY <2>3, <2>4 DEF Least
  <2>6. \A i \in 1 .. m : source[i] \in 0 .. MaxBytes
    <3> HIDE DEF m
    <3> QED
      BY <2>1, <2>4, <2>5, ElementOfSeq
  <2>7. SubSeq(source, 1, m) \in Seq(0 .. MaxBytes)
    <3> HIDE DEF m
    <3> QED
      BY <2>5, <2>6, SubSeqProperties
  <2> QED
    BY <1>3, <2>7
<1> QED
  BY <1>3, <1>5, <1>6 DEF SpiTypeOK, SpiTrans

\* readTrans gives as many bytes as its bits need, writeTrans asks for none.
LEMMA SpiTypeStep ==
    ASSUME SpiTypeOK, [SpiNext]_spiVars
    PROVE  SpiTypeOK'
<1>1. CASE UNCHANGED spiVars
  BY <1>1 DEF spiVars, SpiTypeOK
<1>2. 0 \in Bits /\ 0 \in 0 .. MaxBytes
  BY MaxBytesAssumption DEF Bits
<1>3. ASSUME NEW n \in 0 .. MaxBytes, NEW tx \in {Unset} \union Bits, NEW rx \in {Unset} \union Bits,
             FullTrans(n, tx, rx)
      PROVE  SpiTypeOK'
  BY <1>3, MakesTypes DEF FullTrans
<1>4. ASSUME NEW n \in 0 .. MaxBytes, NEW tx \in {Unset} \union Bits, WriteTrans(n, tx)
      PROVE  SpiTypeOK'
  BY <1>2, <1>4, MakesTypes DEF WriteTrans
<1>5. ASSUME NEW rx \in {Unset} \union Bits, ReadTrans(rx) PROVE SpiTypeOK'
  <2>1. (IF rx < 0 THEN 0 ELSE BytesOf(rx)) \in 0 .. MaxBytes
    <3>1. CASE rx \in Bits
      BY <1>2, <3>1, BytesBound
    <3>2. CASE rx = Unset
      BY <1>2, <3>2 DEF Unset
    <3> QED
      BY <3>1, <3>2
  <2> QED
    BY <1>2, <1>5, <2>1, MakesTypes DEF ReadTrans
<1>6. CASE Transmit
  BY <1>6, TransmitsTypes
<1>7. CASE TransmitRaises
  BY <1>7 DEF TransmitRaises, SpiTypeOK
<1> QED
  BY <1>1, <1>3, <1>4, <1>5, <1>6, <1>7 DEF SpiNext

-----------------------------------------------------------------------------

\* The invariants of the parts, with what completes them to their types.
TypesInv ==
    /\ UdpInv /\ I2cInv /\ NvsInv /\ SpiTypeOK /\ SpiqInv /\ SlotTypeOK /\ BusInv /\ UartTypeOK
    /\ NodeInv /\ NodeTypes /\ NetInv /\ NetBounds

\* Each part begins as its own initial states.
LEMMA TypesInvInit == Init => TypesInv
<1> SUFFICES ASSUME Init PROVE TypesInv
  OBVIOUS
<1>1. UdpInit /\ I2cInit /\ NvsInit /\ SpiInit /\ SpiqInit /\ BusInit /\ UartInit /\ NodeInit /\ NetInit
  BY DEF Init
<1>2. BusInv
  <2>1. PollOnly \/ QueueOnly
    BY <1>1, StylesAssumption DEF BusInit, PollOnly, QueueOnly
  <2> QED
    BY <1>1, <2>1, SpiMasterAssumption, BusInvInit
<1> QED
  BY ONLY <1>1, <1>2, UdpInvInit, I2cInvInit, NvsInvInit, SpiTypeInit, SpiqInvInit, SlotTypeInit, UartTypeInit,
     NodeInvInit, NodeTypesInit, NetInvInit, NetBoundsInit DEF TypesInv

\* A step of one part keeps the types of it, and of the others by leaving them alone.
LEMMA TypesInvStep ==
    ASSUME TypesInv, [Next]_vars
    PROVE  TypesInv'
<1>1. /\ UdpInv /\ I2cInv /\ NvsInv /\ SpiTypeOK /\ SpiqInv /\ SlotTypeOK /\ BusInv /\ UartTypeOK
      /\ NodeInv /\ NodeTypes /\ NetInv /\ NetBounds
  BY DEF TypesInv
<1>2. NodeInv'
  BY ONLY <1>1, [Next]_vars, PartSteps, NodeInvStep
<1>3. BusInv'
  BY ONLY <1>1, [Next]_vars, PartSteps, BusInvStep, SpiMasterAssumption
<1>4. UdpInv' /\ I2cInv' /\ NvsInv' /\ SpiTypeOK'
  BY <1>1, PartSteps, UdpInvStep, I2cInvStep, NvsInvStep, SpiTypeStep
<1>5. SpiqInv' /\ SlotTypeOK' /\ UartTypeOK'
  BY <1>1, PartSteps, SpiqInvStep, SlotTypeStep, UartTypeStep
<1>6. NodeTypes' /\ NetInv' /\ NetBounds'
  BY <1>1, <1>2, PartSteps, NodeTypesStep, NetInvStep, NetBoundsStep
<1> QED
  BY <1>2, <1>3, <1>4, <1>5, <1>6 DEF TypesInv

\* Every variable of every part keeps its type, for all values of the constants: lengths and
\* byte counts within the bound of a transfer, sessions within theirs, and a reference count
\* that only goes below zero when nobody refers to the node.
THEOREM PartsTyped == Spec => []TypeOK
<1>1. TypesInv => TypeOK
  <2> SUFFICES ASSUME TypesInv PROVE TypeOK
    OBVIOUS
  <2>1. UdpTypeOK /\ I2cTypeOK /\ NvsTypeOK
    BY DEF TypesInv, UdpInv, I2cInv, NvsInv
  <2>2. SpiTypeOK /\ UartTypeOK /\ NodeTypeOK
    BY DEF TypesInv, NodeTypes
  <2>3. SpiqTypeOK
    BY DEF TypesInv, SpiqInv, SlotTypeOK, SpiqTypeOK
  <2>4. BusTypeOK
    BY DEF TypesInv, BusInv, BusTypes
  <2>5. NetTypeOK
    BY NetTypes DEF TypesInv
  <2> QED
    BY ONLY <2>1, <2>2, <2>3, <2>4, <2>5 DEF TypeOK
<1> QED
  BY <1>1, TypesInvInit, TypesInvStep, PTL DEF Spec
=============================================================================
