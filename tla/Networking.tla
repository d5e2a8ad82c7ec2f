----------------------------- MODULE Networking -----------------------------
(***************************************************************************)
(* The networking of an application built from the esp32 template:          *)
(* networkingConnect, onNetworking and networkingDisconnect called by the   *)
(* main task, and the two handlers that the task of the event loop runs.    *)
(* They share an event group, an address and the WiFi driver.               *)
(*                                                                          *)
(* The application may connect again after networkingDisconnect, and may    *)
(* call either of them after networkingConnect raised.                      *)
(***************************************************************************)
EXTENDS Naturals, Sequences

CONSTANTS
    MaxSessions,    \* bound: event groups the application makes
    MaxDrops,       \* bound: links that fail or are lost
    StartMayFail    \* can a call of wifiStart return an error?

ASSUME BoundsAssumption == MaxSessions \in Nat /\ MaxDrops \in Nat
ASSUME FaultsAssumption == StartMayFail \in BOOLEAN

NoGroup == 0

VARIABLES
    main,       \* where the main task is
    sessions,   \* event groups made so far; the n-th is called n
    group,      \* networkConnectEventGroup, or NoGroup
    live,       \* event groups that are allocated
    gotIp,      \* event groups in which GOT_IPV4_BIT is set
    ipAddr,     \* networkIpAddr: the session whose address it is, or NoGroup
    handlers,   \* handlers registered with the default event loop
    driver,     \* the WiFi driver: "off", "init" or "started"
    link,       \* the station: "down", "joining", "joined" or "address"
    drops,      \* links that failed or were lost so far
    events,     \* the queue of the event loop
    evt,        \* the event task: "idle", or inside ipReceivedHandler, "setBits"
    fault,      \* what ended the program: "none", "group" or "callback"
    stale       \* history: has a handler run for an event of an earlier session?

netVars == <<driver, link, drops, events>>
groupVars == <<sessions, group, live, gotIp>>
networkingVars == <<main, groupVars, ipAddr, handlers, netVars, evt, fault, stale>>

NetInit ==
    /\ main = "idle"
    /\ sessions = 0
    /\ group = NoGroup
    /\ live = {}
    /\ gotIp = {}
    /\ ipAddr = NoGroup
    /\ handlers = {}
    /\ driver = "off"
    /\ link = "down"
    /\ drops = 0
    /\ events = <<>>
    /\ evt = "idle"
    /\ fault = "none"
    /\ stale = FALSE

MainGoto(from, to) == fault = "none" /\ main = from /\ main' = to

-----------------------------------------------------------------------------
(* The main task: networkingConnect and wifiStart. *)

CreateGroup ==
    /\ MainGoto("idle", "init")
    /\ group = NoGroup
    /\ sessions < MaxSessions
    /\ sessions' = sessions + 1
    /\ group' = sessions + 1
    /\ live' = live \union {sessions + 1}
    /\ UNCHANGED <<gotIp, ipAddr, handlers, netVars, evt, fault, stale>>

\* ESP_ERR_INVALID_STATE: a networkingConnect that raised has left its group.
ConnectRefused ==
    /\ MainGoto("idle", "failed")
    /\ group # NoGroup
    /\ UNCHANGED <<groupVars, ipAddr, handlers, netVars, evt, fault, stale>>

\* The result of esp_wifi_init is discarded.
WifiInit ==
    /\ MainGoto("init", "regDisconnect")
    /\ driver' = "init" \/ (StartMayFail /\ driver' = driver)
    /\ UNCHANGED <<groupVars, ipAddr, handlers, link, drops, events, evt, fault, stale>>

\* Registering takes the lock of the event loop: no handler is running.
RegisterHandler(from, to, handler) ==
    /\ MainGoto(from, to)
    /\ evt = "idle"
    /\ handlers' = handlers \union {handler}
    /\ UNCHANGED <<groupVars, ipAddr, netVars, evt, fault, stale>>

\* Storage, mode and configuration.
WifiConfig ==
    /\ MainGoto("config", "start")
    /\ driver # "off"
    /\ UNCHANGED <<groupVars, ipAddr, handlers, netVars, evt, fault, stale>>

WifiStart ==
    /\ MainGoto("start", "join")
    /\ driver' = "started"
    /\ UNCHANGED <<groupVars, ipAddr, handlers, link, drops, events, evt, fault, stale>>

\* esp_wifi_connect.
Joining == IF link = "down" THEN "joining" ELSE link

WifiConnect ==
    /\ MainGoto("join", "wait")
    /\ link' = Joining
    /\ UNCHANGED <<groupVars, ipAddr, handlers, driver, drops, events, evt, fault, stale>>

\* One of the checks raises, or eventRegister, for which the event loop has no memory;
\* networkingConnect undoes nothing.
WifiStartFails ==
    /\ StartMayFail
    /\ \/ evt = "idle" /\ \E from \in {"regDisconnect", "regIp"} : MainGoto(from, "failed")
       \/ \E from \in {"config", "start", "join"} : MainGoto(from, "failed")
    /\ UNCHANGED <<groupVars, ipAddr, handlers, netVars, evt, fault, stale>>

Retry ==
    /\ MainGoto("failed", "idle")
    /\ UNCHANGED <<groupVars, ipAddr, handlers, netVars, evt, fault, stale>>

-----------------------------------------------------------------------------
(* The main task: onNetworking and networkingDisconnect. *)

\* xEventGroupWaitBits clears the bit on its way out.
OnNetworking ==
    /\ MainGoto("wait", "serve")
    /\ group \in gotIp
    /\ gotIp' = gotIp \ {group}
    /\ UNCHANGED <<sessions, group, live, ipAddr, handlers, netVars, evt, fault, stale>>

\* run_server returns, or the application cleans up after a failure.
DeleteGroup ==
    /\ \E from \in {"serve", "failed"} : MainGoto(from, "forget")
    /\ group # NoGroup
    /\ live' = live \ {group}
    /\ gotIp' = gotIp \ {group}
    /\ UNCHANGED <<sessions, group, ipAddr, handlers, netVars, evt, fault, stale>>

ForgetGroup ==
    /\ MainGoto("forget", "unregDisconnect")
    /\ group' = NoGroup
    /\ UNCHANGED <<sessions, live, gotIp, ipAddr, handlers, netVars, evt, fault, stale>>

\* Mutation of UnregisterHandler: the lookup of the handler finds none.
UnregisterNothing(from, to, handler) ==
    /\ MainGoto(from, to)
    /\ evt = "idle"
    /\ UNCHANGED <<groupVars, ipAddr, handlers, netVars, evt, fault, stale>>

\* To unregister a handler that was never registered is no error.
UnregisterHandler(from, to, handler) ==
    /\ MainGoto(from, to)
    /\ evt = "idle"
    /\ handlers' = handlers \ {handler}
    /\ UNCHANGED <<groupVars, ipAddr, netVars, evt, fault, stale>>

\* The driver tells of the end of a link it had or was making.
WifiStop ==
    /\ MainGoto("stop", "deinit")
    /\ driver # "off"
    /\ driver' = "init"
    /\ link' = "down"
    /\ events' = IF link = "down" THEN events ELSE Append(events, [kind |-> "lost", session |-> sessions])
    /\ UNCHANGED <<groupVars, ipAddr, handlers, drops, evt, fault, stale>>

\* A driver that esp_wifi_init did not start: the check raises.
WifiStopFails ==
    /\ MainGoto("stop", "idle")
    /\ driver = "off"
    /\ UNCHANGED <<groupVars, ipAddr, handlers, netVars, evt, fault, stale>>

WifiDeinit ==
    /\ MainGoto("deinit", "idle")
    /\ driver' = "off"
    /\ UNCHANGED <<groupVars, ipAddr, handlers, link, drops, events, evt, fault, stale>>

-----------------------------------------------------------------------------
(* The task of the event loop: it looks a handler up when it takes an event. *)

Takes(kind) ==
    fault = "none" /\ evt = "idle" /\ events # <<>> /\ Head(events).kind = kind

\* The event was posted for the session that is on now.
NotesSession == stale' = (stale \/ Head(events).session # sessions)

\* Mutation of IpReceived: the bit is set before the address is stored.
IpReceivedBitFirst ==
    /\ Takes("ip") /\ "ip" \in handlers
    /\ NotesSession
    /\ gotIp' = gotIp \union ({group} \intersect live)
    /\ evt' = "setBits"
    /\ events' = Tail(events)
    /\ UNCHANGED <<main, sessions, group, live, ipAddr, handlers, driver, link, drops, fault>>

\* ipReceivedHandler stores the address ...
IpReceived ==
    /\ Takes("ip") /\ "ip" \in handlers
    /\ NotesSession
    /\ ipAddr' = Head(events).session
    /\ events' = Tail(events)
    /\ evt' = "setBits"
    /\ UNCHANGED <<main, groupVars, handlers, driver, link, drops, fault>>

\* Mutation of SetBits: FreeRTOS does not assert that the group is there.
SetBitsUnchecked ==
    /\ fault = "none"
    /\ evt = "setBits"
    /\ evt' = "idle"
    /\ gotIp' = gotIp \union {group}
    /\ UNCHANGED <<main, sessions, group, live, ipAddr, handlers, netVars, fault, stale>>

\* ... and then sets the bit in whatever the global variable refers to by now.
SetBits ==
    /\ fault = "none"
    /\ evt = "setBits"
    /\ evt' = "idle"
    /\ IF group \in live
       THEN gotIp' = gotIp \union {group} /\ UNCHANGED fault
       ELSE fault' = "group" /\ UNCHANGED gotIp
    /\ UNCHANGED <<main, sessions, group, live, ipAddr, handlers, netVars, stale>>

\* Mutation of OnWifiDisconnect: one attempt only, a link that never came up is left.
OnWifiDisconnectOnce ==
    /\ Takes("lost") /\ "disconnect" \in handlers
    /\ NotesSession
    /\ events' = Tail(events)
    /\ UNCHANGED <<main, groupVars, ipAddr, handlers, driver, link, drops, evt, fault>>

\* esp_wifi_connect needs a started driver; otherwise the check raises into the
\* event loop, which is C.
OnWifiDisconnect ==
    /\ Takes("lost") /\ "disconnect" \in handlers
    /\ NotesSession
    /\ events' = Tail(events)
    /\ IF driver = "started" THEN link' = Joining /\ UNCHANGED fault
       ELSE fault' = "callback" /\ UNCHANGED link
    /\ UNCHANGED <<main, groupVars, ipAddr, handlers, driver, drops, evt>>

NoHandler ==
    /\ \/ Takes("ip") /\ "ip" \notin handlers
       \/ Takes("lost") /\ "disconnect" \notin handlers
    /\ events' = Tail(events)
    /\ UNCHANGED <<main, groupVars, ipAddr, handlers, driver, link, drops, evt, fault, stale>>

-----------------------------------------------------------------------------
(* The driver and the access point. *)

netUnchanged == UNCHANGED <<main, groupVars, ipAddr, handlers, driver, evt, fault, stale>>

Join ==
    /\ fault = "none"
    /\ link = "joining"
    /\ link' = "joined"
    /\ UNCHANGED <<drops, events>>
    /\ netUnchanged

\* DHCP.
ObtainAddress ==
    /\ fault = "none"
    /\ link = "joined"
    /\ link' = "address"
    /\ events' = Append(events, [kind |-> "ip", session |-> sessions])
    /\ UNCHANGED drops
    /\ netUnchanged

LoseLink ==
    /\ fault = "none"
    /\ link # "down"
    /\ drops < MaxDrops
    /\ drops' = drops + 1
    /\ link' = "down"
    /\ events' = Append(events, [kind |-> "lost", session |-> sessions])
    /\ netUnchanged

-----------------------------------------------------------------------------

Connect ==
    \/ CreateGroup \/ ConnectRefused
    \/ WifiInit
    \/ RegisterHandler("regDisconnect", "regIp", "disconnect")
    \/ RegisterHandler("regIp", "config", "ip")
    \/ WifiConfig \/ WifiStart \/ WifiConnect \/ WifiStartFails \/ Retry

Disconnect ==
    \/ DeleteGroup \/ ForgetGroup
    \/ UnregisterHandler("unregDisconnect", "unregIp", "disconnect")
    \/ UnregisterHandler("unregIp", "stop", "ip")
    \/ WifiStop \/ WifiStopFails \/ WifiDeinit

EventTask == IpReceived \/ SetBits \/ OnWifiDisconnect \/ NoHandler

AccessPoint == Join \/ ObtainAddress

NetNext == Connect \/ OnNetworking \/ Disconnect \/ EventTask \/ AccessPoint \/ LoseLink

\* The main task waits without a timeout, the event task outranks it, and the access
\* point answers again after the last drop.
NetFairness ==
    WF_networkingVars(OnNetworking) /\ WF_networkingVars(EventTask) /\ WF_networkingVars(AccessPoint)

-----------------------------------------------------------------------------

NetTypeOK ==
    /\ main \in {"idle", "init", "regDisconnect", "regIp", "config", "start", "join", "wait", "serve",
                 "failed", "forget", "unregDisconnect", "unregIp", "stop", "deinit"}
    /\ sessions \in 0 .. MaxSessions
    /\ group \in 0 .. MaxSessions
    /\ live \subseteq 1 .. MaxSessions
    /\ gotIp \subseteq live
    /\ ipAddr \in 0 .. MaxSessions
    /\ handlers \subseteq {"disconnect", "ip"}
    /\ driver \in {"off", "init", "started"}
    /\ link \in {"down", "joining", "joined", "address"}
    /\ drops \in 0 .. MaxDrops
    /\ events \in Seq([kind : {"lost", "ip"}, session : 1 .. MaxSessions])
    /\ evt \in {"idle", "setBits"}
    /\ fault \in {"none", "group", "callback"}
    /\ stale \in BOOLEAN

\* Failures and retries never lose an event group: the only one allocated is the one
\* the global variable refers to.  And once networkingDisconnect is through, whatever
\* networkingConnect had managed to do is undone: no handler is left, the driver is off.
NothingLeaks ==
    /\ main # "forget" => live = {group} \ {NoGroup}
    /\ main = "idle" /\ group = NoGroup => handlers = {} /\ driver = "off" /\ link = "down"

\* The main task never comes out of onNetworking before networkIpAddr is stored.  And as
\* long as no handler has run for an event that an earlier session left in the queue, that
\* is the address of this session, and no check raises into the event loop.
AddressBeforeServer ==
    /\ main = "serve" \/ gotIp # {} => ipAddr # NoGroup
    /\ ~ stale =>
        /\ main = "serve" \/ gotIp # {} => ipAddr = sessions
        /\ fault # "callback"

\* However often joining fails, an application that waits for the network gets it, and a
\* link that is lost while the server runs comes back.
LinkComesBack ==
    /\ (main = "wait") ~> (main = "serve" \/ fault # "none")
    /\ (main = "serve" /\ link # "address") ~> (link = "address" \/ main # "serve" \/ fault # "none")

\* "tear down connection, release resources": no handler uses the event group after
\* networkingDisconnect has deleted it.
GroupAliveWhenSet == fault # "group"
=============================================================================
