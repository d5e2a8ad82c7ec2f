# Verification of Nesper

Nesper is a Nim library for programs on the ESP32. This directory holds TLA+
models of the parts of it that have behaviour of their own, the TLC runs that
check them on small instances, and proofs that TLAPS checks for every instance.
Paths below are relative to the repository; `nesper/` stands for
`src/src/nesper/` and `rpc/` for `nesper/servers/rpc/`.

    tlc -workers 2 -config RpcQueue.cfg MCRpcQueue     # one run
    tlapm RpcQueueProofs.tla                           # the proofs of one module

`PROJECT.json` lists the runs, the mutations each property was seen to catch,
the source lines every definition stands for, the hazards and the theorems.

## 1. The system

### Parts and how they interact

    uploader / CLI client            other TCP clients        UDP clients
        |  frames: 4-byte length + MessagePack     |               |
        v                                          v               v
    TCP select server  nesper/servers/tcpsocket.nim          udpsocket.nim
        |  read handler, one client at a time
        v
    RPC servers: inline            rpcsocket_mpack, rpcsocket_json
                 two tasks         rpcsocket_queue_mpack (and its serial twin),
                                   queue_arr_mpack, channel_mpack, queue_mpackstr
        |  call node -> route -> reply node
        v
    RPC router rpc/router.nim + code generated by rpc/marshal.nim
        |  a procedure
        v
    firmware procedures rpc/ota_rpc.nim -> nesper/ota_utils.nim -> flash

    networking template: main task <-> event group <-> event-loop task
    drivers: I2C, SPI, UART, NVS, GPIO, timers (each used directly by the application)
                 |
                 spis.nim -> the SPI master driver, src/tests/c_headers/spi_master.c

| Component | State it keeps | Operations | Hard behaviour | Correct when | Module |
|---|---|---|---|---|---|
| Queued RPC server `rpc/rpcsocket_queue_mpack.nim`, `rpcserial_queue_mpack.nim` | two one-slot queues of bare pointers, locals of two tasks | read handler, RPC task | two tasks, unchecked `xQueueSend`, hand-over of references, exceptions | answers go home in order, nothing lost or freed twice, the handler comes back | RpcQueue |
| Id node of one call `rpc/router.nim:104-119` | the reference count of one node | wrapReply, the ends of two scopes | two tasks count without atomicity | not freed early, not freed twice | IdNode |
| Other servers `rpc/rpcsocket_queue_arr_mpack.nim`, `_channel_mpack.nim`, `_queue_mpackstr.nim`, `rpcsocket_json.nim` | shared array, channel, raw addresses, or nothing | the same; the JSON server routes in its handler | unguarded shared memory | what a queue item refers to is intact when it is read | RpcCarriers |
| Inline server and framing `rpc/rpcsocket_mpack.nim`, `tcpsocket.nim:23-52`, clients' `execRpc` | bytes in the stream, the client's buffer | sendLength, sendChunks, execRpc | splits and joins, a send that fails half way | a call returns its own response, whole, or does not return | RpcFraming |
| TCP select server `nesper/servers/tcpsocket.nim` | clients table, selector, descriptors | select, accept, read, disconnect | descriptors are reused within batches, clients leave at any time | the tables agree, the dead are reaped, everybody who stays is read | TcpServer |
| RPC router `rpc/router.nim`, `rpc/marshal.nim` | table of procedures | register, clear, route, generated unpacking | malformed calls, optional parameters, Defects | calls are well typed, what can be answered is answered | RpcRouter |
| Firmware update `rpc/ota_rpc.nim`, `nesper/ota_utils.nim`, uploader | partitions, otadata, global `ota` | begin, chunk, finish, verify | lost replies, retries, resets between writes, failing flash | only whole, unrejected images run; a way back exists | OtaUpdate, FirmwareSwap |
| Networking template `nesper/build_utils/templates/esp32_templates/networking/`, `nesper/events.nim` | event group, address, handlers, driver | connect, onNetworking, disconnect, two handlers | the event task runs handlers at any time, starts fail half way | no use after delete, nothing left over, the link comes back | Networking |
| UDP server `nesper/servers/udpsocket.nim` | client table | select, echo | loss, reordering, a failing sendTo | those known are told everything | UdpServer |
| I2C ports `nesper/i2cs.nim` | installed drivers, port objects | constructors, destructor | a constructor that raises, destruction order | one owner per driver | I2cPorts |
| NVS `nesper/nvs_utils.nim` | flash, cache, handle | initNvs, newNvs, setInt, setStr, getInt, eraseNvs, deInitNvs | reset anywhere, errors, full partition | what was committed survives until it is erased | NvsStore |
| SPI transfers `nesper/spis.nim` | buffers and lengths of a transaction | fullTrans, readTrans, writeTrans, poll, getData, getSmallData | two storage places, bit lengths, what the driver refuses | sent is given, read is received | SpiTransfer |
| SPI queue `nesper/spis.nim` | references the driver has, a stack slot | queue, retrieve | an object the driver works on while its variables go | what is queued stays alive | SpiQueue |
| SPI master driver `src/tests/c_headers/spi_master.c` | host, devices, semaphores, interrupt | queue_trans, get_trans_result, transmit, polling_start/end, acquire/release_bus, spi_intr | lock-free arbitration of tasks and an interrupt handler | transactions are neither mixed up nor lost, every call returns | SpiMaster |
| UART `nesper/uarts.nim` | the driver's ring, a buffer | newUart, read | bytes that arrive inside a read, a full ring | each byte once, in order | UartPort |
| CLI options, GPIO, timers, thin wrappers, ESP-IDF bindings, build tooling, examples | see section 8 | | | | not modelled |

The hazards in `PROJECT.json`, each at its line, are what the properties are for.

## 2. Modules and their correspondence to the code

Each action is one atomic piece of a handler: the code between two points where
another task, a message, a fault or a reset can interfere. `srvPc`, `taskPc`,
`pc`, `main` and the like are the program counters of the tasks. The word
*history* in a variable's comment marks a variable no guard reads.

**RpcExchange** is the abstract promise of every RPC server: per client the set of
requests that may still be answered; a step issues the next, answers the oldest (the
least number), or abandons some. So an answer goes to the client that asked, once, and
in order.

**RpcQueue** is the queued server. The server task: `Select`, `Dispatch`,
`BatchDone` (the loop of `startSocketServer`), `RecvRequest`, `RecvGarbage`,
`RecvDisconnected`, `SendRequest`, `ForgetRequest` (`wasMoved`),
`ReceiveResponse`, `Reply`, `ReplyFails` (`rpcMsgPackQueueReadHandler`). The RPC
task: `TaskReceive`, `TaskRoute`, `TaskRouteRaises`, `TaskSend`, `TaskForget`
(`execRpcSocketTask`). A request is known by its client and number; the tag is
not in the message, it is there to say where an answer belongs. `recv` takes one
or several pipelined requests and only the first is decoded, as in the code.
`calls` and `replies` are the allocated nodes, to state who owns them. A message
of the stream is not split here; RpcFraming does that.

**RpcCarriers** is the three servers that differ in what crosses the queues:
indices into a shared array, copied strings, or addresses; and as a fourth the
JSON server, whose handler routes the call itself (`RecvJson`, `RouteInline`).
`carrier` is chosen in Init, `Item` and `Data` say what is queued and what is
read back. It omits the departure of clients, which RpcQueue and TcpServer have.

**IdNode** is one call of the queued server, down to the count of the node that
request and reply share: a release is a test, a read and a store, and the two
tasks interleave them. The compiler may use the value of the test or read again,
so `ReadAgain` has both.

**TcpServer** is the select loop with the echo handler. `fdPeer` is lwIP's
socket table, `clients` and `watched` are the code's two tables. `batch` keeps
for every reported descriptor the connection it stood for, so that staleness can
be stated. `Drop` is the three-step removal of a client.

**RpcFraming** is the byte level: `EncodeLength`, `SendLength`, `SendChunk` with
`MsgChunk` and an end that clips, `Arrive` with any cut of the stream,
`RecvHeader`, `RecvBody`, `Return` of `execRpc`. A body byte is known by its
response and position. `HandlerRaises` ends the server before or within a body.

**RpcRouter** is `register`, `clear` and `route`, with the code `marshal.nim`
generates for a signature (`LengthAccepted`, `Unpacks`, `Unpacked`: position, `minLength`,
nullable parameters). Values are JSON kinds. It is one step per request, since
route runs in one task and calls one procedure.

**OtaUpdate** is the four procedures and an uploader, which over-approximates
`src/tests/rpc_ota_uploader.nim`: that one stops at the first call that fails; this
one may also repeat a call whose reply it missed, go on after a refusal, and be
started again, the clients the server's id check is for. `firmware-finish` is three
steps (`FinishWrite`, `FinishEnd`, `FinishBoot`), because a reset can fall between
its writes; the others write once. `Reset` is the bootloader with rollback, as
`verify` expects it. **FirmwareSwap** is what the update promises: an image is
tried with the old one to fall back on, and is confirmed or rolled back.

**Networking** interleaves the main task (connect, wait, serve, disconnect,
with a step for every call that can fail or that another task can see) and the
event task. An event of the queue is looked up when it is handled; a handler
that is running holds the loop's lock, so unregistering waits for it. `stale`
remembers that a handler ran for an event of an earlier session. Both calls of
`eventRegister` may raise (`nesper/events.nim:45-46`), like the checks after them.

**SpiTransfer** is one transaction from the bytes given to the bytes returned,
with the checks of the driver (`Refuses`, `spi_master.c:794-814`) between. **SpiQueue**
is the life of transactions that `queue` hands to the driver: the counted
references, the slot on the stack that `trn.user` points to, and `retrieve`,
which another task may call. **UartPort** is `read` in its two calls of the driver,
with `ByteArrives` between any two steps.

**SpiMaster** is the driver below `spis.nim`: one task per device, and `spi_intr`.
A step is what no other task, and no handler on the other core, can cut in two:
a load or store of a shared field, a queue or semaphore operation, the
compare-and-exchange of `acquire_cs`. `Queue`, `InvokeLoad` and `InvokeEnable` are
`spi_device_queue_trans` with `spi_isr_invoke`; `PollingStart`, `AcquireBus`,
`AcquireInternal` up to `LockBus` or `StartPolling` the way to the bus;
`PollingEnd` up to `GiveSemaphore` and `LookForQueued` the way back;
`Interrupt` to `Reenable` the handler. `uses` says what each task calls; tasks that
queue and tasks that poll are not put on one bus, except for the run that
violates an assertion, because the header of the file (lines 83-96) leaves the
mixture to the caller. Three histories mark what the driver does not guard:
`trodden` (`cur_trans_buf` was written while another call relied on it), `lost` (a
return queue was full), and `over`, which is either an assertion that has failed
or `"stale"`. A stale step acts on a value it loaded earlier and that no longer
holds; what can follow is listed in section 5, and the model ends there,
since each of the properties is false afterwards.

**UdpServer, I2cPorts, NvsStore, SpiTransfer, SpiQueue, SpiMaster, UartPort, IdNode,
Networking** share no state with each other. **MCStandalone** composes the nine as a
disjoint union: `part` says which of them runs, and `Only` keeps the others still,
so that one run checks them all without multiplying their states.

The other MC modules extend the component's module and declare nothing, or (in
MCRpcRouter and MCSpiMaster) define a set a configuration needs. Definitions commented *Mutation of
...* are variants with a plausible mistake; no specification uses them. They
record what each property is able to catch.

## 3. Runs

| Run | Checks | Bounds | Distinct states |
|---|---|---|---|
| rpc_queue | QueuesHaveRoom, AnswersGoHome, NodesOwnedOnce, IInv, OldestIsAnswered, ImplementsExchange | 2 clients, 3 requests each, 2 in flight, all faults | 54 664 |
| rpc_carriers | TypeOK, SharedDataIntact, ImplementsExchange | 4 servers, 2 clients, 3 requests each, all faults | 24 270 |
| tcp_server | TypeOK, TablesAgree, BatchIsCurrent, BroadcastInOrder, PeersAreServed | 3 peers, 2 descriptors, 1 line each, all faults | 284 613 |
| rpc_framing | TypeOK, ResponsesIntact, FramesStayAligned, EveryCallReturns | bytes of base 2, up to 7 bytes, pieces of 3, recvs of 4, 2 calls | 23 063 |
| rpc_router_safety | TypeOK, AlwaysAnswered, CallsMatchSignature | all signatures of up to 3 parameters of 2 kinds, all requests of up to 4 values | 240 372 |
| rpc_router_maximum | MaximumIsKept (violated) | 1 kind, up to 3 values | |
| ota_update_safety | TypeOK, UploadIsPrefix, RunningImageIntact, TrialHasFallback, ImplementsSwap | 2 images, 3 chunks, 2 to a write, all faults | 19 184 |
| ota_update_finish | FinishAnswersAfterAllChunks (violated) | 2 chunks, 2 to a write, no faults | |
| ota_update_status | InvalidVersionIsReported (violated) | 3 chunks, 2 to a write, no faults | |
| networking_delete | GroupAliveWhenSet (violated) | 1 session, 1 drop | |
| spi_transmit | TransmitGetsItsOwn (violated) | 2 devices, 1 transaction each | |
| standalone | TypeOK, KnownAreTold, ArrivedAreEchoed, DriversHaveOwners, CommittedSurvives, TransferIsExact, QueuedStayAlive, ReadIsExact, IdNodeKept, TransactionsIntact, CallsComeToAnEnd, NothingLeaks, AddressBeforeServer, LinkComesBack | nine parts, see below | 242 090 |

Why the bounds are enough:

* *rpc_queue, rpc_carriers.* A wrong delivery needs two clients. An answer one
  place late needs a second request, and a third to be late for; two in flight
  make `recv` take and throw away a second request. The queues have one slot, so
  a surplus message shows at once. The safety part is proved for every bound.
* *tcp_server.* Three peers on two descriptors: all taken with one more waiting,
  and a descriptor reused while another of the same batch is pending.
* *rpc_framing.* In base 2 the length 7 uses three digits, so an order or shift
  that is wrong in the second byte of 256 is wrong here; 7 bytes are three
  pieces of 3 and two recvs of 4, and no size divides another. The round trip of
  lengths is proved for every base.
* *rpc_router_safety.* Three parameters are enough for an optional one before,
  between and after required ones, four values for too many; two kinds for a
  mismatch.
* *ota_update_safety.* Three chunks with two to a write leave both a flushed and
  a partial buffer; two images allow an update, its rollback and the next one,
  and a restarted uploader with another image.
* *standalone.*
  * UDP: two senders with two datagrams each can be reordered and one can join
    after a broadcast.
  * I2C: three variables for two ports make a port contended and an object
    replaced; port 0 is the one that failing constructors hit.
  * NVS: two integers and a string, two values, two fills: a commit of one key
    carries the others.
  * SPI transfers: every length from 0 to 40 bits, so both sides of the 32-bit
    boundary and every broken byte; half and full duplex, with and without DMA.
  * SPI queue: two transactions, so that one can be found in the other's slot.
  * SPI driver: two devices in four styles: both poll and lock; both queue, with
    two transactions each on queues of two; one transmits and locks, the other
    locks; one queues and locks, the other queues. Three devices that poll (1.2
    million states) and two transactions each with locks (0.9 million) were explored
    once and gave the same answer.
  * UART: four bytes on a ring of three, so that one can be dropped.
  * Id node: no bound, it is one call; two releases of one task and one of the
    other.
  * Networking: a failed session, its repair and a good one; three drops exceed
    the one that a handler could excuse.

`CHECK_DEADLOCK FALSE` stands only in configurations where clients stop at a
bound or a server is ended by an exception, which the configuration says.

## 4. Properties in a few words

* `AnswersGoHome`: the response has no address, still each client gets answers
  to its own requests only, each once and in order.
* `QueuesHaveRoom`: the discarded results of `xQueueSend` never hide a loss.
* `NodesOwnedOnce`: every node that crossed a queue has exactly one place that
  will destroy it.
* `SharedDataIntact`: the shared cells and strings of the other servers are not
  overwritten or freed while the other task still reads them.
* `OldestIsAnswered`: the oldest waiting request of a client that stays is
  answered, unless the server died or a procedure raised. A handler that waited
  for ever would leave the other clients without an answer, so it does not.
* `IdNodeKept`: the node of an id, counted by two tasks without atomicity, is
  never freed early or twice; it can only leak, and only if two releases overlap.
* `TablesAgree`, `BatchIsCurrent`: no descriptor leaks, none is watched after its
  close, none changes its meaning inside a batch.
* `PeersAreServed`: every connection that ends is reaped, and what a client that
  stays sends is received.
* `BroadcastInOrder`, `KnownAreTold`: both echo servers are total-order broadcasts
  to those who are in the table. `ArrivedAreEchoed`: no datagram waits for ever.
* `ResponsesIntact`, `FramesStayAligned`: the greedy `recv` of the body never
  takes a byte of the next frame, and no part is passed off as the whole.
* `CallsMatchSignature`: a procedure is called exactly when the values fit its
  signature, and with the values at their places. `AlwaysAnswered`: what has a
  method and an id is answered, whatever else is wrong with it.
* `RunningImageIntact`, `TrialHasFallback`, `ImplementsSwap`: no order of resets,
  retries and flash errors runs a broken or rejected image or loses the way back.
* `NothingLeaks`: a start that failed anywhere can be undone, and leaves neither a
  group nor a handler nor a driver. `AddressBeforeServer`: the server starts with an
  address, and with this session's unless an old event was handled late.
  `LinkComesBack`: a lost link is joined again.
* `DriversHaveOwners`: drivers against the objects that will delete them.
* `CommittedSurvives`: what the last successful commit has written, until an erase.
* `TransferIsExact`: bytes given, sent, received and returned agree with what was
  asked for, and what the driver refuses is refused.
* `QueuedStayAlive`: a transaction the driver has is not freed, whatever variables
  go, and is freed when nobody has it.
* `TransactionsIntact`: one transaction on the wire, under its device's chip select
  and inside the lock that is held, every queued one returned once and in order,
  no assertion of the driver false; as long as no call stepped on another's
  `cur_trans_buf` and no return queue overflowed, the two things the driver does not
  look at.
* `CallsComeToAnEnd`: no wake-up is lost between semaphores, interrupt enable and the
  two loops of a release; with the exceptions `over` names.
* `ReadIsExact`: reads return what the ring accepted, each byte once, until bytes are
  copied behind the buffer, and that happens only in the case section 5 describes.

## 5. What the runs found

Five runs are meant to be violated; each states what the repository itself says.

* **ota_update_finish.** `firmware-finish` writes the rest of the buffer with
  `addr write_data[0]` (`nesper/ota_utils.nim:149`). If the last chunk filled the
  buffer to 4096 bytes it is empty: an IndexDefect, and no answer.
* **ota_update_status.** The last invalid version is compared with the running
  version instead of the new one (`nesper/ota_utils.nim:136`), contrary to the
  message on the next line. In the run v2 is uploaded to a device that runs v1, put
  on trial and rolled back; offered again, it is answered VersionNewer.
* **rpc_router_maximum.** A procedure with an optional parameter accepts more
  values than it has parameters (`rpc/marshal.nim:163`), contrary to "maximum"
  in its own message (`:159`).
* **networking_delete.** `networkingDisconnect` deletes the event group before the
  handlers that use it are unregistered (`setup_wifi.nim:86`).
* **spi_transmit.** `spi_device_polling_start` fills the host's `cur_trans_buf` before
  it has acquired the bus (`src/tests/c_headers/spi_master.c:1029`). If another
  device's queued transaction is on the wire, the interrupt handler returns that
  buffer as its result, and `assert(ret_trans == trans_desc)` (`:959`) fails.

Seen while modelling, stated in notes and not as properties:

* `getData` of a read of exactly four bytes returns an empty sequence
  (`nesper/spis.nim:266` tests `< 32`, `fullTrans` `<= 32`); the example of
  `src/README.md:219-228` allows that length. `TransferIsExact` excludes it.
* `getStr` reads the key `"DataCollected"` whatever key it is given and returns a
  string of length 0 (`nesper/nvs_utils.nim:102-108`).
* `stop` of an I2C command list calls `i2c_master_start` (`nesper/i2cs.nim:157`).
* When an I2C constructor raises, the destructor deletes the driver of port 0,
  whoever owns it. The second part of `DriversHaveOwners` holds until then.
* A call without an id or a method, or a Defect in a procedure, is never answered
  by the two-task servers, and the handler then waits for ever
  (`rpc/rpcsocket_queue_mpack.nim:47,73`). `OldestIsAnswered` excuses it.
* `parseJson` of the JSON server wants the end of the text after one value, so two
  requests in one segment raise and end the server (`rpc/rpcsocket_json.nim:31`).
* A release of the id node can lose the other task's count: the node leaks.
* `write` of `nesper/uarts.nim` hands the number of bytes written to `check`, which
  takes it for an error code: every write raises (`:120`). `read` makes a buffer of
  what was there and asks for what it was told (`:105`): bytes that arrive between
  go behind the buffer, and the slice raises.
* `trn.user` is the address of the local `result` of fullTrans (`nesper/spis.nim:192`),
  a slot that the next call uses again: `retrieve` gives a wrong transaction or
  follows junk. When it runs out of ticks it reads `user` of nil. `queue` counts its
  reference after the driver has the transaction (`:325`).
* A write of 0 bits with data is refused by the driver: `tx_data` and `tx_buffer`
  share their place.
* `setStr` does not commit (`nesper/nvs_utils.nim:94`): its value survives a reset only
  if a later `setInt` commits. `CommittedSurvives` is about what was committed.
* An event of an earlier session can be handled in the next (`setup_wifi.nim:36`), and
  `networkIpAddr` then is that of a link that is gone.
* In `spi_master.c`, all of them between a value's load and its use:
  - the handler reads `acquire_cs` as nobody's (`:749`), a device acquires the bus and
    sees `isr_free` false, twice, and blocks (`:578`); the handler finds nothing to send
    and ends without telling anyone (`:776`), though lines 64-70 say it would;
  - a release gives the bus to a device that has meanwhile taken it and given it
    back (`:598-610`): the bus is then nobody's and marked as owned, or the semaphore
    is given twice and the next `acquire` takes it for an answer;
  - `spi_isr_invoke` enables the interrupt for a bus that has changed hands (`:528-530`);
    the handler tells an owner that has gone (`:761`);
  - a full return queue drops a result unseen (`:729`);
  - `spi_bus_add_device` that fails after it has reserved its slot leaves the value 1
    in it as a pointer (`:377-414`).
* The client branch for MessagePack in `rpc/rpc_cli_utils.nim` sends JSON text.

## 6. Fairness

Weak fairness only, and only of what the scheduler or the peer provides:

* RpcQueue: `WF(Server)` and `WF(Task)`. Both tasks have the same priority and no
  core affinity, and FreeRTOS slices time between ready tasks. Clients have no
  fairness: they may stop at any point.
* TcpServer: `WF(Server)`. The task blocks only in `select`, and `vTaskDelay(1)`
  gives way for a tick. In UdpServer the same for its task; the network has none.
* RpcFraming: `WF(Server)`, `WF(Arrive)`, `WF(Client)`. TCP delivers what was sent,
  and the client is inside a call it waits for.
* Networking (`NetFairness`): `WF(OnNetworking)`, `WF(EventTask)`, `WF(AccessPoint)`. The main task
  waits without a timeout, the event task outranks it, and the access point
  answers after at most MaxDrops failures.
* SpiMaster (`BusFairness`): `WF(Isr)`, `WF(TransDone)` and `WF(Proceed(d))` of every
  device. The handler runs when its interrupt is enabled, the hardware ends what it
  began, and a task goes on with a call it is in: the tasks have a processor each, or
  equal priorities. `Call(d)` has none; `CallsComeToAnEnd` assumes that the application
  stops making calls, which is what lets a bus that is passed round come to rest.

The liveness properties name their excuses: a server ended by an exception, a
client that left, a procedure that raised, a prefix that was cut.

## 7. Proofs

`RpcQueueProofs` proves for any set of clients, any number of requests and any
pipelining, from `BoundsAssumption`, `FaultsAssumption` and `NoNodeAssumption`:

* `Invariance`: `Spec => []IInv`;
* `TypeCorrect`, `NoLostHandOver` (QueuesHaveRoom), `NoCrossDelivery` (AnswersGoHome).

AnswersGoHome is not inductive: that the response the handler takes belongs to
the client it serves depends on where the request was on the way. `IInv` adds

* `LockStep`: outside the window from hand-over to response, queues and RPC task
  are empty, and inside it exactly one place is occupied. This is what makes an
  unchecked send safe;
* `NodesInPlace`: a place holds a node when its program counter says so;
* `ServiceOrder`: the request in service is the served client's, younger than all
  its answers and older than all that waits;
* `StreamOrder`: the streams of each client are its own and increasing.

The proof that a step preserves IInv is split by part (`TypeStep`,
`NodesInPlaceStep`, `LockStepStep`, `OrderStep`), with a lemma for each action
that moves a request between streams (`RecvKeepsOrder`, `ClientSendKeepsOrder`,
`ReplyKeepsOrder`, `GarbageKeepsOrder`) and one, `HandOver`, for all that only pass
it on. TLC checks the same IInv in rpc_queue.

* `QueueIsExchange` (ImplementsExchange): every step is a step of RpcExchange or a
  stutter. By `ServiceOrder` what `Reply` writes is the oldest pending request of the
  served client (`ReplyIsAnswer`); everything that loses requests only makes the set
  smaller (`GivesUp`), and a request that goes from one place to the next stays
  pending (`PassingIsSeen`).

* `OneOwner` (NodesOwnedOnce), on top of `IInv`. `OwnersInv` says
  which nodes are allocated: those in the queues and those of the locals that were not
  moved. What makes it inductive is `CallIsOver`: the call whose node the RPC task is
  about to drop is not in a queue again, since it is older than everything that waits.

`RpcCarriersProofs` proves the same of the other four servers, from `BoundsAssumption`
and `NoDataAssumption`: `DataIsIntact` (SharedDataIntact), `CarriersAreExchanges`
(ImplementsExchange) and `TypeCorrect`. `CarrierInv` has three parts:

* `StreamInv`: each client's stream is its own;
* `HandOver`: one request is in service and in one place, so that only the task whose
  turn it is touches what is behind an item. Nothing in the code guards the cells and
  the strings; this is all that does;
* `OrderInv`: requests are made, wait and are served in the order of their numbers.

`RpcFramingProofs` proves, for every base, size of pieces and of receives and number of
calls (`SizesAssumption`, `LengthAssumption`):

* `LengthRoundTrip`: the client's shifts give back what the server's shifts cut, for every
  length whose top byte leaves the sign bit free. It rests on `DivMod`;
* `ResponsesAreWhole` (ResponsesIntact), `FramesAlign` (FramesStayAligned), `TypeCorrect`.

That the segments in the stream add up to the frame would need an induction over
sequences. `CallInv` states it with offsets instead: `Cuts(off, wire, ...)` says where in
the frame each segment begins, so that a piece sent (`CutsAppend`), a segment that arrives
whole (`CutsTail`) or in part (`CutsPart`) moves one offset. `CountInv` counts responses,
`IdleInv` says that nothing is under way between calls, `ResultsInv` that each call
has the response of its number.

`TcpServerProofs` proves `TablesNeverDisagree` (TablesAgree), `BatchesStayCurrent`
(BatchIsCurrent), `EchoIsBroadcast` (BroadcastInOrder) and `TypeCorrect`, for any peers
and descriptors (`FdsAssumption`, `NoPeerAssumption`, `MaxLinesAssumption`).
`BacklogInv` keeps who waits for accept apart from who has a descriptor, without which a
new descriptor could repeat a connection; `TablesInv` and `BatchInv` need each other,
because a batch stays current only if descriptors close by way of the tables;
`LogInv` adds that those who are not accepted have received nothing.

`RpcRouterProofs` proves `CallsAreRight` (CallsMatchSignature), `RequestsAreAnswered`
(AlwaysAnswered) and `TypeCorrect` for signatures and parameter arrays of any length
(`SigsAssumption`, `KindsAssumption`, `MaxItemsAssumption`). `NoIndexDefect` is the heart:
the length check accepts an array only if all parameters beyond its end are optional.
`UnpackedMatches` compares the generated unpacking with the signature.

`OtaUpdateProofs` proves `DeviceBoots` (RunningImageIntact), `WayBackExists`
(TrialHasFallback), `UploadIsExact` (UploadIsPrefix), `TypeCorrect` and `UpdateIsSwap`
(ImplementsSwap) for any images and number of chunks (`ImagesAssumption`,
`ChunksAssumption`). `BootInv` adds what a reset could reveal: the
partition to boot differs from the one that runs only between the end of an update and
the reset that tries it, or when what is there cannot be booted; and while an image is on
trial no update is under way, so nothing writes to the fallback. `UploadInv` ties the partition and the buffer to the
uploader's image, unless the uploader was started again. `SwapStep` shows that only
`Reset` and `firmware-verify` are seen by the abstract swap.

`SpiMasterProofs` proves, for any number of devices and transactions and queues of any
size, that `BusInv` is inductive (`BusInvInit`, `BusInvStep`), from `SpiMasterAssumption`
and from tasks that either poll on a bus (`PollOnly`) or queue on it (`QueueOnly`).
TransactionsIntact is part of `BusInv`, and needs

* `Places`: what a task has at each place of its way to the bus and back; `waiting` is set
  exactly from before its first attempt until it has the bus;
* `OwnerInv`: who has been told that it has the bus is the one `acquire_cs` names, and
  `acquire_cs` names nobody who neither has nor contends for it. That the
  compare-and-exchange and the gift of a release do not meet is here;
* on a bus that is polled `PollInv`: the interrupt is never enabled, the chip select is
  that of the task whose transaction is polled, and `cur_trans_buf` is its transaction
  until another call has written over it;
* on a bus that is queued on `QueueInv`: what a device has handed over is in its return
  queue, in hand, or in its queue, in this order (`Accounted`), and the hands are those of
  the handler and the hardware (`HandlerInv`). A task that has found, or has been told,
  that the handler has ended (`ReliesOnIsr`) is safe from it: the handler works for nobody
  else and will take up nothing of another device (`SafeFor`).

The last point is the heart. The handler finds in two steps whose bus it is and which queue
has something, and a task that needs the handler to end looks for that in several. `WalkRelies`
shows that a task comes to rely on the handler only when it is safe from it, and that no
task makes another one rely on it; `HandlerStep` and the lemmas that use it, that no step of
the handler takes that safety away. After a stale step (`over`, section 2) there is nothing to
show, since the model ends. What the theorem says is therefore: on a bus that is only polled
or only queued on, nothing but a stale step, a buffer that was written over or a full return
queue can disturb a transaction.

`StandaloneProofs` proves all safety properties of MCStandalone, for all values of
the constants. Lemma `PartSteps` says that a step of the whole is a step of a part or
leaves it alone; each part then has an inductive invariant of its own, proved from the
part's next-state relation with one case per action, so that the bounds of `Standalone.cfg`
are no longer part of the argument:

* `I2cDriversHaveOwners` (`PortsAssumption`): the property with its types is inductive.
* `NvsCommittedSurvives` (`NoValueAssumption`, `NvsBoundsAssumption`). `NvsInv` adds that what
  was promised is also what the driver answers with, since an early write may put
  that into the flash.
* `NodeIsKept`, one call, two tasks. `NodeInv` adds that the count, and the value a release
  has read and not yet stored, is never less than the references that are left, less
  one; references only go, so a late store cannot make the count too low.
* `UartReadIsExact` (`UartAssumption`). `UartInv` says where the accepted bytes are: what
  was returned, the buffer of a read under way and the ring, in this order.
* `SpiqQueuedStayAlive` (`SpiqAssumption`). `SpiqInv` adds that a transaction is with the
  driver once (`TailLeaves`, `AppendAdds` say what the queue operations do to that),
  and that the runtime counts the variables, plus one for the driver, except
  for the transaction `queue` is about to pin.
* `NetNothingLeaks`, `NetAddressBeforeServer`, for any number of sessions and drops, also with
  starts that fail. `NetInv` has four parts, each with a step lemma: `GroupInv` (which group
  is allocated), `UndoneInv` (what is there at each place of the way through disconnect and
  into the next connect), `EventsInv` (an event of this session is in the queue only
  if this session's driver posted it), `AddressInv` (an address is stored before its bit
  is set, and the handler that does both cannot be unregistered in between).
* `UdpKnownAreTold` (`MaxDatagramsAssumption`), for datagrams lost or out of order and sends
  that fail. `UdpInv` adds that an address became known at a point of the broadcasts, and
  that the task reads only when something is there.
* `BusTransactionsIntact` (`SpiMasterAssumption`, `StylesAssumption`): `BusInv` of
  SpiMasterProofs holds of the whole.
* `PartsTyped` (TypeOK). What the invariants above leave open: a buffer of an SPI transfer
  holds no byte beyond the bound (`BufferTypes`, `BytesBound`), an event in the queue is of
  a session within the bound (`EventTypes`), the bytes of a read stay bytes, and the count
  of an id node goes below zero only when no reference is left (`NodeTypes`), so that no
  release ever reads such a count.
* `SpiTransferIsExact` (`MaxBytesAssumption`), for buffers and lengths of any size. `SpiInv`
  adds that the transaction is as `fullTrans` made it until the driver has been
  through with it.

Only model-checked, on the instances of section 3, are the liveness properties, under
the fairness of section 6: OldestIsAnswered, PeersAreServed, EveryCallReturns,
ArrivedAreEchoed, CallsComeToAnEnd, LinkComesBack. They are outside what the prover can
do, as is ENABLED.

## 8. Assumptions and what is not modelled

Assumptions about the environment, as the code relies on them:

* ESP-IDF is built with rollback enabled; `esp_ota_end` and the bootloader refuse
  an image that is not whole; `esp_ota_begin` refuses while an image is on trial.
* `recv` of a socket returns what has arrived, up to its size
  (`rpc/rpcsocket_mpack.nim:19-22`), and only its first object is decoded.
* One RPC procedure runs at a time.
* `esp_wifi_stop` and `esp_wifi_deinit` succeed on an initialised driver, and to
  unregister a handler is no error, even one that was never registered. An
  application may connect again and may retry after a failure.
* In RpcRouter an empty signature is a procedure declared with `do` and no
  parameters. Conversions inside a kind (a number out of the range of a byte, the
  elements of a sequence) are abstracted.
* NVS may write a value before its commit, and `nvs_commit` writes all that was
  set before; `nvs_flash_erase` also empties what the driver answers with and closes its
  handles, and when it fails any of the keys may be gone.
* The device of an SPI transfer fills what the driver gives it; `max_transfer_sz` of the
  bus is not reached. On an SPI bus a device is used by one task, as
  `src/tests/c_headers/spi_master.c:48-50` asks, and no bus is used both by polling and
  by queueing (`:83-96`, `StylesAssumption` of MCStandalone).

Not modelled, and why:

* *GPIO, timers, thin wrappers, ESP-IDF bindings, build tooling, examples, tests,
  the CLI client's options and timing*: no state of their own, or generated, or
  run on the developer's machine.
* *Generated and vendored C.* Nearly all `.c` lines of the repository (45 500 of
  48 800) are the C that the Nim compiler wrote for one untested example
  (`src/esp-idf-examples/untested/simpleeth/main/nimcache/`), most of them Nim's own
  standard library, and the rest are copies of ESP-IDF examples. They are not the
  library: its logic is in `.nim` files, which the map covers, and a model of the
  generated text would be one of the compiler's output. The one C file that has
  behaviour the library relies on, `src/tests/c_headers/spi_master.c`, is modelled.
* *UART `write`* has one step, and raises whatever happens (section 5).
* *I2C command lists* (`nesper/i2cs.nim:120-215`): they are built by one caller and run by
  the driver in one call, `stop` is a start (section 5), and a list keeps pointers into
  the caller's buffers that the code has no way to protect.
* *`getStr`* changes nothing and always reads the same key (section 5).
* *SPI driver*: adding and removing devices, freeing the bus, and a time-out of
  `polling_end`; mixing polled and queued
  transactions on one bus, which the driver forbids, except in spi_transmit.
* Of the other modelled parts: `processWrites` of both select servers (no handle is
  registered for writes), the SHA-256 log of `firmware_verify`, and the memory of a
  task whose frame is gone (`rpc/rpcsocket_queue_mpack.nim:94`): what is then in its
  place is up to the allocator, and no later state is one the code describes.

## 9. Plan

Order of work: first what every RPC call passes through (RpcQueue, TcpServer,
RpcFraming, RpcRouter, RpcCarriers), then what can brick a device (OtaUpdate),
then the template every application starts from (Networking), then the drivers
(UdpServer to UartPort), and the C driver they rest on (SpiMaster). That is done.

The proofs follow the same order. Every safety property, type invariant and refinement
that a run checks is proved, for all values of the constants; liveness stays with TLC.
