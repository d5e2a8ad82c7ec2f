----------------------------- MODULE SpiMaster -----------------------------
(***************************************************************************)
(* The SPI master driver of spi_master.c, which spis.nim calls: devices on    *)
(* one bus, each used by one task that queues transactions for the interrupt  *)
(* handler, polls transactions itself, or locks the bus for a while.  A step  *)
(* is what no other task, and no interrupt on the other core, can cut in two. *)
(***************************************************************************)
EXTENDS Integers, Sequences, FiniteSets

CONSTANTS
    Devices,    \* chip selects in use
    Styles,     \* ways the devices are used: what each task calls, with how many transactions
    PerDevice,  \* bound: transactions of a device
    QueueSize   \* dev_config.queue_size

NO_CS == 3

ASSUME SpiMasterAssumption ==
    /\ Devices \subseteq 0 .. NO_CS - 1
    /\ Styles \subseteq [Devices -> [calls : SUBSET {"queue", "transmit", "poll", "lock"}, has : 0 .. PerDevice]]
    /\ PerDevice \in Nat \ {0} /\ QueueSize \in Nat \ {0}

VARIABLES
    uses,       \* one of Styles
    host,       \* spi_host_t
    dev,        \* dev[d]: spi_device_t
    intr,       \* is the interrupt enabled?
    wire,       \* transactions the hardware is clocking out
    task,       \* task[d]: where the task of d is, with the locals of its calls
    isr,        \* where spi_intr is
    airborne,   \* history: airborne[d], transactions queued and not retrieved, oldest first
    trodden,    \* history: was cur_trans_buf written while another call relied on it?
    lost,       \* history: was a return queue full?
    over        \* "no", the assertion that has failed, or "stale": a task or the handler has
                \* acted on what it found and what no longer is so; the model ends there

busVars == <<uses, host, dev, intr, wire, task, isr, airborne, trodden, lost, over>>

NoBuffer == <<>>
BusTransactions == Devices \X (1 .. PerDevice)

BusInit ==
    /\ uses \in Styles
    /\ host = [acquire_cs |-> NO_CS, cur_cs |-> NO_CS, cur_trans_buf |-> NoBuffer,
               polling |-> FALSE, isr_free |-> TRUE, bus_locked |-> FALSE]
    /\ dev = [d \in Devices |-> [trans_queue |-> <<>>, ret_queue |-> <<>>,
                                 semphr_polling |-> FALSE, waiting |-> FALSE]]
    /\ intr = FALSE
    /\ wire = {}
    /\ task = [d \in Devices |-> [pc |-> "app", transmits |-> FALSE, trans |-> NoBuffer,
                                  locked |-> FALSE, other |-> NO_CS]]
    /\ isr = [pc |-> "off", cs |-> NO_CS]
    /\ airborne = [d \in Devices |-> <<>>]
    /\ trodden = FALSE
    /\ lost = FALSE
    /\ over = "no"

-----------------------------------------------------------------------------
(* Steps of a task *)

At(d, l) == task[d].pc = l /\ over = "no"
Continue(d, l) == task' = [task EXCEPT ![d].pc = l]
Return(d) == task' = [task EXCEPT ![d].pc = IF task[d].transmits THEN "result" ELSE "app",
                                  ![d].other = NO_CS]
Abort(what) == over' = what
Stale(is) == over' = IF is THEN "stale" ELSE over

Give(d) == dev' = [dev EXCEPT ![d].semphr_polling = TRUE]
Take(d) == dev[d].semphr_polling /\ dev' = [dev EXCEPT ![d].semphr_polling = FALSE]
Clear(d) == dev' = [dev EXCEPT ![d].semphr_polling = FALSE]
CompareExchange(d) ==
    host' = IF host.acquire_cs = NO_CS THEN [host EXCEPT !.acquire_cs = d] ELSE host

Airborne(t) == \E i \in DOMAIN airborne[t[1]] : airborne[t[1]][i] = t
InHand(t) == t[2] <= uses[t[1]].has /\ ~ Airborne(t) /\ task[t[1]].trans # t

\* Is cur_trans_buf in use by a transaction on its way, or by a polling call?
BufferInUse ==
    \/ host.cur_cs # NO_CS \/ isr.pc \in {"return", "send"}
    \/ \E d \in Devices : task[d].trans # NoBuffer

history == <<uses, airborne, trodden, lost, over>>

-----------------------------------------------------------------------------
(* spi_device_queue_trans, spi_device_get_trans_result, spi_device_transmit *)

\* device_is_polling refuses a call while the task has a polling transaction; a full queue
\* is waited for, or the call times out and has done nothing.
Queue(d, t, call) ==
    /\ At(d, "app") /\ call \in uses[d].calls \intersect {"queue", "transmit"}
    /\ ~ (host.acquire_cs = d /\ host.polling) /\ t[1] = d /\ InHand(t)
    /\ call = "transmit" => airborne[d] = <<>>      \* the ToDo at line 952 is up to the caller
    /\ Len(dev[d].trans_queue) < QueueSize
    /\ dev' = [dev EXCEPT ![d].trans_queue = Append(@, t)]
    /\ airborne' = [airborne EXCEPT ![d] = Append(@, t)]
    /\ task' = [task EXCEPT ![d].pc = "load", ![d].transmits = (call = "transmit"), ![d].other = d]
    /\ UNCHANGED <<uses, host, intr, wire, isr, trodden, lost, over>>

\* spi_isr_invoke, in two steps.
InvokeLoad(d) ==
    /\ At(d, "load")
    /\ IF host.acquire_cs \in {task[d].other, NO_CS} THEN Continue(d, "enable") ELSE Return(d)
    /\ UNCHANGED <<host, dev, intr, wire, isr, history>>

InvokeEnable(d) ==
    /\ At(d, "enable")
    /\ intr' = TRUE
    /\ Stale(host.acquire_cs \notin {task[d].other, NO_CS})
    /\ Return(d)
    /\ UNCHANGED <<host, dev, wire, isr, uses, airborne, trodden, lost>>

GetTransResult(d) ==
    /\ At(d, "result") \/ (At(d, "app") /\ "queue" \in uses[d].calls)
    /\ dev[d].ret_queue # <<>>
    /\ dev' = [dev EXCEPT ![d].ret_queue = Tail(@)]
    /\ airborne' = [airborne EXCEPT ![d] = Tail(@)]
    /\ task' = [task EXCEPT ![d].pc = "app", ![d].transmits = FALSE]
    /\ over' = IF task[d].pc = "result" /\ Head(dev[d].ret_queue) # Head(airborne[d])
                  THEN "ret_trans == trans_desc" ELSE "no"
    /\ UNCHANGED <<uses, host, intr, wire, isr, trodden, lost>>

-----------------------------------------------------------------------------
(* spi_device_polling_start and spi_device_acquire_bus *)

\* setup_priv_desc fills cur_trans_buf before anything is acquired.
PollingStart(d, t) ==
    /\ At(d, "app") /\ "poll" \in uses[d].calls /\ t[1] = d /\ InHand(t)
    /\ task[d].trans = NoBuffer
    /\ host' = [host EXCEPT !.cur_trans_buf = t]
    /\ trodden' = (trodden \/ BufferInUse)
    /\ task' = [task EXCEPT ![d].pc = "acquire", ![d].trans = t]
    /\ UNCHANGED <<dev, intr, wire, isr, uses, airborne, lost, over>>

AcquireBus(d) ==
    /\ At(d, "app") /\ "lock" \in uses[d].calls
    /\ task[d].trans = NoBuffer /\ ~ task[d].locked
    /\ Continue(d, "acquire")
    /\ UNCHANGED <<host, dev, intr, wire, isr, history>>

\* device_acquire_bus_internal
AcquireInternal(d) ==
    /\ At(d, "acquire")
    /\ IF host.acquire_cs = d
       THEN /\ IF host.bus_locked THEN UNCHANGED over ELSE Abort("bus_locked")
            /\ Continue(d, "isr") /\ UNCHANGED dev
       ELSE /\ dev' = [dev EXCEPT ![d].waiting = TRUE]
            /\ Continue(d, "clear") /\ UNCHANGED over
    /\ UNCHANGED <<host, intr, wire, isr, uses, airborne, trodden, lost>>

ClearSemaphore(d) ==
    /\ \/ At(d, "clear") /\ Continue(d, "cas")
       \/ At(d, "clear isr") /\ Continue(d, "recheck")
    /\ Clear(d)
    /\ UNCHANGED <<host, intr, wire, isr, history>>

TryAcquire(d) ==
    /\ At(d, "cas")
    /\ CompareExchange(d)
    /\ Continue(d, "check")
    /\ UNCHANGED <<dev, intr, wire, isr, history>>

CheckAcquired(d) ==
    /\ At(d, "check")
    /\ Continue(d, IF host.acquire_cs = d THEN "acquired" ELSE "blocked")
    /\ UNCHANGED <<host, dev, intr, wire, isr, history>>

\* The semaphore that says the bus is ours, or that the interrupt handler has stopped.
TakeSemaphore(d) ==
    /\ \/ At(d, "blocked") /\ Continue(d, "acquired")
       \/ At(d, "blocked isr") /\ Continue(d, "own")
    /\ Take(d)
    /\ UNCHANGED <<host, intr, wire, isr, history>>

StopWaiting(d) ==
    /\ At(d, "acquired")
    /\ dev' = [dev EXCEPT ![d].waiting = FALSE]
    /\ Continue(d, "isr")
    /\ UNCHANGED <<host, intr, wire, isr, history>>

\* device_wait_for_isr_idle
WaitForIsrIdle(d) ==
    /\ \/ At(d, "isr") /\ Continue(d, IF host.isr_free THEN "own" ELSE "clear isr")
       \/ At(d, "recheck") /\ Continue(d, IF host.isr_free THEN "own" ELSE "blocked isr")
    /\ UNCHANGED <<host, dev, intr, wire, isr, history>>

\* The end of spi_device_acquire_bus.
LockBus(d) ==
    /\ At(d, "own") /\ task[d].trans = NoBuffer
    /\ host' = [host EXCEPT !.bus_locked = TRUE]
    /\ task' = [task EXCEPT ![d].pc = "app", ![d].locked = TRUE]
    /\ UNCHANGED <<dev, intr, wire, isr, history>>

\* The end of spi_device_polling_start, spi_new_trans included.
StartPolling(d) ==
    /\ At(d, "own") /\ task[d].trans # NoBuffer
    /\ IF host.acquire_cs # d \/ ~ host.isr_free
       THEN Abort("acquire_cs == id, isr_free") /\ UNCHANGED <<host, wire, task>>
       ELSE /\ host' = [host EXCEPT !.polling = TRUE, !.cur_cs = d]
            /\ wire' = wire \union {[trans |-> host.cur_trans_buf, cs |-> d]}
            /\ Continue(d, "app")
            /\ UNCHANGED over
    /\ UNCHANGED <<dev, intr, isr, uses, airborne, trodden, lost>>

-----------------------------------------------------------------------------
(* spi_device_polling_end, spi_device_release_bus, device_release_bus_internal *)

PollingEnd(d) ==
    /\ At(d, "app") /\ task[d].trans # NoBuffer
    /\ IF host.cur_cs # host.acquire_cs
       THEN Abort("cur_cs == acquire_cs") /\ UNCHANGED task
       ELSE Continue(d, "spin") /\ UNCHANGED over
    /\ UNCHANGED <<host, dev, intr, wire, isr, uses, airborne, trodden, lost>>

\* spi_hal_usr_is_done, and spi_post_trans, which follows device[cur_cs].
PostTrans(d) ==
    /\ At(d, "spin") /\ wire = {}
    /\ IF host.cur_cs = NO_CS
       THEN Abort("device[NO_CS]") /\ UNCHANGED <<host, task>>
       ELSE host' = [host EXCEPT !.cur_cs = NO_CS] /\ Continue(d, "uninstall") /\ UNCHANGED over
    /\ UNCHANGED <<dev, intr, wire, isr, uses, airborne, trodden, lost>>

Uninstall(d) ==
    /\ At(d, "uninstall")
    /\ host' = [host EXCEPT !.polling = FALSE]
    /\ task' = [task EXCEPT ![d].pc = IF host.bus_locked THEN "app" ELSE "release",
                            ![d].trans = NoBuffer]
    /\ UNCHANGED <<dev, intr, wire, isr, history>>

ReleaseBus(d) ==
    /\ At(d, "app") /\ task[d].locked /\ task[d].trans = NoBuffer
    /\ host' = [host EXCEPT !.bus_locked = FALSE]
    /\ task' = [task EXCEPT ![d].pc = "release", ![d].locked = FALSE]
    /\ UNCHANGED <<dev, intr, wire, isr, history>>

ReleaseInternal(d) ==
    /\ At(d, "release")
    /\ host' = [host EXCEPT !.acquire_cs = NO_CS]
    /\ task' = [task EXCEPT ![d].pc = "waiting?", ![d].other = 0]
    /\ UNCHANGED <<dev, intr, wire, isr, history>>

\* One turn of the first loop: the first device that waits ends it.
LookForWaiting(d) ==
    /\ At(d, "waiting?")
    /\ LET i == task[d].other
       IN  task' = IF i \in Devices /\ dev[i].waiting THEN [task EXCEPT ![d].pc = "gift"]
                   ELSE IF i < NO_CS - 1 THEN [task EXCEPT ![d].other = @ + 1]
                   ELSE [task EXCEPT ![d].pc = "queues?", ![d].other = 0]
    /\ UNCHANGED <<host, dev, intr, wire, isr, history>>

AcquireFor(d) ==
    /\ At(d, "gift")
    /\ CompareExchange(task[d].other)
    /\ Stale(~ dev[task[d].other].waiting)
    /\ Continue(d, "gift check")
    /\ UNCHANGED <<dev, intr, wire, isr, uses, airborne, trodden, lost>>

\* Has the bus gone to the device?  Then the interrupt handler is to tell it, if it has
\* transactions queued, or we do.
CheckGift(d) ==
    /\ At(d, "gift check")
    /\ LET i == task[d].other
       IN  IF host.acquire_cs # i THEN Return(d)
           ELSE Continue(d, IF dev[i].trans_queue # <<>> THEN "load" ELSE "give")
    /\ UNCHANGED <<host, dev, intr, wire, isr, history>>

GiveSemaphore(d) ==
    /\ At(d, "give")
    /\ Give(task[d].other)
    /\ Stale(host.acquire_cs # task[d].other \/ ~ dev[task[d].other].waiting)
    /\ Return(d)
    /\ UNCHANGED <<host, intr, wire, isr, uses, airborne, trodden, lost>>

\* Mutation of LookForQueued: the bus is left free without a look at the queues.
LookForNothing(d) ==
    /\ At(d, "queues?")
    /\ task' = [task EXCEPT ![d].pc = "app", ![d].other = NO_CS]
    /\ UNCHANGED <<host, dev, intr, wire, isr, history>>

\* One turn of the second loop.
LookForQueued(d) ==
    /\ At(d, "queues?")
    /\ LET i == task[d].other
       IN  task' = IF i \in Devices /\ dev[i].trans_queue # <<>> THEN [task EXCEPT ![d].pc = "load"]
                   ELSE IF i < NO_CS - 1 THEN [task EXCEPT ![d].other = @ + 1]
                   ELSE [task EXCEPT ![d].pc = "app", ![d].other = NO_CS]
    /\ UNCHANGED <<host, dev, intr, wire, isr, history>>

-----------------------------------------------------------------------------
(* spi_intr, and the hardware *)

IsrAt(l) == isr.pc = l /\ over = "no"

\* trans_done is set while nothing is on the wire, so enabling is enough to be called.
\* spi_post_trans, when a transaction has ended.
Interrupt ==
    /\ IsrAt("off") /\ intr /\ wire = {}
    /\ host' = [host EXCEPT !.cur_cs = NO_CS]
    /\ isr' = [pc |-> IF host.cur_cs = NO_CS THEN "begin" ELSE "return", cs |-> host.cur_cs]
    /\ UNCHANGED <<dev, intr, wire, task, history>>

\* xQueueSendFromISR: a full queue is not noticed.
ReturnTrans ==
    /\ IsrAt("return")
    /\ LET room == Len(dev[isr.cs].ret_queue) < QueueSize
       IN  /\ dev' = IF room THEN [dev EXCEPT ![isr.cs].ret_queue = Append(@, host.cur_trans_buf)]
                     ELSE dev
           /\ lost' = (lost \/ ~ room)
    /\ isr' = [isr EXCEPT !.pc = "begin"]
    /\ UNCHANGED <<host, intr, wire, task, uses, airborne, trodden, over>>

Begin ==
    /\ IsrAt("begin")
    /\ IF host.cur_cs # NO_CS THEN Abort("cur_cs == NO_CS") ELSE UNCHANGED over
    /\ host' = [host EXCEPT !.isr_free = FALSE]
    /\ isr' = [isr EXCEPT !.pc = "disable"]
    /\ UNCHANGED <<dev, intr, wire, task, uses, airborne, trodden, lost>>

Disable ==
    /\ IsrAt("disable")
    /\ intr' = FALSE
    /\ isr' = [isr EXCEPT !.pc = "whose"]
    /\ UNCHANGED <<host, dev, wire, task, history>>

\* Mutation of WhoseQueue: a device that has locked the bus is not asked for.
WhoseQueueAnyones ==
    /\ IsrAt("whose")
    /\ isr' = [pc |-> "any", cs |-> 0]
    /\ UNCHANGED <<host, dev, intr, wire, task, history>>

\* Only the owner's queue counts when there is one, or all do, the lowest first.
WhoseQueue ==
    /\ IsrAt("whose")
    /\ isr' = IF host.acquire_cs = NO_CS THEN [pc |-> "any", cs |-> 0]
              ELSE [pc |-> "owner", cs |-> host.acquire_cs]
    /\ UNCHANGED <<host, dev, intr, wire, task, history>>

Receive(i) ==
    /\ dev' = [dev EXCEPT ![i].trans_queue = Tail(@)]
    /\ host' = [host EXCEPT !.cur_trans_buf = Head(dev[i].trans_queue)]
    /\ trodden' = (trodden \/ \E d \in Devices : task[d].trans # NoBuffer)
    /\ isr' = [isr EXCEPT !.pc = "send"]

ReceiveOwner ==
    /\ IsrAt("owner")
    /\ \/ dev[isr.cs].trans_queue # <<>> /\ Receive(isr.cs)
       \/ /\ dev[isr.cs].trans_queue = <<>>
          /\ host' = [host EXCEPT !.isr_free = TRUE]
          /\ isr' = [isr EXCEPT !.pc = "tell"]
          /\ UNCHANGED <<dev, trodden>>
    /\ UNCHANGED <<intr, wire, task, uses, airborne, lost, over>>

TellOwner ==
    /\ IsrAt("tell")
    /\ Give(isr.cs)
    /\ Stale(host.acquire_cs # isr.cs)
    /\ isr' = [pc |-> "off", cs |-> NO_CS]
    /\ UNCHANGED <<host, intr, wire, task, uses, airborne, trodden, lost>>

\* Nobody is told when there is nothing to send, not even a device that has acquired the
\* bus since WhoseQueue and waits for the handler to end.
ReceiveAny ==
    /\ IsrAt("any")
    /\ LET has == isr.cs \in Devices /\ dev[isr.cs].trans_queue # <<>>
       IN  \/ has /\ Receive(isr.cs) /\ UNCHANGED over
           \/ /\ ~ has /\ isr.cs < NO_CS
              /\ isr' = [isr EXCEPT !.cs = @ + 1]
              /\ UNCHANGED <<host, dev, trodden, over>>
           \/ /\ isr.cs = NO_CS
              /\ host' = [host EXCEPT !.isr_free = TRUE]
              /\ isr' = [pc |-> "off", cs |-> NO_CS]
              /\ Stale(host.acquire_cs # NO_CS)
              /\ UNCHANGED <<dev, trodden>>
    /\ UNCHANGED <<intr, wire, task, uses, airborne, lost>>

\* spi_new_trans
SendTrans ==
    /\ IsrAt("send")
    /\ host' = [host EXCEPT !.cur_cs = isr.cs]
    /\ wire' = wire \union {[trans |-> host.cur_trans_buf, cs |-> isr.cs]}
    /\ isr' = [isr EXCEPT !.pc = "reenable"]
    /\ UNCHANGED <<dev, intr, task, history>>

Reenable ==
    /\ IsrAt("reenable")
    /\ intr' = TRUE
    /\ isr' = [pc |-> "off", cs |-> NO_CS]
    /\ UNCHANGED <<host, dev, wire, task, history>>

\* The last bit has been clocked out.
TransDone ==
    /\ over = "no"
    /\ \E w \in wire : wire' = wire \ {w}
    /\ UNCHANGED <<host, dev, intr, task, isr, history>>

-----------------------------------------------------------------------------

Call(d) ==
    \/ \E t \in BusTransactions : \/ PollingStart(d, t)
                               \/ \E call \in uses[d].calls : Queue(d, t, call)
    \/ AcquireBus(d)

\* What a task does without waiting for the application to make a call.
Proceed(d) ==
    \/ InvokeLoad(d) \/ InvokeEnable(d) \/ GetTransResult(d)
    \/ AcquireInternal(d) \/ ClearSemaphore(d) \/ TryAcquire(d) \/ CheckAcquired(d)
    \/ TakeSemaphore(d) \/ StopWaiting(d) \/ WaitForIsrIdle(d) \/ LockBus(d) \/ StartPolling(d)
    \/ PollingEnd(d) \/ PostTrans(d) \/ Uninstall(d) \/ ReleaseBus(d) \/ ReleaseInternal(d)
    \/ LookForWaiting(d) \/ AcquireFor(d) \/ CheckGift(d) \/ GiveSemaphore(d) \/ LookForQueued(d)

Isr ==
    \/ Interrupt \/ ReturnTrans \/ Begin \/ Disable \/ WhoseQueue \/ ReceiveOwner \/ TellOwner
    \/ ReceiveAny \/ SendTrans \/ Reenable

BusNext == Isr \/ TransDone \/ \E d \in Devices : Call(d) \/ Proceed(d)

\* The interrupt is served, the hardware ends what it began, and a task that runs goes on:
\* poll ends the transaction it starts, and withSpiBus releases the bus when its block ends.
BusFairness ==
    WF_busVars(Isr) /\ WF_busVars(TransDone) /\ \A d \in Devices : WF_busVars(Proceed(d))

-----------------------------------------------------------------------------

BusTypeOK ==
    /\ uses \in Styles
    /\ host \in [acquire_cs : Devices \union {NO_CS}, cur_cs : Devices \union {NO_CS},
                cur_trans_buf : BusTransactions \union {NoBuffer},
                polling : BOOLEAN, isr_free : BOOLEAN, bus_locked : BOOLEAN]
    /\ dev \in [Devices -> [trans_queue : Seq(BusTransactions), ret_queue : Seq(BusTransactions),
                            semphr_polling : BOOLEAN, waiting : BOOLEAN]]
    /\ \A d \in Devices : Len(dev[d].trans_queue) <= QueueSize /\ Len(dev[d].ret_queue) <= QueueSize
    /\ intr \in BOOLEAN
    /\ wire \subseteq [trans : BusTransactions, cs : Devices]
    /\ \A d \in Devices : task[d].trans \in BusTransactions \union {NoBuffer} /\ task[d].other \in 0 .. NO_CS
    /\ isr.cs \in 0 .. NO_CS
    /\ airborne \in [Devices -> Seq(BusTransactions)]
    /\ trodden \in BOOLEAN /\ lost \in BOOLEAN

-----------------------------------------------------------------------------

\* What the interrupt handler has in hand for device d.
AtWork(d) ==
    IF \/ isr.pc \in {"return", "send"} /\ isr.cs = d
       \/ host.cur_cs = d /\ ~ host.polling
    THEN <<host.cur_trans_buf>> ELSE <<>>

\* As long as cur_trans_buf is written by one call at a time and no return queue overflows:
\* the wire has one transaction, under the chip select of its device, and that is the device
\* that has the bus if one has locked it; a polling call sends its own; what a task has
\* queued is returned, in hand or waiting, each once and in its order; and no assertion
\* of the driver fails.
TransactionsIntact ==
    ~ trodden /\ ~ lost =>
        /\ Cardinality(wire) <= 1
        /\ \A w \in wire : /\ w.trans[1] = w.cs
                           /\ \A d \in Devices : task[d].locked => w.cs = d
                           /\ host.polling => task[w.cs].trans = w.trans
        /\ over = "no" => \A d \in Devices :
                airborne[d] = dev[d].ret_queue \o AtWork(d) \o dev[d].trans_queue
        /\ over \in {"no", "stale"}

Settled ==
    /\ host.acquire_cs = NO_CS /\ wire = {} /\ isr.pc = "off"
    /\ \A d \in Devices : task[d].pc = "app" /\ airborne[d] = <<>>

\* No wake-up is lost between semaphore, interrupt and the loops of a release: once the
\* application makes no more calls, every task comes back from its last, every transaction
\* it has queued is returned, and the bus is free.
CallsComeToAnEnd ==
    <>[][~ \E d \in Devices : Call(d)]_busVars => []<>(Settled \/ over # "no" \/ trodden \/ lost)

\* assert(ret_trans == trans_desc) in spi_device_transmit.
TransmitGetsItsOwn == over # "ret_trans == trans_desc"
=============================================================================
