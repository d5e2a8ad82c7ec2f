--------------------------- MODULE SpiMasterProofs ---------------------------
(***************************************************************************)
(* Proofs about SpiMaster, for any devices, transactions and queue sizes, as  *)
(* long as no bus is used both by polling and by queueing.                    *)
(***************************************************************************)
EXTENDS SpiMaster, SequenceTheorems, FiniteSetTheorems, TLAPS

-----------------------------------------------------------------------------
(* The inductive invariant *)

Acquiring == {"clear", "cas", "check", "blocked", "acquired"}
WaitingForIsr == {"isr", "clear isr", "recheck", "blocked isr"}
Releasing == {"waiting?", "gift", "gift check", "give", "queues?"}
Invoking == {"load", "enable"}

TaskPlaces ==
    {"app", "result", "acquire", "own", "spin", "uninstall", "release"}
        \union Acquiring \union WaitingForIsr \union Releasing \union Invoking

IsrPlaces ==
    {"off", "return", "begin", "disable", "whose", "owner", "any", "tell", "send", "reenable"}

TaskRecord ==
    [pc : TaskPlaces, transmits : BOOLEAN, trans : BusTransactions \union {NoBuffer},
     locked : BOOLEAN, other : 0 .. NO_CS]

DeviceRecord ==
    [trans_queue : Seq(BusTransactions), ret_queue : Seq(BusTransactions),
     semphr_polling : BOOLEAN, waiting : BOOLEAN]

\* The types, with the places and the locals of the tasks.
BusTypes ==
    /\ BusTypeOK
    /\ task \in [Devices -> TaskRecord]
    /\ isr \in [pc : IsrPlaces, cs : 0 .. NO_CS]

\* What a task has, place by place: waiting is set from before the first attempt to acquire
\* until the bus is there, and neither a lock nor a polling transaction outlives the release.
InPlace(d) ==
    /\ dev[d].waiting <=> task[d].pc \in Acquiring
    /\ task[d].pc \in Acquiring \union Releasing \union {"release"} => ~ task[d].locked
    /\ task[d].pc \in Releasing \union Invoking \union {"result", "release"}
            => task[d].trans = NoBuffer
    /\ task[d].locked /\ task[d].pc = "acquire" => task[d].trans # NoBuffer
    /\ task[d].pc \in {"gift", "gift check", "give"} \union Invoking => task[d].other \in Devices

Places == \A d \in Devices : InPlace(d)

Polls(d) == task[d].pc \in {"app", "spin"} /\ task[d].trans # NoBuffer

HasBus(d) ==
    \/ task[d].locked \/ Polls(d)
    \/ task[d].pc \in WaitingForIsr \union {"acquired", "own", "spin", "uninstall", "release"}

\* The bus belongs to one device, and who has been told so has it.
OwnerInv ==
    /\ \A d \in Devices :
        /\ HasBus(d) => host.acquire_cs = d
        /\ host.acquire_cs = d => HasBus(d) \/ task[d].pc \in {"clear", "cas", "check", "blocked"}
        /\ task[d].pc \in {"cas", "check", "blocked"} /\ dev[d].semphr_polling => host.acquire_cs = d
    /\ host.bus_locked <=> \E d \in Devices : task[d].locked

PollOnly == \A d \in Devices : uses[d].calls \intersect {"queue", "transmit"} = {}
QueueOnly == \A d \in Devices : "poll" \notin uses[d].calls

\* On a bus that is polled the interrupt is never enabled.
HandlerOff == ~ intr /\ isr.pc = "off" /\ host.isr_free

\* Nothing is queued on it, and the chip select is that of the task whose transaction is
\* polled.
PollOf(d) ==
    /\ dev[d].trans_queue = <<>> /\ dev[d].ret_queue = <<>> /\ airborne[d] = <<>>
    /\ task[d].pc \notin Invoking
    /\ Polls(d) => host.cur_cs = d
    /\ task[d].trans # NoBuffer =>
            /\ task[d].trans[1] = d
            /\ host.cur_trans_buf # NoBuffer /\ (~ trodden => host.cur_trans_buf = task[d].trans)
    /\ task[d].pc \in {"spin", "uninstall"} => task[d].trans # NoBuffer

\* What is on the wire is that transaction.
PollWire ==
    /\ \A d \in Devices : host.cur_cs = d => Polls(d) /\ host.polling
    /\ \A w \in wire : w.cs = host.cur_cs /\ (~ trodden => w.trans = task[w.cs].trans)

PollInv == HandlerOff /\ (\A d \in Devices : PollOf(d)) /\ PollWire

\* The handler has nothing in hand of any other device, and will take up nothing of one.
SafeFor(d) ==
    /\ host.cur_cs \in {NO_CS, d} /\ isr.pc # "any"
    /\ isr.pc \in {"return", "send", "owner"} => isr.cs = d

\* A task that has found, or has been told, that the handler has ended relies on it.
ReliesOnIsr(d) ==
    \/ task[d].pc = "own" \/ task[d].locked
    \/ task[d].pc \in {"recheck", "blocked isr"} /\ dev[d].semphr_polling

\* What a task has queued is returned, in hand or waiting.
Accounted(d) ==
    /\ Len(airborne[d]) >= Len(dev[d].ret_queue) + Len(AtWork(d)) + Len(dev[d].trans_queue)
    /\ ~ lost => airborne[d] = dev[d].ret_queue \o AtWork(d) \o dev[d].trans_queue

\* On a bus that is queued on no task polls.
QueueOf(d) ==
    /\ task[d].trans = NoBuffer /\ task[d].pc \notin {"spin", "uninstall"}
    /\ \A i \in 1 .. Len(dev[d].trans_queue) : dev[d].trans_queue[i][1] = d
    /\ Accounted(d)
    /\ ReliesOnIsr(d) => SafeFor(d)

\* What the hardware and the handler have is cur_trans_buf.
HandlerInv ==
    /\ isr.pc \in {"return", "owner", "tell", "send"} => isr.cs \in Devices
    /\ isr.pc \in {"return", "send"} =>
            host.cur_trans_buf # NoBuffer /\ host.cur_trans_buf[1] = isr.cs
    /\ host.cur_cs # NO_CS =>
            /\ isr.pc \in {"off", "reenable"}
            /\ host.cur_trans_buf # NoBuffer /\ host.cur_trans_buf[1] = host.cur_cs
    /\ host.isr_free => host.cur_cs = NO_CS /\ isr.pc \in {"off", "begin", "tell"}

QueueWire == \A w \in wire : w.cs = host.cur_cs /\ w.trans = host.cur_trans_buf

QueueInv ==
    /\ ~ host.polling /\ ~ trodden
    /\ (\A d \in Devices : QueueOf(d)) /\ HandlerInv /\ QueueWire

BusInv ==
    /\ BusTypes /\ TransactionsIntact
    /\ over = "no" =>
            Places /\ OwnerInv /\ ((PollOnly /\ PollInv) \/ (QueueOnly /\ QueueInv))

-----------------------------------------------------------------------------

(* What an assignment to a field leaves alone *)

OthersKeep(d) == \A e \in Devices : e # d => task'[e] = task[e]
TransQueuesKept == \A e \in Devices : dev'[e].trans_queue = dev[e].trans_queue
RetQueuesKept == \A e \in Devices : dev'[e].ret_queue = dev[e].ret_queue
SemaphoresKept == \A e \in Devices : dev'[e].semphr_polling = dev[e].semphr_polling
WaitingKept == \A e \in Devices : dev'[e].waiting = dev[e].waiting

\* The devices of the bus.
LEMMA DevType == BusTypes => dev \in [Devices -> DeviceRecord]
BY DEF BusTypes, BusTypeOK, DeviceRecord

\* A task that goes on keeps its locals.
LEMMA Continues ==
    ASSUME BusTypes, NEW d \in Devices, NEW l \in TaskPlaces, Continue(d, l)
    PROVE  /\ task' \in [Devices -> TaskRecord]
           /\ OthersKeep(d) /\ task'[d].pc = l
           /\ task'[d].transmits = task[d].transmits /\ task'[d].trans = task[d].trans
           /\ task'[d].locked = task[d].locked /\ task'[d].other = task[d].other
BY DEF Continue, BusTypes, OthersKeep, TaskRecord

\* A task that returns goes to the application, or to the result it waits for.
LEMMA Returns ==
    ASSUME BusTypes, NEW d \in Devices, Return(d)
    PROVE  /\ task' \in [Devices -> TaskRecord]
           /\ OthersKeep(d) /\ task'[d].pc \in {"app", "result"}
           /\ task'[d].trans = task[d].trans /\ task'[d].locked = task[d].locked
<1>1. "app" \in TaskPlaces /\ "result" \in TaskPlaces /\ NO_CS \in 0 .. NO_CS
  BY DEF TaskPlaces, NO_CS
<1> QED
  BY <1>1 DEF Return, BusTypes, OthersKeep, TaskRecord

\* The queue of a device changes: its other fields and the other devices do not.
LEMMA TransQueueAssigned ==
    ASSUME dev \in [Devices -> DeviceRecord], NEW d \in Devices, NEW q \in Seq(BusTransactions),
           dev' = [dev EXCEPT ![d].trans_queue = q]
    PROVE  /\ dev' \in [Devices -> DeviceRecord]
           /\ RetQueuesKept /\ SemaphoresKept /\ WaitingKept
           /\ dev'[d].trans_queue = q
           /\ \A e \in Devices : e # d => dev'[e].trans_queue = dev[e].trans_queue
BY DEF DeviceRecord, RetQueuesKept, SemaphoresKept, WaitingKept

\* The same of its return queue,
LEMMA RetQueueAssigned ==
    ASSUME dev \in [Devices -> DeviceRecord], NEW d \in Devices, NEW q \in Seq(BusTransactions),
           dev' = [dev EXCEPT ![d].ret_queue = q]
    PROVE  /\ dev' \in [Devices -> DeviceRecord]
           /\ TransQueuesKept /\ SemaphoresKept /\ WaitingKept
           /\ dev'[d].ret_queue = q
           /\ \A e \in Devices : e # d => dev'[e].ret_queue = dev[e].ret_queue
BY DEF DeviceRecord, TransQueuesKept, SemaphoresKept, WaitingKept

\* of its semaphore,
LEMMA SemaphoreAssigned ==
    ASSUME dev \in [Devices -> DeviceRecord], NEW d \in Devices, NEW b \in BOOLEAN,
           dev' = [dev EXCEPT ![d].semphr_polling = b]
    PROVE  /\ dev' \in [Devices -> DeviceRecord]
           /\ TransQueuesKept /\ RetQueuesKept /\ WaitingKept
           /\ dev'[d].semphr_polling = b
           /\ \A e \in Devices : e # d => dev'[e].semphr_polling = dev[e].semphr_polling
BY DEF DeviceRecord, TransQueuesKept, RetQueuesKept, WaitingKept

\* and of its flag waiting.
LEMMA WaitingAssigned ==
    ASSUME dev \in [Devices -> DeviceRecord], NEW d \in Devices, NEW b \in BOOLEAN,
           dev' = [dev EXCEPT ![d].waiting = b]
    PROVE  /\ dev' \in [Devices -> DeviceRecord]
           /\ TransQueuesKept /\ RetQueuesKept /\ SemaphoresKept
           /\ dev'[d].waiting = b
           /\ \A e \in Devices : e # d => dev'[e].waiting = dev[e].waiting
BY DEF DeviceRecord, TransQueuesKept, RetQueuesKept, SemaphoresKept

\* A transaction is a buffer.
LEMMA TransactionIsBuffer == \A t \in BusTransactions : t # NoBuffer /\ t[1] \in Devices
BY DEF BusTransactions, NoBuffer

-----------------------------------------------------------------------------
(* Steps that touch neither a transaction nor the hardware *)

HostRecord ==
    [acquire_cs : Devices \union {NO_CS}, cur_cs : Devices \union {NO_CS},
     cur_trans_buf : BusTransactions \union {NoBuffer},
     polling : BOOLEAN, isr_free : BOOLEAN, bus_locked : BOOLEAN]

HardwareKept ==
    /\ host'.cur_cs = host.cur_cs /\ host'.cur_trans_buf = host.cur_trans_buf
    /\ host'.polling = host.polling /\ host'.isr_free = host.isr_free
    /\ UNCHANGED <<wire, isr>>

\* Task d moves, the bus may change hands, the interrupt may be enabled, and nothing else.
Walks(d) ==
    /\ UNCHANGED <<uses, airborne, trodden, lost>> /\ HardwareKept
    /\ intr' = intr \/ (task[d].pc = "enable" /\ intr')
    /\ host' \in HostRecord
    /\ dev' \in [Devices -> DeviceRecord] /\ TransQueuesKept /\ RetQueuesKept
    /\ task' \in [Devices -> TaskRecord] /\ OthersKeep(d) /\ task'[d].trans = task[d].trans

WalkingAction(d) ==
    \/ AcquireBus(d) \/ InvokeLoad(d) \/ InvokeEnable(d) \/ AcquireInternal(d)
    \/ ClearSemaphore(d) \/ TryAcquire(d) \/ CheckAcquired(d) \/ TakeSemaphore(d)
    \/ StopWaiting(d) \/ WaitForIsrIdle(d) \/ LockBus(d) \/ PollingEnd(d) \/ ReleaseBus(d)
    \/ ReleaseInternal(d) \/ LookForWaiting(d) \/ AcquireFor(d) \/ CheckGift(d)
    \/ GiveSemaphore(d) \/ LookForQueued(d)

\* The host.
LEMMA HostType == BusTypes => host \in HostRecord
BY DEF BusTypes, BusTypeOK, HostRecord

\* A task that goes on and nothing else.
LEMMA OnlyContinues ==
    ASSUME BusTypes, NEW d \in Devices, UNCHANGED <<host, dev, wire, isr, uses, airborne, trodden, lost>>,
           intr' = intr \/ (task[d].pc = "enable" /\ intr'),
           task' \in [Devices -> TaskRecord], OthersKeep(d), task'[d].trans = task[d].trans
    PROVE  Walks(d)
BY DevType, HostType DEF Walks, HardwareKept, TransQueuesKept, RetQueuesKept

\* The compare-and-exchange on acquire_cs.
LEMMA Exchanges ==
    ASSUME BusTypes, NEW d \in Devices, CompareExchange(d)
    PROVE  /\ host' \in HostRecord
           /\ host'.cur_cs = host.cur_cs /\ host'.cur_trans_buf = host.cur_trans_buf
           /\ host'.polling = host.polling /\ host'.isr_free = host.isr_free
           /\ host'.bus_locked = host.bus_locked
           /\ host'.acquire_cs = IF host.acquire_cs = NO_CS THEN d ELSE host.acquire_cs
<1>1. host \in HostRecord
  BY HostType
<1>2. CASE host.acquire_cs = NO_CS
  <2>1. host' = [host EXCEPT !.acquire_cs = d]
    BY <1>2 DEF CompareExchange
  <2> QED
    BY <1>1, <1>2, <2>1 DEF HostRecord
<1>3. CASE host.acquire_cs # NO_CS
  BY <1>1, <1>3 DEF CompareExchange
<1> QED
  BY <1>2, <1>3

\* A semaphore is given, or taken, or cleared.
LEMMA Semaphores ==
    ASSUME BusTypes, NEW d \in Devices, Give(d) \/ Clear(d) \/ Take(d)
    PROVE  /\ dev' \in [Devices -> DeviceRecord]
           /\ TransQueuesKept /\ RetQueuesKept /\ WaitingKept
           /\ \A e \in Devices : e # d => dev'[e].semphr_polling = dev[e].semphr_polling
           /\ ~ Give(d) => ~ dev'[d].semphr_polling
<1>1. dev \in [Devices -> DeviceRecord]
  BY DevType
<1>2. CASE Give(d)
  <2>1. dev' = [dev EXCEPT ![d].semphr_polling = TRUE]
    BY <1>2 DEF Give
  <2> QED
    BY <1>1, <1>2, <2>1, SemaphoreAssigned
<1>3. CASE Clear(d) \/ Take(d)
  <2>1. dev' = [dev EXCEPT ![d].semphr_polling = FALSE]
    BY <1>3 DEF Clear, Take
  <2> QED
    BY <1>1, <2>1, SemaphoreAssigned
<1> QED
  BY <1>2, <1>3

\* Every such action does so.
LEMMA WalkingWalks ==
    ASSUME SpiMasterAssumption, BusTypes, Places, NEW d \in Devices, WalkingAction(d)
    PROVE  Walks(d)
<1> USE DEF At, history
<1>1. \A l \in {"app", "result", "acquire", "own", "spin", "uninstall", "release"} \union Acquiring
                \union WaitingForIsr \union Releasing \union Invoking : l \in TaskPlaces
  BY DEF TaskPlaces
<1> USE DEF Acquiring, WaitingForIsr, Releasing, Invoking
<1>2. CASE AcquireBus(d)
  BY <1>1, <1>2, Continues, OnlyContinues DEF AcquireBus
<1>3. CASE InvokeLoad(d)
  BY <1>1, <1>3, Continues, Returns, OnlyContinues DEF InvokeLoad
<1>4. CASE InvokeEnable(d)
  BY <1>4, Returns, OnlyContinues DEF InvokeEnable
<1>5. CASE AcquireInternal(d)
  <2>1. CASE host.acquire_cs = d
    BY <1>1, <1>5, <2>1, Continues, OnlyContinues DEF AcquireInternal
  <2>2. CASE host.acquire_cs # d
    <3>1. dev' = [dev EXCEPT ![d].waiting = TRUE] /\ Continue(d, "clear")
      BY <1>5, <2>2 DEF AcquireInternal
    <3>2. dev' \in [Devices -> DeviceRecord] /\ TransQueuesKept /\ RetQueuesKept
      BY <3>1, DevType, WaitingAssigned
    <3>3. "clear" \in TaskPlaces
      BY <1>1
    <3>4. task' \in [Devices -> TaskRecord] /\ OthersKeep(d) /\ task'[d].trans = task[d].trans
      BY <3>1, <3>3, Continues
    <3> QED
      BY <1>5, <3>2, <3>4, HostType DEF AcquireInternal, Walks, HardwareKept
  <2> QED
    BY <2>1, <2>2
<1>6. CASE ClearSemaphore(d)
  <2>1. Clear(d) /\ (Continue(d, "cas") \/ Continue(d, "recheck"))
    BY <1>6 DEF ClearSemaphore
  <2>2. dev' \in [Devices -> DeviceRecord] /\ TransQueuesKept /\ RetQueuesKept
    BY <2>1, Semaphores
  <2>3. task' \in [Devices -> TaskRecord] /\ OthersKeep(d) /\ task'[d].trans = task[d].trans
    BY <1>1, <2>1, Continues
  <2> QED
    BY <1>6, <2>2, <2>3, HostType DEF ClearSemaphore, Walks, HardwareKept
<1>7. CASE TryAcquire(d)
  <2>1. task' \in [Devices -> TaskRecord] /\ OthersKeep(d) /\ task'[d].trans = task[d].trans
    BY <1>1, <1>7, Continues DEF TryAcquire
  <2>2. host' \in HostRecord /\ HardwareKept
    BY <1>7, Exchanges DEF TryAcquire, HardwareKept
  <2> QED
    BY <1>7, <2>1, <2>2, DevType DEF TryAcquire, Walks, TransQueuesKept, RetQueuesKept
<1>8. CASE CheckAcquired(d)
  BY <1>1, <1>8, Continues, OnlyContinues DEF CheckAcquired
<1>9. CASE TakeSemaphore(d)
  <2>1. Take(d) /\ (Continue(d, "acquired") \/ Continue(d, "own"))
    BY <1>9 DEF TakeSemaphore
  <2>2. dev' \in [Devices -> DeviceRecord] /\ TransQueuesKept /\ RetQueuesKept
    BY <2>1, Semaphores
  <2>3. task' \in [Devices -> TaskRecord] /\ OthersKeep(d) /\ task'[d].trans = task[d].trans
    BY <1>1, <2>1, Continues
  <2> QED
    BY <1>9, <2>2, <2>3, HostType DEF TakeSemaphore, Walks, HardwareKept
<1>10. CASE StopWaiting(d)
  <2>1. dev' = [dev EXCEPT ![d].waiting = FALSE] /\ Continue(d, "isr")
    BY <1>10 DEF StopWaiting
  <2>2. dev' \in [Devices -> DeviceRecord] /\ TransQueuesKept /\ RetQueuesKept
    BY <2>1, DevType, WaitingAssigned
  <2>3. task' \in [Devices -> TaskRecord] /\ OthersKeep(d) /\ task'[d].trans = task[d].trans
    BY <1>1, <2>1, Continues
  <2> QED
    BY <1>10, <2>2, <2>3, HostType DEF StopWaiting, Walks, HardwareKept
<1>11. CASE WaitForIsrIdle(d)
  BY <1>1, <1>11, Continues, OnlyContinues DEF WaitForIsrIdle
<1>12. CASE LockBus(d)
  <2>1. task' \in [Devices -> TaskRecord] /\ OthersKeep(d) /\ task'[d].trans = task[d].trans
    <3> DEFINE t == [task[d] EXCEPT !.pc = "app", !.locked = TRUE]
    <3>1. task \in [Devices -> TaskRecord] /\ t \in TaskRecord /\ t.trans = task[d].trans
      BY <1>1 DEF BusTypes, TaskRecord
    <3>2. task' = [task EXCEPT ![d] = t]
      BY <1>12, Zenon DEF LockBus
    <3> HIDE DEF t
    <3> QED
      BY <3>1, <3>2 DEF OthersKeep
  <2>2. host' \in HostRecord /\ HardwareKept
    BY <1>12, HostType DEF LockBus, HostRecord, HardwareKept
  <2> QED
    BY <1>12, <2>1, <2>2, DevType DEF LockBus, Walks, TransQueuesKept, RetQueuesKept
<1>13. CASE PollingEnd(d)
  <2>1. CASE host.cur_cs = host.acquire_cs
    BY <1>1, <1>13, <2>1, Continues, OnlyContinues DEF PollingEnd
  <2>2. CASE host.cur_cs # host.acquire_cs
    BY <1>13, <2>2, OnlyContinues DEF PollingEnd, BusTypes, OthersKeep
  <2> QED
    BY <2>1, <2>2
<1>14. CASE ReleaseBus(d)
  <2>1. task' \in [Devices -> TaskRecord] /\ OthersKeep(d) /\ task'[d].trans = task[d].trans
    <3> DEFINE t == [task[d] EXCEPT !.pc = "release", !.locked = FALSE]
    <3>1. task \in [Devices -> TaskRecord] /\ t \in TaskRecord /\ t.trans = task[d].trans
      BY <1>1 DEF BusTypes, TaskRecord
    <3>2. task' = [task EXCEPT ![d] = t]
      BY <1>14, Zenon DEF ReleaseBus
    <3> HIDE DEF t
    <3> QED
      BY <3>1, <3>2 DEF OthersKeep
  <2>2. host' \in HostRecord /\ HardwareKept
    BY <1>14, HostType DEF ReleaseBus, HostRecord, HardwareKept
  <2> QED
    BY <1>14, <2>1, <2>2, DevType DEF ReleaseBus, Walks, TransQueuesKept, RetQueuesKept
<1>15. CASE ReleaseInternal(d)
  <2>1. task' \in [Devices -> TaskRecord] /\ OthersKeep(d) /\ task'[d].trans = task[d].trans
    <3>1. 0 \in 0 .. NO_CS
      BY DEF NO_CS
    <3>2. "waiting?" \in TaskPlaces
      BY <1>1
    <3> QED
      BY <1>15, <3>1, <3>2, ZenonT(30) DEF ReleaseInternal, BusTypes, TaskRecord, OthersKeep
  <2>2. host' \in HostRecord /\ HardwareKept
    BY <1>15, HostType DEF ReleaseInternal, HostRecord, HardwareKept
  <2> QED
    BY <1>15, <2>1, <2>2, DevType DEF ReleaseInternal, Walks, TransQueuesKept, RetQueuesKept
<1>16. CASE LookForWaiting(d) \/ LookForQueued(d)
  <2>1. task' \in [Devices -> TaskRecord] /\ OthersKeep(d) /\ task'[d].trans = task[d].trans
    <3>1. PICK l \in TaskPlaces, o \in 0 .. NO_CS :
                task' = [task EXCEPT ![d].pc = l, ![d].other = o]
      <4> DEFINE other == task[d].other
      <4>1. task \in [Devices -> TaskRecord] /\ other \in 0 .. NO_CS /\ task[d].pc \in TaskPlaces
        BY DEF BusTypes, TaskRecord
      <4>2. 0 \in 0 .. NO_CS /\ NO_CS \in 0 .. NO_CS /\ (other < NO_CS - 1 => other + 1 \in 0 .. NO_CS)
        BY <4>1 DEF NO_CS
      <4>3. \/ task' = [task EXCEPT ![d].pc = "gift"] \/ task' = [task EXCEPT ![d].pc = "load"]
            \/ other < NO_CS - 1 /\ task' = [task EXCEPT ![d].other = other + 1]
            \/ task' = [task EXCEPT ![d].pc = "queues?", ![d].other = 0]
            \/ task' = [task EXCEPT ![d].pc = "app", ![d].other = NO_CS]
        BY <1>16 DEF LookForWaiting, LookForQueued
      <4> QED
        <5>1. /\ "gift" \in TaskPlaces /\ "load" \in TaskPlaces /\ "app" \in TaskPlaces
              /\ "queues?" \in TaskPlaces
          BY <1>1
        <5>2. CASE task' = [task EXCEPT ![d].pc = "gift"] \/ task' = [task EXCEPT ![d].pc = "load"]
          BY <4>1, <5>1, <5>2 DEF TaskRecord
        <5>3. CASE other < NO_CS - 1 /\ task' = [task EXCEPT ![d].other = other + 1]
          BY <4>1, <4>2, <5>3 DEF TaskRecord
        <5> QED
          BY <4>2, <4>3, <5>1, <5>2, <5>3
    <3> QED
      BY <3>1 DEF BusTypes, TaskRecord, OthersKeep
  <2> QED
    BY <1>16, <2>1, OnlyContinues DEF LookForWaiting, LookForQueued
<1>17. CASE AcquireFor(d)
  <2>1. task[d].other \in Devices
    BY <1>17 DEF AcquireFor, Places, InPlace
  <2>2. task' \in [Devices -> TaskRecord] /\ OthersKeep(d) /\ task'[d].trans = task[d].trans
    BY <1>1, <1>17, Continues DEF AcquireFor
  <2>3. host' \in HostRecord /\ HardwareKept
    BY <1>17, <2>1, Exchanges DEF AcquireFor, HardwareKept
  <2> QED
    BY <1>17, <2>2, <2>3, DevType DEF AcquireFor, Walks, TransQueuesKept, RetQueuesKept
<1>18. CASE CheckGift(d)
  BY <1>1, <1>18, Continues, Returns, OnlyContinues DEF CheckGift
<1>19. CASE GiveSemaphore(d)
  <2>1. task[d].other \in Devices
    BY <1>19 DEF GiveSemaphore, Places, InPlace
  <2>2. dev' \in [Devices -> DeviceRecord] /\ TransQueuesKept /\ RetQueuesKept
    BY <1>19, <2>1, Semaphores DEF GiveSemaphore
  <2>3. task' \in [Devices -> TaskRecord] /\ OthersKeep(d) /\ task'[d].trans = task[d].trans
    BY <1>19, Returns DEF GiveSemaphore
  <2> QED
    BY <1>19, <2>2, <2>3, HostType DEF GiveSemaphore, Walks, HardwareKept
<1> QED
  BY <1>2, <1>3, <1>4, <1>5, <1>6, <1>7, <1>8, <1>9, <1>10, <1>11, <1>12, <1>13, <1>14, <1>15,
     <1>16, <1>17, <1>18, <1>19 DEF WalkingAction

\* What such a step keeps of the types.
LEMMA WalkTypes ==
    ASSUME BusTypes, NEW d \in Devices, Walks(d)
    PROVE  BusTypes'
<1>1. \A e \in Devices : /\ Len(dev'[e].trans_queue) <= QueueSize
                        /\ Len(dev'[e].ret_queue) <= QueueSize
  BY DEF Walks, TransQueuesKept, RetQueuesKept, BusTypes, BusTypeOK
<1>2. /\ intr' \in BOOLEAN
      /\ uses' \in Styles /\ wire' \subseteq [trans : BusTransactions, cs : Devices]
      /\ airborne' \in [Devices -> Seq(BusTransactions)] /\ trodden' \in BOOLEAN /\ lost' \in BOOLEAN
      /\ isr' \in [pc : IsrPlaces, cs : 0 .. NO_CS] /\ isr'.cs \in 0 .. NO_CS
  BY DEF Walks, HardwareKept, BusTypes, BusTypeOK
<1>3. host' \in HostRecord /\ dev' \in [Devices -> DeviceRecord] /\ task' \in [Devices -> TaskRecord]
  BY DEF Walks
<1>4. \A e \in Devices : /\ task'[e].trans \in BusTransactions \union {NoBuffer}
                        /\ task'[e].other \in 0 .. NO_CS
  BY <1>3 DEF TaskRecord
<1> QED
  BY <1>1, <1>2, <1>3, <1>4 DEF BusTypes, BusTypeOK, HostRecord, DeviceRecord

-----------------------------------------------------------------------------
(* Places *)

\* A step of one task.
LEMMA OneInPlace ==
    ASSUME Places, NEW d \in Devices, OthersKeep(d),
           \A e \in Devices : e # d => dev'[e].waiting = dev[e].waiting,
           InPlace(d)'
    PROVE  Places'
BY DEF Places, InPlace, OthersKeep

\* Every step of a task that only walks keeps what it has where it is.
LEMMA WalkPlaces ==
    ASSUME SpiMasterAssumption, BusTypes, Places, OwnerInv, NEW d \in Devices, WalkingAction(d)
    PROVE  Places'
<1>1. Walks(d)
  BY WalkingWalks
<1>2. OthersKeep(d) /\ task'[d].trans = task[d].trans
  BY <1>1 DEF Walks
<1>3. \A l \in {"app", "result", "acquire", "own", "spin", "uninstall", "release"} \union Acquiring
                \union WaitingForIsr \union Releasing \union Invoking : l \in TaskPlaces
  BY DEF TaskPlaces
<1>4. InPlace(d)
  BY DEF Places
<1>5. ASSUME WaitingKept, InPlace(d)'
      PROVE  Places'
  BY <1>2, <1>5, OneInPlace DEF WaitingKept
<1>6. UNCHANGED dev => WaitingKept
  BY DEF WaitingKept
<1>0. ASSUME NEW l \in TaskPlaces, Continue(d, l)
      PROVE  task'[d].pc = l /\ task'[d].locked = task[d].locked /\ task'[d].other = task[d].other
  BY <1>0, Continues
<1> HIDE DEF InPlace
<1> USE DEF At, history, Acquiring, Releasing, Invoking, WaitingForIsr
<1>7. CASE AcquireBus(d)
  <2>1. /\ task[d].pc = "app" /\ task'[d].pc = "acquire" /\ WaitingKept /\ ~ task[d].locked
        /\ task'[d].locked = task[d].locked /\ task'[d].other = task[d].other
    BY <1>3, <1>6, <1>7, <1>0 DEF AcquireBus
  <2>2. InPlace(d)'
    BY <1>2, <1>4, <2>1 DEF InPlace, WaitingKept
  <2> QED
    BY <1>5, <2>1, <2>2
<1>8. CASE InvokeLoad(d)
  <2>1. task[d].pc = "load" /\ WaitingKept /\ (Return(d) \/ Continue(d, "enable"))
    BY <1>6, <1>8 DEF InvokeLoad
  <2>2. CASE Return(d)
    BY <1>2, <1>4, <1>5, <2>1, <2>2, Returns DEF InPlace, WaitingKept
  <2>3. CASE Continue(d, "enable")
    <3>1. /\ task'[d].locked = task[d].locked /\ task'[d].other = task[d].other
          /\ task'[d].pc = "enable"
      BY <1>3, <1>0, <2>3
    <3>2. InPlace(d)'
      BY <1>2, <1>4, <2>1, <3>1 DEF InPlace, WaitingKept
    <3> QED
      BY <1>5, <2>1, <3>2
  <2> QED
    BY <2>1, <2>2, <2>3
<1>9. CASE InvokeEnable(d)
  BY <1>4, <1>5, <1>6, <1>9, Returns DEF InvokeEnable, InPlace
<1>10. CASE AcquireInternal(d)
  <2>1. CASE host.acquire_cs = d
    <3>1. task[d].pc = "acquire" /\ Continue(d, "isr") /\ WaitingKept
      BY <1>6, <1>10, <2>1 DEF AcquireInternal
    <3>2. /\ task'[d].locked = task[d].locked /\ task'[d].other = task[d].other
          /\ task'[d].pc = "isr"
      BY <1>3, <1>0, <3>1
    <3>3. InPlace(d)'
      BY <1>2, <1>4, <3>1, <3>2 DEF InPlace, WaitingKept
    <3> QED
      BY <1>5, <3>1, <3>3
  <2>2. CASE host.acquire_cs # d
    <3>1. Continue(d, "clear") /\ dev' = [dev EXCEPT ![d].waiting = TRUE]
      BY <1>10, <2>2 DEF AcquireInternal
    <3>2. dev'[d].waiting /\ \A e \in Devices : e # d => dev'[e].waiting = dev[e].waiting
      BY <3>1, DevType, WaitingAssigned
    <3>3. ~ task[d].locked
      BY <2>2 DEF OwnerInv, HasBus
    <3>4. InPlace(d)'
      BY <1>3, <1>4, <3>1, <3>2, <3>3, Continues DEF InPlace
    <3> QED
      BY <1>2, <3>2, <3>4, OneInPlace
  <2> QED
    BY <2>1, <2>2
<1>11. CASE ClearSemaphore(d)
  <2>1. \/ task[d].pc = "clear" /\ Continue(d, "cas")
        \/ task[d].pc = "clear isr" /\ Continue(d, "recheck")
    BY <1>11 DEF ClearSemaphore
  <2>2. WaitingKept
    BY <1>11, Semaphores DEF ClearSemaphore
  <2>3. /\ task'[d].locked = task[d].locked /\ task'[d].other = task[d].other
        /\ \/ task[d].pc = "clear" /\ task'[d].pc = "cas"
           \/ task[d].pc = "clear isr" /\ task'[d].pc = "recheck"
    BY <1>3, <1>0, <2>1
  <2>4. InPlace(d)'
    BY <1>2, <1>4, <2>2, <2>3 DEF InPlace, WaitingKept
  <2> QED
    BY <1>5, <2>2, <2>4
<1>12. CASE TryAcquire(d)
  BY <1>3, <1>4, <1>5, <1>6, <1>12, Continues DEF TryAcquire, InPlace
<1>13. CASE CheckAcquired(d)
  BY <1>3, <1>4, <1>5, <1>6, <1>13, Continues DEF CheckAcquired, InPlace
<1>14. CASE TakeSemaphore(d)
  <2>1. \/ task[d].pc = "blocked" /\ Continue(d, "acquired")
        \/ task[d].pc = "blocked isr" /\ Continue(d, "own")
    BY <1>14 DEF TakeSemaphore
  <2>2. WaitingKept
    BY <1>14, Semaphores DEF TakeSemaphore
  <2>3. /\ task'[d].locked = task[d].locked /\ task'[d].other = task[d].other
        /\ \/ task[d].pc = "blocked" /\ task'[d].pc = "acquired"
           \/ task[d].pc = "blocked isr" /\ task'[d].pc = "own"
    BY <1>3, <1>0, <2>1
  <2>4. InPlace(d)'
    BY <1>2, <1>4, <2>2, <2>3 DEF InPlace, WaitingKept
  <2> QED
    BY <1>5, <2>2, <2>4
<1>15. CASE StopWaiting(d)
  <2>1. Continue(d, "isr") /\ dev' = [dev EXCEPT ![d].waiting = FALSE]
    BY <1>15 DEF StopWaiting
  <2>2. ~ dev'[d].waiting /\ \A e \in Devices : e # d => dev'[e].waiting = dev[e].waiting
    BY <2>1, DevType, WaitingAssigned
  <2>3. InPlace(d)'
    <3>1. /\ task[d].pc = "acquired" /\ task'[d].pc = "isr"
          /\ task'[d].locked = task[d].locked /\ task'[d].other = task[d].other
      BY <1>3, <1>15, <1>0, <2>1 DEF StopWaiting
    <3> QED
      BY <1>2, <1>4, <2>2, <3>1 DEF InPlace
  <2> QED
    BY <1>2, <2>2, <2>3, OneInPlace
<1>16. CASE WaitForIsrIdle(d)
  <2>1. /\ task[d].pc \in {"isr", "recheck"} /\ task'[d].pc \in {"own", "clear isr", "blocked isr"} /\ WaitingKept
        /\ task'[d].locked = task[d].locked /\ task'[d].other = task[d].other
    BY <1>3, <1>6, <1>16, <1>0 DEF WaitForIsrIdle
  <2>2. InPlace(d)'
    BY <1>2, <1>4, <2>1 DEF InPlace, WaitingKept
  <2> QED
    BY <1>5, <2>1, <2>2
<1>17. CASE LockBus(d)
  <2>1. task'[d].pc = "app"
    BY <1>17 DEF LockBus, BusTypes, TaskRecord
  <2> QED
    BY <1>4, <1>5, <1>6, <1>17, <2>1 DEF LockBus, InPlace
<1>18. CASE PollingEnd(d)
  <2>1. task[d].pc = "app" /\ (UNCHANGED task \/ Continue(d, "spin")) /\ WaitingKept
    BY <1>6, <1>18 DEF PollingEnd
  <2>2. /\ task'[d].locked = task[d].locked /\ task'[d].other = task[d].other
        /\ task'[d].pc \in {"app", "spin"}
    <3>1. CASE UNCHANGED task
      BY <2>1, <3>1
    <3>2. CASE Continue(d, "spin")
      BY <1>3, <1>0, <3>2
    <3> QED
      BY <2>1, <3>1, <3>2
  <2>3. InPlace(d)'
    BY <1>2, <1>4, <2>1, <2>2 DEF InPlace, WaitingKept
  <2> QED
    BY <1>5, <2>1, <2>3
<1>19. CASE ReleaseBus(d)
  <2>1. task'[d].pc = "release" /\ ~ task'[d].locked
    BY <1>19 DEF ReleaseBus, BusTypes, TaskRecord
  <2> QED
    BY <1>2, <1>4, <1>5, <1>6, <1>19, <2>1 DEF ReleaseBus, InPlace
<1>20. CASE ReleaseInternal(d)
  <2>1. task'[d].pc = "waiting?" /\ task'[d].locked = task[d].locked
    BY <1>20 DEF ReleaseInternal, BusTypes, TaskRecord
  <2> QED
    BY <1>2, <1>4, <1>5, <1>6, <1>20, <2>1 DEF ReleaseInternal, InPlace
<1>21. CASE LookForWaiting(d)
  <2>1. /\ task'[d].pc \in {"waiting?", "gift", "queues?"} /\ task'[d].locked = task[d].locked
        /\ task'[d].pc = "gift" => task'[d].other \in Devices
    BY <1>21 DEF LookForWaiting, BusTypes, TaskRecord
  <2> QED
    BY <1>2, <1>4, <1>5, <1>6, <1>21, <2>1 DEF LookForWaiting, InPlace
<1>22. CASE AcquireFor(d)
  <2>1. /\ task[d].pc = "gift" /\ task'[d].pc = "gift check" /\ WaitingKept
        /\ task'[d].locked = task[d].locked /\ task'[d].other = task[d].other
    BY <1>3, <1>6, <1>22, <1>0 DEF AcquireFor
  <2>2. InPlace(d)'
    BY <1>2, <1>4, <2>1 DEF InPlace, WaitingKept
  <2> QED
    BY <1>5, <2>1, <2>2
<1>23. CASE CheckGift(d)
  <2>1. /\ task[d].pc = "gift check" /\ WaitingKept
        /\ Return(d) \/ Continue(d, "load") \/ Continue(d, "give")
    BY <1>6, <1>23 DEF CheckGift
  <2>2. CASE Return(d)
    BY <1>2, <1>4, <1>5, <2>1, <2>2, Returns DEF InPlace, WaitingKept
  <2>3. CASE Continue(d, "load") \/ Continue(d, "give")
    <3>1. /\ task'[d].locked = task[d].locked /\ task'[d].other = task[d].other
          /\ task'[d].pc \in {"load", "give"}
      BY <1>3, <1>0, <2>3
    <3>2. InPlace(d)'
      BY <1>2, <1>4, <2>1, <3>1 DEF InPlace, WaitingKept
    <3> QED
      BY <1>5, <2>1, <3>2
  <2> QED
    BY <2>1, <2>2, <2>3
<1>24. CASE GiveSemaphore(d)
  <2>1. task[d].other \in Devices
    BY <1>24 DEF GiveSemaphore, Places, InPlace
  <2> QED
    BY <1>4, <1>5, <1>24, <2>1, Returns, Semaphores DEF GiveSemaphore, InPlace, WaitingKept
<1>25. CASE LookForQueued(d)
  <2>1. /\ task'[d].pc \in {"queues?", "load", "app"} /\ task'[d].locked = task[d].locked
        /\ task'[d].pc = "load" => task'[d].other \in Devices
    BY <1>25 DEF LookForQueued, BusTypes, TaskRecord
  <2> QED
    BY <1>2, <1>4, <1>5, <1>6, <1>25, <2>1 DEF LookForQueued, InPlace
<1> QED
  BY <1>7, <1>8, <1>9, <1>10, <1>11, <1>12, <1>13, <1>14, <1>15, <1>16, <1>17, <1>18, <1>19,
     <1>20, <1>21, <1>22, <1>23, <1>24, <1>25 DEF WalkingAction

-----------------------------------------------------------------------------
(* OwnerInv *)

Contends(d) == task[d].pc \in {"clear", "cas", "check", "blocked"}

\* The part of OwnerInv about one device.
OwnerOf(d) ==
    /\ HasBus(d) => host.acquire_cs = d
    /\ host.acquire_cs = d => HasBus(d) \/ Contends(d)
    /\ task[d].pc \in {"cas", "check", "blocked"} /\ dev[d].semphr_polling => host.acquire_cs = d

\* The ownership of the bus, device by device.
LEMMA OwnerParts ==
    OwnerInv <=> /\ \A d \in Devices : OwnerOf(d)
                 /\ host.bus_locked <=> \E d \in Devices : task[d].locked
BY DEF OwnerInv, OwnerOf, Contends

\* The bus has one owner.
LEMMA OneHasBus ==
    ASSUME OwnerInv, NEW d \in Devices, NEW e \in Devices, HasBus(d), HasBus(e)
    PROVE  d = e
BY DEF OwnerInv

\* A task that goes on while the bus stays where it is.
LEMMA OwnerStays ==
    ASSUME OwnerInv, NEW d \in Devices, OthersKeep(d),
           host'.acquire_cs = host.acquire_cs, host'.bus_locked = host.bus_locked,
           task'[d].locked = task[d].locked,
           \A e \in Devices : e # d => dev'[e].semphr_polling = dev[e].semphr_polling,
           OwnerOf(d)'
    PROVE  OwnerInv'
<1>1. \A e \in Devices : e # d => OwnerOf(e)'
  BY OwnerParts DEF OthersKeep, OwnerOf, HasBus, Polls, Contends
<1>2. \A e \in Devices : task'[e].locked = task[e].locked
  BY DEF OthersKeep
<1>3. host'.bus_locked <=> \E e \in Devices : task'[e].locked
  BY <1>2, OwnerParts
<1> QED
  BY <1>1, <1>3 DEF OwnerInv, OwnerOf, Contends

\* Every step of a task that only walks leaves the bus with one owner.
LEMMA WalkOwner ==
    ASSUME SpiMasterAssumption, BusTypes, Places, OwnerInv, NEW d \in Devices, WalkingAction(d),
           over' = "no"
    PROVE  OwnerInv'
<1>1. OthersKeep(d) /\ task'[d].trans = task[d].trans
  BY WalkingWalks DEF Walks
<1>2. \A l \in {"app", "result", "acquire", "own", "spin", "uninstall", "release"} \union Acquiring
                \union WaitingForIsr \union Releasing \union Invoking : l \in TaskPlaces
  BY DEF TaskPlaces
<1>3. ASSUME NEW l \in TaskPlaces, Continue(d, l)
      PROVE  task'[d].pc = l /\ task'[d].locked = task[d].locked
  BY <1>3, Continues
<1>4. OwnerOf(d) /\ InPlace(d)
  BY OwnerParts DEF Places
<1>5. ASSUME UNCHANGED <<host, dev>>, task'[d].locked = task[d].locked, OwnerOf(d)'
      PROVE  OwnerInv'
  BY <1>1, <1>5, OwnerStays
<1>6. NO_CS \notin Devices
  BY SpiMasterAssumption DEF SpiMasterAssumption, NO_CS
<1> HIDE DEF OwnerOf, InPlace
<1> USE DEF At, history, Acquiring, Releasing, Invoking, WaitingForIsr
<1>7. CASE AcquireBus(d)
  <2>1. /\ task[d].pc = "app" /\ task'[d].pc = "acquire" /\ task[d].trans = NoBuffer
        /\ task'[d].locked = task[d].locked /\ UNCHANGED <<host, dev>>
    BY <1>2, <1>3, <1>7 DEF AcquireBus
  <2>2. OwnerOf(d)'
    BY <1>1, <1>4, <2>1 DEF OwnerOf, HasBus, Polls, Contends, InPlace
  <2> QED
    BY <1>5, <2>1, <2>2
<1>8. CASE InvokeLoad(d)
  <2>1. /\ task[d].pc = "load" /\ UNCHANGED <<host, dev>>
        /\ Return(d) \/ Continue(d, "enable")
    BY <1>8 DEF InvokeLoad
  <2>2. task'[d].locked = task[d].locked /\ task'[d].pc \in {"app", "result", "enable"}
    <3>1. CASE Return(d)
      BY <3>1, Returns
    <3>2. CASE Continue(d, "enable")
      BY <1>2, <1>3, <3>2
    <3> QED
      BY <2>1, <3>1, <3>2
  <2>3. OwnerOf(d)'
    BY <1>1, <1>4, <2>1, <2>2 DEF OwnerOf, HasBus, Polls, Contends, InPlace
  <2> QED
    BY <1>5, <2>1, <2>2, <2>3
<1>9. CASE InvokeEnable(d)
  <2>1. task[d].pc = "enable" /\ UNCHANGED <<host, dev>> /\ Return(d)
    BY <1>9 DEF InvokeEnable
  <2>2. task'[d].locked = task[d].locked /\ task'[d].pc \in {"app", "result"}
    BY <2>1, Returns
  <2>3. OwnerOf(d)'
    BY <1>1, <1>4, <2>1, <2>2 DEF OwnerOf, HasBus, Polls, Contends, InPlace
  <2> QED
    BY <1>5, <2>1, <2>2, <2>3
<1>10. CASE AcquireInternal(d)
  <2>1. CASE host.acquire_cs = d
    <3>1. task[d].pc = "acquire" /\ Continue(d, "isr") /\ UNCHANGED <<host, dev>>
      BY <1>10, <2>1 DEF AcquireInternal
    <3>2. task'[d].locked = task[d].locked /\ task'[d].pc = "isr"
      BY <1>2, <1>3, <3>1
    <3>3. OwnerOf(d)'
      BY <2>1, <3>1, <3>2 DEF OwnerOf, HasBus
    <3> QED
      BY <1>5, <3>1, <3>2, <3>3
  <2>2. CASE host.acquire_cs # d
    <3>1. /\ task[d].pc = "acquire" /\ Continue(d, "clear") /\ UNCHANGED host
          /\ dev' = [dev EXCEPT ![d].waiting = TRUE]
      BY <1>10, <2>2 DEF AcquireInternal
    <3>2. task'[d].locked = task[d].locked /\ task'[d].pc = "clear"
      BY <1>2, <1>3, <3>1
    <3>3. SemaphoresKept
      BY <3>1, DevType, WaitingAssigned
    <3>4. OwnerOf(d)'
      BY <1>4, <2>2, <3>1, <3>2 DEF OwnerOf, HasBus, Polls, Contends
    <3> QED
      BY <1>1, <3>1, <3>2, <3>3, <3>4, OwnerStays DEF SemaphoresKept
  <2> QED
    BY <2>1, <2>2
<1>11. CASE ClearSemaphore(d)
  <2>1. /\ UNCHANGED host /\ Clear(d)
        /\ \/ task[d].pc = "clear" /\ Continue(d, "cas")
           \/ task[d].pc = "clear isr" /\ Continue(d, "recheck")
    BY <1>11 DEF ClearSemaphore
  <2>2. /\ task'[d].locked = task[d].locked
        /\ \/ task[d].pc = "clear" /\ task'[d].pc = "cas"
           \/ task[d].pc = "clear isr" /\ task'[d].pc = "recheck"
    BY <1>2, <1>3, <2>1
  <2>3. /\ ~ dev'[d].semphr_polling
        /\ \A e \in Devices : e # d => dev'[e].semphr_polling = dev[e].semphr_polling
    <3>1. dev' = [dev EXCEPT ![d].semphr_polling = FALSE]
      BY <2>1 DEF Clear
    <3> QED
      BY <3>1, DevType, SemaphoreAssigned
  <2>4. OwnerOf(d)'
    BY <1>1, <1>4, <2>1, <2>2, <2>3 DEF OwnerOf, HasBus, Polls, Contends
  <2> QED
    BY <1>1, <2>1, <2>2, <2>3, <2>4, OwnerStays
<1>12. CASE TryAcquire(d)
  <2>1. /\ task[d].pc = "cas" /\ task'[d].pc = "check" /\ task'[d].locked = task[d].locked
        /\ UNCHANGED dev
    BY <1>2, <1>3, <1>12 DEF TryAcquire
  <2>2. /\ host'.acquire_cs = IF host.acquire_cs = NO_CS THEN d ELSE host.acquire_cs
        /\ host'.bus_locked = host.bus_locked
    BY <1>12, Exchanges DEF TryAcquire
  <2>3. OwnerOf(d)'
    BY <1>1, <1>4, <1>6, <2>1, <2>2 DEF OwnerOf, HasBus, Polls, Contends
  <2>4. ASSUME NEW e \in Devices, e # d
        PROVE  OwnerOf(e)'
    <3>1. OwnerOf(e) /\ task'[e] = task[e]
      BY <1>1, <2>4, OwnerParts DEF OthersKeep
    <3> QED
      BY <1>6, <2>1, <2>2, <2>4, <3>1 DEF OwnerOf, HasBus, Polls, Contends
  <2>5. \A e \in Devices : task'[e].locked = task[e].locked
    BY <1>1, <2>1 DEF OthersKeep
  <2> QED
    BY <2>2, <2>3, <2>4, <2>5, OwnerParts DEF OwnerInv, OwnerOf, Contends
<1>13. CASE CheckAcquired(d)
  <2>1. /\ task[d].pc = "check" /\ UNCHANGED <<host, dev>> /\ task'[d].locked = task[d].locked
        /\ task'[d].pc = IF host.acquire_cs = d THEN "acquired" ELSE "blocked"
    BY <1>2, <1>3, <1>13 DEF CheckAcquired
  <2>2. OwnerOf(d)'
    BY <1>1, <1>4, <2>1 DEF OwnerOf, HasBus, Polls, Contends
  <2> QED
    BY <1>5, <2>1, <2>2
<1>14. CASE TakeSemaphore(d)
  <2>1. /\ UNCHANGED host /\ Take(d)
        /\ \/ task[d].pc = "blocked" /\ Continue(d, "acquired")
           \/ task[d].pc = "blocked isr" /\ Continue(d, "own")
    BY <1>14 DEF TakeSemaphore
  <2>2. /\ task'[d].locked = task[d].locked
        /\ \/ task[d].pc = "blocked" /\ task'[d].pc = "acquired"
           \/ task[d].pc = "blocked isr" /\ task'[d].pc = "own"
    BY <1>2, <1>3, <2>1
  <2>3. dev[d].semphr_polling /\ dev' = [dev EXCEPT ![d].semphr_polling = FALSE]
    BY <2>1 DEF Take
  <2>4. \A e \in Devices : e # d => dev'[e].semphr_polling = dev[e].semphr_polling
    BY <2>3, DevType, SemaphoreAssigned
  <2>5. host.acquire_cs = d
    BY <1>4, <2>2, <2>3 DEF OwnerOf, HasBus
  <2>6. OwnerOf(d)'
    BY <1>1, <2>1, <2>2, <2>5 DEF OwnerOf, HasBus
  <2> QED
    BY <1>1, <2>1, <2>2, <2>4, <2>6, OwnerStays
<1>15. CASE StopWaiting(d)
  <2>1. /\ task[d].pc = "acquired" /\ Continue(d, "isr") /\ UNCHANGED host
        /\ dev' = [dev EXCEPT ![d].waiting = FALSE]
    BY <1>15 DEF StopWaiting
  <2>2. task'[d].locked = task[d].locked /\ task'[d].pc = "isr"
    BY <1>2, <1>3, <2>1
  <2>3. SemaphoresKept
    BY <2>1, DevType, WaitingAssigned
  <2>4. OwnerOf(d)'
    BY <1>4, <2>1, <2>2 DEF OwnerOf, HasBus
  <2> QED
    BY <1>1, <2>1, <2>2, <2>3, <2>4, OwnerStays DEF SemaphoresKept
<1>16. CASE WaitForIsrIdle(d)
  <2>1. /\ task[d].pc \in {"isr", "recheck"}
        /\ task'[d].pc \in {"own", "clear isr", "blocked isr"}
        /\ task'[d].locked = task[d].locked /\ UNCHANGED <<host, dev>>
    BY <1>2, <1>3, <1>16 DEF WaitForIsrIdle
  <2>2. OwnerOf(d)'
    BY <1>1, <1>4, <2>1 DEF OwnerOf, HasBus, Polls, Contends, InPlace
  <2> QED
    BY <1>5, <2>1, <2>2
<1>17. CASE LockBus(d)
  <2>1. /\ task[d].pc = "own" /\ host' = [host EXCEPT !.bus_locked = TRUE] /\ UNCHANGED dev
        /\ task' = [task EXCEPT ![d].pc = "app", ![d].locked = TRUE]
    BY <1>17 DEF LockBus
  <2>2. host'.bus_locked /\ host'.acquire_cs = host.acquire_cs
    BY <2>1, HostType DEF HostRecord
  <2>3. task'[d].locked
    BY <2>1 DEF BusTypes, TaskRecord
  <2>4. OwnerOf(d)'
    BY <1>4, <2>1, <2>2, <2>3 DEF OwnerOf, HasBus
  <2>5. \A e \in Devices : e # d => OwnerOf(e)'
    BY <1>1, <2>1, <2>2, OwnerParts, ZenonT(30) DEF OthersKeep, OwnerOf, HasBus, Polls, Contends
  <2> QED
    BY <2>2, <2>3, <2>4, <2>5 DEF OwnerInv, OwnerOf, Contends
<1>18. CASE PollingEnd(d)
  <2>1. /\ task[d].pc = "app" /\ task[d].trans # NoBuffer /\ UNCHANGED <<host, dev>>
        /\ UNCHANGED task \/ Continue(d, "spin")
    BY <1>18 DEF PollingEnd
  <2>2. task'[d].locked = task[d].locked /\ task'[d].pc \in {"app", "spin"}
    <3>1. CASE UNCHANGED task
      BY <2>1, <3>1
    <3>2. CASE Continue(d, "spin")
      BY <1>2, <1>3, <3>2
    <3> QED
      BY <2>1, <3>1, <3>2
  <2>3. OwnerOf(d)'
    BY <1>1, <1>4, <2>1, <2>2 DEF OwnerOf, HasBus, Polls, Contends
  <2> QED
    BY <1>5, <2>1, <2>2, <2>3
<1>19. CASE ReleaseBus(d)
  <2>1. /\ task[d].locked /\ host' = [host EXCEPT !.bus_locked = FALSE] /\ UNCHANGED dev
        /\ task' = [task EXCEPT ![d].pc = "release", ![d].locked = FALSE]
    BY <1>19 DEF ReleaseBus
  <2>2. ~ host'.bus_locked /\ host'.acquire_cs = host.acquire_cs
    BY <2>1, HostType DEF HostRecord
  <2>3. task'[d].pc = "release" /\ ~ task'[d].locked
    BY <2>1 DEF BusTypes, TaskRecord
  <2>4. OwnerOf(d)'
    BY <1>4, <2>1, <2>2, <2>3 DEF OwnerOf, HasBus
  <2>5. \A e \in Devices : e # d => OwnerOf(e)'
    BY <1>1, <2>1, <2>2, OwnerParts DEF OthersKeep, OwnerOf, HasBus, Polls, Contends
  <2>6. \A e \in Devices : ~ task'[e].locked
    BY <1>1, <2>1, <2>3, OneHasBus DEF OthersKeep, HasBus
  <2> QED
    BY <2>2, <2>4, <2>5, <2>6 DEF OwnerInv, OwnerOf, Contends
<1>20. CASE ReleaseInternal(d)
  <2>1. /\ task[d].pc = "release" /\ host' = [host EXCEPT !.acquire_cs = NO_CS] /\ UNCHANGED dev
        /\ task' = [task EXCEPT ![d].pc = "waiting?", ![d].other = 0]
    BY <1>20 DEF ReleaseInternal
  <2>2. host'.bus_locked = host.bus_locked /\ host'.acquire_cs = NO_CS
    BY <2>1, HostType DEF HostRecord
  <2>3. task'[d].pc = "waiting?" /\ task'[d].locked = task[d].locked
    BY <2>1 DEF BusTypes, TaskRecord
  <2>4. OwnerOf(d)'
    BY <1>1, <1>4, <1>6, <2>1, <2>2, <2>3 DEF OwnerOf, HasBus, Polls, InPlace
  <2>5. ASSUME NEW e \in Devices, e # d
        PROVE  OwnerOf(e)'
    <3>1. OwnerOf(e) /\ task'[e] = task[e] /\ host.acquire_cs = d
      BY <1>1, <1>4, <2>1, <2>5, OwnerParts DEF OthersKeep, OwnerOf, HasBus
    <3> QED
      BY <1>6, <2>1, <2>2, <2>5, <3>1 DEF OwnerOf, HasBus, Polls, Contends
  <2>6. \A e \in Devices : task'[e].locked = task[e].locked
    BY <1>1, <2>3 DEF OthersKeep
  <2> QED
    BY <2>2, <2>4, <2>5, <2>6, OwnerParts DEF OwnerInv, OwnerOf, Contends
<1>21. CASE LookForWaiting(d)
  <2>1. /\ task'[d].pc \in {"waiting?", "gift", "queues?"} /\ task'[d].locked = task[d].locked
        /\ task[d].pc = "waiting?" /\ UNCHANGED <<host, dev>>
    BY <1>21 DEF LookForWaiting, BusTypes, TaskRecord
  <2>2. OwnerOf(d)'
    BY <1>1, <1>4, <2>1 DEF OwnerOf, HasBus, Polls, Contends, InPlace
  <2> QED
    BY <1>5, <2>1, <2>2
<1>22. CASE AcquireFor(d)
  <2> DEFINE o == task[d].other
  <2>1. o \in Devices /\ task[d].pc = "gift" /\ UNCHANGED dev /\ dev[o].waiting /\ CompareExchange(o)
    BY <1>22, <1>4 DEF AcquireFor, Stale, InPlace
  <2>2. task'[d].pc = "gift check" /\ task'[d].locked = task[d].locked
    BY <1>2, <1>3, <1>22 DEF AcquireFor
  <2>3. /\ host'.acquire_cs = IF host.acquire_cs = NO_CS THEN o ELSE host.acquire_cs
        /\ host'.bus_locked = host.bus_locked
    BY <2>1, Exchanges
  <2>4. InPlace(o)
    BY <2>1 DEF Places
  <2>5. Contends(o) \/ HasBus(o)
    BY <2>1, <2>4 DEF InPlace, Contends, HasBus
  <2>6. o # d
    BY <1>4, <2>1 DEF InPlace
  <2>7. ~ HasBus(d) /\ ~ Contends(d) /\ ~ HasBus(d)'
    BY <1>1, <1>4, <2>1, <2>2 DEF InPlace, HasBus, Polls, Contends
  <2> HIDE DEF o
  <2>8. OwnerOf(d)'
    BY <1>4, <1>6, <2>2, <2>3, <2>6, <2>7 DEF OwnerOf
  <2>9. ASSUME NEW e \in Devices, e # d
        PROVE  OwnerOf(e)'
    <3>1. OwnerOf(e) /\ task'[e] = task[e]
      BY <1>1, <2>9, OwnerParts DEF OthersKeep
    <3>2. (HasBus(e)' <=> HasBus(e)) /\ (Contends(e)' <=> Contends(e))
      BY <3>1 DEF HasBus, Polls, Contends
    <3> QED
      BY <1>6, <2>1, <2>3, <2>5, <2>9, <3>1, <3>2 DEF OwnerOf
  <2>10. \A e \in Devices : task'[e].locked = task[e].locked
    BY <1>1, <2>2 DEF OthersKeep
  <2> QED
    BY <2>3, <2>8, <2>9, <2>10, OwnerParts DEF OwnerInv, OwnerOf, Contends
<1>23. CASE CheckGift(d)
  <2>1. /\ task[d].pc = "gift check" /\ UNCHANGED <<host, dev>>
        /\ Return(d) \/ Continue(d, "load") \/ Continue(d, "give")
    BY <1>23 DEF CheckGift
  <2>2. task'[d].locked = task[d].locked /\ task'[d].pc \in {"app", "result", "load", "give"}
    <3>1. CASE Return(d)
      BY <3>1, Returns
    <3>2. CASE Continue(d, "load") \/ Continue(d, "give")
      BY <1>2, <1>3, <3>2
    <3> QED
      BY <2>1, <3>1, <3>2
  <2>3. OwnerOf(d)'
    BY <1>1, <1>4, <2>1, <2>2 DEF OwnerOf, HasBus, Polls, Contends, InPlace
  <2> QED
    BY <1>5, <2>1, <2>2, <2>3
<1>24. CASE GiveSemaphore(d)
  <2> DEFINE o == task[d].other
  <2>1. /\ o \in Devices /\ task[d].pc = "give" /\ UNCHANGED host /\ Give(o) /\ host.acquire_cs = o
        /\ Return(d)
    BY <1>24, <1>4 DEF GiveSemaphore, Stale, InPlace
  <2> HIDE DEF o
  <2>2. task'[d].locked = task[d].locked /\ task'[d].pc \in {"app", "result"}
    BY <2>1, Returns
  <2>3. \A e \in Devices : e # o => dev'[e].semphr_polling = dev[e].semphr_polling
    BY <2>1, Semaphores
  <2>4. OwnerOf(d)'
    BY <1>1, <1>4, <2>1, <2>2 DEF OwnerOf, HasBus, Polls, Contends, InPlace
  <2>5. ASSUME NEW e \in Devices, e # d
        PROVE  OwnerOf(e)'
    <3>1. OwnerOf(e) /\ task'[e] = task[e]
      BY <1>1, <2>5, OwnerParts DEF OthersKeep
    <3> QED
      BY <2>1, <2>3, <3>1 DEF OwnerOf, HasBus, Polls, Contends
  <2>6. \A e \in Devices : task'[e].locked = task[e].locked
    BY <1>1, <2>2 DEF OthersKeep
  <2> QED
    BY <2>1, <2>4, <2>5, <2>6, OwnerParts DEF OwnerInv, OwnerOf, Contends
<1>25. CASE LookForQueued(d)
  <2>1. /\ task'[d].pc \in {"queues?", "load", "app"} /\ task'[d].locked = task[d].locked
        /\ task[d].pc = "queues?" /\ UNCHANGED <<host, dev>>
    BY <1>25 DEF LookForQueued, BusTypes, TaskRecord
  <2>2. OwnerOf(d)'
    BY <1>1, <1>4, <2>1 DEF OwnerOf, HasBus, Polls, Contends, InPlace
  <2> QED
    BY <1>5, <2>1, <2>2
<1> QED
  BY <1>7, <1>8, <1>9, <1>10, <1>11, <1>12, <1>13, <1>14, <1>15, <1>16,
     <1>17, <1>18, <1>19, <1>20, <1>21, <1>22, <1>23, <1>24, <1>25 DEF WalkingAction

-----------------------------------------------------------------------------
(* A bus that is polled *)

\* Where the tasks go that only walk, as far as their polling transactions go: nobody
\* invokes the handler for a queue that is empty.
LEMMA WalkPolls ==
    ASSUME SpiMasterAssumption, BusTypes, Places, PollInv, NEW d \in Devices, WalkingAction(d)
    PROVE  /\ task'[d].pc \notin Invoking \union {"uninstall"}
           /\ task'[d].pc = "spin" => task[d].trans # NoBuffer
           /\ Polls(d)' <=> Polls(d)
<1>1. OthersKeep(d) /\ task'[d].trans = task[d].trans
  BY WalkingWalks DEF Walks
<1>2. \A l \in {"app", "result", "acquire", "own", "spin", "uninstall", "release"} \union Acquiring
                \union WaitingForIsr \union Releasing \union Invoking : l \in TaskPlaces
  BY DEF TaskPlaces
<1>3. ASSUME NEW l \in TaskPlaces, Continue(d, l)
      PROVE  task'[d].pc = l
  BY <1>3, Continues
<1>4. /\ InPlace(d) /\ task[d].pc \notin Invoking
      /\ \A e \in Devices : dev[e].trans_queue = <<>>
  BY DEF Places, PollInv, PollOf
<1> HIDE DEF InPlace
<1> USE DEF At, history, Acquiring, Releasing, Invoking, WaitingForIsr
<1>5. CASE AcquireBus(d) \/ LockBus(d) \/ ReleaseBus(d)
  <2>1. task[d].trans = NoBuffer /\ task'[d].pc \in {"acquire", "app", "release"}
    <3>1. CASE AcquireBus(d)
      BY <1>2, <1>3, <3>1 DEF AcquireBus
    <3>2. CASE LockBus(d) \/ ReleaseBus(d)
      BY <3>2 DEF LockBus, ReleaseBus, BusTypes, TaskRecord
    <3> QED
      BY <1>5, <3>1, <3>2
  <2> QED
    BY <1>1, <2>1 DEF Polls
<1>6. CASE InvokeLoad(d) \/ InvokeEnable(d)
  BY <1>4, <1>6 DEF InvokeLoad, InvokeEnable
<1>7. CASE AcquireInternal(d) \/ ClearSemaphore(d) \/ TryAcquire(d) \/ CheckAcquired(d)
            \/ TakeSemaphore(d) \/ StopWaiting(d) \/ WaitForIsrIdle(d)
  <2>1. /\ task[d].pc \notin {"app", "spin"}
        /\ \E l \in Acquiring \union WaitingForIsr \union {"own"} : Continue(d, l)
    BY <1>7 DEF AcquireInternal, ClearSemaphore, TryAcquire, CheckAcquired, TakeSemaphore,
                StopWaiting, WaitForIsrIdle
  <2>2. task'[d].pc \in Acquiring \union WaitingForIsr \union {"own"}
    BY <1>2, <1>3, <2>1
  <2> QED
    BY <2>1, <2>2 DEF Polls
<1>8. CASE PollingEnd(d)
  <2>1. /\ task[d].pc = "app" /\ task[d].trans # NoBuffer
        /\ UNCHANGED task \/ Continue(d, "spin")
    BY <1>8 DEF PollingEnd
  <2>2. task'[d].pc \in {"app", "spin"}
    <3>1. CASE UNCHANGED task
      BY <2>1, <3>1
    <3>2. CASE Continue(d, "spin")
      BY <1>2, <1>3, <3>2
    <3> QED
      BY <2>1, <3>1, <3>2
  <2> QED
    BY <1>1, <2>1, <2>2 DEF Polls
<1>9. CASE ReleaseInternal(d) \/ LookForWaiting(d) \/ AcquireFor(d) \/ CheckGift(d)
            \/ GiveSemaphore(d) \/ LookForQueued(d)
  <2>1. task[d].trans = NoBuffer
    BY <1>4, <1>9 DEF InPlace, ReleaseInternal, LookForWaiting, AcquireFor, CheckGift, GiveSemaphore,
                      LookForQueued
  <2>2. task'[d].pc \in Releasing \union {"app", "result"}
    <3>1. CASE ReleaseInternal(d)
      BY <3>1 DEF ReleaseInternal, BusTypes, TaskRecord
    <3>2. CASE LookForWaiting(d)
      BY <3>2, ZenonT(30) DEF LookForWaiting, BusTypes, TaskRecord
    <3>3. CASE AcquireFor(d)
      BY <1>2, <1>3, <3>3 DEF AcquireFor
    <3>4. CASE CheckGift(d)
      <4>1. task[d].other \in Devices
        BY <1>4, <3>4 DEF CheckGift, InPlace
      <4>2. Return(d) \/ Continue(d, "give")
        BY <1>4, <3>4, <4>1 DEF CheckGift
      <4> QED
        BY <1>2, <1>3, <4>2, Returns
    <3>5. CASE GiveSemaphore(d)
      BY <3>5, Returns DEF GiveSemaphore
    <3>6. CASE LookForQueued(d)
      BY <1>4, <3>6 DEF LookForQueued, BusTypes, TaskRecord
    <3> QED
      BY <1>9, <3>1, <3>2, <3>3, <3>4, <3>5, <3>6
  <2> QED
    BY <1>1, <2>1, <2>2 DEF Polls
<1> QED
  BY <1>5, <1>6, <1>7, <1>8, <1>9 DEF WalkingAction

\* So they leave the transactions of a polled bus as they are.
LEMMA WalkPollInv ==
    ASSUME SpiMasterAssumption, BusTypes, Places, PollInv, NEW d \in Devices, WalkingAction(d)
    PROVE  PollInv'
<1>1. Walks(d)
  BY WalkingWalks
<1>2. /\ task'[d].pc \notin Invoking \union {"uninstall"}
      /\ task'[d].pc = "spin" => task[d].trans # NoBuffer
      /\ Polls(d)' <=> Polls(d)
  BY WalkPolls
<1>3. /\ UNCHANGED <<airborne, trodden, wire, isr>>
      /\ host'.cur_cs = host.cur_cs /\ host'.cur_trans_buf = host.cur_trans_buf
      /\ host'.polling = host.polling /\ host'.isr_free = host.isr_free
      /\ \A e \in Devices : /\ dev'[e].trans_queue = dev[e].trans_queue
                           /\ dev'[e].ret_queue = dev[e].ret_queue
                           /\ task'[e].trans = task[e].trans
  BY <1>1 DEF Walks, HardwareKept, OthersKeep, TransQueuesKept, RetQueuesKept
<1>4. HandlerOff'
  BY <1>1, <1>3 DEF Walks, PollInv, PollOf, HandlerOff, Invoking
<1>5. \A e \in Devices : Polls(e)' <=> Polls(e)
  BY <1>1, <1>2 DEF Walks, OthersKeep, Polls
<1>6. ASSUME NEW e \in Devices
      PROVE  PollOf(e)'
  <2>1. PollOf(e)
    BY DEF PollInv
  <2>2. /\ task'[e].pc \notin Invoking
        /\ task'[e].pc \in {"spin", "uninstall"} => task'[e].trans # NoBuffer
    BY <1>1, <1>2, <1>3, <2>1 DEF Walks, OthersKeep, PollOf
  <2> QED
    BY <1>3, <1>5, <2>1, <2>2 DEF PollOf
<1>7. PollWire'
  BY <1>3, <1>5 DEF PollInv, PollWire, BusTypes, BusTypeOK
<1> QED
  BY <1>4, <1>6, <1>7 DEF PollInv

\* The types of a step, variable by variable.
LEMMA TypesFrom ==
    ASSUME BusTypes, UNCHANGED uses,
           host' \in HostRecord, dev' \in [Devices -> DeviceRecord], task' \in [Devices -> TaskRecord],
           \A e \in Devices : /\ Len(dev'[e].trans_queue) <= QueueSize
                              /\ Len(dev'[e].ret_queue) <= QueueSize,
           intr' \in BOOLEAN, wire' \subseteq [trans : BusTransactions, cs : Devices],
           isr' \in [pc : IsrPlaces, cs : 0 .. NO_CS],
           airborne' \in [Devices -> Seq(BusTransactions)], trodden' \in BOOLEAN, lost' \in BOOLEAN
    PROVE  BusTypes'
<1>1. /\ isr'.cs \in 0 .. NO_CS
      /\ \A e \in Devices : /\ task'[e].trans \in BusTransactions \union {NoBuffer}
                           /\ task'[e].other \in 0 .. NO_CS
  BY DEF TaskRecord
<1>2. uses' \in Styles
  BY DEF BusTypes, BusTypeOK
<1> QED
  BY <1>1, <1>2 DEF BusTypes, BusTypeOK, HostRecord, DeviceRecord

\* The types of what stays.
LEMMA TypesKept ==
    ASSUME BusTypes
    PROVE  /\ intr \in BOOLEAN /\ wire \subseteq [trans : BusTransactions, cs : Devices]
           /\ isr \in [pc : IsrPlaces, cs : 0 .. NO_CS]
           /\ airborne \in [Devices -> Seq(BusTransactions)] /\ trodden \in BOOLEAN /\ lost \in BOOLEAN
           /\ dev \in [Devices -> DeviceRecord] /\ host \in HostRecord
           /\ task \in [Devices -> TaskRecord]
           /\ \A e \in Devices : /\ Len(dev[e].trans_queue) <= QueueSize
                                /\ Len(dev[e].ret_queue) <= QueueSize
BY DevType, HostType DEF BusTypes, BusTypeOK

\* spi_device_polling_start fills cur_trans_buf: whoever relies on it is trodden on.
LEMMA PollingStartStep ==
    ASSUME SpiMasterAssumption, BusTypes, Places, OwnerInv, PollInv,
           NEW d \in Devices, NEW t \in BusTransactions, PollingStart(d, t)
    PROVE  BusTypes' /\ Places' /\ OwnerInv' /\ PollInv'
<1> USE DEF At
<1>1. /\ task[d].pc = "app" /\ task[d].trans = NoBuffer /\ t[1] = d /\ t # NoBuffer
      /\ UNCHANGED <<dev, intr, wire, isr, uses, airborne, lost>>
      /\ trodden' = (trodden \/ BufferInUse)
  BY TransactionIsBuffer DEF PollingStart
<1>2. /\ task' \in [Devices -> TaskRecord] /\ OthersKeep(d)
      /\ task'[d].pc = "acquire" /\ task'[d].trans = t /\ task'[d].locked = task[d].locked
  <2>1. task' = [task EXCEPT ![d].pc = "acquire", ![d].trans = t]
    BY DEF PollingStart
  <2>2. "acquire" \in TaskPlaces
    BY DEF TaskPlaces
  <2> QED
    BY <2>1, <2>2 DEF BusTypes, TaskRecord, OthersKeep
<1>3. /\ host' \in HostRecord /\ host'.cur_trans_buf = t
      /\ host'.cur_cs = host.cur_cs /\ host'.acquire_cs = host.acquire_cs
      /\ host'.polling = host.polling /\ host'.isr_free = host.isr_free
      /\ host'.bus_locked = host.bus_locked
  <2>1. host' = [host EXCEPT !.cur_trans_buf = t]
    BY DEF PollingStart
  <2> QED
    BY <2>1, HostType DEF HostRecord
<1>4. BusTypes'
  <2>1. trodden' \in BOOLEAN
    BY <1>1, TypesKept DEF BufferInUse
  <2> QED
    BY <1>1, <1>2, <1>3, <2>1, TypesKept, TypesFrom
<1>5. Places'
  <2>1. InPlace(d)'
    BY <1>1, <1>2 DEF Places, InPlace, Acquiring, Releasing, Invoking
  <2> QED
    BY <1>1, <1>2, <2>1, OneInPlace
<1>6. OwnerInv'
  <2>1. OwnerOf(d)'
    BY <1>1, <1>2, <1>3, OwnerParts DEF OwnerOf, HasBus, Polls, Contends, WaitingForIsr
  <2> QED
    BY <1>1, <1>2, <1>3, <2>1, OwnerStays
<1>7. PollInv'
  <2>1. ~ Polls(d) /\ ~ Polls(d)' /\ \A e \in Devices : e # d => (Polls(e)' <=> Polls(e))
    BY <1>1, <1>2 DEF Polls, OthersKeep
  <2>2. ~ trodden' => host.cur_cs = NO_CS /\ \A e \in Devices : task[e].trans = NoBuffer
    BY <1>1 DEF BufferInUse
  <2>3. ASSUME NEW e \in Devices, e # d
        PROVE  PollOf(e)'
    <3>1. PollOf(e) /\ task'[e] = task[e]
      BY <1>2, <2>3 DEF PollInv, OthersKeep
    <3> QED
      BY <1>1, <1>3, <2>1, <2>2, <2>3, <3>1 DEF PollOf
  <2>4. PollOf(d)'
    BY <1>1, <1>2, <1>3, <2>1 DEF PollInv, PollOf, Invoking
  <2>5. PollWire'
    <3>1. \A w \in wire : w.cs \in Devices /\ w.cs = host.cur_cs
      BY DEF PollInv, PollWire, BusTypes, BusTypeOK
    <3>2. ~ trodden' => wire = {}
      BY <2>2, <3>1, SpiMasterAssumption DEF SpiMasterAssumption, NO_CS
    <3>3. \A e \in Devices : host'.cur_cs = e => Polls(e)' /\ host'.polling
      BY <1>3, <2>1 DEF PollInv, PollWire
    <3> QED
      BY <1>1, <1>3, <3>1, <3>2, <3>3 DEF PollWire
  <2>6. HandlerOff'
    BY <1>1, <1>3 DEF PollInv, HandlerOff
  <2> QED
    BY <2>3, <2>4, <2>5, <2>6 DEF PollInv
<1> QED
  BY <1>4, <1>5, <1>6, <1>7

\* The end of spi_device_polling_start finds what it asserts, and nothing on the wire.
LEMMA StartPollingStep ==
    ASSUME SpiMasterAssumption, BusTypes, Places, OwnerInv, PollInv, NEW d \in Devices, StartPolling(d)
    PROVE  UNCHANGED over /\ BusTypes' /\ Places' /\ OwnerInv' /\ PollInv'
<1> USE DEF At
<1>1. /\ task[d].pc = "own" /\ task[d].trans # NoBuffer
      /\ UNCHANGED <<dev, intr, isr, uses, airborne, trodden, lost>>
  BY DEF StartPolling
<1>2. host.acquire_cs = d /\ host.isr_free
  BY <1>1 DEF OwnerInv, HasBus, PollInv, HandlerOff
<1>3. /\ host' = [host EXCEPT !.polling = TRUE, !.cur_cs = d]
      /\ wire' = wire \union {[trans |-> host.cur_trans_buf, cs |-> d]}
      /\ Continue(d, "app") /\ UNCHANGED over
  BY <1>2 DEF StartPolling
<1>4. /\ task' \in [Devices -> TaskRecord] /\ OthersKeep(d)
      /\ task'[d].pc = "app" /\ task'[d].trans = task[d].trans /\ task'[d].locked = task[d].locked
  <2>1. "app" \in TaskPlaces
    BY DEF TaskPlaces
  <2> QED
    BY <1>3, <2>1, Continues
<1>5. /\ host' \in HostRecord /\ host'.cur_cs = d /\ host'.polling
      /\ host'.cur_trans_buf = host.cur_trans_buf /\ host'.acquire_cs = host.acquire_cs
      /\ host'.isr_free = host.isr_free /\ host'.bus_locked = host.bus_locked
  BY <1>3, HostType DEF HostRecord
<1>6. host.cur_trans_buf # NoBuffer /\ (~ trodden => host.cur_trans_buf = task[d].trans)
  BY <1>1 DEF PollInv, PollOf
<1>7. BusTypes'
  <2>1. wire' \subseteq [trans : BusTransactions, cs : Devices]
    BY <1>3, <1>6, TypesKept DEF HostRecord
  <2> QED
    BY <1>1, <1>4, <1>5, <2>1, TypesKept, TypesFrom
<1>8. Places'
  <2>1. InPlace(d)'
    BY <1>1, <1>4 DEF Places, InPlace, Acquiring, Releasing, Invoking
  <2> QED
    BY <1>1, <1>4, <2>1, OneInPlace
<1>9. OwnerInv'
  <2>1. OwnerOf(d)'
    BY <1>1, <1>2, <1>4, <1>5 DEF OwnerOf, HasBus, Polls
  <2> QED
    BY <1>1, <1>4, <1>5, <2>1, OwnerStays
<1>10. PollInv'
  <2>1. \A e \in Devices : e # d => ~ Polls(e)
    BY <1>2 DEF OwnerInv, HasBus
  <2>2. wire = {}
    <3>1. \A w \in wire : w.cs \in Devices /\ w.cs = host.cur_cs
      BY DEF PollInv, PollWire, BusTypes, BusTypeOK
    <3>2. ~ Polls(d)
      BY <1>1 DEF Polls
    <3> QED
      BY <2>1, <3>1, <3>2 DEF PollInv, PollWire
  <2>3. Polls(d)' /\ \A e \in Devices : e # d => ~ Polls(e)'
    BY <1>1, <1>4, <2>1 DEF Polls, OthersKeep
  <2>4. PollOf(d)'
    BY <1>1, <1>4, <1>5, <2>3 DEF PollInv, PollOf, Invoking
  <2>5. ASSUME NEW e \in Devices, e # d
        PROVE  PollOf(e)'
    <3>1. PollOf(e) /\ task'[e] = task[e]
      BY <1>4, <2>5 DEF PollInv, OthersKeep
    <3> QED
      BY <1>1, <1>5, <2>3, <2>5, <3>1 DEF PollOf
  <2>6. PollWire'
    BY <1>1, <1>3, <1>4, <1>5, <1>6, <2>2, <2>3 DEF PollWire
  <2>7. HandlerOff'
    BY <1>1, <1>5 DEF PollInv, HandlerOff
  <2> QED
    BY <2>4, <2>5, <2>6, <2>7 DEF PollInv
<1> QED
  BY <1>3, <1>7, <1>8, <1>9, <1>10

\* spi_post_trans follows the chip select of the task that polls.
LEMMA PostTransStep ==
    ASSUME SpiMasterAssumption, BusTypes, Places, OwnerInv, PollInv, NEW d \in Devices, PostTrans(d)
    PROVE  UNCHANGED over /\ BusTypes' /\ Places' /\ OwnerInv' /\ PollInv'
<1> USE DEF At
<1>1. /\ task[d].pc = "spin" /\ wire = {}
      /\ UNCHANGED <<dev, intr, wire, isr, uses, airborne, trodden, lost>>
  BY DEF PostTrans
<1>2. task[d].trans # NoBuffer /\ Polls(d) /\ host.cur_cs = d
  BY <1>1 DEF PollInv, PollOf, Polls
<1>3. host' = [host EXCEPT !.cur_cs = NO_CS] /\ Continue(d, "uninstall") /\ UNCHANGED over
  BY <1>2, SpiMasterAssumption DEF PostTrans, SpiMasterAssumption, NO_CS
<1>4. /\ task' \in [Devices -> TaskRecord] /\ OthersKeep(d)
      /\ task'[d].pc = "uninstall" /\ task'[d].trans = task[d].trans /\ task'[d].locked = task[d].locked
  <2>1. "uninstall" \in TaskPlaces
    BY DEF TaskPlaces
  <2> QED
    BY <1>3, <2>1, Continues
<1>5. /\ host' \in HostRecord /\ host'.cur_cs = NO_CS
      /\ host'.cur_trans_buf = host.cur_trans_buf /\ host'.acquire_cs = host.acquire_cs
      /\ host'.isr_free = host.isr_free /\ host'.bus_locked = host.bus_locked
  BY <1>3, HostType DEF HostRecord
<1>6. BusTypes'
  BY <1>1, <1>4, <1>5, TypesKept, TypesFrom
<1>7. Places'
  <2>1. InPlace(d)'
    BY <1>1, <1>4 DEF Places, InPlace, Acquiring, Releasing, Invoking
  <2> QED
    BY <1>1, <1>4, <2>1, OneInPlace
<1>8. OwnerInv'
  <2>1. OwnerOf(d)'
    BY <1>1, <1>2, <1>4, <1>5, OwnerParts DEF OwnerOf, HasBus, Polls
  <2> QED
    BY <1>1, <1>4, <1>5, <2>1, OwnerStays
<1>9. PollInv'
  <2>1. \A e \in Devices : ~ Polls(e)'
    <3>1. \A e \in Devices : e # d => ~ Polls(e)
      BY <1>2 DEF PollInv, PollOf
    <3> QED
      BY <1>4, <3>1 DEF Polls, OthersKeep
  <2>2. PollOf(d)'
    BY <1>1, <1>2, <1>4, <1>5, <2>1 DEF PollInv, PollOf, Invoking
  <2>3. ASSUME NEW e \in Devices, e # d
        PROVE  PollOf(e)'
    <3>1. PollOf(e) /\ task'[e] = task[e]
      BY <1>4, <2>3 DEF PollInv, OthersKeep
    <3> QED
      BY <1>1, <1>5, <2>1, <2>3, <3>1 DEF PollOf
  <2>4. PollWire'
    BY <1>1, <1>5, SpiMasterAssumption DEF PollWire, SpiMasterAssumption, NO_CS
  <2>5. HandlerOff'
    BY <1>1, <1>5 DEF PollInv, HandlerOff
  <2> QED
    BY <2>2, <2>3, <2>4, <2>5 DEF PollInv
<1> QED
  BY <1>3, <1>6, <1>7, <1>8, <1>9

\* The end of spi_device_polling_end keeps the bus if the task has locked it.
LEMMA UninstallStep ==
    ASSUME SpiMasterAssumption, BusTypes, Places, OwnerInv, PollInv, NEW d \in Devices, Uninstall(d)
    PROVE  UNCHANGED over /\ BusTypes' /\ Places' /\ OwnerInv' /\ PollInv'
<1> USE DEF At
<1>1. /\ task[d].pc = "uninstall"
      /\ UNCHANGED <<dev, intr, wire, isr, uses, airborne, trodden, lost, over>>
      /\ host' = [host EXCEPT !.polling = FALSE]
      /\ task' = [task EXCEPT ![d].pc = IF host.bus_locked THEN "app" ELSE "release",
                              ![d].trans = NoBuffer]
  BY DEF Uninstall, history
<1>2. /\ task' \in [Devices -> TaskRecord] /\ OthersKeep(d)
      /\ task'[d].pc = (IF host.bus_locked THEN "app" ELSE "release")
      /\ task'[d].trans = NoBuffer /\ task'[d].locked = task[d].locked
  <2>1. "app" \in TaskPlaces /\ "release" \in TaskPlaces
    BY DEF TaskPlaces
  <2>2. CASE host.bus_locked
    <3>1. task' = [task EXCEPT ![d].pc = "app", ![d].trans = NoBuffer]
      BY <1>1, <2>2
    <3> QED
      BY <2>1, <2>2, <3>1 DEF BusTypes, TaskRecord, OthersKeep
  <2>3. CASE ~ host.bus_locked
    <3>1. task' = [task EXCEPT ![d].pc = "release", ![d].trans = NoBuffer]
      BY <1>1, <2>3
    <3> QED
      BY <2>1, <2>3, <3>1 DEF BusTypes, TaskRecord, OthersKeep
  <2> QED
    BY <2>2, <2>3
<1>3. /\ host' \in HostRecord /\ host'.cur_cs = host.cur_cs
      /\ host'.cur_trans_buf = host.cur_trans_buf /\ host'.acquire_cs = host.acquire_cs
      /\ host'.isr_free = host.isr_free /\ host'.bus_locked = host.bus_locked
  BY <1>1, HostType DEF HostRecord
<1>4. HasBus(d) /\ host.acquire_cs = d
  BY <1>1 DEF OwnerInv, HasBus
<1>5. host.bus_locked <=> task[d].locked
  BY <1>4, OneHasBus DEF OwnerInv, HasBus
<1>6. BusTypes'
  BY <1>1, <1>2, <1>3, TypesKept, TypesFrom
<1>7. Places'
  <2>1. InPlace(d)'
    <3>1. \/ task'[d].pc = "app"
          \/ task'[d].pc = "release" /\ ~ task'[d].locked
      BY <1>2, <1>5
    <3>2. ~ dev[d].waiting /\ UNCHANGED dev
      BY <1>1 DEF Places, InPlace, Acquiring
    <3> QED
      BY <1>2, <3>1, <3>2 DEF InPlace, Acquiring, Releasing, Invoking
  <2> QED
    BY <1>1, <1>2, <2>1, OneInPlace
<1>8. OwnerInv'
  <2>1. OwnerOf(d)'
    BY <1>1, <1>2, <1>3, <1>4, <1>5 DEF OwnerOf, HasBus
  <2> QED
    BY <1>1, <1>2, <1>3, <2>1, OwnerStays
<1>9. PollInv'
  <2>1. \A e \in Devices : ~ Polls(e)
    <3>1. ~ Polls(d)
      BY <1>1 DEF Polls
    <3> QED
      BY <1>4, <3>1, OneHasBus DEF HasBus
  <2>2. \A e \in Devices : ~ Polls(e)' /\ host.cur_cs # e
    BY <1>2, <2>1 DEF Polls, OthersKeep, PollInv, PollWire
  <2>3. PollOf(d)'
    BY <1>1, <1>2, <1>3, <2>2 DEF PollInv, PollOf, Invoking
  <2>4. ASSUME NEW e \in Devices, e # d
        PROVE  PollOf(e)'
    <3>1. PollOf(e) /\ task'[e] = task[e]
      BY <1>2, <2>4 DEF PollInv, OthersKeep
    <3> QED
      BY <1>1, <1>3, <2>2, <3>1 DEF PollOf
  <2>5. PollWire'
    <3>1. \A w \in wire : w.cs \in Devices /\ w.cs = host.cur_cs
      BY DEF PollInv, PollWire, BusTypes, BusTypeOK
    <3>2. wire = {}
      BY <2>2, <3>1
    <3> QED
      BY <1>1, <1>3, <2>2, <3>2 DEF PollWire
  <2>6. HandlerOff'
    BY <1>1, <1>3 DEF PollInv, HandlerOff
  <2> QED
    BY <2>3, <2>4, <2>5, <2>6 DEF PollInv
<1> QED
  BY <1>1, <1>6, <1>7, <1>8, <1>9

\* A transaction that ends leaves the wire.
LEMMA TransDoneKeeps ==
    ASSUME BusTypes, Places, OwnerInv, TransDone
    PROVE  /\ UNCHANGED <<uses, host, dev, intr, task, isr, airborne, trodden, lost, over>>
           /\ wire' \subseteq wire
           /\ BusTypes' /\ Places' /\ OwnerInv'
<1>1. /\ UNCHANGED <<uses, host, dev, intr, task, isr, airborne, trodden, lost, over>>
      /\ wire' \subseteq wire
  BY DEF TransDone, history
<1>2. wire' \subseteq [trans : BusTransactions, cs : Devices]
  BY <1>1, TypesKept
<1>3. BusTypes'
  BY <1>1, <1>2, TypesKept, TypesFrom
<1>4. Places'
  BY <1>1 DEF Places, InPlace
<1>5. OwnerInv'
  BY <1>1 DEF OwnerInv, HasBus, Polls
<1> QED
  BY <1>1, <1>3, <1>4, <1>5

\* Nothing that TransactionsIntact is about has changed, but over.
LeavesWire ==
    /\ UNCHANGED <<wire, trodden, lost>> /\ host'.polling = host.polling
    /\ \A d \in Devices : task'[d].trans = task[d].trans /\ task'[d].locked = task[d].locked

\* A task finds an assertion violated, or that it is stale, without touching a transaction.
LEMMA WalkEnds ==
    ASSUME SpiMasterAssumption, BusTypes, Places, NEW d \in Devices, WalkingAction(d),
           over = "no", over' # "no"
    PROVE  LeavesWire
<1>1. Walks(d)
  BY WalkingWalks
<1>2. \A l \in {"isr", "clear", "gift check", "spin"} : l \in TaskPlaces
  BY DEF TaskPlaces, WaitingForIsr, Acquiring, Releasing
<1>3. ~ \/ AcquireBus(d) \/ InvokeLoad(d) \/ ClearSemaphore(d) \/ TryAcquire(d) \/ CheckAcquired(d)
        \/ TakeSemaphore(d) \/ StopWaiting(d) \/ WaitForIsrIdle(d) \/ LockBus(d) \/ ReleaseBus(d)
        \/ ReleaseInternal(d) \/ LookForWaiting(d) \/ CheckGift(d) \/ LookForQueued(d)
  BY DEF AcquireBus, InvokeLoad, ClearSemaphore, TryAcquire, CheckAcquired, TakeSemaphore,
         StopWaiting, WaitForIsrIdle, LockBus, ReleaseBus, ReleaseInternal, LookForWaiting,
         CheckGift, LookForQueued, history
<1>4. InvokeEnable(d) \/ AcquireInternal(d) \/ PollingEnd(d) \/ AcquireFor(d) \/ GiveSemaphore(d)
  BY <1>3 DEF WalkingAction
<1>5. UNCHANGED task \/ Return(d) \/ \E l \in {"isr", "clear", "gift check", "spin"} : Continue(d, l)
  BY <1>4 DEF InvokeEnable, AcquireInternal, PollingEnd, AcquireFor, GiveSemaphore
<1>6. task'[d].locked = task[d].locked
  BY <1>2, <1>5, Continues, Returns
<1> QED
  BY <1>1, <1>6 DEF LeavesWire, Walks, HardwareKept, OthersKeep

CoreInv == BusTypes /\ Places /\ OwnerInv

\* Every step on a bus that is polled, the failures of assertions among them, which never
\* come.
LEMMA PollStep ==
    ASSUME SpiMasterAssumption, CoreInv, PollOnly, PollInv, over = "no", BusNext
    PROVE  /\ BusTypes'
           /\ (over' = "no" /\ CoreInv' /\ PollInv') \/ (over' = "stale" /\ LeavesWire)
<1> USE DEF CoreInv
<1>1. Isr => FALSE
  BY DEF PollInv, HandlerOff, Isr, IsrAt, Interrupt, ReturnTrans, Begin, Disable, WhoseQueue,
         ReceiveOwner, TellOwner, ReceiveAny, SendTrans, Reenable
<1>2. CASE TransDone
  <2>1. /\ UNCHANGED <<uses, host, dev, intr, task, isr, airborne, trodden, lost, over>>
        /\ wire' \subseteq wire /\ BusTypes' /\ Places' /\ OwnerInv'
    BY <1>2, TransDoneKeeps
  <2>2. HandlerOff' /\ PollWire' /\ \A d \in Devices : PollOf(d)'
    BY <2>1 DEF PollInv, HandlerOff, PollWire, PollOf, Polls
  <2> QED
    BY <2>1, <2>2 DEF PollInv
<1>3. ASSUME NEW d \in Devices, WalkingAction(d)
      PROVE  /\ BusTypes'
             /\ (over' = "no" /\ CoreInv' /\ PollInv') \/ (over' = "stale" /\ LeavesWire)
  <2>1. over' \in {"no", "stale"}
    <3>1. CASE AcquireInternal(d)
      <4>1. host.acquire_cs = d => host.bus_locked
        BY <3>1 DEF AcquireInternal, At, OwnerInv, HasBus, Polls, WaitingForIsr
      <4> QED
        BY <3>1, <4>1 DEF AcquireInternal
    <3>2. CASE PollingEnd(d)
      <4>1. Polls(d)
        BY <3>2 DEF PollingEnd, At, Polls
      <4>2. host.cur_cs = host.acquire_cs
        BY <4>1 DEF PollInv, PollOf, OwnerInv, HasBus
      <4> QED
        BY <3>2, <4>2 DEF PollingEnd
    <3>3. CASE \/ AcquireBus(d) \/ InvokeLoad(d) \/ InvokeEnable(d) \/ ClearSemaphore(d)
               \/ TryAcquire(d) \/ CheckAcquired(d) \/ TakeSemaphore(d) \/ StopWaiting(d)
               \/ WaitForIsrIdle(d) \/ LockBus(d) \/ ReleaseBus(d) \/ ReleaseInternal(d)
               \/ LookForWaiting(d) \/ AcquireFor(d) \/ CheckGift(d) \/ GiveSemaphore(d)
               \/ LookForQueued(d)
      BY <3>3 DEF AcquireBus, InvokeLoad, InvokeEnable, ClearSemaphore, TryAcquire, CheckAcquired,
                  TakeSemaphore, StopWaiting, WaitForIsrIdle, LockBus, ReleaseBus, ReleaseInternal,
                  LookForWaiting, AcquireFor, CheckGift, GiveSemaphore, LookForQueued, history, Stale
    <3> QED
      BY <1>3, <3>1, <3>2, <3>3 DEF WalkingAction
  <2>2. BusTypes' /\ PollInv'
    BY <1>3, WalkingWalks, WalkTypes, WalkPollInv
  <2>3. over' = "no" => Places' /\ OwnerInv'
    BY <1>3, WalkPlaces, WalkOwner
  <2>4. over' = "stale" => LeavesWire
    BY <1>3, WalkEnds
  <2> QED
    BY <2>1, <2>2, <2>3, <2>4
<1>4. ASSUME NEW d \in Devices, Call(d), ~ AcquireBus(d)
      PROVE  /\ UNCHANGED over /\ BusTypes' /\ PollInv' /\ Places' /\ OwnerInv'
  <2>1. ASSUME NEW t \in BusTransactions, PollingStart(d, t)
        PROVE  /\ UNCHANGED over /\ BusTypes' /\ PollInv' /\ Places' /\ OwnerInv'
    BY <2>1, PollingStartStep DEF PollingStart
  <2>2. \A t \in BusTransactions, call \in uses[d].calls : ~ Queue(d, t, call)
    BY DEF Queue, PollOnly
  <2> QED
    BY <1>4, <2>1, <2>2 DEF Call
<1>5. ASSUME NEW d \in Devices, Proceed(d), ~ WalkingAction(d)
      PROVE  /\ UNCHANGED over /\ BusTypes' /\ PollInv' /\ Places' /\ OwnerInv'
  <2>1. ~ GetTransResult(d)
    BY DEF GetTransResult, PollInv, PollOf
  <2>2. StartPolling(d) \/ PostTrans(d) \/ Uninstall(d)
    BY <1>5, <2>1 DEF Proceed, WalkingAction
  <2> QED
    BY <2>2, StartPollingStep, PostTransStep, UninstallStep
<1> QED
  BY <1>1, <1>2, <1>3, <1>4, <1>5 DEF BusNext, WalkingAction

-----------------------------------------------------------------------------
(* A bus that is queued on *)

\* A transaction that is queued comes last.
LEMMA QueuedComesLast ==
    ASSUME NEW r \in Seq(BusTransactions), NEW w \in Seq(BusTransactions),
           NEW q \in Seq(BusTransactions), NEW x \in BusTransactions
    PROVE  Append(r \o w \o q, x) = r \o w \o Append(q, x)
<1>1. r \o w \in Seq(BusTransactions) /\ r \o w \o q \in Seq(BusTransactions) /\ <<x>> \in Seq(BusTransactions)
  BY ConcatProperties
<1>2. Append(r \o w \o q, x) = (r \o w \o q) \o <<x>> /\ Append(q, x) = q \o <<x>>
  BY <1>1, AppendIsConcat
<1> QED
  BY <1>1, <1>2, ConcatAssociative, SMTT(30)

\* The first that is returned is the first of all.
LEMMA ReturnedComesFirst ==
    ASSUME NEW r \in Seq(BusTransactions), NEW w \in Seq(BusTransactions),
           NEW q \in Seq(BusTransactions), r # <<>>
    PROVE  /\ r \o w \o q # <<>> /\ Head(r \o w \o q) = Head(r)
           /\ Tail(r \o w \o q) = Tail(r) \o w \o q
<1> DEFINE first == Head(r)
           rest == Tail(r)
           others == w \o q
<1>1. first \in BusTransactions /\ rest \in Seq(BusTransactions) /\ r = <<first>> \o rest
  BY HeadTailProperties
<1>2. /\ others \in Seq(BusTransactions) /\ <<first>> \in Seq(BusTransactions)
      /\ rest \o w \in Seq(BusTransactions)
  BY <1>1, ConcatProperties
<1>3. r \o w \o q = r \o others
  BY ConcatAssociative
<1>4. r \o others = <<first>> \o (rest \o others)
  BY <1>1, <1>2, ConcatAssociative
<1>5. rest \o others = rest \o w \o q
  BY <1>1, ConcatAssociative, SMTT(30)
<1> HIDE DEF first, rest, others
<1>6. /\ <<first>> \o (rest \o others) # <<>>
      /\ Head(<<first>> \o (rest \o others)) = first
      /\ Tail(<<first>> \o (rest \o others)) = rest \o others
  <2> DEFINE tail == rest \o others
  <2>1. tail \in Seq(BusTransactions)
    BY <1>1, <1>2, ConcatProperties
  <2> HIDE DEF tail
  <2>2. <<first>> \o tail # <<>> /\ Head(<<first>> \o tail) = first /\ Tail(<<first>> \o tail) = tail
    BY <1>1, <2>1
  <2> QED
    BY <2>2 DEF tail
<1> QED
  BY <1>3, <1>4, <1>5, <1>6 DEF first, rest

\* The handler or the hardware has a transaction of d in hand.
WorksFor(d) == (isr.pc \in {"return", "send"} /\ isr.cs = d) \/ host.cur_cs = d

\* What is between the two queues of a device, when nobody polls.
LEMMA AtWorkIs ==
    ASSUME ~ host.polling, NEW d
    PROVE  AtWork(d) = IF WorksFor(d) THEN <<host.cur_trans_buf>> ELSE <<>>
BY DEF AtWork, WorksFor

\* A task that only walks and comes to rely on the handler has found, or has been told, that
\* it has ended; and it tells nobody who waits for the handler.
LEMMA WalkRelies ==
    ASSUME SpiMasterAssumption, BusTypes, Places, OwnerInv, QueueInv, NEW d \in Devices,
           WalkingAction(d), over' = "no"
    PROVE  /\ task'[d].pc \notin {"spin", "uninstall"}
           /\ ReliesOnIsr(d)' => SafeFor(d)
           /\ \A e \in Devices : e # d /\ ReliesOnIsr(e)' => ReliesOnIsr(e)
<1>1. OthersKeep(d) /\ task'[d].trans = task[d].trans
  BY WalkingWalks DEF Walks
<1>2. \A l \in {"app", "result", "acquire", "own", "spin", "uninstall", "release"} \union Acquiring
                \union WaitingForIsr \union Releasing \union Invoking : l \in TaskPlaces
  BY DEF TaskPlaces
<1>3. ASSUME NEW l \in TaskPlaces, Continue(d, l)
      PROVE  task'[d].pc = l /\ task'[d].locked = task[d].locked
  BY <1>3, Continues
<1>4. InPlace(d) /\ task[d].trans = NoBuffer /\ (ReliesOnIsr(d) => SafeFor(d))
  BY DEF Places, QueueInv, QueueOf
<1> DEFINE Lets(p) == p \notin {"spin", "uninstall", "own", "recheck", "blocked isr"}
<1>5. ASSUME SemaphoresKept PROVE \A e \in Devices : e # d /\ ReliesOnIsr(e)' => ReliesOnIsr(e)
  BY <1>1, <1>5 DEF OthersKeep, SemaphoresKept, ReliesOnIsr
<1>6. ASSUME UNCHANGED dev PROVE SemaphoresKept
  BY <1>6 DEF SemaphoresKept
<1>7. ASSUME Lets(task'[d].pc), task'[d].locked => task[d].locked
      PROVE  task'[d].pc \notin {"spin", "uninstall"} /\ (ReliesOnIsr(d)' => SafeFor(d))
  BY <1>4, <1>7 DEF ReliesOnIsr
<1> HIDE DEF InPlace
<1> USE DEF At, history, Acquiring, Releasing, Invoking, WaitingForIsr
<1>8. CASE AcquireBus(d) \/ TryAcquire(d) \/ CheckAcquired(d) \/ AcquireFor(d)
  <2>1. UNCHANGED dev /\ \E l \in {"acquire", "check", "acquired", "blocked", "gift check"} : Continue(d, l)
    BY <1>8 DEF AcquireBus, TryAcquire, CheckAcquired, AcquireFor
  <2>2. Lets(task'[d].pc) /\ task'[d].locked = task[d].locked
    BY <1>2, <1>3, <2>1
  <2> QED
    BY <1>5, <1>6, <1>7, <2>1, <2>2
<1>9. CASE InvokeLoad(d) \/ InvokeEnable(d) \/ CheckGift(d)
  <2>1. UNCHANGED dev /\ (Return(d) \/ \E l \in {"enable", "load", "give"} : Continue(d, l))
    BY <1>9 DEF InvokeLoad, InvokeEnable, CheckGift
  <2>2. Lets(task'[d].pc) /\ task'[d].locked = task[d].locked
    <3>1. CASE Return(d)
      BY <3>1, Returns
    <3>2. CASE \E l \in {"enable", "load", "give"} : Continue(d, l)
      BY <1>2, <1>3, <3>2
    <3> QED
      BY <2>1, <3>1, <3>2
  <2> QED
    BY <1>5, <1>6, <1>7, <2>1, <2>2
<1>10. CASE AcquireInternal(d)
  <2>1. /\ UNCHANGED dev \/ dev' = [dev EXCEPT ![d].waiting = TRUE]
        /\ \E l \in {"isr", "clear"} : Continue(d, l)
    BY <1>10 DEF AcquireInternal
  <2>2. Lets(task'[d].pc) /\ task'[d].locked = task[d].locked
    BY <1>2, <1>3, <2>1
  <2>3. SemaphoresKept
    BY <1>6, <2>1, DevType, WaitingAssigned
  <2> QED
    BY <1>5, <1>7, <2>2, <2>3
<1>11. CASE ClearSemaphore(d)
  <2>1. Clear(d) /\ \E l \in {"cas", "recheck"} : Continue(d, l)
    BY <1>11 DEF ClearSemaphore
  <2>2. task'[d].pc \in {"cas", "recheck"} /\ task'[d].locked = task[d].locked
    BY <1>2, <1>3, <2>1
  <2>3. /\ ~ dev'[d].semphr_polling
        /\ \A e \in Devices : e # d => dev'[e].semphr_polling = dev[e].semphr_polling
    <3>1. dev' = [dev EXCEPT ![d].semphr_polling = FALSE]
      BY <2>1 DEF Clear
    <3> QED
      BY <3>1, DevType, SemaphoreAssigned
  <2>4. ReliesOnIsr(d)' => ReliesOnIsr(d)
    BY <2>2, <2>3 DEF ReliesOnIsr
  <2>5. \A e \in Devices : e # d /\ ReliesOnIsr(e)' => ReliesOnIsr(e)
    BY <1>1, <2>3 DEF OthersKeep, ReliesOnIsr
  <2> QED
    BY <1>4, <2>2, <2>4, <2>5
<1>12. CASE TakeSemaphore(d)
  <2>1. /\ \/ task[d].pc = "blocked" /\ Continue(d, "acquired")
           \/ task[d].pc = "blocked isr" /\ Continue(d, "own")
        /\ Take(d)
    BY <1>12 DEF TakeSemaphore
  <2>2. /\ task'[d].locked = task[d].locked
        /\ \/ task[d].pc = "blocked" /\ task'[d].pc = "acquired"
           \/ task[d].pc = "blocked isr" /\ task'[d].pc = "own"
    BY <1>2, <1>3, <2>1
  <2>3. dev[d].semphr_polling /\ dev' = [dev EXCEPT ![d].semphr_polling = FALSE]
    BY <2>1 DEF Take
  <2>4. \A e \in Devices : e # d => dev'[e].semphr_polling = dev[e].semphr_polling
    BY <2>3, DevType, SemaphoreAssigned
  <2>5. ReliesOnIsr(d)' => ReliesOnIsr(d)
    BY <2>2, <2>3 DEF ReliesOnIsr
  <2>6. \A e \in Devices : e # d /\ ReliesOnIsr(e)' => ReliesOnIsr(e)
    BY <1>1, <2>4 DEF OthersKeep, ReliesOnIsr
  <2> QED
    BY <1>4, <2>2, <2>5, <2>6
<1>13. CASE StopWaiting(d)
  <2>1. Continue(d, "isr") /\ dev' = [dev EXCEPT ![d].waiting = FALSE]
    BY <1>13 DEF StopWaiting
  <2>2. Lets(task'[d].pc) /\ task'[d].locked = task[d].locked
    <3>1. task'[d].pc = "isr" /\ task'[d].locked = task[d].locked
      BY <1>2, <1>3, <2>1
    <3> QED
      BY <3>1
  <2>3. SemaphoresKept
    BY <2>1, DevType, WaitingAssigned
  <2> QED
    BY <1>5, <1>7, <2>2, <2>3
<1>14. CASE WaitForIsrIdle(d)
  <2>1. /\ UNCHANGED dev
        /\ \/ host.isr_free /\ Continue(d, "own")
           \/ Continue(d, "clear isr")
           \/ task[d].pc = "recheck" /\ Continue(d, "blocked isr")
    BY <1>14 DEF WaitForIsrIdle
  <2>2. /\ task'[d].locked = task[d].locked
        /\ \/ host.isr_free /\ task'[d].pc = "own"
           \/ task'[d].pc = "clear isr"
           \/ task[d].pc = "recheck" /\ task'[d].pc = "blocked isr"
    BY <1>2, <1>3, <2>1
  <2>3. host.isr_free => SafeFor(d)
    BY DEF QueueInv, HandlerInv, SafeFor
  <2>4. ReliesOnIsr(d)' => SafeFor(d)
    BY <1>4, <2>1, <2>2, <2>3 DEF ReliesOnIsr
  <2> QED
    BY <1>5, <1>6, <2>1, <2>2, <2>4
<1>15. CASE LockBus(d)
  <2>1. /\ task[d].pc = "own" /\ UNCHANGED dev
        /\ task' = [task EXCEPT ![d].pc = "app", ![d].locked = TRUE]
    BY <1>15 DEF LockBus
  <2>2. task'[d].pc = "app"
    BY <2>1 DEF BusTypes, TaskRecord
  <2>3. SafeFor(d)
    BY <1>4, <2>1 DEF ReliesOnIsr
  <2> QED
    BY <1>5, <1>6, <2>1, <2>2, <2>3
<1>16. CASE PollingEnd(d)
  BY <1>4, <1>16 DEF PollingEnd
<1>17. CASE ReleaseBus(d) \/ ReleaseInternal(d)
  <2>1. UNCHANGED dev /\ Lets(task'[d].pc) /\ (task'[d].locked => task[d].locked)
    <3>1. CASE ReleaseBus(d)
      BY <3>1 DEF ReleaseBus, BusTypes, TaskRecord
    <3>2. CASE ReleaseInternal(d)
      BY <3>2 DEF ReleaseInternal, BusTypes, TaskRecord
    <3> QED
      BY <1>17, <3>1, <3>2
  <2> QED
    BY <1>5, <1>6, <1>7, <2>1
<1>18. CASE LookForWaiting(d) \/ LookForQueued(d)
  <2>1. UNCHANGED dev /\ Lets(task'[d].pc) /\ task'[d].locked = task[d].locked
    <3>1. CASE LookForWaiting(d)
      BY <3>1 DEF LookForWaiting, BusTypes, TaskRecord
    <3>2. CASE LookForQueued(d)
      BY <3>2 DEF LookForQueued, BusTypes, TaskRecord
    <3> QED
      BY <1>18, <3>1, <3>2
  <2> QED
    BY <1>5, <1>6, <1>7, <2>1
<1>19. CASE GiveSemaphore(d)
  <2> DEFINE o == task[d].other
  <2>1. o \in Devices /\ Give(o) /\ dev[o].waiting /\ Return(d) /\ task[d].pc = "give"
    BY <1>4, <1>19 DEF GiveSemaphore, Stale, InPlace
  <2>2. task[o].pc \in Acquiring /\ o # d
    BY <1>4, <2>1 DEF Places, InPlace
  <2> HIDE DEF o
  <2>3. Lets(task'[d].pc) /\ task'[d].locked = task[d].locked
    BY <2>1, Returns
  <2>4. \A e \in Devices : e # o => dev'[e].semphr_polling = dev[e].semphr_polling
    BY <2>1, Semaphores
  <2>5. \A e \in Devices : e # d /\ ReliesOnIsr(e)' => ReliesOnIsr(e)
    BY <1>1, <2>2, <2>4 DEF OthersKeep, ReliesOnIsr
  <2> QED
    BY <1>7, <2>3, <2>5
<1> QED
  BY <1>8, <1>9, <1>10, <1>11, <1>12, <1>13, <1>14, <1>15, <1>16, <1>17,
     <1>18, <1>19 DEF WalkingAction

\* What the devices have queued is the same, and in the same hands.
HandsKept ==
    /\ UNCHANGED <<airborne, lost>> /\ TransQueuesKept /\ RetQueuesKept
    /\ host'.cur_trans_buf = host.cur_trans_buf /\ ~ host'.polling
    /\ \A e \in Devices : WorksFor(e)' <=> WorksFor(e)

\* What neither handler nor hardware touches stays accounted for.
LEMMA HandsKeptAccounts ==
    ASSUME QueueInv, HandsKept, NEW d \in Devices
    PROVE  Accounted(d)'
<1>1. AtWork(d)' = AtWork(d)
  <2>1. AtWork(d)' = IF WorksFor(d)' THEN <<host.cur_trans_buf>> ELSE <<>>
    BY DEF AtWork, WorksFor, HandsKept
  <2>2. AtWork(d) = IF WorksFor(d) THEN <<host.cur_trans_buf>> ELSE <<>>
    BY AtWorkIs DEF QueueInv
  <2> QED
    BY <2>1, <2>2 DEF HandsKept
<1>2. Accounted(d)
  BY DEF QueueInv, QueueOf
<1> QED
  BY <1>1, <1>2 DEF HandsKept, TransQueuesKept, RetQueuesKept, Accounted

\* So a task that only walks leaves the transactions of a bus that is queued on as they are.
LEMMA WalkQueueInv ==
    ASSUME SpiMasterAssumption, BusTypes, Places, OwnerInv, QueueInv, NEW d \in Devices,
           WalkingAction(d), over' = "no"
    PROVE  QueueInv'
<1>1. Walks(d)
  BY WalkingWalks
<1>2. /\ task'[d].pc \notin {"spin", "uninstall"}
      /\ ReliesOnIsr(d)' => SafeFor(d)
      /\ \A e \in Devices : e # d /\ ReliesOnIsr(e)' => ReliesOnIsr(e)
  BY WalkRelies
<1>3. /\ UNCHANGED <<trodden, wire, isr>>
      /\ host'.cur_cs = host.cur_cs /\ host'.cur_trans_buf = host.cur_trans_buf
      /\ host'.polling = host.polling /\ host'.isr_free = host.isr_free
      /\ \A e \in Devices : dev'[e].trans_queue = dev[e].trans_queue
  BY <1>1 DEF Walks, HardwareKept, TransQueuesKept
<1>4. HandsKept
  BY <1>1, <1>3 DEF Walks, HardwareKept, HandsKept, WorksFor, QueueInv
<1>5. ASSUME NEW e \in Devices
      PROVE  QueueOf(e)'
  <2>1. QueueOf(e)
    BY DEF QueueInv
  <2>2. Accounted(e)'
    BY <1>4, HandsKeptAccounts
  <2>3. task'[e].trans = NoBuffer /\ task'[e].pc \notin {"spin", "uninstall"}
    BY <1>1, <1>2, <2>1 DEF Walks, OthersKeep, QueueOf
  <2>4. ReliesOnIsr(e)' => SafeFor(e)'
    BY <1>2, <1>3, <2>1 DEF QueueOf, SafeFor
  <2> QED
    BY <1>3, <2>1, <2>2, <2>3, <2>4 DEF QueueOf
<1>6. HandlerInv' /\ QueueWire'
  BY <1>3 DEF QueueInv, HandlerInv, QueueWire
<1> QED
  BY <1>3, <1>5, <1>6 DEF QueueInv

\* What is in hand is a sequence of transactions.
LEMMA AtWorkType ==
    ASSUME BusTypes, HandlerInv, ~ host.polling, NEW d \in Devices
    PROVE  AtWork(d) \in Seq(BusTransactions) /\ Len(AtWork(d)) \in Nat
<1>1. WorksFor(d) => host.cur_trans_buf \in BusTransactions
  <2>1. WorksFor(d) => host.cur_trans_buf # NoBuffer
    BY SpiMasterAssumption DEF WorksFor, HandlerInv, SpiMasterAssumption, NO_CS
  <2> QED
    BY <2>1, HostType DEF HostRecord
<1>2. AtWork(d) = IF WorksFor(d) THEN <<host.cur_trans_buf>> ELSE <<>>
  BY AtWorkIs
<1>3. AtWork(d) \in Seq(BusTransactions)
  BY <1>1, <1>2
<1> QED
  BY <1>3, LenProperties

\* A device that no step touches.
LEMMA OtherAccounted ==
    ASSUME QueueInv, NEW e \in Devices, airborne'[e] = airborne[e], lost' = lost,
           dev'[e].trans_queue = dev[e].trans_queue, dev'[e].ret_queue = dev[e].ret_queue,
           AtWork(e)' = AtWork(e)
    PROVE  Accounted(e)'
BY DEF QueueInv, QueueOf, Accounted

\* spi_device_queue_trans, and the call in spi_device_transmit.
LEMMA QueueStep ==
    ASSUME SpiMasterAssumption, BusTypes, Places, OwnerInv, QueueInv, NEW d \in Devices,
           NEW t \in BusTransactions, NEW call \in uses[d].calls, Queue(d, t, call)
    PROVE  UNCHANGED over /\ BusTypes' /\ Places' /\ OwnerInv' /\ QueueInv'
<1> USE DEF At
<1>1. /\ task[d].pc = "app" /\ t[1] = d /\ Len(dev[d].trans_queue) < QueueSize
      /\ UNCHANGED <<uses, host, intr, wire, isr, trodden, lost, over>>
      /\ dev' = [dev EXCEPT ![d].trans_queue = Append(dev[d].trans_queue, t)]
      /\ airborne' = [airborne EXCEPT ![d] = Append(airborne[d], t)]
      /\ task' = [task EXCEPT ![d].pc = "load", ![d].transmits = (call = "transmit"), ![d].other = d]
  BY DEF Queue
<1> DEFINE queue == dev[d].trans_queue
           longer == Append(queue, t)
<1>2. /\ queue \in Seq(BusTransactions) /\ longer \in Seq(BusTransactions)
      /\ dev[d].ret_queue \in Seq(BusTransactions) /\ airborne[d] \in Seq(BusTransactions)
      /\ Len(longer) = Len(queue) + 1 /\ Len(queue) \in Nat /\ QueueSize \in Nat
      /\ \A i \in 1 .. Len(queue) : longer[i] = queue[i]
      /\ longer[Len(queue) + 1] = t
  <2>1. queue \in Seq(BusTransactions) /\ dev[d].ret_queue \in Seq(BusTransactions)
    BY DevType DEF DeviceRecord
  <2>2. airborne[d] \in Seq(BusTransactions)
    BY TypesKept
  <2> QED
    BY <2>1, <2>2, AppendProperties, LenProperties, SpiMasterAssumption DEF SpiMasterAssumption
<1>3. /\ dev' \in [Devices -> DeviceRecord] /\ RetQueuesKept /\ SemaphoresKept /\ WaitingKept
      /\ dev'[d].trans_queue = longer
      /\ \A e \in Devices : e # d => dev'[e].trans_queue = dev[e].trans_queue
  BY <1>1, <1>2, DevType, TransQueueAssigned, ZenonT(30)
<1>4. /\ task' \in [Devices -> TaskRecord] /\ OthersKeep(d)
      /\ task'[d].pc = "load" /\ task'[d].trans = task[d].trans /\ task'[d].locked = task[d].locked
      /\ task'[d].other = d
  <2> DEFINE waits == call = "transmit"
  <2>1. "load" \in TaskPlaces /\ d \in 0 .. NO_CS /\ waits \in BOOLEAN
    BY SpiMasterAssumption DEF TaskPlaces, Invoking, SpiMasterAssumption, NO_CS
  <2>2. task' = [task EXCEPT ![d].pc = "load", ![d].transmits = waits, ![d].other = d]
    BY <1>1
  <2> HIDE DEF waits
  <2> QED
    BY <2>1, <2>2, ZenonT(30) DEF BusTypes, TaskRecord, OthersKeep
<1>5. task[d].trans = NoBuffer
  BY DEF QueueInv, QueueOf
<1>6. BusTypes'
  <2>1. airborne' \in [Devices -> Seq(BusTransactions)]
    <3>1. Append(airborne[d], t) \in Seq(BusTransactions)
      BY <1>2, AppendProperties
    <3> QED
      BY <1>1, <3>1, TypesKept
  <2>2. \A e \in Devices : Len(dev'[e].ret_queue) <= QueueSize
    BY <1>3, TypesKept DEF RetQueuesKept
  <2>3. Len(longer) <= QueueSize
    BY <1>1, <1>2
  <2>4. \A e \in Devices : Len(dev'[e].trans_queue) <= QueueSize
    BY <1>3, <2>3, TypesKept
  <2> HIDE DEF longer, queue
  <2> QED
    BY <1>1, <1>3, <1>4, <2>1, <2>2, <2>4, TypesKept, TypesFrom
<1> HIDE DEF longer, queue
<1>7. Places'
  <2>1. InPlace(d)'
    BY <1>1, <1>3, <1>4, <1>5 DEF Places, InPlace, WaitingKept, Acquiring, Releasing, Invoking
  <2> QED
    BY <1>3, <1>4, <2>1, OneInPlace DEF WaitingKept
<1>8. OwnerInv'
  <2>1. OwnerOf(d)'
    BY <1>1, <1>3, <1>4, <1>5, OwnerParts DEF OwnerOf, HasBus, Polls, Contends, WaitingForIsr
  <2> QED
    BY <1>1, <1>3, <1>4, <2>1, OwnerStays DEF SemaphoresKept
<1>9. \A e \in Devices : AtWork(e)' = AtWork(e)
  BY <1>1 DEF AtWork
<1>10. Accounted(d)'
  <2>1. AtWork(d) \in Seq(BusTransactions) /\ Len(AtWork(d)) \in Nat
    BY AtWorkType DEF QueueInv
  <2>2. Accounted(d)
    BY DEF QueueInv, QueueOf
  <2>3. airborne'[d] = Append(airborne[d], t) /\ Len(airborne'[d]) = Len(airborne[d]) + 1
    BY <1>1, <1>2, TypesKept, AppendProperties
  <2>4. dev'[d].ret_queue = dev[d].ret_queue
    BY <1>3 DEF RetQueuesKept
  <2>5. Len(dev[d].ret_queue) \in Nat /\ Len(airborne[d]) \in Nat
    BY <1>2, LenProperties
  <2>6. Len(airborne'[d]) >= Len(dev'[d].ret_queue) + Len(AtWork(d)) + Len(longer)
    <3>1. Len(airborne[d]) >= Len(dev[d].ret_queue) + Len(AtWork(d)) + Len(queue)
      BY <2>2 DEF Accounted, queue
    <3>2. Len(longer) = Len(queue) + 1 /\ Len(queue) \in Nat
      BY <1>2
    <3>3. /\ Len(dev'[d].ret_queue) = Len(dev[d].ret_queue)
          /\ Len(airborne'[d]) = Len(airborne[d]) + 1 /\ Len(AtWork(d)) \in Nat
      BY <2>1, <2>3, <2>4
    <3> DEFINE a == Len(airborne[d])
               b == Len(airborne'[d])
               r == Len(dev[d].ret_queue)
               p == Len(dev'[d].ret_queue)
               w == Len(AtWork(d))
               q == Len(queue)
               l == Len(longer)
    <3>4. /\ a \in Nat /\ r \in Nat /\ w \in Nat /\ q \in Nat
          /\ a >= r + w + q /\ b = a + 1 /\ p = r /\ l = q + 1
      BY <2>5, <3>1, <3>2, <3>3
    <3> HIDE DEF a, b, r, p, w, q, l
    <3>5. b >= p + w + l
      BY <3>4
    <3> QED
      BY <3>5 DEF b, p, w, l
  <2>7. ~ lost => airborne'[d] = dev'[d].ret_queue \o AtWork(d) \o longer
    <3>1. ~ lost => airborne[d] = dev[d].ret_queue \o AtWork(d) \o queue
      BY <2>2 DEF Accounted, queue
    <3>2. Append(dev[d].ret_queue \o AtWork(d) \o queue, t) = dev[d].ret_queue \o AtWork(d) \o longer
      <4> DEFINE r == dev[d].ret_queue
                 w == AtWork(d)
      <4>1. r \in Seq(BusTransactions) /\ w \in Seq(BusTransactions) /\ queue \in Seq(BusTransactions)
        BY <1>2, <2>1
      <4> HIDE DEF r, w
      <4>2. Append(r \o w \o queue, t) = r \o w \o Append(queue, t)
        BY <4>1, QueuedComesLast, ZenonT(30)
      <4> QED
        BY <4>2 DEF r, w, longer
    <3> QED
      BY <2>3, <2>4, <3>1, <3>2
  <2> QED
    BY <1>1, <1>3, <1>9, <2>6, <2>7 DEF Accounted
<1>11. ASSUME NEW e \in Devices
       PROVE  QueueOf(e)'
  <2>1. QueueOf(e)
    BY DEF QueueInv
  <2>2. CASE e = d
    <3>1. ASSUME NEW i \in 1 .. Len(longer)
          PROVE  longer[i][1] = d
      <4>1. \A j \in 1 .. Len(queue) : queue[j][1] = d
        BY <2>1, <2>2 DEF QueueOf, queue
      <4>2. i \in 1 .. Len(queue) \/ i = Len(queue) + 1
        BY <1>2
      <4> QED
        BY <1>1, <1>2, <4>1, <4>2
    <3>2. ReliesOnIsr(d)' => ReliesOnIsr(d)
      BY <1>4 DEF ReliesOnIsr
    <3>3. SafeFor(d)' <=> SafeFor(d)
      BY <1>1 DEF SafeFor
    <3> QED
      BY <1>3, <1>4, <1>5, <1>10, <2>1, <2>2, <3>1, <3>2, <3>3 DEF QueueOf
  <2>3. CASE e # d
    <3>1. Accounted(e)'
      BY <1>1, <1>3, <1>9, <2>3, OtherAccounted, TypesKept DEF RetQueuesKept
    <3>2. task'[e] = task[e] /\ dev'[e].semphr_polling = dev[e].semphr_polling
      BY <1>3, <1>4, <2>3 DEF OthersKeep, SemaphoresKept
    <3>3. ReliesOnIsr(e)' => ReliesOnIsr(e)
      BY <1>3, <1>4, <2>3 DEF ReliesOnIsr, OthersKeep, SemaphoresKept
    <3>4. SafeFor(e) => SafeFor(e)'
      BY <1>1 DEF SafeFor
    <3> QED
      BY <1>3, <2>1, <2>3, <3>1, <3>2, <3>3, <3>4 DEF QueueOf
  <2> QED
    BY <2>2, <2>3
<1>12. QueueInv'
  <2>1. ~ host'.polling /\ ~ trodden' /\ HandlerInv' /\ QueueWire'
    BY <1>1 DEF QueueInv, HandlerInv, QueueWire
  <2> QED
    BY <1>11, <2>1 DEF QueueInv
<1> QED
  BY <1>1, <1>6, <1>7, <1>8, <1>12

\* spi_device_get_trans_result: a task that transmits gets its own, if no return queue has
\* overflowed, since it had nothing else on its way.
LEMMA GetTransResultStep ==
    ASSUME SpiMasterAssumption, BusTypes, Places, OwnerInv, QueueInv, NEW d \in Devices,
           GetTransResult(d)
    PROVE  /\ (~ lost => over' = "no") /\ lost' = lost /\ wire' = wire /\ host' = host
           /\ \A e \in Devices : task'[e].locked = task[e].locked
           /\ BusTypes' /\ Places' /\ OwnerInv' /\ QueueInv'
<1> USE DEF At
<1> DEFINE returned == dev[d].ret_queue
           fewer == Tail(returned)
<1>1. /\ task[d].pc \in {"app", "result"} /\ returned # <<>>
      /\ UNCHANGED <<uses, host, intr, wire, isr, trodden, lost>>
      /\ dev' = [dev EXCEPT ![d].ret_queue = fewer]
      /\ airborne' = [airborne EXCEPT ![d] = Tail(airborne[d])]
      /\ task' = [task EXCEPT ![d].pc = "app", ![d].transmits = FALSE]
  BY DEF GetTransResult
<1>2. /\ returned \in Seq(BusTransactions) /\ Len(returned) \in Nat
      /\ fewer \in Seq(BusTransactions) /\ Len(fewer) = Len(returned) - 1
      /\ airborne[d] \in Seq(BusTransactions) /\ Len(airborne[d]) \in Nat
      /\ dev[d].trans_queue \in Seq(BusTransactions) /\ Len(dev[d].trans_queue) \in Nat
  <2>1. returned \in Seq(BusTransactions) /\ dev[d].trans_queue \in Seq(BusTransactions)
    BY DevType DEF DeviceRecord
  <2>2. airborne[d] \in Seq(BusTransactions)
    BY TypesKept
  <2> QED
    BY <1>1, <2>1, <2>2, HeadTailProperties, LenProperties
<1>3. /\ AtWork(d) \in Seq(BusTransactions) /\ Len(AtWork(d)) \in Nat
  BY AtWorkType DEF QueueInv
<1>4. /\ Len(airborne[d]) >= Len(returned) + Len(AtWork(d)) + Len(dev[d].trans_queue)
      /\ ~ lost => airborne[d] = returned \o AtWork(d) \o dev[d].trans_queue
  BY DEF QueueInv, QueueOf, Accounted
<1>5. airborne[d] # <<>>
  <2> DEFINE a == Len(airborne[d])
             r == Len(returned)
             w == Len(AtWork(d))
             q == Len(dev[d].trans_queue)
  <2>1. a \in Nat /\ r \in Nat /\ w \in Nat /\ q \in Nat /\ a >= r + w + q /\ r # 0
    BY <1>1, <1>2, <1>3, <1>4, EmptySeq
  <2> HIDE DEF a, r, w, q
  <2>2. a # 0
    BY <2>1
  <2>3. Len(airborne[d]) # 0
    BY <2>2 DEF a
  <2> QED
    BY <2>3, EmptySeq
<1>6. Tail(airborne[d]) \in Seq(BusTransactions) /\ Len(Tail(airborne[d])) = Len(airborne[d]) - 1
  BY <1>2, <1>5, HeadTailProperties
<1>7. /\ dev' \in [Devices -> DeviceRecord] /\ TransQueuesKept /\ SemaphoresKept /\ WaitingKept
      /\ dev'[d].ret_queue = fewer
      /\ \A e \in Devices : e # d => dev'[e].ret_queue = dev[e].ret_queue
  BY <1>1, <1>2, DevType, RetQueueAssigned
<1>8. /\ task' \in [Devices -> TaskRecord] /\ OthersKeep(d)
      /\ task'[d].pc = "app" /\ task'[d].trans = task[d].trans /\ task'[d].locked = task[d].locked
  <2>1. "app" \in TaskPlaces
    BY DEF TaskPlaces
  <2> QED
    BY <1>1, <2>1, ZenonT(30) DEF BusTypes, TaskRecord, OthersKeep
<1>9. task[d].trans = NoBuffer
  BY DEF QueueInv, QueueOf
<1>10. ~ lost => /\ Head(airborne[d]) = Head(returned)
                 /\ Tail(airborne[d]) = fewer \o AtWork(d) \o dev[d].trans_queue
  <2> DEFINE w == AtWork(d)
             q == dev[d].trans_queue
  <2>1. /\ w \in Seq(BusTransactions) /\ q \in Seq(BusTransactions)
        /\ returned \in Seq(BusTransactions) /\ returned # <<>>
    BY <1>1, <1>2, <1>3
  <2> HIDE DEF w, q, returned
  <2>2. /\ Head(returned \o w \o q) = Head(returned)
        /\ Tail(returned \o w \o q) = Tail(returned) \o w \o q
    BY <2>1, ReturnedComesFirst
  <2>3. ~ lost => airborne[d] = returned \o w \o q
    BY <1>4 DEF w, q
  <2>4. ~ lost => /\ Head(airborne[d]) = Head(returned)
                  /\ Tail(airborne[d]) = Tail(returned) \o w \o q
    BY <2>2, <2>3
  <2> QED
    BY <2>4 DEF w, q
<1>11. ~ lost => over' = "no"
  BY <1>10 DEF GetTransResult
<1>12. airborne' \in [Devices -> Seq(BusTransactions)] /\ airborne'[d] = Tail(airborne[d])
       /\ \A e \in Devices : e # d => airborne'[e] = airborne[e]
  BY <1>1, <1>6, TypesKept
<1>13. Len(fewer) <= QueueSize
  <2>1. Len(returned) <= QueueSize /\ QueueSize \in Nat
    BY TypesKept, SpiMasterAssumption DEF SpiMasterAssumption
  <2> QED
    BY <1>2, <2>1
<1> HIDE DEF returned, fewer
<1>14. BusTypes'
  <2>1. \A e \in Devices : /\ Len(dev'[e].trans_queue) <= QueueSize
                          /\ Len(dev'[e].ret_queue) <= QueueSize
    BY <1>7, <1>13, TypesKept DEF TransQueuesKept
  <2> QED
    BY <1>1, <1>7, <1>8, <1>12, <2>1, TypesKept, TypesFrom
<1>15. Places'
  <2>1. InPlace(d)'
    BY <1>1, <1>7, <1>8, <1>9 DEF Places, InPlace, WaitingKept, Acquiring, Releasing, Invoking
  <2> QED
    BY <1>7, <1>8, <2>1, OneInPlace DEF WaitingKept
<1>16. OwnerInv'
  <2>1. OwnerOf(d)'
    BY <1>1, <1>7, <1>8, <1>9, OwnerParts DEF OwnerOf, HasBus, Polls, Contends, WaitingForIsr
  <2> QED
    BY <1>1, <1>7, <1>8, <2>1, OwnerStays DEF SemaphoresKept
<1>17. \A e \in Devices : AtWork(e)' = AtWork(e)
  BY <1>1 DEF AtWork
<1>18. Accounted(d)'
  <2>1. dev'[d].trans_queue = dev[d].trans_queue
    BY <1>7 DEF TransQueuesKept
  <2>2. Len(airborne'[d]) >= Len(fewer) + Len(AtWork(d)) + Len(dev[d].trans_queue)
    <3> DEFINE a == Len(airborne[d])
               b == Len(airborne'[d])
               r == Len(returned)
               p == Len(fewer)
               w == Len(AtWork(d))
               q == Len(dev[d].trans_queue)
    <3>1. /\ a \in Nat /\ r \in Nat /\ w \in Nat /\ q \in Nat
          /\ a >= r + w + q /\ b = a - 1 /\ p = r - 1
      BY <1>2, <1>3, <1>4, <1>6, <1>12 DEF returned
    <3> HIDE DEF a, b, r, p, w, q
    <3>2. b >= p + w + q
      BY <3>1
    <3> QED
      BY <3>2 DEF b, p, w, q
  <2>3. ~ lost => airborne'[d] = fewer \o AtWork(d) \o dev[d].trans_queue
    BY <1>10, <1>12
  <2> QED
    BY <1>1, <1>7, <1>17, <2>1, <2>2, <2>3 DEF Accounted
<1>19. ASSUME NEW e \in Devices
       PROVE  QueueOf(e)'
  <2>1. QueueOf(e)
    BY DEF QueueInv
  <2>2. Accounted(e)'
    <3>1. CASE e # d
      BY <1>1, <1>7, <1>12, <1>17, <3>1, OtherAccounted DEF TransQueuesKept
    <3> QED
      BY <1>18, <3>1
  <2>3. task'[e].trans = NoBuffer /\ task'[e].pc \notin {"spin", "uninstall"}
    BY <1>8, <1>9, <2>1 DEF OthersKeep, QueueOf
  <2>4. ReliesOnIsr(e)' => ReliesOnIsr(e)
    <3>1. CASE e = d
      BY <1>8, <3>1 DEF ReliesOnIsr
    <3>2. CASE e # d
      BY <1>7, <1>8, <3>2 DEF ReliesOnIsr, OthersKeep, SemaphoresKept
    <3> QED
      BY <3>1, <3>2
  <2>5. SafeFor(e) => SafeFor(e)'
    BY <1>1 DEF SafeFor
  <2> QED
    BY <1>7, <2>1, <2>2, <2>3, <2>4, <2>5 DEF QueueOf, TransQueuesKept
<1>20. QueueInv'
  <2>1. ~ host'.polling /\ ~ trodden' /\ HandlerInv' /\ QueueWire'
    BY <1>1 DEF QueueInv, HandlerInv, QueueWire
  <2> QED
    BY <1>19, <2>1 DEF QueueInv
<1>21. \A e \in Devices : task'[e].locked = task[e].locked
  BY <1>8 DEF OthersKeep
<1> QED
  BY <1>1, <1>11, <1>14, <1>15, <1>16, <1>20, <1>21

-----------------------------------------------------------------------------
(* The interrupt handler on a bus that is queued on *)

\* What no step of the handler touches but the one that tells the owner.
HandlerKeeps ==
    /\ UNCHANGED <<uses, task>> /\ WaitingKept /\ SemaphoresKept
    /\ host'.acquire_cs = host.acquire_cs /\ host'.bus_locked = host.bus_locked
    /\ host'.polling = host.polling

\* A step of the handler that leaves tasks and ownership alone keeps their invariants.
LEMMA HandlerKeepsCore ==
    ASSUME BusTypes, Places, OwnerInv, HandlerKeeps
    PROVE  /\ Places' /\ OwnerInv'
           /\ \A e \in Devices : ReliesOnIsr(e)' <=> ReliesOnIsr(e)
<1>1. Places'
  BY DEF HandlerKeeps, WaitingKept, Places, InPlace
<1>2. OwnerInv'
  BY DEF HandlerKeeps, SemaphoresKept, OwnerInv, HasBus, Polls
<1>3. \A e \in Devices : ReliesOnIsr(e)' <=> ReliesOnIsr(e)
  BY DEF HandlerKeeps, SemaphoresKept, ReliesOnIsr
<1> QED
  BY <1>1, <1>2, <1>3

\* QueueInv, part by part.
LEMMA QueueInvFrom ==
    ASSUME QueueInv, UNCHANGED task, ~ host'.polling, ~ trodden', HandlerInv', QueueWire',
           \A e \in Devices : /\ Accounted(e)'
                              /\ \A i \in 1 .. Len(dev'[e].trans_queue) : dev'[e].trans_queue[i][1] = e
                              /\ ReliesOnIsr(e)' => SafeFor(e)'
    PROVE  QueueInv'
BY DEF QueueInv, QueueOf

\* A step of the handler that hands nothing over.
LEMMA HandlerStep ==
    ASSUME BusTypes, Places, OwnerInv, QueueInv, HandlerKeeps, HandsKept, UNCHANGED trodden,
           HandlerInv', QueueWire',
           \A e \in Devices : ReliesOnIsr(e) /\ SafeFor(e) => SafeFor(e)'
    PROVE  Places' /\ OwnerInv' /\ QueueInv'
<1>1. Places' /\ OwnerInv' /\ \A e \in Devices : ReliesOnIsr(e)' <=> ReliesOnIsr(e)
  BY HandlerKeepsCore
<1>2. ASSUME NEW e \in Devices
      PROVE  /\ Accounted(e)'
             /\ \A i \in 1 .. Len(dev'[e].trans_queue) : dev'[e].trans_queue[i][1] = e
             /\ ReliesOnIsr(e)' => SafeFor(e)'
  <2>1. QueueOf(e) /\ dev'[e].trans_queue = dev[e].trans_queue
    BY DEF QueueInv, HandsKept, TransQueuesKept
  <2>2. \A i \in 1 .. Len(dev[e].trans_queue) : dev[e].trans_queue[i][1] = e
    BY <2>1 DEF QueueOf
  <2>3. Accounted(e)'
    BY HandsKeptAccounts
  <2>4. ReliesOnIsr(e)' => SafeFor(e)'
    BY <1>1, <2>1 DEF QueueOf
  <2> QED
    BY <2>1, <2>2, <2>3, <2>4
<1>3. QueueInv'
  <2>1. UNCHANGED task /\ ~ host'.polling /\ ~ trodden'
    BY DEF HandlerKeeps, HandsKept, QueueInv
  <2> QED
    BY <1>2, <2>1, QueueInvFrom
<1> QED
  BY <1>1, <1>3

\* What the handler holds is only on the wire when it is with the hardware.
LEMMA NothingOnTheWire ==
    ASSUME SpiMasterAssumption, BusTypes, QueueInv, host.cur_cs = NO_CS
    PROVE  wire = {}
<1>1. \A w \in wire : w.cs \in Devices /\ w.cs = NO_CS
  BY DEF QueueInv, QueueWire, BusTypes, BusTypeOK
<1> QED
  BY <1>1, SpiMasterAssumption DEF SpiMasterAssumption, NO_CS

\* The chip select of no device.
LEMMA NoDevice ==
    ASSUME SpiMasterAssumption
    PROVE  NO_CS \notin Devices /\ NO_CS \in 0 .. NO_CS /\ Devices \subseteq 0 .. NO_CS
BY DEF SpiMasterAssumption, NO_CS

\* The end of a transaction: the handler takes it over from the hardware.
LEMMA InterruptStep ==
    ASSUME SpiMasterAssumption, BusTypes, Places, OwnerInv, QueueInv, Interrupt
    PROVE  UNCHANGED over /\ BusTypes' /\ Places' /\ OwnerInv' /\ QueueInv'
<1>1. /\ isr.pc = "off" /\ wire = {}
      /\ UNCHANGED <<dev, intr, wire, task, uses, airborne, trodden, lost, over>>
      /\ host' = [host EXCEPT !.cur_cs = NO_CS]
      /\ isr' = [pc |-> IF host.cur_cs = NO_CS THEN "begin" ELSE "return", cs |-> host.cur_cs]
  BY DEF Interrupt, IsrAt, history
<1>2. /\ host' \in HostRecord /\ host'.cur_cs = NO_CS
      /\ host'.cur_trans_buf = host.cur_trans_buf /\ host'.acquire_cs = host.acquire_cs
      /\ host'.isr_free = host.isr_free /\ host'.bus_locked = host.bus_locked
      /\ host'.polling = host.polling
  BY <1>1, HostType DEF HostRecord
<1>3. /\ isr' \in [pc : IsrPlaces, cs : 0 .. NO_CS] /\ isr'.cs = host.cur_cs
      /\ isr'.pc = (IF host.cur_cs = NO_CS THEN "begin" ELSE "return")
  <2>1. host.cur_cs \in 0 .. NO_CS
    BY NoDevice, HostType DEF HostRecord
  <2> QED
    BY <1>1, <2>1 DEF IsrPlaces
<1>4. BusTypes'
  BY <1>1, <1>2, <1>3, TypesKept, TypesFrom
<1>5. HandlerKeeps
  BY <1>1, <1>2 DEF HandlerKeeps, WaitingKept, SemaphoresKept
<1>6. HandsKept
  <2>1. \A e \in Devices : WorksFor(e)' <=> WorksFor(e)
    BY <1>1, <1>2, <1>3, NoDevice DEF WorksFor
  <2> QED
    BY <1>1, <1>2, <2>1 DEF HandsKept, TransQueuesKept, RetQueuesKept, QueueInv
<1>7. HandlerInv'
  <2>1. host.cur_cs # NO_CS => host.cur_cs \in Devices
    BY HostType DEF HostRecord
  <2>2. host.isr_free => host.cur_cs = NO_CS
    BY DEF QueueInv, HandlerInv
  <2>3. host.cur_cs # NO_CS => host.cur_trans_buf # NoBuffer /\ host.cur_trans_buf[1] = host.cur_cs
    BY DEF QueueInv, HandlerInv
  <2> QED
    BY <1>2, <1>3, <2>1, <2>2, <2>3 DEF HandlerInv
<1>8. QueueWire'
  BY <1>1 DEF QueueWire
<1>9. \A e \in Devices : SafeFor(e) => SafeFor(e)'
  BY <1>1, <1>2, <1>3 DEF SafeFor
<1> QED
  BY <1>1, <1>4, <1>5, <1>6, <1>7, <1>8, <1>9, HandlerStep

\* The handler begins anew, with nothing of the hardware, and disables its interrupt.
LEMMA BeginStep ==
    ASSUME SpiMasterAssumption, BusTypes, Places, OwnerInv, QueueInv, Begin \/ Disable
    PROVE  UNCHANGED over /\ BusTypes' /\ Places' /\ OwnerInv' /\ QueueInv'
<1>1. host.cur_cs = NO_CS
  BY DEF Begin, Disable, IsrAt, QueueInv, HandlerInv
<1>2. /\ isr.pc \in {"begin", "disable"}
      /\ UNCHANGED <<dev, wire, task, uses, airborne, trodden, lost, over>>
      /\ \/ /\ host' = [host EXCEPT !.isr_free = FALSE] /\ UNCHANGED intr
            /\ isr' = [isr EXCEPT !.pc = "disable"]
         \/ /\ isr.pc = "disable" /\ UNCHANGED host /\ intr' = FALSE
            /\ isr' = [isr EXCEPT !.pc = "whose"]
  BY <1>1 DEF Begin, Disable, IsrAt, history
<1>3. /\ host' \in HostRecord /\ host'.cur_cs = NO_CS /\ ~ host'.isr_free
      /\ host'.cur_trans_buf = host.cur_trans_buf /\ host'.acquire_cs = host.acquire_cs
      /\ host'.bus_locked = host.bus_locked /\ host'.polling = host.polling
  <2>1. isr.pc = "disable" => ~ host.isr_free
    BY DEF QueueInv, HandlerInv
  <2> QED
    BY <1>1, <1>2, <2>1, HostType DEF HostRecord
<1>4. /\ isr' \in [pc : IsrPlaces, cs : 0 .. NO_CS] /\ isr'.pc \in {"disable", "whose"}
      /\ intr' \in BOOLEAN
  BY <1>2, TypesKept DEF IsrPlaces
<1>5. BusTypes'
  BY <1>2, <1>3, <1>4, TypesKept, TypesFrom
<1>6. HandlerKeeps
  BY <1>2, <1>3 DEF HandlerKeeps, WaitingKept, SemaphoresKept
<1>7. HandsKept
  <2>1. \A e \in Devices : WorksFor(e)' <=> WorksFor(e)
    BY <1>1, <1>2, <1>3, <1>4 DEF WorksFor
  <2> QED
    BY <1>2, <1>3, <2>1 DEF HandsKept, TransQueuesKept, RetQueuesKept, QueueInv
<1>8. HandlerInv'
  BY <1>3, <1>4 DEF HandlerInv
<1>9. QueueWire'
  BY <1>1, <1>2, NothingOnTheWire DEF QueueWire
<1>10. \A e \in Devices : SafeFor(e) => SafeFor(e)'
  BY <1>3, <1>4 DEF SafeFor
<1> QED
  BY <1>2, <1>5, <1>6, <1>7, <1>8, <1>9, <1>10, HandlerStep

\* The handler only asks for the queue of the owner if there is one.
LEMMA WhoseQueueStep ==
    ASSUME SpiMasterAssumption, BusTypes, Places, OwnerInv, QueueInv, WhoseQueue
    PROVE  UNCHANGED over /\ BusTypes' /\ Places' /\ OwnerInv' /\ QueueInv'
<1>1. /\ isr.pc = "whose"
      /\ UNCHANGED <<host, dev, intr, wire, task, uses, airborne, trodden, lost, over>>
      /\ isr' = IF host.acquire_cs = NO_CS THEN [pc |-> "any", cs |-> 0]
                ELSE [pc |-> "owner", cs |-> host.acquire_cs]
  BY DEF WhoseQueue, IsrAt, history
<1>2. /\ isr' \in [pc : IsrPlaces, cs : 0 .. NO_CS] /\ isr'.pc \in {"any", "owner"}
      /\ isr'.pc = "owner" => isr'.cs = host.acquire_cs /\ isr'.cs \in Devices
      /\ isr'.pc = "any" => host.acquire_cs = NO_CS
  <2>1. host.acquire_cs \in Devices \union {NO_CS}
    BY HostType DEF HostRecord
  <2>2. CASE host.acquire_cs = NO_CS
    BY <1>1, <2>2 DEF IsrPlaces, NO_CS
  <2>3. CASE host.acquire_cs # NO_CS
    BY <1>1, <2>1, <2>3, NoDevice DEF IsrPlaces
  <2> QED
    BY <2>2, <2>3
<1>3. BusTypes'
  BY <1>1, <1>2, TypesKept, TypesFrom
<1>4. HandlerKeeps
  BY <1>1 DEF HandlerKeeps, WaitingKept, SemaphoresKept
<1>5. HandsKept
  BY <1>1, <1>2 DEF HandsKept, WorksFor, TransQueuesKept, RetQueuesKept, QueueInv
<1>6. HandlerInv'
  <2>1. host.cur_cs = NO_CS /\ ~ host.isr_free
    BY <1>1 DEF QueueInv, HandlerInv
  <2> QED
    BY <1>1, <1>2, <2>1 DEF HandlerInv
<1>7. QueueWire'
  BY <1>1 DEF QueueInv, QueueWire
<1>8. ASSUME NEW e \in Devices, ReliesOnIsr(e), SafeFor(e)
      PROVE  SafeFor(e)'
  <2>1. host.acquire_cs = e
    BY <1>8 DEF ReliesOnIsr, OwnerInv, HasBus, WaitingForIsr
  <2> QED
    BY <1>1, <1>2, <1>8, <2>1, NoDevice DEF SafeFor
<1> QED
  BY <1>1, <1>3, <1>4, <1>5, <1>6, <1>7, <1>8, HandlerStep

\* spi_new_trans: the hardware takes over what the handler has.
LEMMA SendTransStep ==
    ASSUME SpiMasterAssumption, BusTypes, Places, OwnerInv, QueueInv, SendTrans
    PROVE  UNCHANGED over /\ BusTypes' /\ Places' /\ OwnerInv' /\ QueueInv'
<1>1. /\ isr.pc = "send"
      /\ UNCHANGED <<dev, intr, task, uses, airborne, trodden, lost, over>>
      /\ host' = [host EXCEPT !.cur_cs = isr.cs]
      /\ wire' = wire \union {[trans |-> host.cur_trans_buf, cs |-> isr.cs]}
      /\ isr' = [isr EXCEPT !.pc = "reenable"]
  BY DEF SendTrans, IsrAt, history
<1>2. /\ isr.cs \in Devices /\ host.cur_cs = NO_CS /\ ~ host.isr_free
      /\ host.cur_trans_buf # NoBuffer /\ host.cur_trans_buf[1] = isr.cs
  BY <1>1 DEF QueueInv, HandlerInv
<1>3. /\ host' \in HostRecord /\ host'.cur_cs = isr.cs
      /\ host'.cur_trans_buf = host.cur_trans_buf /\ host'.acquire_cs = host.acquire_cs
      /\ host'.isr_free = host.isr_free /\ host'.bus_locked = host.bus_locked
      /\ host'.polling = host.polling
  BY <1>1, <1>2, HostType DEF HostRecord
<1>4. isr' \in [pc : IsrPlaces, cs : 0 .. NO_CS] /\ isr'.pc = "reenable" /\ isr'.cs = isr.cs
  BY <1>1, TypesKept DEF IsrPlaces
<1>5. wire' = {[trans |-> host.cur_trans_buf, cs |-> isr.cs]}
  BY <1>1, <1>2, NothingOnTheWire
<1>6. BusTypes'
  <2>1. wire' \subseteq [trans : BusTransactions, cs : Devices]
    BY <1>2, <1>5, HostType DEF HostRecord
  <2> QED
    BY <1>1, <1>3, <1>4, <2>1, TypesKept, TypesFrom
<1>7. HandlerKeeps
  BY <1>1, <1>3 DEF HandlerKeeps, WaitingKept, SemaphoresKept
<1>8. HandsKept
  <2>1. \A e \in Devices : WorksFor(e)' <=> WorksFor(e)
    BY <1>1, <1>2, <1>3, <1>4, NoDevice DEF WorksFor
  <2> QED
    BY <1>1, <1>3, <2>1 DEF HandsKept, TransQueuesKept, RetQueuesKept, QueueInv
<1>9. HandlerInv'
  BY <1>2, <1>3, <1>4 DEF HandlerInv
<1>10. QueueWire'
  BY <1>3, <1>5 DEF QueueWire
<1>11. \A e \in Devices : SafeFor(e) => SafeFor(e)'
  BY <1>1, <1>3, <1>4 DEF SafeFor
<1> QED
  BY <1>1, <1>6, <1>7, <1>8, <1>9, <1>10, <1>11, HandlerStep

\* The handler ends, with the interrupt enabled for the next transaction.
LEMMA ReenableStep ==
    ASSUME SpiMasterAssumption, BusTypes, Places, OwnerInv, QueueInv, Reenable
    PROVE  UNCHANGED over /\ BusTypes' /\ Places' /\ OwnerInv' /\ QueueInv'
<1>1. /\ isr.pc = "reenable" /\ intr' = TRUE
      /\ UNCHANGED <<host, dev, wire, task, uses, airborne, trodden, lost, over>>
      /\ isr' = [pc |-> "off", cs |-> NO_CS]
  BY DEF Reenable, IsrAt, history
<1>2. isr' \in [pc : IsrPlaces, cs : 0 .. NO_CS] /\ isr'.pc = "off"
  BY <1>1, NoDevice DEF IsrPlaces
<1>3. BusTypes'
  BY <1>1, <1>2, TypesKept, TypesFrom
<1>4. HandlerKeeps
  BY <1>1 DEF HandlerKeeps, WaitingKept, SemaphoresKept
<1>5. HandsKept
  BY <1>1, <1>2 DEF HandsKept, WorksFor, TransQueuesKept, RetQueuesKept, QueueInv
<1>6. HandlerInv'
  BY <1>1, <1>2 DEF QueueInv, HandlerInv
<1>7. QueueWire'
  BY <1>1 DEF QueueInv, QueueWire
<1>8. \A e \in Devices : SafeFor(e) => SafeFor(e)'
  BY <1>1, <1>2 DEF SafeFor
<1> QED
  BY <1>1, <1>3, <1>4, <1>5, <1>6, <1>7, <1>8, HandlerStep

\* The handler goes on through the queues, or ends with nothing to do.  It may then be stale.
LEMMA SearchStep ==
    ASSUME SpiMasterAssumption, BusTypes, Places, OwnerInv, QueueInv,
           isr.pc \in {"owner", "any"}, HandsKept, HandlerKeeps, UNCHANGED <<dev, intr, wire, trodden>>,
           host'.cur_cs = NO_CS, host' \in HostRecord, isr'.pc \in {"any", "tell", "off"},
           isr' \in [pc : IsrPlaces, cs : 0 .. NO_CS], isr'.pc = "tell" => isr'.cs \in Devices,
           isr'.pc = "any" => isr.pc = "any" /\ ~ host'.isr_free
    PROVE  BusTypes' /\ Places' /\ OwnerInv' /\ QueueInv'
<1>1. BusTypes'
  BY TypesKept, TypesFrom DEF HandlerKeeps, HandsKept
<1>2. host.cur_cs = NO_CS
  BY DEF QueueInv, HandlerInv
<1>3. HandlerInv'
  BY DEF HandlerInv
<1>4. QueueWire'
  BY <1>2, NothingOnTheWire DEF QueueWire
<1>5. \A e \in Devices : SafeFor(e) => SafeFor(e)'
  BY DEF SafeFor
<1> QED
  BY <1>1, <1>3, <1>4, <1>5, HandlerStep

\* The handler has transactions of d at hand, and nothing of them in hand yet: its first one
\* comes from the queue.
LEMMA ReceiveStep ==
    ASSUME SpiMasterAssumption, BusTypes, Places, OwnerInv, QueueInv, isr.pc \in {"owner", "any"},
           NEW d \in Devices, isr.cs = d, dev[d].trans_queue # <<>>, Receive(d),
           UNCHANGED <<intr, wire, task, uses, airborne, lost>>
    PROVE  BusTypes' /\ Places' /\ OwnerInv' /\ QueueInv'
<1> DEFINE queue == dev[d].trans_queue
           shorter == Tail(queue)
           first == Head(queue)
<1>1. /\ dev' = [dev EXCEPT ![d].trans_queue = shorter]
      /\ host' = [host EXCEPT !.cur_trans_buf = first]
      /\ trodden' = (trodden \/ \E e \in Devices : task[e].trans # NoBuffer)
      /\ isr' = [isr EXCEPT !.pc = "send"]
  BY DEF Receive
<1>2. ~ trodden'
  BY <1>1 DEF QueueInv, QueueOf
<1>3. /\ queue \in Seq(BusTransactions) /\ shorter \in Seq(BusTransactions)
      /\ first \in BusTransactions /\ queue = <<first>> \o shorter
      /\ Len(queue) \in Nat \ {0} /\ Len(shorter) = Len(queue) - 1
      /\ \A i \in 1 .. Len(shorter) : shorter[i] = queue[i + 1]
      /\ first = queue[1]
  <2>1. queue \in Seq(BusTransactions) /\ queue # <<>>
    BY DevType DEF DeviceRecord
  <2>2. Len(queue) \in Nat /\ Len(queue) # 0
    BY <2>1, LenProperties, EmptySeq
  <2> QED
    BY <2>1, <2>2, HeadTailProperties
<1>4. host.cur_cs = NO_CS /\ ~ host.isr_free /\ ~ host.polling
  BY DEF QueueInv, HandlerInv
<1>5. first[1] = d
  <2>1. \A i \in 1 .. Len(queue) : queue[i][1] = d
    BY DEF QueueInv, QueueOf
  <2> QED
    BY <1>3, <2>1
<1>6. /\ dev' \in [Devices -> DeviceRecord] /\ RetQueuesKept /\ SemaphoresKept /\ WaitingKept
      /\ dev'[d].trans_queue = shorter
      /\ \A e \in Devices : e # d => dev'[e].trans_queue = dev[e].trans_queue
  BY <1>1, <1>3, DevType, TransQueueAssigned
<1>7. /\ host' \in HostRecord /\ host'.cur_cs = NO_CS
      /\ host'.cur_trans_buf = first /\ host'.acquire_cs = host.acquire_cs
      /\ ~ host'.isr_free /\ host'.bus_locked = host.bus_locked
      /\ host'.polling = host.polling
  BY <1>1, <1>3, <1>4, HostType DEF HostRecord
<1>8. isr' \in [pc : IsrPlaces, cs : 0 .. NO_CS] /\ isr'.pc = "send" /\ isr'.cs = isr.cs
  BY <1>1, TypesKept DEF IsrPlaces
<1>9. BusTypes'
  <2>1. \A e \in Devices : Len(dev'[e].ret_queue) <= QueueSize
    BY <1>6, TypesKept DEF RetQueuesKept
  <2>2. Len(shorter) <= QueueSize
    <3>1. Len(queue) <= QueueSize /\ QueueSize \in Nat
      BY TypesKept, SpiMasterAssumption DEF SpiMasterAssumption
    <3> QED
      BY <1>3, <3>1
  <2>3. \A e \in Devices : Len(dev'[e].trans_queue) <= QueueSize
    BY <1>6, <2>2, TypesKept
  <2>4. trodden' \in BOOLEAN
    BY <1>1, TypesKept
  <2> HIDE DEF shorter, queue, first
  <2> QED
    BY <1>2, <1>6, <1>7, <1>8, <2>1, <2>3, <2>4, TypesKept, TypesFrom
<1>10. HandlerKeeps
  BY <1>4, <1>6, <1>7 DEF HandlerKeeps, QueueInv
<1>11. Places' /\ OwnerInv' /\ \A e \in Devices : ReliesOnIsr(e)' <=> ReliesOnIsr(e)
  BY <1>10, HandlerKeepsCore
<1>12. HandlerInv'
  BY <1>3, <1>5, <1>7, <1>8, TransactionIsBuffer DEF HandlerInv
<1>13. QueueWire'
  BY <1>4, NothingOnTheWire DEF QueueWire
<1> HIDE DEF shorter, queue, first
<1>14. AtWork(d) = <<>> /\ AtWork(d)' = <<first>>
  BY <1>4, <1>7, <1>8, NoDevice DEF AtWork
<1>15. Accounted(d)'
  <2> DEFINE r == dev[d].ret_queue
             a == airborne[d]
  <2>1. r \in Seq(BusTransactions) /\ dev'[d].ret_queue = r /\ airborne'[d] = a
    BY <1>6, DevType DEF DeviceRecord, RetQueuesKept
  <2>2. Len(<<>>) = 0 /\ Len(<<first>>) = 1
    OBVIOUS
  <2>3. Len(a) >= Len(r) + Len(<<>>) + Len(queue) /\ (~ lost => a = r \o <<>> \o queue)
    BY <1>14 DEF QueueInv, QueueOf, Accounted, queue
  <2>4. r \o <<>> \o queue = r \o <<first>> \o shorter
    <3>1. r \o <<>> = r
      BY <2>1, ConcatEmptySeq
    <3>2. <<first>> \in Seq(BusTransactions)
      BY <1>3
    <3>3. r \o (<<first>> \o shorter) = r \o <<first>> \o shorter
      <4> HIDE DEF r
      <4> QED
        BY <1>3, <2>1, <3>2, ConcatAssociative
    <3> QED
      BY <1>3, <3>1, <3>3
  <2>5. Len(a) >= Len(r) + 1 + Len(shorter)
    <3> DEFINE la == Len(a)
               lr == Len(r)
               lq == Len(queue)
               ls == Len(shorter)
    <3>1. la >= lr + 0 + lq /\ ls = lq - 1 /\ lr \in Nat /\ lq \in Nat \ {0}
      BY <1>3, <2>1, <2>2, <2>3, LenProperties
    <3>2. la \in Nat
      <4>1. a \in Seq(BusTransactions)
        BY TypesKept
      <4> QED
        BY <4>1, LenProperties
    <3> HIDE DEF la, lr, lq, ls
    <3>3. la >= lr + 1 + ls
      BY <3>1, <3>2
    <3> QED
      BY <3>3 DEF la, lr, ls
  <2> HIDE DEF r, a
  <2>6. Len(a) >= Len(r) + Len(<<first>>) + Len(shorter) /\ (~ lost => a = r \o <<first>> \o shorter)
    BY <2>2, <2>3, <2>4, <2>5
  <2> QED
    BY <1>6, <1>14, <2>1, <2>6 DEF Accounted
<1>16. ASSUME NEW e \in Devices
       PROVE  /\ Accounted(e)'
              /\ \A i \in 1 .. Len(dev'[e].trans_queue) : dev'[e].trans_queue[i][1] = e
              /\ ReliesOnIsr(e)' => SafeFor(e)'
  <2>1. /\ \A i \in 1 .. Len(dev[e].trans_queue) : dev[e].trans_queue[i][1] = e
        /\ ReliesOnIsr(e) => SafeFor(e)
    BY DEF QueueInv, QueueOf
  <2>2. SafeFor(e) => SafeFor(e)'
    BY <1>7, <1>8 DEF SafeFor
  <2>3. CASE e = d
    <3>1. ASSUME NEW i \in 1 .. Len(shorter) PROVE shorter[i][1] = e
      <4>1. i + 1 \in 1 .. Len(queue) /\ shorter[i] = queue[i + 1]
        BY <1>3
      <4> QED
        BY <2>1, <2>3, <4>1 DEF queue
    <3> QED
      BY <1>6, <1>11, <1>15, <2>1, <2>2, <2>3, <3>1
  <2>4. CASE e # d
    <3>1. AtWork(e)' = AtWork(e)
      BY <1>4, <1>7, <1>8, <2>4, NoDevice DEF AtWork
    <3>2. Accounted(e)'
      BY <1>6, <2>4, <3>1, OtherAccounted DEF RetQueuesKept
    <3> QED
      BY <1>6, <1>11, <2>1, <2>2, <2>4, <3>2
  <2> QED
    BY <2>3, <2>4
<1>17. QueueInv'
  BY <1>2, <1>4, <1>7, <1>12, <1>13, <1>16, QueueInvFrom
<1> QED
  BY <1>9, <1>11, <1>17

\* xQueueSendFromISR: what the handler has comes last in the return queue, or is lost.
LEMMA ReturnTransStep ==
    ASSUME SpiMasterAssumption, BusTypes, Places, OwnerInv, QueueInv, ReturnTrans
    PROVE  UNCHANGED over /\ BusTypes' /\ Places' /\ OwnerInv' /\ QueueInv'
<1>1. isr.pc = "return" /\ isr.cs \in Devices
  BY DEF ReturnTrans, IsrAt, QueueInv, HandlerInv
<1>2. PICK d \in Devices : d = isr.cs
  BY <1>1
<1> DEFINE returned == dev[d].ret_queue
           queue == dev[d].trans_queue
           buffer == host.cur_trans_buf
           longer == Append(returned, buffer)
           room == Len(returned) < QueueSize
<1>3. /\ dev' = (IF room THEN [dev EXCEPT ![d].ret_queue = longer] ELSE dev)
      /\ lost' = (lost \/ ~ room)
      /\ isr' = [isr EXCEPT !.pc = "begin"]
      /\ UNCHANGED <<host, intr, wire, task, uses, airborne, trodden, over>>
  BY <1>2 DEF ReturnTrans
<1>4. /\ host.cur_cs = NO_CS /\ ~ host.isr_free /\ ~ host.polling
      /\ buffer \in BusTransactions
  BY <1>1, HostType DEF QueueInv, HandlerInv, HostRecord
<1>5. /\ returned \in Seq(BusTransactions) /\ queue \in Seq(BusTransactions)
      /\ airborne[d] \in Seq(BusTransactions)
      /\ longer \in Seq(BusTransactions) /\ Len(longer) = Len(returned) + 1
      /\ longer = returned \o <<buffer>>
      /\ Len(returned) \in Nat /\ Len(queue) \in Nat /\ Len(airborne[d]) \in Nat /\ QueueSize \in Nat
  <2>1. returned \in Seq(BusTransactions) /\ queue \in Seq(BusTransactions)
    BY DevType DEF DeviceRecord
  <2>2. airborne[d] \in Seq(BusTransactions)
    BY TypesKept
  <2>3. longer \in Seq(BusTransactions) /\ Len(longer) = Len(returned) + 1 /\ longer = returned \o <<buffer>>
    <3>1. returned \in Seq(BusTransactions) /\ buffer \in BusTransactions
      BY <1>4, <2>1
    <3> HIDE DEF returned, buffer
    <3> QED
      BY <3>1, AppendProperties, AppendIsConcat
  <2> QED
    BY <2>1, <2>2, <2>3, LenProperties, SpiMasterAssumption DEF SpiMasterAssumption
<1> HIDE DEF longer
<1>6. /\ dev' \in [Devices -> DeviceRecord] /\ TransQueuesKept /\ SemaphoresKept /\ WaitingKept
      /\ dev'[d].ret_queue = (IF room THEN longer ELSE returned)
      /\ \A e \in Devices : e # d => dev'[e].ret_queue = dev[e].ret_queue
  <2>1. CASE room
    <3>1. dev' = [dev EXCEPT ![d].ret_queue = longer]
      BY <1>3, <2>1
    <3> QED
      BY <1>5, <2>1, <3>1, DevType, RetQueueAssigned
  <2>2. CASE ~ room
    BY <1>3, <2>2, DevType DEF TransQueuesKept, SemaphoresKept, WaitingKept
  <2> QED
    BY <2>1, <2>2
<1>7. isr' \in [pc : IsrPlaces, cs : 0 .. NO_CS] /\ isr'.pc = "begin" /\ isr'.cs = isr.cs
  BY <1>3, TypesKept DEF IsrPlaces
<1>8. BusTypes'
  <2>1. \A e \in Devices : Len(dev'[e].trans_queue) <= QueueSize
    BY <1>6, TypesKept DEF TransQueuesKept
  <2>2. room => Len(longer) <= QueueSize
    BY <1>5
  <2>3. \A e \in Devices : Len(dev'[e].ret_queue) <= QueueSize
    BY <1>6, <2>2, TypesKept
  <2>4. lost' \in BOOLEAN
    BY <1>3, TypesKept
  <2> HIDE DEF room, returned, queue, buffer
  <2> QED
    BY <1>3, <1>6, <1>7, <2>1, <2>3, <2>4, TypesKept, TypesFrom
<1>9. HandlerKeeps
  BY <1>3, <1>6 DEF HandlerKeeps
<1>10. Places' /\ OwnerInv' /\ \A e \in Devices : ReliesOnIsr(e)' <=> ReliesOnIsr(e)
  BY <1>9, HandlerKeepsCore
<1>11. HandlerInv'
  BY <1>3, <1>4, <1>7 DEF HandlerInv
<1>12. QueueWire'
  BY <1>3, <1>4, NothingOnTheWire DEF QueueWire
<1>13. AtWork(d) = <<buffer>> /\ AtWork(d)' = <<>>
  BY <1>1, <1>2, <1>3, <1>4, <1>7, NoDevice DEF AtWork
<1>14. Accounted(d)'
  <2>1. dev'[d].trans_queue = queue /\ airborne'[d] = airborne[d]
    BY <1>3, <1>6 DEF TransQueuesKept
  <2>2. Len(<<>>) = 0 /\ Len(<<buffer>>) = 1
    OBVIOUS
  <2>3. /\ Len(airborne[d]) >= Len(returned) + Len(<<buffer>>) + Len(queue)
        /\ ~ lost => airborne[d] = returned \o <<buffer>> \o queue
    BY <1>13 DEF QueueInv, QueueOf, Accounted
  <2>4. Len(airborne[d]) >= Len(dev'[d].ret_queue) + Len(<<>>) + Len(queue)
    <3> DEFINE a == Len(airborne[d])
               r == Len(returned)
               l == Len(dev'[d].ret_queue)
               q == Len(queue)
    <3>1. a \in Nat /\ r \in Nat /\ q \in Nat /\ a >= r + 1 + q /\ (l = r + 1 \/ l = r)
      BY <1>5, <1>6, <2>2, <2>3
    <3> HIDE DEF a, r, l, q
    <3>2. a >= l + 0 + q
      BY <3>1
    <3> QED
      BY <2>2, <3>2 DEF a, l, q
  <2>5. ~ lost' => airborne[d] = dev'[d].ret_queue \o <<>> \o queue
    <3>1. ~ lost' => ~ lost /\ dev'[d].ret_queue = longer
      BY <1>3, <1>6
    <3>2. longer \o <<>> = longer
      BY <1>5, ConcatEmptySeq
    <3> QED
      BY <1>5, <2>3, <3>1, <3>2
  <2> HIDE DEF room, returned, queue, buffer
  <2> QED
    BY <1>13, <2>1, <2>4, <2>5 DEF Accounted
<1> HIDE DEF room, returned, queue, buffer
<1>15. ASSUME NEW e \in Devices
       PROVE  /\ Accounted(e)'
              /\ \A i \in 1 .. Len(dev'[e].trans_queue) : dev'[e].trans_queue[i][1] = e
              /\ ReliesOnIsr(e)' => SafeFor(e)'
  <2>1. /\ \A i \in 1 .. Len(dev[e].trans_queue) : dev[e].trans_queue[i][1] = e
        /\ ReliesOnIsr(e) => SafeFor(e)
    BY DEF QueueInv, QueueOf
  <2>2. SafeFor(e) => SafeFor(e)'
    BY <1>3, <1>7 DEF SafeFor
  <2>3. dev'[e].trans_queue = dev[e].trans_queue
    BY <1>6 DEF TransQueuesKept
  <2>4. Accounted(e)'
    <3>1. CASE e # d
      <4>1. AtWork(e)' = AtWork(e)
        BY <1>2, <1>3, <1>4, <1>7, <3>1, NoDevice DEF AtWork
      <4>2. /\ Len(airborne[e]) >= Len(dev[e].ret_queue) + Len(AtWork(e)) + Len(dev[e].trans_queue)
            /\ ~ lost => airborne[e] = dev[e].ret_queue \o AtWork(e) \o dev[e].trans_queue
        BY DEF QueueInv, QueueOf, Accounted
      <4>3. /\ airborne'[e] = airborne[e] /\ dev'[e].ret_queue = dev[e].ret_queue
            /\ ~ lost' => ~ lost
        BY <1>3, <1>6, <3>1
      <4> QED
        BY <2>3, <4>1, <4>2, <4>3 DEF Accounted
    <3> QED
      BY <1>14, <3>1
  <2> QED
    BY <1>10, <2>1, <2>2, <2>3, <2>4
<1>16. QueueInv'
  BY <1>3, <1>4, <1>11, <1>12, <1>15, QueueInvFrom DEF QueueInv
<1> QED
  BY <1>3, <1>8, <1>10, <1>16

\* The owner is told that the handler has ended, and so it has.
LEMMA TellOwnerStep ==
    ASSUME SpiMasterAssumption, BusTypes, Places, OwnerInv, QueueInv, over = "no", TellOwner
    PROVE  /\ over' \in {"no", "stale"} /\ BusTypes'
           /\ over' = "no" => Places' /\ OwnerInv' /\ QueueInv'
<1>1. isr.pc = "tell" /\ isr.cs \in Devices /\ host.cur_cs = NO_CS
  BY DEF TellOwner, IsrAt, QueueInv, HandlerInv
<1>2. PICK d \in Devices : d = isr.cs
  BY <1>1
<1>3. /\ Give(d) /\ over' = (IF host.acquire_cs # d THEN "stale" ELSE "no")
      /\ isr' = [pc |-> "off", cs |-> NO_CS]
      /\ UNCHANGED <<host, intr, wire, task, uses, airborne, trodden, lost>>
  BY <1>2 DEF TellOwner, Stale
<1>4. /\ dev' \in [Devices -> DeviceRecord]
      /\ TransQueuesKept /\ RetQueuesKept /\ WaitingKept
      /\ \A e \in Devices : e # d => dev'[e].semphr_polling = dev[e].semphr_polling
  BY <1>3, Semaphores
<1>5. isr' \in [pc : IsrPlaces, cs : 0 .. NO_CS] /\ isr'.pc = "off"
  BY <1>3, NoDevice DEF IsrPlaces
<1>6. BusTypes'
  BY <1>3, <1>4, <1>5, TypesKept, TypesFrom DEF TransQueuesKept, RetQueuesKept
<1>7. Places'
  BY <1>3, <1>4 DEF WaitingKept, Places, InPlace
<1>8. (OwnerInv' /\ QueueInv') \/ host.acquire_cs # d
  <2> SUFFICES ASSUME host.acquire_cs = d PROVE OwnerInv' /\ QueueInv'
    OBVIOUS
  <2>1. OwnerInv'
    BY <1>3, <1>4 DEF OwnerInv, HasBus, Polls
  <2>2. HandsKept
    BY <1>1, <1>3, <1>4, <1>5 DEF HandsKept, WorksFor, QueueInv
  <2>3. HandlerInv' /\ QueueWire'
    BY <1>1, <1>3, <1>5 DEF QueueInv, HandlerInv, QueueWire
  <2>4. ASSUME NEW e \in Devices
        PROVE  /\ Accounted(e)'
               /\ \A i \in 1 .. Len(dev'[e].trans_queue) : dev'[e].trans_queue[i][1] = e
               /\ ReliesOnIsr(e)' => SafeFor(e)'
    <3>1. \A i \in 1 .. Len(dev[e].trans_queue) : dev[e].trans_queue[i][1] = e
      BY DEF QueueInv, QueueOf
    <3>2. Accounted(e)'
      BY <2>2, HandsKeptAccounts
    <3>3. SafeFor(e)'
      BY <1>1, <1>3, <1>5 DEF SafeFor
    <3> QED
      BY <1>4, <3>1, <3>2, <3>3 DEF TransQueuesKept
  <2>5. QueueInv'
    BY <1>3, <2>3, <2>4, QueueInvFrom DEF QueueInv
  <2> QED
    BY <2>1, <2>5
<1> QED
  BY <1>3, <1>6, <1>7, <1>8

\* The handler takes the next transaction of the owner, or of anyone, or ends: in the second
\* case it may have missed that the bus has been acquired.
LEMMA ReceivesOrEnds ==
    ASSUME SpiMasterAssumption, BusTypes, Places, OwnerInv, QueueInv, over = "no",
           ReceiveOwner \/ ReceiveAny
    PROVE  /\ over' \in {"no", "stale"} /\ BusTypes'
           /\ Places' /\ OwnerInv' /\ QueueInv'
<1>1. over' \in {"no", "stale"}
  BY DEF ReceiveOwner, ReceiveAny, Stale
<1>2. CASE /\ isr.pc \in {"owner", "any"} /\ isr.cs \in Devices /\ dev[isr.cs].trans_queue # <<>>
           /\ Receive(isr.cs)
  <2>1. PICK d \in Devices : d = isr.cs
    BY <1>2
  <2>2. UNCHANGED <<intr, wire, task, uses, airborne, lost>>
    BY DEF ReceiveOwner, ReceiveAny
  <2>3. isr.pc \in {"owner", "any"} /\ dev[d].trans_queue # <<>> /\ Receive(d)
    BY <1>2, <2>1
  <2>4. BusTypes' /\ Places' /\ OwnerInv' /\ QueueInv'
    BY <2>1, <2>2, <2>3, ReceiveStep
  <2> QED
    BY <1>1, <2>4
<1>3. CASE ~ (/\ isr.pc \in {"owner", "any"} /\ isr.cs \in Devices /\ dev[isr.cs].trans_queue # <<>>
              /\ Receive(isr.cs))
  <2>1. host.cur_cs = NO_CS /\ ~ host.isr_free /\ (isr.pc = "owner" => isr.cs \in Devices)
    BY DEF QueueInv, HandlerInv, ReceiveOwner, ReceiveAny, IsrAt
  <2>2. /\ isr.pc \in {"owner", "any"}
        /\ UNCHANGED <<dev, trodden, intr, wire, task, uses, airborne, lost>>
        /\ \/ isr.pc = "owner" /\ host' = [host EXCEPT !.isr_free = TRUE] /\ isr' = [isr EXCEPT !.pc = "tell"]
           \/ isr.pc = "any" /\ isr.cs < NO_CS /\ UNCHANGED host /\ isr' = [isr EXCEPT !.cs = @ + 1]
           \/ host' = [host EXCEPT !.isr_free = TRUE] /\ isr' = [pc |-> "off", cs |-> NO_CS]
    BY <1>3, <2>1 DEF ReceiveOwner, ReceiveAny, IsrAt
  <2>3. /\ host' \in HostRecord /\ host'.cur_cs = NO_CS
        /\ host'.cur_trans_buf = host.cur_trans_buf /\ host'.acquire_cs = host.acquire_cs
        /\ host'.bus_locked = host.bus_locked /\ host'.polling = host.polling
    BY <2>1, <2>2, HostType DEF HostRecord
  <2>4. /\ isr' \in [pc : IsrPlaces, cs : 0 .. NO_CS] /\ isr'.pc \in {"any", "tell", "off"}
        /\ isr'.pc = "tell" => isr'.cs \in Devices
        /\ isr'.pc = "any" => isr.pc = "any" /\ ~ host'.isr_free
    <3>1. isr \in [pc : IsrPlaces, cs : 0 .. NO_CS]
      BY TypesKept
    <3>2. CASE isr.pc = "owner" /\ isr' = [isr EXCEPT !.pc = "tell"]
      BY <2>1, <3>1, <3>2 DEF IsrPlaces
    <3>3. CASE isr.pc = "any" /\ isr.cs < NO_CS /\ UNCHANGED host /\ isr' = [isr EXCEPT !.cs = @ + 1]
      BY <2>1, <3>1, <3>3 DEF NO_CS
    <3>4. CASE isr' = [pc |-> "off", cs |-> NO_CS]
      BY <3>4, NoDevice DEF IsrPlaces
    <3> QED
      BY <2>2, <3>2, <3>3, <3>4
  <2>5. HandlerKeeps
    BY <2>2, <2>3 DEF HandlerKeeps, WaitingKept, SemaphoresKept
  <2>6. HandsKept
    <3>1. \A e \in Devices : ~ WorksFor(e) /\ ~ WorksFor(e)'
      BY <2>1, <2>2, <2>3, <2>4, NoDevice DEF WorksFor
    <3> QED
      BY <2>2, <2>3, <3>1 DEF HandsKept, TransQueuesKept, RetQueuesKept, QueueInv
  <2>7. BusTypes' /\ Places' /\ OwnerInv' /\ QueueInv'
    BY <2>2, <2>3, <2>4, <2>5, <2>6, SearchStep
  <2> QED
    BY <1>1, <2>7
<1> QED
  BY <1>2, <1>3

\* Every step of the handler.
LEMMA HandlerSteps ==
    ASSUME SpiMasterAssumption, CoreInv, QueueInv, over = "no", Isr
    PROVE  /\ over' \in {"no", "stale"} /\ BusTypes'
           /\ (CoreInv' /\ QueueInv') \/ (over' = "stale" /\ LeavesWire)
<1> USE DEF CoreInv
<1>1. CASE Interrupt \/ ReturnTrans \/ Begin \/ Disable \/ WhoseQueue \/ SendTrans \/ Reenable
  BY <1>1, InterruptStep, ReturnTransStep, BeginStep, WhoseQueueStep, SendTransStep, ReenableStep
<1>2. CASE ReceiveOwner \/ ReceiveAny
  BY <1>2, ReceivesOrEnds
<1>3. CASE TellOwner
  <2>1. LeavesWire
    BY <1>3 DEF TellOwner, LeavesWire
  <2> QED
    BY <1>3, <2>1, TellOwnerStep
<1> QED
  BY <1>1, <1>2, <1>3 DEF Isr

\* Every step on a bus that is queued on: the one assertion that can fail is that of a task
\* that transmits, when a return queue has overflowed.
LEMMA QueueBusStep ==
    ASSUME SpiMasterAssumption, CoreInv, QueueOnly, QueueInv, over = "no", BusNext
    PROVE  /\ BusTypes' /\ (~ lost' => over' \in {"no", "stale"})
           /\ (CoreInv' /\ QueueInv') \/ (over' = "stale" /\ LeavesWire)
<1> USE DEF CoreInv
<1>1. CASE Isr
  BY <1>1, HandlerSteps
<1>2. CASE TransDone
  <2>1. /\ UNCHANGED <<uses, host, dev, intr, task, isr, airborne, trodden, lost, over>>
        /\ wire' \subseteq wire /\ BusTypes' /\ Places' /\ OwnerInv'
    BY <1>2, TransDoneKeeps
  <2>2. HandlerInv' /\ QueueWire'
    BY <2>1 DEF QueueInv, HandlerInv, QueueWire
  <2>3. \A d \in Devices : QueueOf(d)'
    BY <2>1 DEF QueueInv, QueueOf, Accounted, AtWork, ReliesOnIsr, SafeFor
  <2>4. QueueInv'
    BY <2>1, <2>2, <2>3 DEF QueueInv
  <2> QED
    BY <2>1, <2>4
<1>3. ASSUME NEW d \in Devices, WalkingAction(d)
      PROVE  /\ BusTypes' /\ over' \in {"no", "stale"}
             /\ (CoreInv' /\ QueueInv') \/ (over' = "stale" /\ LeavesWire)
  <2>1. over' \in {"no", "stale"}
    <3>1. CASE AcquireInternal(d)
      <4>1. host.acquire_cs = d => host.bus_locked
        BY <3>1 DEF AcquireInternal, At, OwnerInv, HasBus, Polls, WaitingForIsr
      <4> QED
        BY <3>1, <4>1 DEF AcquireInternal
    <3>2. ~ PollingEnd(d)
      BY DEF PollingEnd, QueueInv, QueueOf
    <3>3. CASE \/ AcquireBus(d) \/ InvokeLoad(d) \/ InvokeEnable(d) \/ ClearSemaphore(d)
               \/ TryAcquire(d) \/ CheckAcquired(d) \/ TakeSemaphore(d) \/ StopWaiting(d)
               \/ WaitForIsrIdle(d) \/ LockBus(d) \/ ReleaseBus(d) \/ ReleaseInternal(d)
               \/ LookForWaiting(d) \/ AcquireFor(d) \/ CheckGift(d) \/ GiveSemaphore(d)
               \/ LookForQueued(d)
      BY <3>3 DEF AcquireBus, InvokeLoad, InvokeEnable, ClearSemaphore, TryAcquire, CheckAcquired,
                  TakeSemaphore, StopWaiting, WaitForIsrIdle, LockBus, ReleaseBus, ReleaseInternal,
                  LookForWaiting, AcquireFor, CheckGift, GiveSemaphore, LookForQueued, history, Stale
    <3> QED
      BY <1>3, <3>1, <3>2, <3>3 DEF WalkingAction
  <2>2. BusTypes'
    BY <1>3, WalkingWalks, WalkTypes
  <2>3. CASE over' = "no"
    <3>1. Places' /\ OwnerInv' /\ QueueInv'
      BY <1>3, <2>3, WalkPlaces, WalkOwner, WalkQueueInv
    <3> QED
      BY <2>1, <2>2, <3>1
  <2>4. CASE over' = "stale"
    <3>1. LeavesWire
      BY <1>3, <2>4, WalkEnds
    <3> QED
      BY <2>1, <2>2, <2>4, <3>1
  <2> QED
    BY <2>1, <2>3, <2>4
<1>4. ASSUME NEW d \in Devices, Call(d), ~ AcquireBus(d)
      PROVE  UNCHANGED over /\ BusTypes' /\ CoreInv' /\ QueueInv'
  <2>1. \A t \in BusTransactions : ~ PollingStart(d, t)
    BY DEF PollingStart, QueueOnly
  <2>2. PICK t \in BusTransactions, call \in uses[d].calls : Queue(d, t, call)
    BY <1>4, <2>1 DEF Call
  <2> QED
    BY <2>2, QueueStep
<1>5. ASSUME NEW d \in Devices, Proceed(d), ~ WalkingAction(d)
      PROVE  BusTypes' /\ (~ lost' => over' \in {"no", "stale"}) /\ CoreInv' /\ QueueInv'
  <2>1. ~ StartPolling(d) /\ ~ PostTrans(d) /\ ~ Uninstall(d)
    BY DEF StartPolling, PostTrans, Uninstall, At, QueueInv, QueueOf
  <2>2. GetTransResult(d)
    BY <1>5, <2>1 DEF Proceed, WalkingAction
  <2> QED
    BY <2>2, GetTransResultStep
<1> QED
  BY <1>1, <1>2, <1>3, <1>4, <1>5 DEF BusNext, WalkingAction

-----------------------------------------------------------------------------
(* The invariant *)

\* What is on the wire is one transaction when there is but one that it can be.
LEMMA OneOnTheWire ==
    ASSUME \A v, w \in wire : v = w
    PROVE  Cardinality(wire) <= 1
<1>1. CASE wire = {}
  BY <1>1, FS_EmptySet
<1>2. CASE wire # {}
  <2>1. PICK w : wire = {w}
    BY <1>2
  <2>2. Cardinality(wire) = 1
    BY <2>1, FS_Singleton
  <2> QED
    BY <2>2
<1> QED
  BY <1>1, <1>2

\* On a bus that is polled the property follows from who owns the bus.
LEMMA PollIntact ==
    BusTypes /\ OwnerInv /\ PollInv /\ over = "no" => TransactionsIntact
<1> SUFFICES ASSUME BusTypes, OwnerInv, PollInv, over = "no", ~ trodden
             PROVE  /\ Cardinality(wire) <= 1
                    /\ \A w \in wire : /\ w.trans[1] = w.cs
                                       /\ \A d \in Devices : task[d].locked => w.cs = d
                                       /\ host.polling => task[w.cs].trans = w.trans
                    /\ \A d \in Devices :
                            airborne[d] = dev[d].ret_queue \o AtWork(d) \o dev[d].trans_queue
  BY DEF TransactionsIntact
<1>1. \A w \in wire : /\ w = [trans |-> w.trans, cs |-> w.cs] /\ w.cs \in Devices
                      /\ w.cs = host.cur_cs /\ w.trans = task[w.cs].trans
  BY DEF PollInv, PollWire, BusTypes, BusTypeOK
<1>2. Cardinality(wire) <= 1
  <2>1. \A v, w \in wire : v = w
    BY <1>1
  <2> QED
    BY <2>1, OneOnTheWire
<1>3. ASSUME NEW w \in wire
      PROVE  /\ w.trans[1] = w.cs
             /\ \A d \in Devices : task[d].locked => w.cs = d
             /\ host.polling => task[w.cs].trans = w.trans
  <2>1. w.cs \in Devices /\ Polls(w.cs) /\ HasBus(w.cs)
    BY <1>1 DEF PollInv, PollWire, HasBus
  <2>2. w.trans[1] = w.cs
    BY <1>1, <2>1 DEF PollInv, PollOf, Polls
  <2>3. \A d \in Devices : task[d].locked => w.cs = d
    BY <2>1 DEF OwnerInv, HasBus
  <2> QED
    BY <1>1, <2>2, <2>3
<1>4. ASSUME NEW d \in Devices
      PROVE  airborne[d] = dev[d].ret_queue \o AtWork(d) \o dev[d].trans_queue
  <2>1. AtWork(d) = <<>>
    BY DEF AtWork, PollInv, HandlerOff, PollWire
  <2>2. <<>> \o <<>> \o <<>> = <<>>
    BY EmptySeq, ConcatEmptySeq
  <2> QED
    BY <2>1, <2>2 DEF PollInv, PollOf
<1> QED
  BY <1>2, <1>3, <1>4

\* On a bus that is queued on it follows from the accounts of the handler.
LEMMA QueueIntact ==
    BusTypes /\ QueueInv /\ (~ lost => over \in {"no", "stale"}) => TransactionsIntact
<1> SUFFICES ASSUME BusTypes, QueueInv, over \in {"no", "stale"}, ~ lost
             PROVE  /\ Cardinality(wire) <= 1
                    /\ \A w \in wire : /\ w.trans[1] = w.cs
                                       /\ \A d \in Devices : task[d].locked => w.cs = d
                                       /\ host.polling => task[w.cs].trans = w.trans
                    /\ \A d \in Devices :
                            airborne[d] = dev[d].ret_queue \o AtWork(d) \o dev[d].trans_queue
  BY DEF TransactionsIntact
<1>1. \A w \in wire : /\ w = [trans |-> w.trans, cs |-> w.cs] /\ w.cs \in Devices
                      /\ w.cs = host.cur_cs /\ w.trans = host.cur_trans_buf
  BY DEF QueueInv, QueueWire, BusTypes, BusTypeOK
<1>2. Cardinality(wire) <= 1
  <2>1. \A v, w \in wire : v = w
    BY <1>1
  <2> QED
    BY <2>1, OneOnTheWire
<1>3. ASSUME NEW w \in wire
      PROVE  /\ w.trans[1] = w.cs
             /\ \A d \in Devices : task[d].locked => w.cs = d
             /\ host.polling => task[w.cs].trans = w.trans
  <2>1. w.trans[1] = w.cs
    BY <1>1, SpiMasterAssumption, NoDevice DEF QueueInv, HandlerInv
  <2>2. \A d \in Devices : task[d].locked => w.cs = d
    <3>1. ASSUME NEW d \in Devices, task[d].locked
          PROVE  host.cur_cs \in {NO_CS, d}
      BY <3>1 DEF QueueInv, QueueOf, ReliesOnIsr, SafeFor
    <3> QED
      BY <1>1, <3>1, SpiMasterAssumption, NoDevice
  <2> QED
    BY <2>1, <2>2 DEF QueueInv
<1>4. \A d \in Devices : airborne[d] = dev[d].ret_queue \o AtWork(d) \o dev[d].trans_queue
  BY DEF QueueInv, QueueOf, Accounted
<1> QED
  BY <1>2, <1>3, <1>4

\* The same of the state after a step.
LEMMA IntactNext ==
    /\ BusTypes' /\ OwnerInv' /\ PollInv' /\ over' = "no" => TransactionsIntact'
    /\ BusTypes' /\ QueueInv' /\ (~ lost' => over' \in {"no", "stale"}) => TransactionsIntact'
<1>1. (BusTypes /\ OwnerInv /\ PollInv /\ over = "no" => TransactionsIntact)'
  BY PollIntact, PTL
<1>2. (BusTypes /\ QueueInv /\ (~ lost => over \in {"no", "stale"}) => TransactionsIntact)'
  BY QueueIntact, PTL
<1> QED
  BY <1>1, <1>2

\* A step that leaves the wire ends the model at worst.
LEMMA LeavesIntact ==
    ASSUME BusTypes, TransactionsIntact, LeavesWire, over' = "stale"
    PROVE  TransactionsIntact'
<1> SUFFICES ASSUME ~ trodden', ~ lost'
             PROVE  /\ Cardinality(wire') <= 1
                    /\ \A w \in wire' : /\ w.trans[1] = w.cs
                                        /\ \A d \in Devices : task'[d].locked => w.cs = d
                                        /\ host'.polling => task'[w.cs].trans = w.trans
  BY DEF TransactionsIntact
<1> QED
  <2>1. \A w \in wire : w.cs \in Devices
    BY DEF BusTypes, BusTypeOK
  <2> QED
    BY <2>1 DEF TransactionsIntact, LeavesWire

\* A bus begins idle, with every queue empty.
LEMMA BusInvInit ==
    ASSUME SpiMasterAssumption, BusInit, PollOnly \/ QueueOnly
    PROVE  BusInv
<1>1. NO_CS \notin Devices /\ NO_CS \in 0 .. NO_CS
  BY NoDevice
<1>2. BusTypes
  <2>1. /\ host \in HostRecord /\ dev \in [Devices -> DeviceRecord]
        /\ task \in [Devices -> TaskRecord] /\ isr \in [pc : IsrPlaces, cs : 0 .. NO_CS]
    <3>1. <<>> \in Seq(BusTransactions)
      BY EmptySeq
    <3>2. "app" \in TaskPlaces /\ "off" \in IsrPlaces
      BY DEF TaskPlaces, IsrPlaces
    <3> QED
      BY <1>1, <3>1, <3>2 DEF BusInit, HostRecord, DeviceRecord, TaskRecord, NoBuffer
  <2>2. \A d \in Devices : Len(dev[d].trans_queue) <= QueueSize /\ Len(dev[d].ret_queue) <= QueueSize
    <3>1. Len(<<>>) = 0 /\ QueueSize \in Nat
      BY SpiMasterAssumption DEF SpiMasterAssumption
    <3> QED
      BY <3>1 DEF BusInit
  <2>3. /\ uses \in Styles /\ intr \in BOOLEAN /\ wire = {}
        /\ airborne \in [Devices -> Seq(BusTransactions)]
        /\ trodden \in BOOLEAN /\ lost \in BOOLEAN
    BY EmptySeq DEF BusInit
  <2>4. /\ isr.cs \in 0 .. NO_CS
        /\ \A d \in Devices : /\ task[d].trans \in BusTransactions \union {NoBuffer}
                             /\ task[d].other \in 0 .. NO_CS
    BY <2>1 DEF TaskRecord
  <2> QED
    BY <2>1, <2>2, <2>3, <2>4 DEF BusTypes, BusTypeOK, HostRecord, DeviceRecord
<1>3. Places
  BY DEF BusInit, Places, InPlace, Acquiring, Releasing, Invoking
<1>4. OwnerInv
  BY <1>1 DEF BusInit, OwnerInv, HasBus, Polls, WaitingForIsr
<1>5. PollInv
  BY <1>1 DEF BusInit, PollInv, HandlerOff, PollOf, PollWire, Polls, Invoking
<1>6. QueueInv
  <2>1. <<>> \o <<>> \o <<>> = <<>> /\ Len(<<>>) = 0
    BY EmptySeq, ConcatEmptySeq
  <2>2. \A d \in Devices : AtWork(d) = <<>>
    BY <1>1 DEF BusInit, AtWork
  <2>3. \A d \in Devices : Accounted(d)
    BY <2>1, <2>2 DEF BusInit, Accounted
  <2>4. \A d \in Devices : QueueOf(d)
    BY <2>1, <2>3 DEF BusInit, QueueOf, ReliesOnIsr, SafeFor
  <2> QED
    BY <2>4 DEF BusInit, QueueInv, HandlerInv, QueueWire
<1>7. TransactionsIntact
  BY <1>2, <1>6, QueueIntact DEF BusInit
<1> QED
  BY <1>2, <1>3, <1>4, <1>5, <1>6, <1>7 DEF BusInv

\* Every step of a task, of the handler and of the hardware keeps the invariant.
LEMMA BusInvStep ==
    ASSUME SpiMasterAssumption, BusInv, [BusNext]_busVars
    PROVE  BusInv'
<1>1. CASE UNCHANGED busVars
  <2> USE <1>1 DEF busVars
  <2>1. BusTypes => BusTypes'
    BY DEF BusTypes, BusTypeOK
  <2>2. TransactionsIntact => TransactionsIntact'
    BY DEF TransactionsIntact, AtWork
  <2>3. Places => Places'
    BY DEF Places, InPlace
  <2>4. OwnerInv => OwnerInv'
    BY DEF OwnerInv, HasBus, Polls
  <2>5. PollOnly /\ PollInv => PollOnly' /\ PollInv'
    BY DEF PollOnly, PollInv, HandlerOff, PollOf, PollWire, Polls
  <2>6. QueueOnly /\ QueueInv => QueueOnly' /\ QueueInv'
    <3>1. \A d \in Devices : QueueOf(d) => QueueOf(d)'
      BY DEF QueueOf, Accounted, AtWork, ReliesOnIsr, SafeFor
    <3>2. HandlerInv /\ QueueWire => HandlerInv' /\ QueueWire'
      BY DEF HandlerInv, QueueWire
    <3> QED
      BY <3>1, <3>2 DEF QueueOnly, QueueInv
  <2> QED
    BY <2>1, <2>2, <2>3, <2>4, <2>5, <2>6 DEF BusInv
<1>2. CASE BusNext
  <2>1. over = "no" /\ UNCHANGED uses
    <3> USE DEF At, IsrAt, history
    <3>1. CASE Isr \/ TransDone
      BY <3>1 DEF Isr, TransDone, Interrupt, ReturnTrans, Begin, Disable, WhoseQueue, ReceiveOwner,
                  TellOwner, ReceiveAny, SendTrans, Reenable
    <3>2. CASE \E d \in Devices : Call(d)
      BY <3>2, ZenonT(30) DEF Call, PollingStart, Queue, AcquireBus
    <3>3. CASE \E d \in Devices : Proceed(d)
      <4>1. PICK d \in Devices : Proceed(d)
        BY <3>3
      <4>2. CASE InvokeLoad(d) \/ InvokeEnable(d) \/ GetTransResult(d) \/ AcquireInternal(d)
                 \/ ClearSemaphore(d) \/ TryAcquire(d) \/ CheckAcquired(d) \/ TakeSemaphore(d)
                 \/ StopWaiting(d) \/ WaitForIsrIdle(d) \/ LockBus(d)
        BY <4>2 DEF InvokeLoad, InvokeEnable, GetTransResult, AcquireInternal, ClearSemaphore,
                    TryAcquire, CheckAcquired, TakeSemaphore, StopWaiting, WaitForIsrIdle, LockBus
      <4>3. CASE StartPolling(d) \/ PollingEnd(d) \/ PostTrans(d) \/ Uninstall(d) \/ ReleaseBus(d)
                 \/ ReleaseInternal(d) \/ LookForWaiting(d) \/ AcquireFor(d) \/ CheckGift(d)
                 \/ GiveSemaphore(d) \/ LookForQueued(d)
        BY <4>3 DEF StartPolling, PollingEnd, PostTrans, Uninstall, ReleaseBus, ReleaseInternal,
                    LookForWaiting, AcquireFor, CheckGift, GiveSemaphore, LookForQueued
      <4> QED
        BY <4>1, <4>2, <4>3 DEF Proceed
    <3> QED
      BY <1>2, <3>1, <3>2, <3>3 DEF BusNext
  <2>2. CoreInv /\ TransactionsIntact /\ ((PollOnly /\ PollInv) \/ (QueueOnly /\ QueueInv))
    BY <2>1 DEF BusInv, CoreInv
  <2>3. CASE PollOnly /\ PollInv
    <3>1. /\ BusTypes'
          /\ (over' = "no" /\ CoreInv' /\ PollInv') \/ (over' = "stale" /\ LeavesWire)
      BY <1>2, <2>1, <2>2, <2>3, PollStep
    <3>2. CASE over' = "no" /\ CoreInv' /\ PollInv'
      <4>1. TransactionsIntact'
        BY <3>1, <3>2, IntactNext DEF CoreInv
      <4>2. PollOnly'
        BY <2>1, <2>3 DEF PollOnly
      <4> QED
        BY <3>2, <4>1, <4>2 DEF BusInv, CoreInv
    <3>3. CASE over' = "stale" /\ LeavesWire
      BY <2>2, <3>1, <3>3, LeavesIntact DEF BusInv, CoreInv
    <3> QED
      BY <3>1, <3>2, <3>3
  <2>4. CASE QueueOnly /\ QueueInv
    <3>1. /\ BusTypes' /\ (~ lost' => over' \in {"no", "stale"})
          /\ (CoreInv' /\ QueueInv') \/ (over' = "stale" /\ LeavesWire)
      BY <1>2, <2>1, <2>2, <2>4, QueueBusStep
    <3>2. CASE CoreInv' /\ QueueInv'
      <4>1. TransactionsIntact'
        BY <3>1, <3>2, IntactNext DEF CoreInv
      <4>2. QueueOnly'
        BY <2>1, <2>4 DEF QueueOnly
      <4> QED
        BY <3>2, <4>1, <4>2 DEF BusInv, CoreInv
    <3>3. CASE over' = "stale" /\ LeavesWire
      BY <2>2, <3>1, <3>3, LeavesIntact DEF BusInv, CoreInv
    <3> QED
      BY <3>1, <3>2, <3>3
  <2> QED
    BY <2>2, <2>3, <2>4
<1> QED
  BY <1>1, <1>2
=============================================================================
