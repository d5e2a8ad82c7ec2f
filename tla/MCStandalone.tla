---------------------------- MODULE MCStandalone ----------------------------
(***************************************************************************)
(* The parts of the system that share nothing with each other, and the id     *)
(* node of a single call, in one run: a behaviour is a behaviour of one of    *)
(* them, and the others keep still.                                           *)
(***************************************************************************)
EXTENDS UdpServer, I2cPorts, NvsStore, SpiTransfer, SpiQueue, SpiMaster, UartPort, IdNode, Networking

VARIABLE part       \* the part that runs

vars == <<part, udpVars, i2cVars, nvsVars, spiVars, spiqVars, busVars, uartVars, nodeVars, networkingVars>>

\* No bus is used both by polling and by queueing: the driver is written on that assumption
\* (spi_master.c, "Mixed mode"), and does not check it.
ASSUME StylesAssumption ==
    \A style \in Styles :
        \/ \A d \in Devices : style[d].calls \intersect {"queue", "transmit"} = {}
        \/ \A d \in Devices : "poll" \notin style[d].calls

\* What the tasks of the devices 0 and 1 call, and how many transactions each has.
Uses(zero, one, n) == [d \in Devices |-> [calls |-> IF d = 0 THEN zero ELSE one, has |-> n]]

\* Tasks that poll on both devices, or queue, transmit and lock on both: not both ways on one bus.
UsesOfTheBus ==
    {Uses({"poll", "lock"}, {"poll", "lock"}, 1), Uses({"queue"}, {"queue"}, 2),
     Uses({"transmit", "lock"}, {"lock"}, 1), Uses({"queue", "lock"}, {"queue"}, 1)}

\* halfDuplex, dma and uses are the only choices the initial states of a part have.
Init ==
    /\ part \in {"udp", "i2c", "nvs", "spi", "spiq", "bus", "uart", "node", "net"}
    /\ UdpInit /\ I2cInit /\ NvsInit /\ SpiInit /\ SpiqInit /\ BusInit /\ UartInit /\ NodeInit /\ NetInit
    /\ part # "spi" => ~ halfDuplex
    /\ dma => halfDuplex       \* it plays no part in full duplex
    /\ part # "bus" => uses = CHOOSE style \in Styles : TRUE

\* A step of p: the other parts keep still.
Only(p) ==
    /\ part = p /\ UNCHANGED part
    /\ IF p = "udp" THEN TRUE ELSE UNCHANGED udpVars
    /\ IF p = "i2c" THEN TRUE ELSE UNCHANGED i2cVars
    /\ IF p = "nvs" THEN TRUE ELSE UNCHANGED nvsVars
    /\ IF p = "spi" THEN TRUE ELSE UNCHANGED spiVars
    /\ IF p = "spiq" THEN TRUE ELSE UNCHANGED spiqVars
    /\ IF p = "bus" THEN TRUE ELSE UNCHANGED busVars
    /\ IF p = "uart" THEN TRUE ELSE UNCHANGED uartVars
    /\ IF p = "node" THEN TRUE ELSE UNCHANGED nodeVars
    /\ IF p = "net" THEN TRUE ELSE UNCHANGED networkingVars

Next ==
    \/ Only("udp") /\ UdpNext
    \/ Only("i2c") /\ I2cNext
    \/ Only("nvs") /\ NvsNext
    \/ Only("spi") /\ SpiNext
    \/ Only("spiq") /\ SpiqNext
    \/ Only("bus") /\ BusNext
    \/ Only("uart") /\ UartNext
    \/ Only("node") /\ NodeNext
    \/ Only("net") /\ NetNext

Spec == Init /\ [][Next]_vars

\* The task of the UDP server has nothing but its select to wait for.  In a part that keeps
\* still nothing that is fair is enabled.
FairSpec == Spec /\ WF_udpVars(UdpTask) /\ BusFairness /\ NetFairness

TypeOK ==
    /\ UdpTypeOK /\ I2cTypeOK /\ NvsTypeOK /\ SpiTypeOK /\ SpiqTypeOK /\ BusTypeOK /\ UartTypeOK /\ NodeTypeOK
    /\ NetTypeOK
=============================================================================
