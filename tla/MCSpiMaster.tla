----------------------------- MODULE MCSpiMaster ----------------------------
(* Model checking of SpiMaster on its own; MCStandalone has it as one of its parts. *)
EXTENDS SpiMaster

\* One device is used with spi_device_transmit, the other with poll.
TransmitAndPoll == {[d \in Devices |-> [calls |-> IF d = 0 THEN {"transmit"} ELSE {"poll"}, has |-> 1]]}

Spec == BusInit /\ [][BusNext]_busVars
=============================================================================
