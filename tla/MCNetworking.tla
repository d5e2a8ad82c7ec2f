---------------------------- MODULE MCNetworking ----------------------------
(* Model checking of Networking on its own; MCStandalone has it as one of its parts. *)
EXTENDS Networking

Spec == NetInit /\ [][NetNext]_networkingVars
=============================================================================
