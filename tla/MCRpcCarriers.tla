---------------------------- MODULE MCRpcCarriers ----------------------------
(* Model checking of RpcCarriers. *)
EXTENDS RpcCarriers
=============================================================================
