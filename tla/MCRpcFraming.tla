---------------------------- MODULE MCRpcFraming ----------------------------
(* Model checking of RpcFraming. *)
EXTENDS RpcFraming
=============================================================================
