----------------------------- MODULE MCRpcQueue -----------------------------
(* Model checking of RpcQueue. *)
EXTENDS RpcQueue
=============================================================================
