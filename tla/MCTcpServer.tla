---------------------------- MODULE MCTcpServer ----------------------------
(* Model checking of TcpServer. *)
EXTENDS TcpServer
=============================================================================
