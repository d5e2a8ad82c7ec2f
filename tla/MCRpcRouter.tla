---------------------------- MODULE MCRpcRouter ----------------------------
(* Model checking of RpcRouter. *)
EXTENDS RpcRouter

\* Signatures of up to three parameters, optional or not, of two kinds.
Param == [kind : ArgKinds, opt : BOOLEAN]
SmallSigs == UNION {[1 .. n -> Param] : n \in 0 .. 3}

\* One kind only, and shorter.
OneKindSigs == UNION {[1 .. n -> [kind : {"JInt"}, opt : BOOLEAN]] : n \in 0 .. 2}
=============================================================================
