----------------------------- MODULE MCOtaUpdate -----------------------------
(* Model checking of OtaUpdate. *)
EXTENDS OtaUpdate
=============================================================================
