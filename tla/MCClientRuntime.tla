-------------------------- MODULE MCClientRuntime --------------------------
(* Bounds for ClientRuntime: calls, client scopes, breaks.                 *)
EXTENDS ClientRuntime
=============================================================================
