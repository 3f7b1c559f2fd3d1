---------------------------- MODULE MCRequestScope ----------------------------
(***************************************************************************)
(* Two connections of one scope and a cache that keeps one result and      *)
(* admits one pending request, so that eviction, expiry and overload all   *)
(* happen while an old connection is still draining.                       *)
(***************************************************************************)
EXTENDS RequestScope, TLC

CONSTANTS create, stop, ok, NumIds

MCIds == 1 .. NumIds
MCBodies == {create, stop}
MCDeferred == {stop}
=============================================================================
