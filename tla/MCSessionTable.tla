--------------------------- MODULE MCSessionTable ---------------------------
(***************************************************************************)
(* SessionTable on a small instance: two identities that differ in both    *)
(* parts, two generations of one agent, and metadata that is refused.      *)
(***************************************************************************)
EXTENDS SessionTable

CONSTANTS n1, n2, t1, t2, pi

Agent(generation) == [schema |-> 1, chat |-> 1, agent |-> pi, generation |-> generation]

MCIdentities == {[namespace |-> n1, token |-> t1], [namespace |-> n2, token |-> t2]}
MCMetadata   == {Agent(1), Agent(2), [Agent(1) EXCEPT !.chat = 0]}
MCUpdates    ==
    [identity : {[namespace |-> n1, token |-> t1]}, metadata : {Agent(1)},
     status : {"running", "failed"}]
=============================================================================
