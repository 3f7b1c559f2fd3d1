-------------------------- MODULE SessionDirectory --------------------------
(***************************************************************************)
(* What the daemon promises about session creation: a logical identity and *)
(* a numeric session ID belong to at most one creation at a time, from the *)
(* moment it is let in to the moment its pane is finalized or it is given  *)
(* up, and nobody is let in once the daemon closes.                        *)
(***************************************************************************)
CONSTANTS Creates, Identities, SessionIds, None

VARIABLES holds,   \* what each creation holds: [identity, session, phase], or Nothing
          closed

vars == << holds, closed >>

Nothing == [identity |-> None, session |-> None, phase |-> "none"]

Init ==
    /\ holds = [r \in Creates |-> Nothing]
    /\ closed = FALSE

Free(i, s) ==
    \A r \in Creates : holds[r].identity # i /\ holds[r].session # s

Claim(r, i, s) ==
    /\ ~ closed
    /\ holds[r] = Nothing
    /\ Free(i, s)
    /\ holds' = [holds EXCEPT ![r] = [identity |-> i, session |-> s, phase |-> "claimed"]]
    /\ UNCHANGED closed

Open(r) ==
    /\ ~ closed
    /\ holds[r].phase = "claimed"
    /\ holds' = [holds EXCEPT ![r] = [@ EXCEPT !.phase = "open"]]
    /\ UNCHANGED closed

Drop(r) ==
    /\ holds[r].session # None
    /\ holds' = [holds EXCEPT ![r] = Nothing]
    /\ UNCHANGED closed

Close ==
    /\ closed' = TRUE
    /\ UNCHANGED holds

Next ==
    \/ Close
    \/ \E r \in Creates :
          Open(r) \/ Drop(r) \/ \E i \in Identities, s \in SessionIds : Claim(r, i, s)

Spec == Init /\ [][Next]_vars
=============================================================================
