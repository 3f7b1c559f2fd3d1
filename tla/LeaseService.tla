----------------------------- MODULE LeaseService -----------------------------
(***************************************************************************)
(* What attachment leases promise (docs/DAEMON.md, "Attachment ownership   *)
(* leases"), with no requests, connections or queues: a pane has at most   *)
(* one holder, a lease is fresh when it is granted, a holder that lost its *)
(* lease never holds it again, and a daemon that shuts down grants         *)
(* nothing.  A connection that takes over its own scope's lease is not     *)
(* visible here.                                                           *)
(***************************************************************************)
EXTENDS Naturals

CONSTANTS Panes, Scopes, LastLease, NoHolder

VARIABLES holder,    \* who holds each pane: [scope, lease] or NoHolder
          granted,   \* number of leases granted so far, the last one's value
          closing    \* the daemon is shutting down

vars == << holder, granted, closing >>

Init == /\ holder = [p \in Panes |-> NoHolder]
        /\ granted = 0
        /\ closing = FALSE

Grant(p, s) ==
    /\ ~ closing
    /\ granted < LastLease
    /\ granted' = granted + 1
    /\ holder' = [holder EXCEPT ![p] = [scope |-> s, lease |-> granted + 1]]
    /\ UNCHANGED closing

Release(p) ==
    /\ holder[p] # NoHolder
    /\ holder' = [holder EXCEPT ![p] = NoHolder]
    /\ UNCHANGED << granted, closing >>

Close ==
    /\ closing' = TRUE
    /\ UNCHANGED << holder, granted >>

Next == \/ \E p \in Panes : Release(p) \/ \E s \in Scopes : Grant(p, s)
        \/ Close

Spec == Init /\ [][Next]_vars
=============================================================================
