---------------------------- MODULE CallService ----------------------------
(***************************************************************************)
(* What the client's request runtime (PtyRuntime in src/src/pty.rs)        *)
(* promises the code that calls it, whatever becomes of the connection and *)
(* of the daemon: a call is executed at most once; it ends once, by an     *)
(* answer to it, by an error, or, for a stop, by the report that it was    *)
(* never confirmed; and such a report is made only while no answer has     *)
(* come.  There are no request IDs here, no scopes and no messages.        *)
(*                                                                         *)
(* A stray is a call that was under way when its connection was replaced   *)
(* by one of another scope: its answer, and one taken for its answer, may  *)
(* be another's.                                                           *)
(***************************************************************************)
EXTENDS Integers

CONSTANT LastCall       \* bound: calls made

Calls == 1 .. LastCall

VARIABLES
    made,       \* calls made: they are numbered
    pending,    \* those that have not ended
    executed,   \* how often each was executed
    heard,      \* those an answer to which has come
    result,     \* whose answer each call ended by, or 0
    alarmed,    \* stops reported as never confirmed
    strays

vars == << made, pending, executed, heard, result, alarmed, strays >>

Init ==
    /\ made = 0 /\ pending = {}
    /\ executed = [n \in Calls |-> 0]
    /\ result = [n \in Calls |-> 0]
    /\ heard = {} /\ alarmed = {} /\ strays = {}

Made == 1 .. made

Call ==
    /\ made < LastCall
    /\ made' = made + 1
    /\ pending' = pending \cup {made'}
    /\ UNCHANGED << executed, heard, result, alarmed, strays >>

\* It may be done after the call has ended, never twice.
Execute(n) ==
    /\ executed[n] = 0
    /\ executed' = [executed EXCEPT ![n] = 1]
    /\ UNCHANGED << made, pending, heard, result, alarmed, strays >>

Hear(n) ==
    /\ heard' = heard \cup {n}
    /\ UNCHANGED << made, pending, executed, result, alarmed, strays >>

\* Call n ends by the answer to call m: its own, but for the strays.
Take(n, m) ==
    /\ m = n \/ {n, m} \cap strays # {}
    /\ pending' = pending \ {n}
    /\ heard' = heard \cup {m}
    /\ result' = [result EXCEPT ![n] = m]
    /\ UNCHANGED << made, executed, alarmed, strays >>

\* Calls end by an error, at once where the connection is lost.
GiveUp ==
    /\ pending' \in SUBSET pending
    /\ strays' = strays \/ \E n \in pending' : strays' = strays \cup {n}
    /\ UNCHANGED << made, executed, heard, result, alarmed >>

\* A stop ends by the report that it was never confirmed.
Alarm(n) ==
    /\ n \notin heard \/ strays # {}
    /\ pending' = pending \ {n}
    /\ alarmed' = alarmed \cup {n}
    /\ UNCHANGED << made, executed, heard, result, strays >>

Next ==
    \/ Call \/ GiveUp
    \/ \E n \in Made : Execute(n) \/ Hear(n)
    \/ \E n \in pending : Alarm(n) \/ \E m \in Made : Take(n, m)

Spec == Init /\ [][Next]_vars
=============================================================================
