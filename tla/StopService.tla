------------------------------ MODULE StopService ------------------------------
(***************************************************************************)
(* What stopping a pane promises (docs/DAEMON.md, "Session lifecycle" and  *)
(* "Process-group termination"), with no threads: the pane goes once, and  *)
(* going answers every stop accepted until then; a stop is reported as a   *)
(* confirmed success ("stopped", "absent") only when the pane is gone, and *)
(* a failure takes every accepted stop at once.                            *)
(***************************************************************************)
CONSTANT Stops

VARIABLES gone,   \* the session was removed
          stop    \* each stop request: "new", "accepted", or its answer

vars == << gone, stop >>

Accepted == {r \in Stops : stop[r] = "accepted"}

\* Every accepted stop gets the same answer.
AnswerAccepted(answer) == [r \in Stops |-> IF r \in Accepted THEN answer ELSE stop[r]]

Init == gone = FALSE /\ stop = [r \in Stops |-> "new"]

Accept(r) == /\ ~ gone /\ stop[r] = "new"
             /\ stop' = [stop EXCEPT ![r] = "accepted"]
             /\ UNCHANGED gone

Reject(r) == /\ stop[r] = "new"
             /\ stop' = [stop EXCEPT ![r] = "rejected"]
             /\ UNCHANGED gone

FindAbsent(r) == /\ gone /\ stop[r] = "new"
                 /\ stop' = [stop EXCEPT ![r] = "absent"]
                 /\ UNCHANGED gone

Fail == /\ Accepted # {}
        /\ stop' = AnswerAccepted("failed")
        /\ UNCHANGED gone

Go == /\ ~ gone /\ gone' = TRUE
      /\ stop' = AnswerAccepted("stopped")

Next == Fail \/ Go \/ \E r \in Stops : Accept(r) \/ Reject(r) \/ FindAbsent(r)

Spec == Init /\ [][Next]_vars
=============================================================================
