------------------------------ MODULE AtMostOnce ------------------------------
(***************************************************************************)
(* What correlated requests promise a client (docs/DAEMON.md, "Correlated  *)
(* requests and retries"), with no cache, no connections and no retries:   *)
(* an ID is taken once and in increasing order, the operation behind a     *)
(* taken ID runs at most once, and whoever asks about the ID with the same *)
(* body is told the same result.                                           *)
(***************************************************************************)
EXTENDS Naturals

CONSTANTS Ids, Bodies, Results

VARIABLES used,      \* the largest ID taken
          runs,      \* how often the operation of each ID ran
          answers    \* the <<body, result>> pairs told about each ID

vars == << used, runs, answers >>

Init == /\ used = 0
        /\ runs = [id \in Ids |-> 0]
        /\ answers = [id \in Ids |-> {}]

Take(id) == /\ id > used
            /\ used' = id
            /\ UNCHANGED << runs, answers >>

Run(id) == /\ id <= used
           /\ runs[id] = 0
           /\ answers[id] = {}
           /\ runs' = [runs EXCEPT ![id] = 1]
           /\ UNCHANGED << used, answers >>

Tell(id, body, result) ==
    /\ id <= used
    /\ answers[id] \subseteq {<< body, result >>}
    /\ answers' = [answers EXCEPT ![id] = {<< body, result >>}]
    /\ UNCHANGED << used, runs >>

Next == \E id \in Ids :
            \/ Take(id)
            \/ Run(id)
            \/ \E body \in Bodies, result \in Results : Tell(id, body, result)

Spec == Init /\ [][Next]_vars
=============================================================================
