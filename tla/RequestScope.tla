----------------------------- MODULE RequestScope -----------------------------
(***************************************************************************)
(* One client scope of the daemon and the connections that speak for it.   *)
(* A connection whose client reconnected keeps a reader thread that may    *)
(* still hold unread requests, so several connections of one scope present *)
(* the same or overlapping request IDs in any order.                       *)
(*                                                                         *)
(* A stateful request is handled in separate critical sections of the      *)
(* server lock (handle_create_request, handle_attach_request,              *)
(* handle_stop_request, handle_agent_status_request): begin_request, then  *)
(* the mutation, then complete_request.  Anything may happen between them. *)
(* Delivery follows complete_request after the lock is released; it reads  *)
(* only values the thread took under the lock and is modelled in the same  *)
(* step.                                                                   *)
(***************************************************************************)
EXTENDS RequestCache

CONSTANTS Conns,       \* connections of the scope (ClientId)
          Bodies,      \* request bodies
          Deferred,    \* bodies answered by another thread (Stop)
          Lenient,     \* bodies one of whose answers may be dropped on a full queue
                       \* without a disconnect (Attach, a failed Stop)
          Outcomes,    \* results the mutation may have
          Overloaded   \* the TooManyPendingRequests result

ASSUME RequestScopeAssumption ==
    /\ Deferred \subseteq Bodies
    /\ Lenient \subseteq Bodies
    /\ None \notin Bodies
    /\ Overloaded \notin Outcomes
    /\ None \notin Outcomes \cup {Overloaded}

VARIABLES
    scope,      \* the RequestScopeState
    conn,       \* "open", "inactive" (ClientHandle.active is false but the reader
                \* thread is still running) or "closed" (the reader thread ended)
    busy,       \* the request each reader thread is inside, 0 if none
    job,        \* progress of each request's handler
    runs,       \* history: how often each request's mutation ran
    answers,    \* history: the <<body, result>> pairs queued for each ID
    awaiting    \* history: the requests each open connection is owed an answer for

vars == << scope, conn, busy, job, runs, answers, awaiting >>

Results == Outcomes \cup {Overloaded}
JobStates == {"none", "begun", "mutated", "overloaded"}
Request(id) == scope.records[id].request

Init ==
    /\ scope = EmptyScope
    /\ conn = [c \in Conns |-> "open"]
    /\ busy = [c \in Conns |-> 0]
    /\ job = [id \in Ids |-> "none"]
    /\ runs = [id \in Ids |-> 0]
    /\ answers = [id \in Ids |-> {}]
    /\ awaiting = [c \in Conns |-> {}]
-----------------------------------------------------------------------------
Owing(c, id) == IF conn[c] = "open" THEN [awaiting EXCEPT ![c] = @ \cup {id}] ELSE awaiting
Forgiving(cs) == [c \in Conns |-> IF c \in cs THEN {} ELSE awaiting[c]]

\* Entering a handler: begin_request under the server lock.  A reader thread
\* runs one handler at a time.
Entering(c, id, body, disposition) ==
    /\ conn[c] # "closed"
    /\ busy[c] = 0
    /\ Disposition(scope, id, body) = disposition
    /\ scope' = BeginRequest(scope, id, body, c)
    /\ UNCHANGED << conn, runs >>

\* The first request with this ID.  The reader thread stays in the handler
\* unless another thread will complete the request.
BeginNew(c, id, body) ==
    /\ Entering(c, id, body, "New")
    /\ job' = [job EXCEPT ![id] = "begun"]
    /\ busy' = [busy EXCEPT ![c] = IF body \in Deferred THEN 0 ELSE id]
    /\ awaiting' = Owing(c, id)
    /\ UNCHANGED answers

\* Too many requests are pending: the ID is consumed, and the handler's only
\* remaining step is to complete it with the overload result.
BeginOverloaded(c, id, body) ==
    /\ Entering(c, id, body, "TooManyPending")
    /\ job' = [job EXCEPT ![id] = "overloaded"]
    /\ busy' = [busy EXCEPT ![c] = id]
    /\ awaiting' = Owing(c, id)
    /\ UNCHANGED answers

\* A retry of a request that is still running waits with the others.
BeginPending(c, id, body) ==
    /\ Entering(c, id, body, "Pending")
    /\ awaiting' = Owing(c, id)
    /\ UNCHANGED << busy, job, answers >>

\* A retry of a completed request is sent the stored response.  try_deliver
\* refuses on an inactive connection or a full queue, and that is ignored.
BeginCached(c, id, body, queued) ==
    /\ Entering(c, id, body, "Cached")
    /\ queued => conn[c] = "open"
    /\ answers' = IF queued
                  THEN [answers EXCEPT ![id] = @ \cup {<< body, scope.records[id].response >>}]
                  ELSE answers
    /\ UNCHANGED << busy, job, awaiting >>

\* Another body under the same ID, or an ID too old to remember: an error that
\* is not a result of the request.
BeginRefused(c, id, body) ==
    /\ \/ Entering(c, id, body, "Collision")
       \/ Entering(c, id, body, "Expired")
    /\ UNCHANGED << busy, job, answers, awaiting >>
-----------------------------------------------------------------------------
\* The mutation the request asks for: a spawn, a takeover, a stop, a status.
Mutate(id) ==
    /\ job[id] = "begun"
    /\ job' = [job EXCEPT ![id] = "mutated"]
    /\ runs' = [runs EXCEPT ![id] = @ + 1]
    /\ UNCHANGED << scope, conn, busy, answers, awaiting >>

\* A handler may also find nothing to do (an existing session, an absent pane).
ResultsOf(id) == CASE job[id] = "overloaded" -> {Overloaded}
                   [] job[id] \in {"begun", "mutated"} -> Outcomes
                   [] OTHER -> {}

\* complete_and_deliver and its kin: every waiter gets the response, or its
\* queue is full ("refused") and its connection is disconnected for it, which
\* an attach transaction that overflows and fail_pending_stops leave undone.
Complete(id, result, refused, punish) ==
    /\ result \in ResultsOf(id)
    /\ punish \/ Request(id) \in Lenient
    /\ LET waiters == WaitingOn(scope.records[id])
           told    == {c \in waiters : conn[c] = "open"} \ refused
       IN  /\ refused \subseteq waiters
           /\ answers' = IF told # {}
                         THEN [answers EXCEPT ![id] = @ \cup {<< Request(id), result >>}]
                         ELSE answers
           /\ awaiting' = [c \in Conns |-> IF c \in refused /\ punish THEN {}
                                           ELSE IF c \in told \cup refused THEN awaiting[c] \ {id}
                                           ELSE awaiting[c]]
           /\ conn' = [c \in Conns |-> IF c \in refused /\ punish /\ conn[c] = "open"
                                       THEN "inactive" ELSE conn[c]]
    /\ scope' = CompleteRequest(scope, id, result)
    /\ job' = [job EXCEPT ![id] = "none"]
    /\ busy' = [c \in Conns |-> IF busy[c] = id THEN 0 ELSE busy[c]]
    /\ UNCHANGED runs
-----------------------------------------------------------------------------
\* Any other disconnect: a failed output delivery shuts the stream down.
Disconnect(c) ==
    /\ conn[c] = "open"
    /\ conn' = [conn EXCEPT ![c] = "inactive"]
    /\ awaiting' = Forgiving({c})
    /\ UNCHANGED << scope, busy, job, runs, answers >>

\* The writer thread fails: it clears active and takes the connection out of
\* every waiter list, while the reader thread may still be in a handler.
WriterEnds(c) ==
    /\ conn[c] # "closed"
    /\ conn' = [conn EXCEPT ![c] = "inactive"]
    /\ scope' = RemoveClient(scope, c)
    /\ awaiting' = Forgiving({c})
    /\ UNCHANGED << busy, job, runs, answers >>

\* The reader thread sees the end of the stream and leaves.
ReaderEnds(c) ==
    /\ conn[c] # "closed"
    /\ busy[c] = 0
    /\ conn' = [conn EXCEPT ![c] = "closed"]
    /\ scope' = RemoveClient(scope, c)
    /\ awaiting' = Forgiving({c})
    /\ UNCHANGED << busy, job, runs, answers >>
-----------------------------------------------------------------------------
Begin(c, id, body) ==
    \/ BeginNew(c, id, body)
    \/ BeginOverloaded(c, id, body)
    \/ BeginPending(c, id, body)
    \/ \E queued \in BOOLEAN : BeginCached(c, id, body, queued)
    \/ BeginRefused(c, id, body)

Finish(id) == \E result \in Results, refused \in SUBSET Conns, punish \in BOOLEAN :
                  Complete(id, result, refused, punish)

Next ==
    \/ \E c \in Conns, id \in Ids, body \in Bodies : Begin(c, id, body)
    \/ \E id \in Ids : Mutate(id) \/ Finish(id)
    \/ \E c \in Conns : Disconnect(c) \/ WriterEnds(c) \/ ReaderEnds(c)

Spec == Init /\ [][Next]_vars

\* A handler that has begun runs to completion: nothing in it blocks on a
\* client (every delivery is a try_send).
FairSpec == Spec /\ \A id \in Ids : WF_vars(Finish(id))
-----------------------------------------------------------------------------
RecordType == [state : {"absent", "pending", "done"}, request : Bodies \cup {None},
               response : Results \cup {None}, waiters : Seq(Conns)]

Distinct(waiters) ==
    \A i, j \in 1 .. Len(waiters) : waiters[i] = waiters[j] => i = j

\* Types, and that the Vec of waiters never lists a connection twice.
TypeOK ==
    /\ scope \in [highest : Nat, records : [Ids -> RecordType]]
    /\ \A id \in Ids : Distinct(WaitersOf(scope, id))
    /\ conn \in [Conns -> {"open", "inactive", "closed"}]
    /\ busy \in [Conns -> Ids \cup {0}]
    /\ job \in [Ids -> JobStates]
    /\ runs \in [Ids -> Nat]
    /\ answers \in [Ids -> SUBSET (Bodies \X Results)]
    /\ awaiting \in [Conns -> SUBSET Ids]

\* The mutation behind an ID never runs twice, whatever is retried on whatever
\* connection, and even after the cache forgot the result; a request refused
\* for overload never runs at all (begin: "Even an overload rejection consumes
\* the request ID").
ExecutedAtMostOnce ==
    \A id \in Ids : /\ runs[id] <= 1
                    /\ (\E b \in Bodies : << b, Overloaded >> \in answers[id]) => runs[id] = 0

\* Everyone who is told the result of an ID is told the same result, for the
\* body that ran: a changed body never receives another body's result.
OneResult ==
    \A id \in Ids : \A x, y \in answers[id] : x = y

\* Whoever is owed an answer on a live connection is still listed as a waiter
\* of a request that somebody will complete: neither eviction nor the clean-up
\* of another connection makes a waiter disappear.
NoWaiterLost ==
    \A c \in Conns : \A id \in awaiting[c] :
        /\ c \in WaitingOn(scope.records[id])
        /\ scope.records[id].state = "pending"
        /\ job[id] # "none"

\* A connection whose threads are gone is in no waiter list: the clean-up of
\* the writer alone is not enough, the reader may have begun a request since.
NoLeakedWaiter ==
    \A c \in Conns, id \in Ids :
        conn[c] = "closed" => c \notin WaitingOn(scope.records[id])

\* The waiter lists are exact: they name whoever is owed an answer, and nobody
\* that is gone.
WaitersExact == NoWaiterLost /\ NoLeakedWaiter

\* The scope implements the at-most-once contract.
AMO == INSTANCE AtMostOnce WITH used <- scope.highest
ImplementsAtMostOnce == AMO!Spec

\* A request somebody waits for on a live connection is answered, or the answer
\* met a full queue, or the connection goes down: no request hangs.
Answered ==
    \A c \in Conns, id \in Ids : (id \in awaiting[c]) ~> (id \notin awaiting[c])
=============================================================================
