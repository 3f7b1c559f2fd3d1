---------------------------- MODULE RequestCache ----------------------------
(***************************************************************************)
(* The daemon's per-scope request cache (RequestScopeState in              *)
(* src/src/bin/mult-server.rs) as operators on a value: what begin,        *)
(* complete, evict_old_results and remove_client do to one scope.          *)
(*                                                                         *)
(* A scope is a record [highest, records].  "records" is the BTreeMap      *)
(* written as a total function on Ids, with Absent for a missing key; a    *)
(* highest of 0 is the code's None (request IDs are non-zero).  Requests   *)
(* and responses are opaque values, waiters the Vec of connections that    *)
(* wait for the response.                                                  *)
(***************************************************************************)
EXTENDS Naturals, Sequences, FiniteSets

CONSTANTS Ids,          \* request IDs a client of the scope may use
          MaxPending,   \* MAX_PENDING_REQUESTS_PER_CLIENT
          MaxCached,    \* MAX_CACHED_REQUEST_RESULTS_PER_SCOPE
          None          \* no response yet

ASSUME RequestCacheAssumption ==
    /\ Ids \subseteq Nat \ {0}
    /\ MaxPending \in Nat \ {0}
    /\ MaxCached \in Nat \ {0}
-----------------------------------------------------------------------------
Absent == [state |-> "absent", request |-> None, response |-> None, waiters |-> << >>]

EmptyScope == [highest |-> 0, records |-> [id \in Ids |-> Absent]]

WaitingOn(record) == {record.waiters[i] : i \in 1 .. Len(record.waiters)}

PendingIds(rs) == {id \in Ids : rs.records[id].state = "pending"}
DoneIds(rs)    == {id \in Ids : rs.records[id].state = "done"}

Dispositions == {"New", "Pending", "Cached", "Collision", "Expired", "TooManyPending"}

\* Mutants of Disposition: the expiry test is missing; a retry is matched by ID
\* alone; a completed request is taken for a new one.
DispositionNeverExpires(rs, id, request) ==
    IF rs.records[id].state = "absent" THEN "New"
    ELSE IF rs.records[id].request # request THEN "Collision"
    ELSE IF rs.records[id].state = "done" THEN "Cached" ELSE "Pending"

DispositionByIdAlone(rs, id, request) ==
    CASE rs.records[id].state = "done"    -> "Cached"
      [] rs.records[id].state = "pending" -> "Pending"
      [] OTHER -> IF id <= rs.highest THEN "Expired" ELSE "New"

DispositionForgetsDone(rs, id, request) ==
    CASE rs.records[id].state = "pending" -> "Pending"
      [] rs.records[id].state = "done"    -> "New"
      [] OTHER -> IF id <= rs.highest THEN "Expired" ELSE "New"

\* What RequestScopeState::begin answers for (id, request).
Disposition(rs, id, request) ==
    LET record == rs.records[id]
        known  == record.state # "absent"
    IN  CASE known /\ record.request # request               -> "Collision"
          [] known /\ record.request = request
                   /\ record.state = "done"                  -> "Cached"
          [] known /\ record.request = request
                   /\ record.state = "pending"               -> "Pending"
          [] ~known /\ id <= rs.highest                      -> "Expired"
          [] ~known /\ id > rs.highest
                    /\ Cardinality(PendingIds(rs)) >= MaxPending -> "TooManyPending"
          [] OTHER                                           -> "New"

\* Mutants of AddWaiter: the duplicate test is missing; the retry is not listed.
AddWaiterTwice(record, c) == [record EXCEPT !.waiters = Append(@, c)]
AddWaiterNever(record, c) == record

AddWaiter(record, c) ==
    IF c \in WaitingOn(record)
    THEN record
    ELSE [record EXCEPT !.waiters = Append(@, c)]

\* The scope after begin: a new ID is recorded even when it is refused for
\* overload, so that it can never run later.
BeginRequest(rs, id, request, c) ==
    CASE Disposition(rs, id, request) = "Pending" ->
            [rs EXCEPT !.records[id] = AddWaiter(rs.records[id], c)]
      [] Disposition(rs, id, request) \in {"New", "TooManyPending"} ->
            [highest |-> id,
             records |-> [rs.records EXCEPT ![id] =
                            [state |-> "pending", request |-> request,
                             response |-> None, waiters |-> << c >>]]]
      [] OTHER -> rs

\* evict_old_results: drop the completed record of the smallest ID while more
\* than MaxCached are completed, that is, keep the MaxCached largest.
Retained(done) == {id \in done : Cardinality({j \in done : j >= id}) <= MaxCached}

\* Mutant of EvictOldResults: pending records count and go as well.
EvictAnyRecord(records) ==
    LET known == {id \in Ids : records[id].state # "absent"}
    IN  [id \in Ids |-> IF id \in known \ Retained(known) THEN Absent ELSE records[id]]

EvictOldResults(records) ==
    LET done == {id \in Ids : records[id].state = "done"}
    IN  [id \in Ids |-> IF id \in done \ Retained(done) THEN Absent ELSE records[id]]

\* complete: store the response, hand the waiters over (they are WaitersOf of
\* the scope before the step), then evict.
WaitersOf(rs, id) == rs.records[id].waiters

CompleteRequest(rs, id, response) ==
    LET answered == [state |-> "done", request |-> rs.records[id].request,
                     response |-> response, waiters |-> << >>]
    IN  [rs EXCEPT !.records =
            EvictOldResults(IF rs.records[id].state = "absent" THEN rs.records
                            ELSE [rs.records EXCEPT ![id] = answered])]

\* remove_client: the connection waits for nothing any more.  AddWaiter never
\* lists a connection twice, so retain drops at most one element.
WithoutClient(waiters, c) ==
    IF \E i \in 1 .. Len(waiters) : waiters[i] = c
    THEN LET i == CHOOSE i \in 1 .. Len(waiters) : waiters[i] = c
         IN  SubSeq(waiters, 1, i - 1) \o SubSeq(waiters, i + 1, Len(waiters))
    ELSE waiters

DropWaiter(record, c) == [record EXCEPT !.waiters = WithoutClient(record.waiters, c)]

RemoveClient(rs, c) ==
    [rs EXCEPT !.records = [id \in Ids |-> DropWaiter(rs.records[id], c)]]
=============================================================================
