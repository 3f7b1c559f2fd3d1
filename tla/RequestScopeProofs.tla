-------------------------- MODULE RequestScopeProofs --------------------------
(***************************************************************************)
(* Proofs about RequestScope, for any number of connections, request IDs,  *)
(* bodies and results and for any cache bounds.                            *)
(***************************************************************************)
EXTENDS RequestScope, TLAPS

(***************************************************************************)
(* Sequences of waiters.                                                   *)
(***************************************************************************)
Listed(waiters) == {waiters[i] : i \in 1 .. Len(waiters)}

\* A connection that is pushed when it is not listed yet leaves the list
\* distinct and adds itself, and nobody else, to it.
LEMMA AddWaiterLists ==
    ASSUME NEW record \in RecordType, NEW c \in Conns, Distinct(record.waiters)
    PROVE  /\ AddWaiter(record, c) \in RecordType
           /\ Distinct(AddWaiter(record, c).waiters)
           /\ WaitingOn(AddWaiter(record, c)) = WaitingOn(record) \cup {c}
           /\ AddWaiter(record, c).state = record.state
           /\ AddWaiter(record, c).request = record.request
           /\ AddWaiter(record, c).response = record.response
<1>1. CASE c \in WaitingOn(record)
  BY <1>1 DEF AddWaiter
<1>2. CASE c \notin WaitingOn(record)
  <2>1. AddWaiter(record, c) = [record EXCEPT !.waiters = Append(record.waiters, c)]
    BY <1>2 DEF AddWaiter
  <2> DEFINE w == record.waiters
             v == Append(w, c)
  <2>2. w \in Seq(Conns) /\ v \in Seq(Conns)
    BY DEF RecordType
  <2>3. Len(v) = Len(w) + 1 /\ v[Len(w) + 1] = c /\ \A i \in 1 .. Len(w) : v[i] = w[i]
    BY <2>2
  <2>4. AddWaiter(record, c).waiters = v
    BY <2>1 DEF RecordType
  <2>5. Distinct(v)
    BY <1>2, <2>2, <2>3 DEF Distinct, WaitingOn
  <2>6. {v[i] : i \in 1 .. Len(v)} = {w[i] : i \in 1 .. Len(w)} \cup {c}
    BY <2>2, <2>3
  <2>7. QED
    BY <2>1, <2>2, <2>4, <2>5, <2>6 DEF WaitingOn, RecordType
<1>3. QED
  BY <1>1, <1>2

\* retain keeps every other connection and drops the one that is leaving.
LEMMA WithoutClientDrops ==
    ASSUME NEW w \in Seq(Conns), NEW c, Distinct(w)
    PROVE  /\ WithoutClient(w, c) \in Seq(Conns)
           /\ Distinct(WithoutClient(w, c))
           /\ Listed(WithoutClient(w, c)) = Listed(w) \ {c}
<1>1. CASE ~ \E i \in 1 .. Len(w) : w[i] = c
  BY <1>1 DEF WithoutClient, Listed
<1>2. CASE \E i \in 1 .. Len(w) : w[i] = c
  <2> DEFINE k == CHOOSE i \in 1 .. Len(w) : w[i] = c
             v == SubSeq(w, 1, k - 1) \o SubSeq(w, k + 1, Len(w))
  <2>1. k \in 1 .. Len(w) /\ w[k] = c
    BY <1>2
  <2>2. WithoutClient(w, c) = v
    BY <1>2 DEF WithoutClient
  <2> HIDE DEF k
  <2>3. /\ SubSeq(w, 1, k - 1) \in Seq(Conns)
        /\ Len(SubSeq(w, 1, k - 1)) = k - 1
        /\ \A i \in 1 .. k - 1 : SubSeq(w, 1, k - 1)[i] = w[i]
    BY <2>1
  <2>4. /\ SubSeq(w, k + 1, Len(w)) \in Seq(Conns)
        /\ Len(SubSeq(w, k + 1, Len(w))) = Len(w) - k
        /\ \A i \in 1 .. Len(w) - k : SubSeq(w, k + 1, Len(w))[i] = w[k + i]
    BY <2>1
  <2>5. /\ v \in Seq(Conns)
        /\ Len(v) = Len(w) - 1
        /\ \A i \in 1 .. Len(w) - 1 : v[i] = IF i < k THEN w[i] ELSE w[i + 1]
    <3> DEFINE p == SubSeq(w, 1, k - 1)
               q == SubSeq(w, k + 1, Len(w))
    <3> HIDE DEF p, q
    <3>1. p \in Seq(Conns) /\ q \in Seq(Conns)
      BY <2>3, <2>4 DEF p, q
    <3>2. /\ p \o q \in Seq(Conns)
          /\ Len(p \o q) = Len(p) + Len(q)
          /\ \A i \in 1 .. Len(p) + Len(q) :
                (p \o q)[i] = IF i <= Len(p) THEN p[i] ELSE q[i - Len(p)]
      BY <3>1
    <3>3. Len(p) = k - 1 /\ Len(q) = Len(w) - k
      BY <2>3, <2>4 DEF p, q
    <3>4. \A i \in 1 .. k - 1 : p[i] = w[i]
      BY <2>3 DEF p
    <3>5. \A i \in 1 .. Len(w) - k : q[i] = w[k + i]
      BY <2>4 DEF q
    <3>6. ASSUME NEW i \in 1 .. Len(w) - 1
          PROVE  (p \o q)[i] = IF i < k THEN w[i] ELSE w[i + 1]
      <4>1. CASE i < k
        BY <2>1, <3>2, <3>3, <3>4, <4>1
      <4>2. CASE i >= k
        <5>1. (p \o q)[i] = q[i - (k - 1)]
          BY <2>1, <3>2, <3>3, <4>2, SMTT(30)
        <5>2. i - (k - 1) \in 1 .. Len(w) - k /\ k + (i - (k - 1)) = i + 1
          BY <2>1, <4>2
        <5>3. QED
          BY <2>1, <3>5, <4>2, <5>1, <5>2
      <4>3. i < k \/ i >= k
        BY <2>1
      <4>4. QED
        BY <4>1, <4>2, <4>3
    <3>7. Len(p \o q) = Len(w) - 1
      BY <2>1, <3>2, <3>3
    <3>8. QED
      BY <3>2, <3>6, <3>7 DEF p, q
  <2> HIDE DEF v
  <2>6. Distinct(v)
    BY <2>1, <2>5 DEF Distinct
  <2>7. Listed(v) \subseteq Listed(w) \ {c}
    BY <2>1, <2>5 DEF Distinct, Listed
  <2>8. Listed(w) \ {c} \subseteq Listed(v)
    <3>1. SUFFICES ASSUME NEW i \in 1 .. Len(w), w[i] # c
                   PROVE  w[i] \in Listed(v)
      BY DEF Listed
    <3>2. CASE i < k
      BY <2>1, <2>5, <3>1, <3>2 DEF Listed
    <3>3. CASE i > k
      <4>1. i - 1 \in 1 .. Len(w) - 1 /\ v[i - 1] = w[i]
        BY <2>1, <2>5, <3>3
      <4>2. QED
        BY <2>5, <4>1 DEF Listed
    <3>4. QED
      BY <2>1, <3>1, <3>2, <3>3
  <2>9. QED
    BY <2>2, <2>5, <2>6, <2>7, <2>8
<1>3. QED
  BY <1>1, <1>2
(***************************************************************************)
(* The operators of the cache.                                             *)
(***************************************************************************)
ScopeType == [highest : Nat, records : [Ids -> RecordType]]

\* A request is new, or refused for overload, only if its ID is larger than
\* every ID seen; it joins or copies a record only if the bodies agree.
LEMMA DispositionMeans ==
    ASSUME NEW rs \in ScopeType, NEW id \in Ids, NEW body
    PROVE  /\ Disposition(rs, id, body) \in {"New", "TooManyPending"} =>
                 rs.records[id].state = "absent" /\ id > rs.highest
           /\ Disposition(rs, id, body) = "Pending" =>
                 rs.records[id].state = "pending" /\ rs.records[id].request = body
           /\ Disposition(rs, id, body) = "Cached" =>
                 rs.records[id].state = "done" /\ rs.records[id].request = body
<1>1. rs.records[id] \in RecordType /\ rs.highest \in Nat /\ id \in Nat
  BY RequestCacheAssumption DEF ScopeType
<1> DEFINE known == rs.records[id].state # "absent"
<1>2. CASE known /\ rs.records[id].request # body
  BY <1>2 DEF Disposition
<1>3. CASE known /\ rs.records[id].request = body /\ rs.records[id].state = "done"
  BY <1>3 DEF Disposition
<1>4. CASE known /\ rs.records[id].request = body /\ rs.records[id].state = "pending"
  BY <1>4 DEF Disposition
<1>5. CASE ~known /\ id <= rs.highest
  BY <1>5 DEF Disposition
<1>6. CASE ~known /\ ~(id <= rs.highest)
  BY <1>1, <1>6 DEF Disposition
<1>7. QED
  BY <1>1, <1>2, <1>3, <1>4, <1>5, <1>6 DEF RecordType

\* Eviction forgets completed records and nothing else.
LEMMA EvictionKeepsPending ==
    ASSUME NEW records \in [Ids -> RecordType], None \notin Bodies
    PROVE  /\ EvictOldResults(records) \in [Ids -> RecordType]
           /\ \A id \in Ids :
                 \/ EvictOldResults(records)[id] = records[id]
                 \/ /\ records[id].state = "done"
                    /\ EvictOldResults(records)[id] = Absent
<1>1. Absent \in RecordType
  BY DEF Absent, RecordType
<1>2. QED
  BY <1>1 DEF EvictOldResults, Retained

\* complete answers one pending record, which it may evict at once; every other
\* record is unchanged, or was completed and is evicted.
LEMMA CompleteChanges ==
    ASSUME NEW rs \in ScopeType, NEW id \in Ids, NEW r \in Results,
           rs.records[id].state = "pending"
    PROVE  /\ CompleteRequest(rs, id, r) \in ScopeType
           /\ CompleteRequest(rs, id, r).highest = rs.highest
           /\ \A j \in Ids \ {id} :
                 \/ CompleteRequest(rs, id, r).records[j] = rs.records[j]
                 \/ /\ rs.records[j].state = "done"
                    /\ CompleteRequest(rs, id, r).records[j] = Absent
           /\ \/ CompleteRequest(rs, id, r).records[id] = Absent
              \/ CompleteRequest(rs, id, r).records[id] =
                    [state |-> "done", request |-> rs.records[id].request,
                     response |-> r, waiters |-> << >>]
<1> DEFINE answered == [state |-> "done", request |-> rs.records[id].request,
                        response |-> r, waiters |-> << >>]
           stored == [rs.records EXCEPT ![id] = answered]
<1>1. rs.records \in [Ids -> RecordType] /\ rs.records[id] \in RecordType
  BY DEF ScopeType
<1>2. << >> \in Seq(Conns)
  OBVIOUS
<1>4. answered \in RecordType
  BY <1>1, <1>2 DEF RecordType
<1>5. stored \in [Ids -> RecordType]
  BY <1>1, <1>4
<1>6. CompleteRequest(rs, id, r) = [rs EXCEPT !.records = EvictOldResults(stored)]
  BY DEF CompleteRequest
<1>7. CompleteRequest(rs, id, r) = [highest |-> rs.highest, records |-> EvictOldResults(stored)]
  BY <1>6 DEF ScopeType
<1>8. /\ EvictOldResults(stored) \in [Ids -> RecordType]
      /\ \A j \in Ids : \/ EvictOldResults(stored)[j] = stored[j]
                        \/ stored[j].state = "done" /\ EvictOldResults(stored)[j] = Absent
  BY <1>5, EvictionKeepsPending, RequestScopeAssumption
<1>9. stored[id] = answered /\ \A j \in Ids \ {id} : stored[j] = rs.records[j]
  BY <1>1
<1>10. rs.highest \in Nat
  BY DEF ScopeType
<1> HIDE DEF answered, stored
<1>11. QED
  BY <1>7, <1>8, <1>9, <1>10 DEF ScopeType, answered

\* remove_client changes waiter lists only.
LEMMA RemoveClientChanges ==
    ASSUME NEW rs \in ScopeType, NEW c,
           \A id \in Ids : Distinct(rs.records[id].waiters)
    PROVE  /\ RemoveClient(rs, c) \in ScopeType
           /\ RemoveClient(rs, c).highest = rs.highest
           /\ \A id \in Ids :
                 /\ RemoveClient(rs, c).records[id].state = rs.records[id].state
                 /\ RemoveClient(rs, c).records[id].request = rs.records[id].request
                 /\ RemoveClient(rs, c).records[id].response = rs.records[id].response
                 /\ Distinct(RemoveClient(rs, c).records[id].waiters)
                 /\ WaitingOn(RemoveClient(rs, c).records[id]) = WaitingOn(rs.records[id]) \ {c}
<1> DEFINE without(id) == DropWaiter(rs.records[id], c)
<1>1. RemoveClient(rs, c) = [highest |-> rs.highest, records |-> [id \in Ids |-> without(id)]]
  BY DEF RemoveClient, ScopeType
<1>2. ASSUME NEW id \in Ids
      PROVE  /\ without(id) \in RecordType
             /\ without(id).state = rs.records[id].state
             /\ without(id).request = rs.records[id].request
             /\ without(id).response = rs.records[id].response
             /\ Distinct(without(id).waiters)
             /\ WaitingOn(without(id)) = WaitingOn(rs.records[id]) \ {c}
  <2>1. rs.records[id] \in RecordType /\ rs.records[id].waiters \in Seq(Conns)
    BY DEF ScopeType, RecordType
  <2>2. /\ WithoutClient(rs.records[id].waiters, c) \in Seq(Conns)
        /\ Distinct(WithoutClient(rs.records[id].waiters, c))
        /\ Listed(WithoutClient(rs.records[id].waiters, c)) = Listed(rs.records[id].waiters) \ {c}
    BY <2>1, WithoutClientDrops
  <2>3. without(id).waiters = WithoutClient(rs.records[id].waiters, c)
    BY <2>1 DEF RecordType, DropWaiter
  <2>4. QED
    BY <2>1, <2>2, <2>3 DEF RecordType, WaitingOn, Listed, DropWaiter
<1> HIDE DEF without
<1>3. QED
  BY <1>1, <1>2 DEF ScopeType
\* begin joins a pending record, opens a record for a fresh ID, or changes
\* nothing.
LEMMA BeginChanges ==
    ASSUME NEW rs \in ScopeType, NEW id \in Ids, NEW body \in Bodies, NEW c \in Conns,
           \A j \in Ids : Distinct(rs.records[j].waiters)
    PROVE  /\ BeginRequest(rs, id, body, c) \in ScopeType
           /\ \A j \in Ids : Distinct(BeginRequest(rs, id, body, c).records[j].waiters)
           /\ \A j \in Ids \ {id} : BeginRequest(rs, id, body, c).records[j] = rs.records[j]
           /\ Disposition(rs, id, body) = "Pending" =>
                /\ BeginRequest(rs, id, body, c).highest = rs.highest
                /\ BeginRequest(rs, id, body, c).records[id].state = rs.records[id].state
                /\ BeginRequest(rs, id, body, c).records[id].request = rs.records[id].request
                /\ BeginRequest(rs, id, body, c).records[id].response = rs.records[id].response
                /\ WaitingOn(BeginRequest(rs, id, body, c).records[id]) =
                     WaitingOn(rs.records[id]) \cup {c}
           /\ Disposition(rs, id, body) \in {"New", "TooManyPending"} =>
                /\ BeginRequest(rs, id, body, c).highest = id
                /\ BeginRequest(rs, id, body, c).records[id] =
                     [state |-> "pending", request |-> body, response |-> None,
                      waiters |-> << c >>]
           /\ Disposition(rs, id, body) \notin {"Pending", "New", "TooManyPending"} =>
                BeginRequest(rs, id, body, c) = rs
<1>1. /\ rs.records \in [Ids -> RecordType] /\ rs.records[id] \in RecordType
      /\ rs.highest \in Nat /\ id \in Nat
  BY RequestCacheAssumption DEF ScopeType
<1>2. CASE Disposition(rs, id, body) = "Pending"
  <2> DEFINE joined == AddWaiter(rs.records[id], c)
  <2>1. /\ joined \in RecordType /\ Distinct(joined.waiters)
        /\ WaitingOn(joined) = WaitingOn(rs.records[id]) \cup {c}
        /\ joined.state = rs.records[id].state
        /\ joined.request = rs.records[id].request
        /\ joined.response = rs.records[id].response
    BY <1>1, AddWaiterLists
  <2> HIDE DEF joined
  <2>2. BeginRequest(rs, id, body, c) = [rs EXCEPT !.records[id] = joined]
    BY <1>2 DEF BeginRequest, joined
  <2>3. /\ BeginRequest(rs, id, body, c) =
             [highest |-> rs.highest, records |-> [rs.records EXCEPT ![id] = joined]]
    BY <2>2 DEF ScopeType
  <2>4. QED
    BY <1>1, <1>2, <2>1, <2>3 DEF ScopeType
<1>3. CASE Disposition(rs, id, body) \in {"New", "TooManyPending"}
  <2> DEFINE fresh == [state |-> "pending", request |-> body, response |-> None,
                       waiters |-> << c >>]
  <2>1. /\ << c >> \in Seq(Conns) /\ Len(<< c >>) = 1
    OBVIOUS
  <2>2. fresh \in RecordType /\ Distinct(fresh.waiters)
    BY <2>1 DEF RecordType, Distinct
  <2> HIDE DEF fresh
  <2>3. BeginRequest(rs, id, body, c) =
             [highest |-> id, records |-> [rs.records EXCEPT ![id] = fresh]]
    BY <1>3 DEF BeginRequest, fresh
  <2>4. BeginRequest(rs, id, body, c).records[id] = fresh
    BY <1>1, <2>3
  <2>5. QED
    BY <1>1, <1>3, <2>2, <2>3, <2>4 DEF ScopeType, fresh
<1>4. CASE Disposition(rs, id, body) \notin {"Pending", "New", "TooManyPending"}
  <2>1. BeginRequest(rs, id, body, c) = rs
    BY <1>4 DEF BeginRequest
  <2>2. QED
    BY <1>4, <2>1
<1>5. QED
  BY <1>2, <1>3, <1>4
(***************************************************************************)
(* The inductive invariant.  ExecutedAtMostOnce is not inductive: what      *)
(* keeps a forgotten request from running again is that every ID ever seen *)
(* is at most "highest", and what keeps a pending one from running twice   *)
(* is that only its own handler, once, moves it on.                        *)
(***************************************************************************)
Pending(id) == scope.records[id].state = "pending"
Done(id) == scope.records[id].state = "done"

\* What is known of one request ID.
Accounted(id) ==
    /\ scope.records[id].state # "absent" => id <= scope.highest
    /\ job[id] # "none" <=> Pending(id)
    /\ id > scope.highest => runs[id] = 0 /\ answers[id] = {}
    /\ job[id] \in {"begun", "overloaded"} => runs[id] = 0
    /\ Pending(id) => Request(id) \in Bodies /\ answers[id] = {}
    /\ Done(id) => /\ Request(id) \in Bodies
                   /\ scope.records[id].response \in Results
                   /\ answers[id] \subseteq {<< Request(id), scope.records[id].response >>}
                   /\ scope.records[id].response = Overloaded => runs[id] = 0
    /\ runs[id] <= 1
    /\ (\E b \in Bodies : << b, Overloaded >> \in answers[id]) => runs[id] = 0
    /\ \A x, y \in answers[id] : x = y

\* What is known of one connection's wait for one request.
Listens(c, id) ==
    /\ id \in awaiting[c] => conn[c] = "open" /\ c \in WaitingOn(scope.records[id]) /\ Pending(id)
    /\ conn[c] = "closed" => c \notin WaitingOn(scope.records[id])

IInv ==
    /\ TypeOK
    /\ \A id \in Ids : Accounted(id)
    /\ \A c \in Conns, id \in Ids : Listens(c, id)

\* A step that leaves a request's record, job, runs and answers alone keeps its
\* account, also when a later request raises the high-water mark.
LEMMA AccountedFrame ==
    ASSUME NEW j \in Ids, Accounted(j), j \in Nat,
           scope.highest \in Nat, scope'.highest \in Nat, scope.highest <= scope'.highest,
           scope'.records[j].state = scope.records[j].state,
           scope'.records[j].request = scope.records[j].request,
           scope'.records[j].response = scope.records[j].response,
           job'[j] = job[j], runs'[j] = runs[j], answers'[j] = answers[j]
    PROVE  Accounted(j)'
<1>1. /\ (Pending(j))' <=> Pending(j)
      /\ (Done(j))' <=> Done(j)
      /\ (Request(j))' = Request(j)
  BY DEF Pending, Done, Request
<1>2. /\ scope.records[j].state # "absent" => j <= scope'.highest
      /\ j > scope'.highest => runs[j] = 0 /\ answers[j] = {}
  <2>1. /\ scope.records[j].state # "absent" => j <= scope.highest
        /\ j > scope.highest => runs[j] = 0 /\ answers[j] = {}
    BY DEF Accounted
  <2>2. /\ j <= scope.highest => j <= scope'.highest
        /\ j > scope'.highest => j > scope.highest
    OBVIOUS
  <2>3. QED
    BY <2>1, <2>2
<1>3. QED
  BY <1>1, <1>2 DEF Accounted

LEMMA InitIInv == Init => IInv
<1> SUFFICES ASSUME Init PROVE IInv
  OBVIOUS
<1>1. /\ scope.highest = 0 /\ \A id \in Ids : scope.records[id] = Absent
      /\ Absent \in RecordType /\ WaitingOn(Absent) = {} /\ Absent.state = "absent"
      /\ Distinct(Absent.waiters)
  BY DEF Init, EmptyScope, Absent, RecordType, WaitingOn, Distinct
<1>2. TypeOK
  BY <1>1 DEF Init, EmptyScope, TypeOK, WaitersOf, JobStates
<1>3. ASSUME NEW id \in Ids PROVE Accounted(id)
  BY <1>1 DEF Init, Accounted, Pending, Done
<1>4. ASSUME NEW c \in Conns, NEW id \in Ids PROVE Listens(c, id)
  BY <1>1 DEF Init, Listens
<1>5. QED
  BY <1>2, <1>3, <1>4 DEF IInv

\* Entering a handler changes the scope as begin says.
LEMMA BeginStep ==
    ASSUME TypeOK, NEW c \in Conns, NEW id \in Ids, NEW body \in Bodies, Begin(c, id, body)
    PROVE  /\ scope \in ScopeType /\ scope' = BeginRequest(scope, id, body, c)
           /\ \A j \in Ids : Distinct(scope.records[j].waiters)
           /\ conn' = conn /\ runs' = runs /\ conn[c] # "closed" /\ busy[c] = 0
           /\ scope' \in ScopeType
           /\ \A j \in Ids : Distinct(scope'.records[j].waiters)
           /\ \A j \in Ids \ {id} : scope'.records[j] = scope.records[j]
           /\ Disposition(scope, id, body) = "Pending" =>
                /\ scope'.highest = scope.highest
                /\ scope'.records[id].state = scope.records[id].state
                /\ scope'.records[id].request = scope.records[id].request
                /\ scope'.records[id].response = scope.records[id].response
                /\ WaitingOn(scope'.records[id]) = WaitingOn(scope.records[id]) \cup {c}
           /\ Disposition(scope, id, body) \in {"New", "TooManyPending"} =>
                /\ scope'.highest = id
                /\ scope'.records[id] = [state |-> "pending", request |-> body, response |-> None,
                                         waiters |-> << c >>]
           /\ Disposition(scope, id, body) \notin {"Pending", "New", "TooManyPending"} =>
                scope' = scope
<1>1. /\ scope \in ScopeType /\ scope' = BeginRequest(scope, id, body, c)
      /\ \A j \in Ids : Distinct(scope.records[j].waiters)
      /\ conn' = conn /\ runs' = runs /\ conn[c] # "closed" /\ busy[c] = 0
  BY DEF TypeOK, ScopeType, WaitersOf, Begin, BeginNew, BeginOverloaded, BeginPending,
         BeginCached, BeginRefused, Entering
<1>2. /\ scope' \in ScopeType
      /\ \A j \in Ids : Distinct(scope'.records[j].waiters)
      /\ \A j \in Ids \ {id} : scope'.records[j] = scope.records[j]
      /\ Disposition(scope, id, body) = "Pending" =>
           /\ scope'.highest = scope.highest
           /\ scope'.records[id].state = scope.records[id].state
           /\ scope'.records[id].request = scope.records[id].request
           /\ scope'.records[id].response = scope.records[id].response
           /\ WaitingOn(scope'.records[id]) = WaitingOn(scope.records[id]) \cup {c}
      /\ Disposition(scope, id, body) \in {"New", "TooManyPending"} =>
           /\ scope'.highest = id
           /\ scope'.records[id] = [state |-> "pending", request |-> body, response |-> None,
                                    waiters |-> << c >>]
      /\ Disposition(scope, id, body) \notin {"Pending", "New", "TooManyPending"} =>
           scope' = scope
  <2> DEFINE next == BeginRequest(scope, id, body, c)
  <2>1. scope \in ScopeType /\ \A j \in Ids : Distinct(scope.records[j].waiters)
    BY <1>1
  <2>2. /\ next \in ScopeType
        /\ \A j \in Ids : Distinct(next.records[j].waiters)
        /\ \A j \in Ids \ {id} : next.records[j] = scope.records[j]
        /\ Disposition(scope, id, body) = "Pending" =>
             /\ next.highest = scope.highest
             /\ next.records[id].state = scope.records[id].state
             /\ next.records[id].request = scope.records[id].request
             /\ next.records[id].response = scope.records[id].response
             /\ WaitingOn(next.records[id]) = WaitingOn(scope.records[id]) \cup {c}
        /\ Disposition(scope, id, body) \in {"New", "TooManyPending"} =>
             /\ next.highest = id
             /\ next.records[id] = [state |-> "pending", request |-> body, response |-> None,
                                    waiters |-> << c >>]
        /\ Disposition(scope, id, body) \notin {"Pending", "New", "TooManyPending"} =>
             next = scope
    BY <2>1, BeginChanges
  <2>3. scope' = next
    BY <1>1
  <2> HIDE DEF next
  <2>4. QED
    BY <2>2, <2>3
<1>3. QED
  BY <1>1, <1>2

\* The five ways into a handler.
LEMMA BeginIInv ==
    ASSUME IInv, NEW c \in Conns, NEW id \in Ids, NEW body \in Bodies, Begin(c, id, body)
    PROVE  IInv'
<1>1. /\ scope \in ScopeType /\ scope' = BeginRequest(scope, id, body, c)
      /\ \A j \in Ids : Distinct(scope.records[j].waiters)
      /\ conn' = conn /\ runs' = runs /\ conn[c] # "closed" /\ busy[c] = 0
  BY BeginStep DEF IInv
<1>2. /\ scope' \in ScopeType
      /\ \A j \in Ids : Distinct(scope'.records[j].waiters)
      /\ \A j \in Ids \ {id} : scope'.records[j] = scope.records[j]
      /\ Disposition(scope, id, body) = "Pending" =>
           /\ scope'.highest = scope.highest
           /\ scope'.records[id].state = scope.records[id].state
           /\ scope'.records[id].request = scope.records[id].request
           /\ scope'.records[id].response = scope.records[id].response
           /\ WaitingOn(scope'.records[id]) = WaitingOn(scope.records[id]) \cup {c}
      /\ Disposition(scope, id, body) \in {"New", "TooManyPending"} =>
           /\ scope'.highest = id
           /\ scope'.records[id] = [state |-> "pending", request |-> body, response |-> None,
                                    waiters |-> << c >>]
      /\ Disposition(scope, id, body) \notin {"Pending", "New", "TooManyPending"} =>
           scope' = scope
  BY BeginStep DEF IInv
<1>3. /\ Accounted(id) /\ \A j \in Ids : Accounted(j) /\ \A b \in Conns : Listens(b, j)
      /\ id \in Nat /\ scope.highest \in Nat
      /\ job \in [Ids -> JobStates] /\ busy \in [Conns -> Ids \cup {0}]
      /\ answers \in [Ids -> SUBSET (Bodies \X Results)] /\ awaiting \in [Conns -> SUBSET Ids]
      /\ runs \in [Ids -> Nat] /\ conn \in [Conns -> {"open", "inactive", "closed"}]
  BY <1>1, RequestCacheAssumption DEF IInv, TypeOK, ScopeType
<1>4. Owing(c, id) \in [Conns -> SUBSET Ids]
      /\ \A b \in Conns, j \in Ids :
            j \in Owing(c, id)[b] => j \in awaiting[b] \/ (b = c /\ j = id /\ conn[b] = "open")
  BY <1>3 DEF Owing
<1> SUFFICES /\ job' \in [Ids -> JobStates] /\ busy' \in [Conns -> Ids \cup {0}]
             /\ answers' \in [Ids -> SUBSET (Bodies \X Results)]
             /\ awaiting' \in [Conns -> SUBSET Ids]
             /\ \A j \in Ids : Accounted(j)'
             /\ \A b \in Conns, j \in Ids : Listens(b, j)'
  BY <1>1, <1>2, <1>3 DEF IInv, TypeOK, ScopeType, WaitersOf
<1>5. CASE BeginNew(c, id, body) \/ BeginOverloaded(c, id, body)
  <2>1. /\ scope.records[id].state = "absent" /\ id > scope.highest
        /\ scope'.highest = id
        /\ scope'.records[id] = [state |-> "pending", request |-> body, response |-> None,
                                 waiters |-> << c >>]
    BY <1>1, <1>2, <1>5, DispositionMeans DEF BeginNew, BeginOverloaded, Entering
  <2>2. WaitingOn(scope'.records[id]) = {c}
    BY <2>1 DEF WaitingOn
  <2>3. /\ job'[id] \in {"begun", "overloaded"} /\ job' \in [Ids -> JobStates]
        /\ \A j \in Ids \ {id} : job'[j] = job[j]
        /\ busy' \in [Conns -> Ids \cup {0}]
        /\ answers' = answers /\ awaiting' = Owing(c, id)
    BY <1>3, <1>5 DEF BeginNew, BeginOverloaded, JobStates
  <2>4. Accounted(id)'
    BY <1>1, <1>3, <2>1, <2>3 DEF Accounted, Pending, Done, Request
  <2>5. ASSUME NEW j \in Ids \ {id} PROVE Accounted(j)'
    <3>1. j \in Nat /\ j # id /\ scope'.records[j] = scope.records[j]
      BY <1>2, RequestCacheAssumption
    <3>2. Accounted(j) /\ job'[j] = job[j] /\ runs' = runs /\ answers' = answers
      BY <1>1, <1>3, <2>3
    <3>3. scope'.highest = id /\ id > scope.highest
      BY <2>1
    <3>4. /\ scope.highest \in Nat /\ scope'.highest \in Nat /\ scope.highest <= scope'.highest
      BY <1>3, <3>3
    <3>5. QED
      BY <3>1, <3>2, <3>4, AccountedFrame
  <2>6. ASSUME NEW b \in Conns, NEW j \in Ids PROVE Listens(b, j)'
    <3>1. CASE j = id
      <4>1. id \notin awaiting[b]
        BY <1>3, <2>1 DEF Listens, Pending
      <4>2. QED
        BY <1>1, <1>4, <2>1, <2>2, <2>3, <3>1, <4>1 DEF Listens, Pending
    <3>2. CASE j # id
      <4>1. scope'.records[j] = scope.records[j] /\ Listens(b, j) /\ conn' = conn
        BY <1>1, <1>2, <1>3, <3>2
      <4>2. j \in awaiting'[b] => j \in awaiting[b]
        BY <1>4, <2>3, <3>2
      <4>3. QED
        BY <4>1, <4>2 DEF Listens, Pending
    <3>3. QED
      BY <3>1, <3>2
  <2>7. QED
    BY <1>3, <1>4, <2>3, <2>4, <2>5, <2>6
<1>6. CASE BeginPending(c, id, body)
  <2>1. /\ scope.records[id].state = "pending"
        /\ scope'.highest = scope.highest
        /\ scope'.records[id].state = scope.records[id].state
        /\ scope'.records[id].request = scope.records[id].request
        /\ scope'.records[id].response = scope.records[id].response
        /\ WaitingOn(scope'.records[id]) = WaitingOn(scope.records[id]) \cup {c}
    BY <1>1, <1>2, <1>6, DispositionMeans DEF BeginPending, Entering
  <2>2. job' = job /\ busy' = busy /\ answers' = answers /\ awaiting' = Owing(c, id)
    BY <1>6 DEF BeginPending
  <2>3. ASSUME NEW j \in Ids PROVE Accounted(j)'
    <3>1. /\ scope'.records[j].state = scope.records[j].state
          /\ scope'.records[j].request = scope.records[j].request
          /\ scope'.records[j].response = scope.records[j].response
      BY <1>2, <2>1
    <3>2. /\ Accounted(j) /\ j \in Nat /\ scope.highest \in Nat /\ scope'.highest = scope.highest
          /\ scope.highest <= scope'.highest
      BY <1>3, <2>1, RequestCacheAssumption
    <3>3. job'[j] = job[j] /\ runs'[j] = runs[j] /\ answers'[j] = answers[j]
      BY <1>1, <2>2
    <3>4. QED
      BY <3>1, <3>2, <3>3, AccountedFrame
  <2>4. ASSUME NEW b \in Conns, NEW j \in Ids PROVE Listens(b, j)'
    BY <1>1, <1>2, <1>3, <1>4, <2>1, <2>2 DEF Listens, Pending
  <2>5. QED
    BY <1>3, <1>4, <2>2, <2>3, <2>4
<1>7. CASE \/ \E queued \in BOOLEAN : BeginCached(c, id, body, queued)
           \/ BeginRefused(c, id, body)
  <2>1. scope' = scope /\ job' = job /\ busy' = busy /\ awaiting' = awaiting
    BY <1>1, <1>2, <1>7 DEF BeginCached, BeginRefused, Entering
  <2>2. \/ answers' = answers
        \/ /\ scope.records[id].state = "done" /\ scope.records[id].request = body
           /\ answers' = [answers EXCEPT ![id] =
                            answers[id] \cup {<< body, scope.records[id].response >>}]
    BY <1>1, <1>7, DispositionMeans DEF BeginCached, BeginRefused, Entering
  <2>3. /\ answers' \in [Ids -> SUBSET (Bodies \X Results)]
        /\ \A j \in Ids : \/ answers'[j] = answers[j]
                          \/ /\ Done(j)
                             /\ answers'[j] = {<< Request(j), scope.records[j].response >>}
    BY <1>3, <2>2 DEF Accounted, Done, Request
  <2>4. ASSUME NEW j \in Ids PROVE Accounted(j)'
    <3>1. CASE answers'[j] = answers[j]
      BY <1>1, <1>3, <2>1, <3>1, ZenonT(40) DEF Accounted, Pending, Done, Request
    <3>2. CASE Done(j) /\ answers'[j] = {<< Request(j), scope.records[j].response >>}
      BY <1>1, <1>3, <2>1, <3>2, RequestCacheAssumption
         DEF Accounted, Pending, Done, Request
    <3>3. QED
      BY <2>3, <3>1, <3>2
  <2>5. QED
    BY <1>1, <1>3, <2>1, <2>3, <2>4 DEF Listens, Pending
<1>8. QED
  BY <1>5, <1>6, <1>7 DEF Begin
\* The mutation: only the handler that began the request runs it, once.
LEMMA MutateIInv == ASSUME IInv, NEW id \in Ids, Mutate(id) PROVE IInv'
<1>1. /\ job[id] = "begun" /\ job' = [job EXCEPT ![id] = "mutated"]
      /\ runs' = [runs EXCEPT ![id] = runs[id] + 1]
      /\ scope' = scope /\ conn' = conn /\ busy' = busy
      /\ answers' = answers /\ awaiting' = awaiting
  BY DEF Mutate
<1>2. TypeOK'
  BY <1>1 DEF IInv, TypeOK, JobStates
<1>3. ASSUME NEW j \in Ids PROVE Accounted(j)'
  <2>1. /\ Accounted(j) /\ Accounted(id) /\ id \in Nat /\ j \in Nat /\ scope.highest \in Nat
        /\ runs \in [Ids -> Nat] /\ job \in [Ids -> JobStates]
    BY RequestCacheAssumption DEF IInv, TypeOK
  <2>2. CASE j = id
    <3>1. /\ runs[id] = 0 /\ job[id] # "none" /\ Pending(id) /\ id <= scope.highest
          /\ answers[id] = {} /\ Request(id) \in Bodies /\ ~ Done(id)
      BY <1>1, <2>1 DEF Accounted, Pending, Done
    <3>2. runs'[id] = 1 /\ job'[id] = "mutated"
      BY <1>1, <2>1, <3>1
    <3>3. QED
      BY <1>1, <2>1, <2>2, <3>1, <3>2 DEF Accounted, Pending, Done, Request
  <2>3. CASE j # id
    BY <1>1, <2>1, <2>3 DEF Accounted, Pending, Done, Request
  <2>4. QED
    BY <2>2, <2>3
<1>4. \A c \in Conns, j \in Ids : Listens(c, j)'
  BY <1>1 DEF IInv, Listens, Pending
<1>5. QED
  BY <1>2, <1>3, <1>4 DEF IInv

\* Completion: the record is pending, so nobody has been answered yet.
LEMMA CompleteIInv ==
    ASSUME IInv, NEW id \in Ids, NEW r \in Results, NEW refused \in SUBSET Conns,
           NEW punish \in BOOLEAN, Complete(id, r, refused, punish)
    PROVE  IInv'
<1> DEFINE waiters == WaitingOn(scope.records[id])
           told == {c \in waiters : conn[c] = "open"} \ refused
<1>1. /\ r \in ResultsOf(id) /\ refused \subseteq waiters
      /\ answers' = IF told # {}
                    THEN [answers EXCEPT ![id] = answers[id] \cup {<< Request(id), r >>}]
                    ELSE answers
      /\ awaiting' = [c \in Conns |-> IF c \in refused /\ punish THEN {}
                                      ELSE IF c \in told \cup refused THEN awaiting[c] \ {id}
                                      ELSE awaiting[c]]
      /\ conn' = [c \in Conns |-> IF c \in refused /\ punish /\ conn[c] = "open"
                                  THEN "inactive" ELSE conn[c]]
      /\ scope' = CompleteRequest(scope, id, r)
      /\ job' = [job EXCEPT ![id] = "none"]
      /\ busy' = [c \in Conns |-> IF busy[c] = id THEN 0 ELSE busy[c]]
      /\ runs' = runs
  BY DEF Complete
<1> HIDE DEF told, waiters
<1>2. /\ scope \in ScopeType /\ scope.highest \in Nat /\ id \in Nat
      /\ job \in [Ids -> JobStates] /\ busy \in [Conns -> Ids \cup {0}]
      /\ answers \in [Ids -> SUBSET (Bodies \X Results)] /\ awaiting \in [Conns -> SUBSET Ids]
      /\ runs \in [Ids -> Nat] /\ conn \in [Conns -> {"open", "inactive", "closed"}]
      /\ \A j \in Ids : Accounted(j) /\ j \in Nat /\ Distinct(scope.records[j].waiters)
      /\ \A c \in Conns, j \in Ids : Listens(c, j)
  BY RequestCacheAssumption DEF IInv, TypeOK, ScopeType, WaitersOf
<1>3. /\ job[id] # "none" /\ Pending(id) /\ Request(id) \in Bodies /\ answers[id] = {}
      /\ id <= scope.highest /\ runs[id] <= 1
      /\ r = Overloaded => runs[id] = 0
  <2>1. job[id] \in {"begun", "mutated", "overloaded"}
    BY <1>1 DEF ResultsOf
  <2>2. r = Overloaded => job[id] = "overloaded"
    BY <1>1, RequestScopeAssumption DEF ResultsOf
  <2>3. Accounted(id)
    BY <1>2
  <2>4. QED
    BY <2>1, <2>2, <2>3 DEF Accounted, Pending
<1> DEFINE done == [state |-> "done", request |-> Request(id), response |-> r, waiters |-> << >>]
<1>4. /\ scope' \in ScopeType /\ scope'.highest = scope.highest
      /\ \A j \in Ids \ {id} :
            \/ scope'.records[j] = scope.records[j]
            \/ scope.records[j].state = "done" /\ scope'.records[j] = Absent
      /\ scope'.records[id] = Absent \/ scope'.records[id] = done
  BY <1>1, <1>2, <1>3, CompleteChanges DEF Pending, Request
<1>5. answers'[id] \subseteq {<< Request(id), r >>} /\ \A j \in Ids \ {id} : answers'[j] = answers[j]
  BY <1>1, <1>2, <1>3
<1>6. /\ Absent.state = "absent" /\ Absent.waiters = << >> /\ WaitingOn(Absent) = {}
      /\ WaitingOn(done) = {} /\ Distinct(<< >>)
  BY DEF Absent, WaitingOn, Distinct
<1>7. TypeOK'
  <2>1. answers' \in [Ids -> SUBSET (Bodies \X Results)]
    BY <1>1, <1>2, <1>3
  <2>2. \A j \in Ids : Distinct(scope'.records[j].waiters)
    BY <1>2, <1>4, <1>6
  <2>3. /\ job' \in [Ids -> JobStates] /\ busy' \in [Conns -> Ids \cup {0}]
        /\ conn' \in [Conns -> {"open", "inactive", "closed"}]
        /\ awaiting' \in [Conns -> SUBSET Ids]
    BY <1>1, <1>2 DEF JobStates
  <2>4. QED
    BY <1>1, <1>2, <1>4, <2>1, <2>2, <2>3 DEF TypeOK, ScopeType, WaitersOf
<1>8. ASSUME NEW j \in Ids PROVE Accounted(j)'
  <2>1. CASE j = id
    <3>1. job'[id] = "none" /\ runs' = runs /\ runs[id] \in Nat
      BY <1>1, <1>2
    <3>2. /\ (\E b \in Bodies : << b, Overloaded >> \in answers'[id]) => runs'[id] = 0
          /\ \A x, y \in answers'[id] : x = y
      BY <1>3, <1>5, <3>1
    <3>3. /\ id <= scope'.highest /\ runs'[id] <= 1
          /\ scope'.records[id].state \in {"absent", "done"}
      BY <1>3, <1>4, <1>6, <3>1
    <3>4. Done(id)' => /\ Request(id)' \in Bodies /\ scope'.records[id].response \in Results
                       /\ answers'[id] \subseteq {<< Request(id)', scope'.records[id].response >>}
                       /\ scope'.records[id].response = Overloaded => runs'[id] = 0
      <4>1. CASE scope'.records[id] = Absent
        BY <1>6, <4>1 DEF Done
      <4>2. CASE scope'.records[id] = done
        BY <1>3, <1>5, <3>1, <4>2 DEF Request
      <4>3. QED
        BY <1>4, <4>1, <4>2
    <3>5. scope'.highest \in Nat
      BY <1>2, <1>4
    <3>6. Accounted(id)'
      BY <1>2, <3>1, <3>2, <3>3, <3>4, <3>5 DEF Accounted, Pending, Done
    <3>7. QED
      BY <2>1, <3>6
  <2>2. CASE j # id
    <3>1. /\ Accounted(j) /\ job'[j] = job[j] /\ runs' = runs /\ answers'[j] = answers[j]
          /\ scope'.highest = scope.highest
      BY <1>1, <1>2, <1>4, <1>5, <2>2
    <3>2. CASE scope'.records[j] = scope.records[j]
      BY <3>1, <3>2 DEF Accounted, Pending, Done, Request
    <3>3. CASE scope.records[j].state = "done" /\ scope'.records[j] = Absent
      BY <1>6, <3>1, <3>3 DEF Accounted, Pending, Done, Request
    <3>4. QED
      BY <1>4, <2>2, <3>2, <3>3
  <2>3. QED
    BY <2>1, <2>2
<1>9. ASSUME NEW c \in Conns, NEW j \in Ids PROVE Listens(c, j)'
  <2>1. Listens(c, j) /\ Listens(c, id)
    BY <1>2
  <2>2. CASE j = id
    <3>1. WaitingOn(scope'.records[id]) = {}
      BY <1>4, <1>6
    <3>2. id \notin awaiting'[c]
      BY <1>1, <1>2, <2>1 DEF Listens, told, waiters
    <3>3. QED
      BY <2>2, <3>1, <3>2 DEF Listens
  <2>3. CASE j # id
    <3>1. /\ c \in WaitingOn(scope'.records[j]) => c \in WaitingOn(scope.records[j])
          /\ Pending(j) => scope'.records[j] = scope.records[j]
      BY <1>4, <1>6, <2>3 DEF Pending
    <3>2. j \in awaiting'[c] => j \in awaiting[c] /\ ~ (c \in refused /\ punish)
      BY <1>1, <1>2
    <3>3. /\ ~ (c \in refused /\ punish) => conn'[c] = conn[c]
          /\ conn'[c] = "closed" => conn[c] = "closed"
      BY <1>1, <1>2
    <3>4. QED
      BY <2>1, <3>1, <3>2, <3>3 DEF Listens, Pending
  <2>4. QED
    BY <2>2, <2>3
<1>10. QED
  BY <1>7, <1>8, <1>9 DEF IInv

\* A connection that goes down, in either of its threads, owes and is owed
\* nothing; nobody else's waiter entry moves.
LEMMA ConnectionIInv ==
    ASSUME IInv, NEW c \in Conns, Disconnect(c) \/ WriterEnds(c) \/ ReaderEnds(c)
    PROVE  IInv'
<1>1. /\ scope' = scope \/ scope' = RemoveClient(scope, c)
      /\ conn[c] # "closed"
      /\ \/ conn' = [conn EXCEPT ![c] = "inactive"]
         \/ conn' = [conn EXCEPT ![c] = "closed"] /\ scope' = RemoveClient(scope, c)
      /\ awaiting' = [b \in Conns |-> IF b \in {c} THEN {} ELSE awaiting[b]]
      /\ busy' = busy /\ job' = job /\ runs' = runs /\ answers' = answers
  BY DEF Disconnect, WriterEnds, ReaderEnds, Forgiving
<1>2. /\ scope \in ScopeType
      /\ \A j \in Ids : Accounted(j) /\ Distinct(scope.records[j].waiters)
      /\ \A b \in Conns, j \in Ids : Listens(b, j)
      /\ conn \in [Conns -> {"open", "inactive", "closed"}]
      /\ awaiting \in [Conns -> SUBSET Ids]
  BY DEF IInv, TypeOK, ScopeType, WaitersOf
<1>3. /\ scope' \in ScopeType /\ scope'.highest = scope.highest
      /\ \A j \in Ids :
            /\ scope'.records[j].state = scope.records[j].state
            /\ scope'.records[j].request = scope.records[j].request
            /\ scope'.records[j].response = scope.records[j].response
            /\ Distinct(scope'.records[j].waiters)
            /\ \/ WaitingOn(scope'.records[j]) = WaitingOn(scope.records[j])
               \/ WaitingOn(scope'.records[j]) = WaitingOn(scope.records[j]) \ {c}
            /\ conn'[c] = "closed" => c \notin WaitingOn(scope'.records[j])
  <2>1. CASE scope' = scope
    <3>1. conn'[c] # "closed" \/ scope' = RemoveClient(scope, c)
      BY <1>1, <1>2
    <3>2. \A j \in Ids : scope' = RemoveClient(scope, c) =>
              WaitingOn(scope'.records[j]) = WaitingOn(scope.records[j]) \ {c}
      BY <1>2, RemoveClientChanges
    <3>3. QED
      BY <1>2, <2>1, <3>1, <3>2
  <2>2. CASE scope' = RemoveClient(scope, c)
    <3> DEFINE next == RemoveClient(scope, c)
    <3>1. /\ next \in ScopeType /\ next.highest = scope.highest
          /\ \A j \in Ids :
                /\ next.records[j].state = scope.records[j].state
                /\ next.records[j].request = scope.records[j].request
                /\ next.records[j].response = scope.records[j].response
                /\ Distinct(next.records[j].waiters)
                /\ WaitingOn(next.records[j]) = WaitingOn(scope.records[j]) \ {c}
      BY <1>2, RemoveClientChanges
    <3> HIDE DEF next
    <3>2. scope' = next
      BY <2>2 DEF next
    <3>3. QED
      BY <3>1, <3>2
  <2>3. QED
    BY <1>1, <2>1, <2>2
<1>4. TypeOK'
  <2>1. /\ conn' \in [Conns -> {"open", "inactive", "closed"}]
        /\ awaiting' \in [Conns -> SUBSET Ids]
    BY <1>1, <1>2
  <2>2. QED
    BY <1>1, <1>3, <2>1 DEF IInv, TypeOK, ScopeType, WaitersOf
<1>5. ASSUME NEW j \in Ids PROVE Accounted(j)'
  BY <1>1, <1>2, <1>3 DEF Accounted, Pending, Done, Request
<1>6. ASSUME NEW b \in Conns, NEW j \in Ids PROVE Listens(b, j)'
  <2>1. Listens(b, j)
    BY <1>2
  <2>2. CASE b = c
    <3>1. j \notin awaiting'[c]
      BY <1>1
    <3>2. QED
      BY <1>3, <2>2, <3>1 DEF Listens
  <2>3. CASE b # c
    <3>1. conn'[b] = conn[b] /\ awaiting'[b] = awaiting[b]
      BY <1>1, <1>2, <2>3
    <3>2. b \in WaitingOn(scope'.records[j]) <=> b \in WaitingOn(scope.records[j])
      BY <1>3, <2>3
    <3>3. QED
      BY <1>3, <2>1, <3>1, <3>2 DEF Listens, Pending
  <2>4. QED
    BY <2>2, <2>3
<1>7. QED
  BY <1>4, <1>5, <1>6 DEF IInv

\* Every step, and stuttering, preserves the invariant.
LEMMA NextIInv == IInv /\ [Next]_vars => IInv'
<1> SUFFICES ASSUME IInv, [Next]_vars PROVE IInv'
  OBVIOUS
<1>1. ASSUME NEW c \in Conns, NEW id \in Ids, NEW body \in Bodies, Begin(c, id, body)
      PROVE  IInv'
  BY <1>1, BeginIInv
<1>2. ASSUME NEW id \in Ids, Mutate(id) PROVE IInv'
  BY <1>2, MutateIInv
<1>3. ASSUME NEW id \in Ids, Finish(id) PROVE IInv'
  BY <1>3, CompleteIInv DEF Finish
<1>4. ASSUME NEW c \in Conns, Disconnect(c) \/ WriterEnds(c) \/ ReaderEnds(c) PROVE IInv'
  BY <1>4, ConnectionIInv
<1>5. CASE UNCHANGED vars
  <2>1. /\ scope' = scope /\ conn' = conn /\ busy' = busy /\ job' = job
        /\ runs' = runs /\ answers' = answers /\ awaiting' = awaiting
    BY <1>5 DEF vars
  <2>2. TypeOK'
    BY <2>1 DEF IInv, TypeOK, WaitersOf
  <2>3. \A id \in Ids : Accounted(id)'
    BY <2>1 DEF IInv, Accounted, Pending, Done, Request
  <2>4. \A c \in Conns, id \in Ids : Listens(c, id)'
    BY <2>1 DEF IInv, Listens, Pending
  <2>5. QED
    BY <2>2, <2>3, <2>4 DEF IInv
<1>6. QED
  BY <1>1, <1>2, <1>3, <1>4, <1>5 DEF Next

LEMMA AlwaysIInv == Spec => []IInv
BY InitIInv, NextIInv, PTL DEF Spec
-----------------------------------------------------------------------------
\* The daemon's scope keeps its types, and no waiter list holds a connection
\* twice, so no retry is answered twice on one connection.
THEOREM TypeCorrect == Spec => []TypeOK
<1>1. IInv => TypeOK
  BY DEF IInv
<1>2. QED
  BY <1>1, AlwaysIInv, PTL

\* The mutation behind a request ID runs at most once for any number of
\* retries, connections and evictions, and never after an overload refusal.
THEOREM AtMostOnceExecution == Spec => []ExecutedAtMostOnce
<1>1. IInv => ExecutedAtMostOnce
  BY DEF IInv, Accounted, ExecutedAtMostOnce
<1>2. QED
  BY <1>1, AlwaysIInv, PTL

\* No ID is answered with two results or for two bodies.
THEOREM SingleResult == Spec => []OneResult
<1>1. IInv => OneResult
  BY DEF IInv, Accounted, OneResult
<1>2. QED
  BY <1>1, AlwaysIInv, PTL

\* Whoever is owed an answer on a live connection is listed as a waiter of a
\* request some handler will complete.
THEOREM WaitersKept == Spec => []NoWaiterLost
<1>1. IInv => NoWaiterLost
  <2> SUFFICES ASSUME IInv, NEW c \in Conns, NEW id \in awaiting[c]
               PROVE  /\ c \in WaitingOn(scope.records[id])
                      /\ scope.records[id].state = "pending"
                      /\ job[id] # "none"
    BY DEF NoWaiterLost
  <2>1. id \in Ids
    BY DEF IInv, TypeOK
  <2>2. Accounted(id) /\ Listens(c, id)
    BY <2>1 DEF IInv
  <2>3. QED
    BY <2>2 DEF Accounted, Listens, Pending
<1>2. QED
  BY <1>1, AlwaysIInv, PTL

\* A connection whose threads are gone is in no waiter list.
THEOREM WaitersReleased == Spec => []NoLeakedWaiter
<1>1. IInv => NoLeakedWaiter
  BY DEF IInv, Listens, NoLeakedWaiter
<1>2. QED
  BY <1>1, AlwaysIInv, PTL

\* The waiter lists name whoever is owed an answer, and nobody that is gone.
THEOREM WaitersAreExact == Spec => []WaitersExact
<1>1. NoWaiterLost /\ NoLeakedWaiter => WaitersExact
  BY DEF WaitersExact
<1>2. QED
  BY <1>1, WaitersKept, WaitersReleased, PTL
-----------------------------------------------------------------------------
(***************************************************************************)
(* The refinement: entering a handler takes the ID, the mutation runs it,  *)
(* and each delivery tells the result; everything else is a stutter.       *)
(***************************************************************************)
LEMMA StepRefines == IInv /\ [Next]_vars => [AMO!Next]_(AMO!vars)
<1> SUFFICES ASSUME IInv, [Next]_vars PROVE AMO!Next \/ UNCHANGED AMO!vars
  BY DEF AMO!vars
<1>1. ASSUME NEW c \in Conns, NEW id \in Ids, NEW body \in Bodies, Begin(c, id, body)
      PROVE  AMO!Next \/ UNCHANGED AMO!vars
  <2>1. /\ scope \in ScopeType /\ runs' = runs
        /\ Disposition(scope, id, body) = "Pending" => scope'.highest = scope.highest
        /\ Disposition(scope, id, body) \in {"New", "TooManyPending"} => scope'.highest = id
        /\ Disposition(scope, id, body) \notin {"Pending", "New", "TooManyPending"} =>
             scope' = scope
    BY <1>1, BeginStep DEF IInv
  <2>2. CASE BeginNew(c, id, body) \/ BeginOverloaded(c, id, body)
    <3>1. id > scope.highest /\ scope'.highest = id /\ answers' = answers
      BY <2>1, <2>2, DispositionMeans DEF BeginNew, BeginOverloaded, Entering
    <3>2. AMO!Take(id)
      BY <2>1, <3>1 DEF AMO!Take
    <3>3. QED
      BY <3>2 DEF AMO!Next
  <2>3. CASE BeginPending(c, id, body)
    <3>1. scope'.highest = scope.highest /\ answers' = answers
      BY <2>1, <2>3 DEF BeginPending, Entering
    <3>2. QED
      BY <2>1, <3>1 DEF AMO!vars
  <2>4. ASSUME NEW queued \in BOOLEAN, BeginCached(c, id, body, queued)
        PROVE  AMO!Next \/ UNCHANGED AMO!vars
    <3>1. /\ scope' = scope /\ Done(id) /\ Request(id) = body
          /\ \/ answers' = answers
             \/ answers' = [answers EXCEPT ![id] =
                              answers[id] \cup {<< body, scope.records[id].response >>}]
      BY <2>1, <2>4, DispositionMeans DEF BeginCached, Entering, Done, Request
    <3>2. /\ scope.records[id].response \in Results /\ id <= scope.highest
          /\ answers[id] \subseteq {<< body, scope.records[id].response >>}
      BY <3>1 DEF IInv, Accounted, Done, Request
    <3>3. CASE answers' = answers
      BY <2>1, <3>1, <3>3 DEF AMO!vars
    <3>4. CASE answers' = [answers EXCEPT ![id] =
                              answers[id] \cup {<< body, scope.records[id].response >>}]
      <4>1. answers' = [answers EXCEPT ![id] = {<< body, scope.records[id].response >>}]
        BY <3>2, <3>4
      <4>2. AMO!Tell(id, body, scope.records[id].response)
        BY <2>1, <3>1, <3>2, <4>1 DEF AMO!Tell
      <4>3. QED
        BY <3>2, <4>2 DEF AMO!Next
    <3>5. QED
      BY <3>1, <3>3, <3>4
  <2>5. CASE BeginRefused(c, id, body)
    <3>1. scope' = scope /\ answers' = answers
      BY <2>1, <2>5 DEF BeginRefused, Entering
    <3>2. QED
      BY <2>1, <3>1 DEF AMO!vars
  <2>6. QED
    BY <1>1, <2>2, <2>3, <2>4, <2>5 DEF Begin
<1>2. ASSUME NEW id \in Ids, Mutate(id) PROVE AMO!Next \/ UNCHANGED AMO!vars
  <2>1. /\ scope' = scope /\ answers' = answers /\ job[id] = "begun"
        /\ runs' = [runs EXCEPT ![id] = runs[id] + 1]
    BY <1>2 DEF Mutate
  <2>2. runs[id] = 0 /\ answers[id] = {} /\ id <= scope.highest
    BY <2>1 DEF IInv, Accounted, Pending
  <2>3. runs' = [runs EXCEPT ![id] = 1]
    BY <2>1, <2>2
  <2>4. AMO!Run(id)
    BY <2>1, <2>2, <2>3 DEF AMO!Run
  <2>5. QED
    BY <2>4 DEF AMO!Next
<1>3. ASSUME NEW id \in Ids, NEW r \in Results, NEW refused \in SUBSET Conns,
             NEW punish \in BOOLEAN, Complete(id, r, refused, punish)
      PROVE  AMO!Next \/ UNCHANGED AMO!vars
  <2>1. /\ scope' = CompleteRequest(scope, id, r) /\ runs' = runs /\ r \in ResultsOf(id)
        /\ \/ answers' = answers
           \/ answers' = [answers EXCEPT ![id] = answers[id] \cup {<< Request(id), r >>}]
    BY <1>3 DEF Complete
  <2>2. scope'.highest = scope.highest
    BY <2>1 DEF CompleteRequest, IInv, TypeOK
  <2>3. answers[id] = {} /\ Request(id) \in Bodies /\ id <= scope.highest
    BY <2>1 DEF IInv, Accounted, Pending, ResultsOf
  <2>4. CASE answers' = answers
    BY <2>1, <2>2, <2>4 DEF AMO!vars
  <2>5. CASE answers' = [answers EXCEPT ![id] = answers[id] \cup {<< Request(id), r >>}]
    <3>1. answers' = [answers EXCEPT ![id] = {<< Request(id), r >>}]
      BY <2>3, <2>5
    <3>2. AMO!Tell(id, Request(id), r)
      BY <2>1, <2>2, <2>3, <3>1 DEF AMO!Tell
    <3>3. QED
      BY <2>3, <3>2 DEF AMO!Next
  <2>6. QED
    BY <2>1, <2>4, <2>5
<1>4. ASSUME NEW c \in Conns, Disconnect(c) \/ WriterEnds(c) \/ ReaderEnds(c)
      PROVE  AMO!Next \/ UNCHANGED AMO!vars
  BY <1>4 DEF Disconnect, WriterEnds, ReaderEnds, RemoveClient, IInv, TypeOK, AMO!vars
<1>5. CASE UNCHANGED vars
  BY <1>5 DEF vars, AMO!vars
<1>6. QED
  BY <1>1, <1>2, <1>3, <1>4, <1>5 DEF Next, Finish

\* The cache, its retries, its evictions and its connections implement the
\* at-most-once contract that docs/DAEMON.md gives a retrying client.
THEOREM Refinement == Spec => ImplementsAtMostOnce
<1>1. Init => AMO!Init
  BY DEF Init, AMO!Init, EmptyScope
<1>2. QED
  BY <1>1, AlwaysIInv, StepRefines, PTL DEF Spec, ImplementsAtMostOnce, AMO!Spec
=============================================================================
