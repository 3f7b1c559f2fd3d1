--------------------------- MODULE AttachReplayProofs ---------------------------
(***************************************************************************)
(* What AttachReplay guarantees for any number of connections, attaches    *)
(* and leases, any output, and any sizes of the history, of a PTY read and *)
(* of a replay chunk.                                                      *)
(*                                                                         *)
(*   Types       every variable keeps its type (TypeCorrect);              *)
(*   ScreenSafe  adds what the client's next byte, its running replay and  *)
(*               its screen say of each other, and what a message may hold *)
(*               that the client can accept (ScreenIsOneRun);              *)
(*   ReadSafe    adds what is still on the wire: that the messages of a    *)
(*               lease continue one another from where the client stands   *)
(*               (ReadsInOrder, ReadsAllOfIt);                             *)
(*   BeliefSafe  adds that a lease that was displaced has its notice on    *)
(*               the wire, or lost its connection (BelievesTheTruth).      *)
(***************************************************************************)
EXTENDS AttachReplay, Integers, TLAPS

(***************************************************************************)
(* Types.                                                                  *)
(***************************************************************************)
Kinds       == {"result", "begin", "chunk", "end", "output", "taken"}
Messages    == [kind : Kinds, id : Ids \cup {0}, lease : 0 .. leases,
                from : 0 .. output, to : 0 .. output]
RecordType  == [state : {"absent", "pending", "done"}, request : Ids \cup {None},
                response : Nat \cup {None}, waiters : Seq(Conns)]
ScopeType   == [highest : Nat, records : [Ids -> RecordType]]
HandlerType == [op : {"idle", "attach", "reattach"}, id : Ids \cup {0}, lease : 0 .. leases]
ClientType  == [conn : 0 .. LastConn, opened : 0 .. LastConn, last : Ids \cup {0},
                bound : BOOLEAN, queued : BOOLEAN, lease : 0 .. leases, expected : 0 .. output]
AttachType  == [id : Ids \cup {0}, origin : {"user", "queue"}, lease : 0 .. leases,
                next : 0 .. output \cup {None}, watermark : 0 .. output \cup {None},
                first : 0 .. output \cup {None}]

\* A completed request has its response: a lease that was granted, or Failed.
Replied == \A id \in Ids :
             /\ scope.records[id].state = "done" => scope.records[id].response # None
             /\ scope.records[id].response \in 0 .. leases \cup {None}

\* A reader thread that is inside of an attach knows its request and its lease.
Within == \A c \in Conns :
             /\ handler[c].op = "idle" => handler[c] = Idle
             /\ handler[c].op # "idle" => handler[c].id \in Ids
             /\ handler[c].op = "reattach" => handler[c].lease \in 1 .. leases

HistoryOK == /\ output \in 0 .. MaxOutput /\ start \in 0 .. output
             /\ output - start <= HistoryLimit
DaemonOK  == /\ leases \in 0 .. LastLease
             /\ owner \in [lease : 0 .. leases, conn : 0 .. LastConn]
             /\ partial \subseteq 1 .. leases
HandlerOK == handler \in [Conns -> HandlerType] /\ Within
InboxOK   == inbox \in [Conns -> Seq(Ids)]
ActiveOK  == active \in [Conns -> BOOLEAN]
ClientOK  == client \in ClientType
AttachOK  == attach \in AttachType
WireOK    == wire \in Seq(Messages)
ScopeOK   == scope \in ScopeType /\ Replied

Types == /\ HistoryOK /\ DaemonOK /\ HandlerOK /\ InboxOK /\ ActiveOK /\ ClientOK /\ AttachOK
         /\ WireOK /\ ScopeOK

LEMMA TypeParts == Types => TypeOK
BY DEF Types, TypeOK, HistoryOK, DaemonOK, HandlerOK, HandlerType, InboxOK, ActiveOK, ClientOK,
       ClientType, AttachOK, AttachType

LEMMA ConstantsTyped ==
    /\ Absent \in RecordType
    /\ EmptyScope \in ScopeType
    /\ None \notin Nat /\ Ids \subseteq Nat /\ 0 \notin Ids
    /\ \A c \in Conns : c \in Nat /\ c # 0
<1>1. Absent \in RecordType
  BY DEF Absent, RecordType
<1>2. EmptyScope \in ScopeType
  BY <1>1 DEF EmptyScope, ScopeType
<1>3. QED
  BY <1>1, <1>2, AttachReplayAssumption, RequestCacheAssumption DEF Conns

LEMMA InitTypes == Init => Types
<1> SUFFICES ASSUME Init PROVE Types
  OBVIOUS
<1> USE AttachReplayAssumption
<1>1. HistoryOK /\ DaemonOK
  BY DEF Init, HistoryOK, DaemonOK
<1>2. HandlerOK
  BY DEF Init, HandlerOK, HandlerType, Within, Idle
<1>3. InboxOK /\ ActiveOK /\ WireOK
  BY DEF Init, InboxOK, ActiveOK, WireOK
<1>4. ClientOK /\ AttachOK
  BY DEF Init, ClientOK, ClientType, AttachOK, AttachType, Away
<1>5. ScopeOK
  BY ConstantsTyped DEF Init, ScopeOK, Replied, EmptyScope, Absent
<1>6. QED
  BY <1>1, <1>2, <1>3, <1>4, <1>5 DEF Types
-----------------------------------------------------------------------------
(***************************************************************************)
(* The operators of the request cache.                                     *)
(***************************************************************************)
\* A connection is pushed when it is not listed yet; nothing else changes.
LEMMA AddWaiterKeeps ==
    ASSUME NEW record \in RecordType, NEW c \in Conns
    PROVE  /\ AddWaiter(record, c) \in RecordType
           /\ AddWaiter(record, c).state = record.state
           /\ AddWaiter(record, c).response = record.response
           /\ WaitingOn(AddWaiter(record, c)) \subseteq WaitingOn(record) \cup {c}
<1>1. CASE c \in WaitingOn(record)
  BY <1>1 DEF AddWaiter
<1>2. CASE c \notin WaitingOn(record)
  <2> DEFINE w == record.waiters
             v == Append(w, c)
  <2>1. w \in Seq(Conns) /\ v \in Seq(Conns)
    BY DEF RecordType
  <2>2. Len(v) = Len(w) + 1 /\ v[Len(w) + 1] = c /\ \A i \in 1 .. Len(w) : v[i] = w[i]
    BY <2>1
  <2>3. {v[i] : i \in 1 .. Len(v)} \subseteq {w[i] : i \in 1 .. Len(w)} \cup {c}
    BY <2>1, <2>2
  <2>4. AddWaiter(record, c) = [record EXCEPT !.waiters = v]
    BY <1>2 DEF AddWaiter
  <2> HIDE DEF v
  <2>5. AddWaiter(record, c).waiters = v
    BY <2>4 DEF RecordType
  <2>6. WaitingOn(AddWaiter(record, c)) \subseteq WaitingOn(record) \cup {c}
    BY <2>3, <2>5 DEF WaitingOn
  <2>7. QED
    BY <2>1, <2>4, <2>6 DEF RecordType
<1>3. QED
  BY <1>1, <1>2

\* retain drops the connection that is leaving and adds nobody.
LEMMA WithoutClientKeeps ==
    ASSUME NEW w \in Seq(Conns), NEW c
    PROVE  /\ WithoutClient(w, c) \in Seq(Conns)
           /\ \A i \in 1 .. Len(WithoutClient(w, c)) :
                 \E j \in 1 .. Len(w) : WithoutClient(w, c)[i] = w[j]
<1>1. CASE ~ \E i \in 1 .. Len(w) : w[i] = c
  BY <1>1 DEF WithoutClient
<1>2. CASE \E i \in 1 .. Len(w) : w[i] = c
  <2> DEFINE k == CHOOSE i \in 1 .. Len(w) : w[i] = c
             p == SubSeq(w, 1, k - 1)
             q == SubSeq(w, k + 1, Len(w))
  <2>1. k \in 1 .. Len(w)
    BY <1>2
  <2>2. WithoutClient(w, c) = p \o q
    BY <1>2 DEF WithoutClient
  <2> HIDE DEF k
  <2>3. /\ p \in Seq(Conns) /\ Len(p) = k - 1
        /\ \A i \in 1 .. k - 1 : p[i] = w[i]
    BY <2>1
  <2>4. /\ q \in Seq(Conns) /\ Len(q) = Len(w) - k
        /\ \A i \in 1 .. Len(w) - k : q[i] = w[k + i]
    BY <2>1
  <2> HIDE DEF p, q
  <2>5. /\ p \o q \in Seq(Conns)
        /\ Len(p \o q) = Len(p) + Len(q)
        /\ \A i \in 1 .. Len(p) + Len(q) :
              (p \o q)[i] = IF i <= Len(p) THEN p[i] ELSE q[i - Len(p)]
    <3>1. p \in Seq(Conns) /\ q \in Seq(Conns)
      BY <2>3, <2>4
    <3>2. QED
      BY <3>1
  <2>6. ASSUME NEW i \in 1 .. Len(p \o q)
        PROVE  \E j \in 1 .. Len(w) : (p \o q)[i] = w[j]
    <3>1. CASE i <= Len(p)
      BY <2>1, <2>3, <2>5, <3>1
    <3>2. CASE i > Len(p)
      <4>1. i - Len(p) \in 1 .. Len(w) - k /\ k + (i - Len(p)) \in 1 .. Len(w)
        BY <2>1, <2>3, <2>4, <2>5, <3>2
      <4>2. (p \o q)[i] = w[k + (i - Len(p))]
        BY <2>3, <2>4, <2>5, <3>2, <4>1
      <4>3. QED
        BY <4>1, <4>2
    <3>3. QED
      BY <2>3, <2>5, <3>1, <3>2
  <2>7. QED
    BY <2>2, <2>5, <2>6
<1>3. QED
  BY <1>1, <1>2

\* A request is opened only if it has no record; a cached one is complete.
LEMMA DispositionMeans ==
    ASSUME NEW rs \in ScopeType, NEW id \in Ids
    PROVE  /\ Disposition(rs, id, id) \in {"New", "TooManyPending"} => rs.records[id].state = "absent"
           /\ Disposition(rs, id, id) = "Cached" => rs.records[id].state = "done"
           /\ Disposition(rs, id, id) = "Pending" => rs.records[id].state = "pending"
<1>1. rs.records[id] \in RecordType /\ rs.highest \in Nat /\ id \in Nat
  BY ConstantsTyped DEF ScopeType
<1> DEFINE known == rs.records[id].state # "absent"
<1>2. CASE known /\ rs.records[id].request # id
  BY <1>2 DEF Disposition
<1>3. CASE known /\ rs.records[id].request = id /\ rs.records[id].state = "done"
  BY <1>3 DEF Disposition
<1>4. CASE known /\ rs.records[id].request = id /\ rs.records[id].state = "pending"
  BY <1>4 DEF Disposition
<1>5. CASE ~ known /\ id <= rs.highest
  BY <1>5 DEF Disposition
<1>6. CASE ~ known /\ ~ (id <= rs.highest)
  BY <1>1, <1>6 DEF Disposition
<1>7. QED
  BY <1>1, <1>2, <1>3, <1>4, <1>5, <1>6 DEF RecordType

\* What begin does to the scope: the record of its own ID is opened, or one
\* more connection waits on it; no other record changes.
Fresh(id, c) == [state |-> "pending", request |-> id, response |-> None, waiters |-> << c >>]

Began(old, new, id, c) ==
    /\ \A j \in Ids \ {id} : new.records[j] = old.records[j]
    /\ \/ new = old
       \/ /\ old.records[id].state = "pending" /\ new.records[id].state = "pending"
          /\ new.records[id].response = old.records[id].response
          /\ WaitingOn(new.records[id]) \subseteq WaitingOn(old.records[id]) \cup {c}
       \/ old.records[id].state = "absent" /\ new.records[id] = Fresh(id, c)

LEMMA FreshTyped ==
    ASSUME NEW id \in Ids, NEW c \in Conns
    PROVE  Fresh(id, c) \in RecordType /\ WaitingOn(Fresh(id, c)) = {c}
<1>1. << c >> \in Seq(Conns) /\ Len(<< c >>) = 1 /\ << c >>[1] = c
  OBVIOUS
<1>2. QED
  BY <1>1 DEF Fresh, RecordType, WaitingOn

LEMMA BeginChanges ==
    ASSUME NEW rs \in ScopeType, NEW id \in Ids, NEW c \in Conns
    PROVE  /\ BeginRequest(rs, id, id, c) \in ScopeType
           /\ Began(rs, BeginRequest(rs, id, id, c), id, c)
           /\ Disposition(rs, id, id) = "New" =>
                 /\ rs.records[id].state = "absent"
                 /\ BeginRequest(rs, id, id, c).records[id] = Fresh(id, c)
           /\ Disposition(rs, id, id) \in {"Expired", "Cached"} => BeginRequest(rs, id, id, c) = rs
<1>1. /\ rs.records \in [Ids -> RecordType] /\ rs.records[id] \in RecordType
      /\ rs.highest \in Nat /\ id \in Nat
  BY ConstantsTyped DEF ScopeType
<1>2. CASE Disposition(rs, id, id) = "Pending"
  <2> DEFINE joined == AddWaiter(rs.records[id], c)
  <2>1. /\ joined \in RecordType
        /\ joined.state = rs.records[id].state
        /\ joined.response = rs.records[id].response
        /\ WaitingOn(joined) \subseteq WaitingOn(rs.records[id]) \cup {c}
    BY <1>1, AddWaiterKeeps
  <2> HIDE DEF joined
  <2>2. BeginRequest(rs, id, id, c) = [rs EXCEPT !.records[id] = joined]
    BY <1>2 DEF BeginRequest, joined
  <2>3. BeginRequest(rs, id, id, c) =
             [highest |-> rs.highest, records |-> [rs.records EXCEPT ![id] = joined]]
    BY <2>2 DEF ScopeType
  <2>4. rs.records[id].state = "pending"
    BY <1>2, DispositionMeans
  <2>5. QED
    BY <1>1, <1>2, <2>1, <2>3, <2>4 DEF ScopeType, Began
<1>3. CASE Disposition(rs, id, id) \in {"New", "TooManyPending"}
  <2>1. BeginRequest(rs, id, id, c) =
             [highest |-> id, records |-> [rs.records EXCEPT ![id] = Fresh(id, c)]]
    BY <1>3 DEF BeginRequest, Fresh
  <2>2. rs.records[id].state = "absent"
    BY <1>3, DispositionMeans
  <2>3. QED
    BY <1>1, <1>3, <2>1, <2>2, FreshTyped DEF ScopeType, Began
<1>4. CASE Disposition(rs, id, id) \notin {"Pending", "New", "TooManyPending"}
  BY <1>4 DEF BeginRequest, Began
<1>5. QED
  BY <1>2, <1>3, <1>4

\* What complete does to the scope: its own record is answered, unless it is
\* missing, and completed records may be forgotten.
Answer(record, response) == [state |-> "done", request |-> record.request,
                             response |-> response, waiters |-> << >>]

Finished(old, new, id, response) ==
    \A j \in Ids :
       \/ new.records[j] = old.records[j] /\ (j = id => old.records[j].state = "absent")
       \/ new.records[j] = Absent /\ (j = id \/ old.records[j].state = "done")
       \/ j = id /\ new.records[j] = Answer(old.records[j], response)

LEMMA CompleteChanges ==
    ASSUME NEW rs \in ScopeType, NEW id \in Ids, NEW response \in Nat
    PROVE  /\ CompleteRequest(rs, id, response) \in ScopeType
           /\ Finished(rs, CompleteRequest(rs, id, response), id, response)
<1> DEFINE answered == Answer(rs.records[id], response)
           stored == IF rs.records[id].state = "absent" THEN rs.records
                     ELSE [rs.records EXCEPT ![id] = answered]
<1>1. /\ rs.records \in [Ids -> RecordType] /\ rs.records[id] \in RecordType
      /\ rs.highest \in Nat
  BY DEF ScopeType
<1>2. answered \in RecordType
  BY <1>1 DEF RecordType, Answer
<1>3. stored \in [Ids -> RecordType]
  BY <1>1, <1>2
<1>4. /\ stored[id] = IF rs.records[id].state = "absent" THEN rs.records[id] ELSE answered
      /\ \A j \in Ids \ {id} : stored[j] = rs.records[j]
  BY <1>1
<1>5. CompleteRequest(rs, id, response) =
         [highest |-> rs.highest, records |-> EvictOldResults(stored)]
  BY DEF CompleteRequest, ScopeType, Answer
<1> HIDE DEF answered, stored
<1>6. /\ EvictOldResults(stored) \in [Ids -> RecordType]
      /\ \A j \in Ids : \/ EvictOldResults(stored)[j] = stored[j]
                        \/ EvictOldResults(stored)[j] = Absent /\ stored[j].state = "done"
  BY <1>3, ConstantsTyped DEF EvictOldResults, Retained
<1>7. QED
  BY <1>1, <1>4, <1>5, <1>6 DEF ScopeType, Finished, answered

\* remove_client changes waiter lists only.
Quit(old, new) ==
    \A j \in Ids :
       /\ new.records[j].state = old.records[j].state
       /\ new.records[j].response = old.records[j].response
       /\ old.records[j] = Absent => new.records[j] = Absent
       /\ WaitingOn(new.records[j]) \subseteq WaitingOn(old.records[j])

LEMMA RemoveClientChanges ==
    ASSUME NEW rs \in ScopeType, NEW c
    PROVE  RemoveClient(rs, c) \in ScopeType /\ Quit(rs, RemoveClient(rs, c))
<1> DEFINE without(j) == DropWaiter(rs.records[j], c)
<1>1. RemoveClient(rs, c) = [highest |-> rs.highest, records |-> [j \in Ids |-> without(j)]]
  BY DEF RemoveClient, ScopeType
<1>2. ASSUME NEW j \in Ids
      PROVE  /\ without(j) \in RecordType
             /\ without(j).state = rs.records[j].state
             /\ without(j).response = rs.records[j].response
             /\ rs.records[j] = Absent => without(j) = Absent
             /\ WaitingOn(without(j)) \subseteq WaitingOn(rs.records[j])
  <2>1. rs.records[j] \in RecordType /\ rs.records[j].waiters \in Seq(Conns)
    BY DEF ScopeType, RecordType
  <2> DEFINE w == rs.records[j].waiters
             v == WithoutClient(w, c)
  <2>2. v \in Seq(Conns) /\ \A i \in 1 .. Len(v) : \E k \in 1 .. Len(w) : v[i] = w[k]
    BY <2>1, WithoutClientKeeps
  <2>3. without(j) = [rs.records[j] EXCEPT !.waiters = v]
    BY DEF DropWaiter
  <2>4. rs.records[j] = Absent => v = << >>
    BY DEF Absent, WithoutClient
  <2> HIDE DEF v
  <2>5. QED
    BY <2>1, <2>2, <2>3, <2>4, SMTT(30) DEF RecordType, WaitingOn, Absent
<1> HIDE DEF without
<1>3. rs.highest \in Nat
  BY DEF ScopeType
<1>4. QED
  BY <1>1, <1>2, <1>3 DEF ScopeType, Quit
-----------------------------------------------------------------------------
(***************************************************************************)
(* Sequences of messages.                                                  *)
(***************************************************************************)
LEMMA Taken ==
    ASSUME NEW S, NEW w \in Seq(S), w # << >>
    PROVE  /\ Head(w) = w[1] /\ w[1] \in S /\ Len(w) \in Nat \ {0}
           /\ Tail(w) \in Seq(S) /\ Len(Tail(w)) = Len(w) - 1
           /\ \A k \in 1 .. Len(w) - 1 : Tail(w)[k] = w[k + 1]
OBVIOUS

LEMMA Appended ==
    ASSUME NEW S, NEW w \in Seq(S), NEW m \in S
    PROVE  /\ Append(w, m) \in Seq(S) /\ Len(Append(w, m)) = Len(w) + 1
           /\ Append(w, m)[Len(w) + 1] = m
           /\ \A k \in 1 .. Len(w) : Append(w, m)[k] = w[k]
OBVIOUS

LEMMA Joined ==
    ASSUME NEW S, NEW w \in Seq(S), NEW v \in Seq(S)
    PROVE  /\ w \o v \in Seq(S) /\ Len(w \o v) = Len(w) + Len(v)
           /\ \A k \in 1 .. Len(w) : (w \o v)[k] = w[k]
           /\ \A k \in 1 .. Len(v) : (w \o v)[Len(w) + k] = v[k]
OBVIOUS

LEMMA Prefix ==
    ASSUME NEW S, NEW w \in Seq(S), NEW n \in 0 .. Len(w)
    PROVE  /\ SubSeq(w, 1, n) \in Seq(S) /\ Len(SubSeq(w, 1, n)) = n
           /\ \A k \in 1 .. n : SubSeq(w, 1, n)[k] = w[k]
OBVIOUS

(***************************************************************************)
(* One replay transaction.                                                 *)
(***************************************************************************)
\* Rounded up: the chunks are full but for the last.
ChunkCount == (output - start + ChunkBytes - 1) \div ChunkBytes

LEMMA Rounding ==
    ASSUME NEW n \in Nat, NEW b \in Nat, b # 0
    PROVE  /\ (n + b - 1) \div b \in Nat
           /\ n <= ((n + b - 1) \div b) * b
           /\ ((n + b - 1) \div b) * b < n + b
<1> DEFINE q == (n + b - 1) \div b
           r == (n + b - 1) % b
<1>1. n + b - 1 \in Nat
  OBVIOUS
<1>2. q \in Int /\ r \in 0 .. b - 1 /\ n + b - 1 = b * q + r
  BY <1>1
<1>3. q >= 0
  BY <1>1, <1>2
<1>4. QED
  BY <1>2, <1>3

LEMMA Multiple ==
    ASSUME NEW b \in Nat, NEW i \in Nat, NEW j \in Nat, i <= j
    PROVE  i * b \in Nat /\ j * b \in Nat /\ i * b <= j * b
OBVIOUS

LEMMA ChunkEdges ==
    ASSUME HistoryOK, NEW k \in 1 .. ChunkCount
    PROVE  /\ ChunkCount \in Nat
           /\ (k - 1) * ChunkBytes \in Nat /\ k * ChunkBytes \in Nat
           /\ start + (k - 1) * ChunkBytes < output
           /\ k < ChunkCount => start + k * ChunkBytes < output
           /\ k = ChunkCount => output <= start + k * ChunkBytes
<1> DEFINE n == output - start
           b == ChunkBytes
           N == ChunkCount
<1>1. output \in Nat /\ start \in Nat /\ n \in Nat /\ b \in Nat /\ b # 0
  BY AttachReplayAssumption DEF HistoryOK
<1>2. N \in Nat /\ n <= N * b /\ N * b < n + b
  BY <1>1, Rounding DEF ChunkCount
<1> HIDE DEF N
<1>3. k \in Nat /\ k - 1 \in Nat /\ k <= N
  BY <1>2 DEF N
<1>4. (k - 1) * b \in Nat /\ k * b \in Nat /\ N * b \in Nat
  BY <1>1, <1>2, <1>3, Multiple
<1>5. k * b <= N * b /\ k * b = (k - 1) * b + b
  <2>1. k * b <= N * b
    BY <1>1, <1>2, <1>3, Multiple
  <2>2. k * b = (k - 1) * b + b
    BY <1>1, <1>3, <1>4
  <2>3. QED
    BY <2>1, <2>2
<1>6. k < N => k * b + b <= N * b
  <2>1. SUFFICES ASSUME k < N PROVE k * b + b <= N * b
    OBVIOUS
  <2>2. k + 1 <= N /\ k + 1 \in Nat
    BY <1>2, <1>3, <2>1
  <2>3. (k + 1) * b <= N * b
    BY <1>1, <1>2, <2>2, Multiple
  <2>4. (k + 1) * b = k * b + b
    BY <1>1, <1>3, <1>4
  <2>5. QED
    BY <2>3, <2>4
<1>7. QED
  BY <1>1, <1>2, <1>3, <1>4, <1>5, <1>6 DEF N

MessagesOf(l) == [kind : Kinds, id : Ids \cup {0}, lease : 0 .. l, from : 0 .. output, to : 0 .. output]

LEMMA MessageTyped ==
    ASSUME NEW kind \in Kinds, NEW id \in Ids \cup {0}, NEW l \in Nat, NEW lease \in 0 .. l,
           NEW from \in 0 .. output, NEW to \in 0 .. output
    PROVE  /\ Message(kind, id, lease, from, to) \in MessagesOf(l)
           /\ Message(kind, id, lease, from, to).kind = kind
           /\ Message(kind, id, lease, from, to).id = id
           /\ Message(kind, id, lease, from, to).lease = lease
           /\ Message(kind, id, lease, from, to).from = from
           /\ Message(kind, id, lease, from, to).to = to
BY DEF Message, MessagesOf

\* What a waiter of an attach is sent: the transaction, and TakenOver behind it
\* if another waiter was selected.
Parcel(id, lease, told) ==
    Transaction(id, lease) \o (IF told THEN << TakenOver(lease) >> ELSE << >>)

Chunk(id, lease, k) == Message("chunk", id, lease, start + (k - 1) * ChunkBytes,
                               Least(start + k * ChunkBytes, output))

LEMMA ChunkTyped ==
    ASSUME HistoryOK, NEW id \in Ids, NEW l \in Nat, NEW lease \in 0 .. l, NEW k \in 1 .. ChunkCount
    PROVE  /\ Chunk(id, lease, k) \in MessagesOf(l)
           /\ Chunk(id, lease, k).kind = "chunk"
           /\ Chunk(id, lease, k).id = id
           /\ Chunk(id, lease, k).lease = lease
           /\ Chunk(id, lease, k).from = start + (k - 1) * ChunkBytes
           /\ Chunk(id, lease, k).from <= Chunk(id, lease, k).to
           /\ Chunk(id, lease, k).to \in start .. output
           /\ k < ChunkCount => Chunk(id, lease, k).to = start + k * ChunkBytes
           /\ k = ChunkCount => Chunk(id, lease, k).to = output
<1> DEFINE from == start + (k - 1) * ChunkBytes
           to == Least(start + k * ChunkBytes, output)
<1>1. output \in Nat /\ start \in Nat /\ ChunkBytes \in Nat
  BY AttachReplayAssumption DEF HistoryOK
<1>2. k * ChunkBytes = (k - 1) * ChunkBytes + ChunkBytes
  BY <1>1
<1>3. /\ from \in 0 .. output /\ to \in start .. output /\ to \in 0 .. output /\ from <= to
      /\ k < ChunkCount => to = start + k * ChunkBytes
      /\ k = ChunkCount => to = output
  BY <1>1, <1>2, ChunkEdges DEF Least
<1> HIDE DEF from, to
<1>4. "chunk" \in Kinds /\ id \in Ids \cup {0}
  BY DEF Kinds
<1>5. /\ Message("chunk", id, lease, from, to) \in MessagesOf(l)
      /\ Message("chunk", id, lease, from, to).kind = "chunk"
      /\ Message("chunk", id, lease, from, to).id = id
      /\ Message("chunk", id, lease, from, to).lease = lease
      /\ Message("chunk", id, lease, from, to).from = from
      /\ Message("chunk", id, lease, from, to).to = to
  BY <1>3, <1>4, MessageTyped
<1>6. Chunk(id, lease, k) = Message("chunk", id, lease, from, to)
  BY DEF Chunk, from, to
<1> HIDE DEF Chunk
<1>7. QED
  BY <1>3, <1>5, <1>6 DEF from

LEMMA ParcelParts ==
    ASSUME HistoryOK, NEW id \in Ids, NEW l \in Nat, NEW lease \in 0 .. l, NEW told \in BOOLEAN
    PROVE  LET p == Parcel(id, lease, told)
           IN  /\ p \in Seq(MessagesOf(l))
               /\ ChunkCount \in Nat
               /\ Len(p) = ChunkCount + (IF told THEN 4 ELSE 3)
               /\ p[1] = Result(id, lease)
               /\ p[2] = Message("begin", id, lease, start, output)
               /\ \A k \in 1 .. ChunkCount : p[2 + k] = Chunk(id, lease, k)
               /\ p[ChunkCount + 3] = Message("end", id, lease, output, output)
               /\ told => p[ChunkCount + 4] = TakenOver(lease)
<1> DEFINE M == MessagesOf(l)
           n == ChunkCount
           first == Result(id, lease)
           begin == Message("begin", id, lease, start, output)
           end == Message("end", id, lease, output, output)
           last == TakenOver(lease)
           chunks == ReplayChunks(id, lease)
           rest == IF told THEN << last >> ELSE << >>
<1>1. output \in Nat /\ start \in 0 .. output /\ output \in 0 .. output /\ 0 \in 0 .. output
  BY AttachReplayAssumption DEF HistoryOK
<1>2. first \in M /\ begin \in M /\ end \in M /\ last \in M
  BY <1>1, MessageTyped DEF Result, TakenOver, Kinds
<1>3. n \in Nat
  <2>1. output - start \in Nat /\ ChunkBytes \in Nat /\ ChunkBytes # 0
    BY <1>1, AttachReplayAssumption
  <2>2. QED
    BY <2>1, Rounding DEF ChunkCount
<1>4. chunks \in Seq(M) /\ Len(chunks) = n /\ \A k \in 1 .. n : chunks[k] = Chunk(id, lease, k)
  <2>1. chunks = [k \in 1 .. n |-> Chunk(id, lease, k)]
    BY DEF ReplayChunks, Chunk, ChunkCount
  <2>2. \A k \in 1 .. n : Chunk(id, lease, k) \in M
    BY ChunkTyped
  <2> HIDE DEF n, M, chunks
  <2>3. QED
    BY <1>3, <2>1, <2>2
<1>5. rest \in Seq(M) /\ Len(rest) = (IF told THEN 1 ELSE 0) /\ (told => rest[1] = last)
  <2> HIDE DEF M, last
  <2>1. QED
    BY <1>2
<1>6. Parcel(id, lease, told) = ((<< first, begin >> \o chunks) \o << end >>) \o rest
  BY DEF Parcel, Transaction
<1> HIDE DEF M, n, first, begin, end, last, chunks, rest
<1>7. /\ << first, begin >> \in Seq(M) /\ Len(<< first, begin >>) = 2
      /\ << first, begin >>[1] = first /\ << first, begin >>[2] = begin
      /\ << end >> \in Seq(M) /\ Len(<< end >>) = 1 /\ << end >>[1] = end
  BY <1>2
<1> DEFINE a == << first, begin >> \o chunks
<1>8. /\ a \in Seq(M) /\ Len(a) = n + 2 /\ a[1] = first /\ a[2] = begin
      /\ \A k \in 1 .. n : a[2 + k] = chunks[k]
  BY <1>4, <1>7, Joined
<1> HIDE DEF a
<1> DEFINE b == a \o << end >>
<1>9. /\ b \in Seq(M) /\ Len(b) = n + 3 /\ b[1] = first /\ b[2] = begin /\ b[n + 3] = end
      /\ \A k \in 1 .. n : b[2 + k] = chunks[k]
  <2>1. /\ b \in Seq(M) /\ Len(b) = Len(a) + 1 /\ b[Len(a) + 1] = end
        /\ \A k \in 1 .. Len(a) : b[k] = a[k]
    <3>1. 1 \in 1 .. Len(<< end >>)
      BY <1>7
    <3>2. QED
      BY <1>7, <1>8, <3>1, Joined
  <2> HIDE DEF b
  <2>2. QED
    BY <1>3, <1>8, <2>1
<1> HIDE DEF b
<1> DEFINE p == b \o rest
<1>10. /\ p \in Seq(M) /\ Len(p) = n + 3 + Len(rest) /\ p[1] = first /\ p[2] = begin
       /\ p[n + 3] = end /\ (told => p[n + 4] = last)
       /\ \A k \in 1 .. n : p[2 + k] = chunks[k]
  <2>1. /\ p \in Seq(M) /\ Len(p) = Len(b) + Len(rest)
        /\ \A k \in 1 .. Len(b) : p[k] = b[k]
        /\ \A k \in 1 .. Len(rest) : p[Len(b) + k] = rest[k]
    BY <1>5, <1>9, Joined
  <2> HIDE DEF p
  <2>2. told => p[Len(b) + 1] = last
    BY <1>5, <2>1
  <2>3. QED
    BY <1>3, <1>9, <2>1, <2>2
<1>11. Parcel(id, lease, told) = p
  BY <1>6 DEF a, b, p
<1> HIDE DEF p
<1>12. Len(rest) = IF told THEN 1 ELSE 0
  BY <1>5
<1>13. Len(p) = n + (IF told THEN 4 ELSE 3)
  BY <1>3, <1>10, <1>12
<1>14. \A k \in 1 .. n : p[2 + k] = Chunk(id, lease, k)
  BY <1>4, <1>10
<1>15. QED
  BY <1>3, <1>10, <1>11, <1>13, <1>14 DEF first, begin, end, last, n, M
-----------------------------------------------------------------------------
(***************************************************************************)
(* Type correctness, one lemma per action.                                 *)
(***************************************************************************)
LEMMA IdleTyped ==
    ASSUME Types, NEW c \in Conns, handler' = [handler EXCEPT ![c] = Idle], leases' \in Nat,
           leases <= leases'
    PROVE  HandlerOK'
BY DEF Types, HandlerOK, HandlerType, Within, Idle, DaemonOK

LEMMA DroppedTyped ==
    ASSUME Types, NEW cs, active' = Dropping(cs)
    PROVE  ActiveOK' /\ \A c \in Conns : active'[c] <=> active[c] /\ c \notin cs
BY DEF Types, ActiveOK, Dropping

LEMMA MessagesGrow ==
    ASSUME Types, leases' \in Nat, output' \in Nat, leases <= leases', output <= output'
    PROVE  /\ wire \in Seq(Messages') /\ Messages \subseteq Messages'
           /\ ClientOK /\ AttachOK /\ UNCHANGED << client, attach >> => ClientOK' /\ AttachOK'
<1>1. 0 .. leases \subseteq 0 .. leases' /\ 0 .. output \subseteq 0 .. output'
  BY DEF Types, DaemonOK, HistoryOK
<1>2. Messages \subseteq Messages'
  BY <1>1 DEF Messages
<1>3. wire \in Seq(Messages)
  BY DEF Types, WireOK
<1>4. \A k \in 1 .. Len(wire) : wire[k] \in Messages'
  BY <1>2, <1>3
<1>5. wire \in Seq(Messages')
  <2>1. wire = [k \in 1 .. Len(wire) |-> wire[k]] /\ Len(wire) \in Nat
    BY <1>3
  <2>2. QED
    BY <1>4, <2>1
<1>6. QED
  BY <1>1, <1>2, <1>5 DEF ClientOK, ClientType, AttachOK, AttachType

\* The daemon's part when nothing of it changes.
LEMMA ClientOnly ==
    ASSUME Types, UNCHANGED << output, start, owner, leases, scope, handler, partial >>
    PROVE  /\ HistoryOK' /\ DaemonOK' /\ HandlerOK' /\ ScopeOK'
           /\ Messages' = Messages
BY DEF Types, HistoryOK, DaemonOK, HandlerOK, HandlerType, Within, ScopeOK, Replied, Messages

LEMMA ToOwnerTyped ==
    ASSUME NEW S, wire \in Seq(S), NEW m \in S, NEW delivered \in BOOLEAN
    PROVE  ToOwner(delivered, m) \in Seq(S)
BY Appended DEF ToOwner

LEMMA PublishTyped ==
    ASSUME Types, NEW n \in 1 .. MaxRead, NEW delivered \in BOOLEAN, Publish(n, delivered)
    PROVE  Types' /\ output' = output + n
<1> USE AttachReplayAssumption
<1>1. /\ output \in Nat /\ output' \in 0 .. MaxOutput /\ output <= output' /\ output' = output + n
      /\ leases \in Nat /\ leases' = leases /\ n \in Nat
  BY DEF Types, HistoryOK, DaemonOK, Publish
<1>2. HistoryOK'
  BY <1>1 DEF Types, HistoryOK, Publish, HistoryStart
<1>3. DaemonOK' /\ HandlerOK' /\ InboxOK' /\ ScopeOK'
  BY DEF Types, DaemonOK, HandlerOK, HandlerType, Within, InboxOK, ScopeOK, Replied, Publish
<1>4. ActiveOK'
  BY DroppedTyped DEF Publish
<1>5. ClientOK' /\ AttachOK' /\ wire \in Seq(Messages')
  <2>1. UNCHANGED << client, attach >>
    BY DEF Publish
  <2>2. QED
    BY <1>1, <2>1, MessagesGrow DEF Types
<1>6. WireOK'
  <2>1. owner.lease \in 0 .. leases'
    BY <1>1 DEF Types, DaemonOK
  <2>2. LiveFrame(n) \in Messages'
    BY <1>1, <2>1 DEF LiveFrame, Message, Messages, Kinds
  <2>3. wire' = ToOwner(delivered, LiveFrame(n))
    BY DEF Publish
  <2>4. QED
    BY <1>5, <2>2, <2>3, ToOwnerTyped DEF WireOK
<1>7. QED
  BY <1>1, <1>2, <1>3, <1>4, <1>5, <1>6 DEF Types

LEMMA TakeoverTyped ==
    ASSUME Types, NEW delivered \in BOOLEAN, Takeover(delivered)
    PROVE  Types'
<1> USE AttachReplayAssumption
<1>1. /\ leases \in Nat /\ leases' = leases + 1 /\ leases' \in 0 .. LastLease
      /\ output' = output /\ output \in Nat /\ start' = start
  BY DEF Types, HistoryOK, DaemonOK, Takeover
<1>2. HistoryOK' /\ InboxOK'
  BY <1>1 DEF Types, HistoryOK, InboxOK, Takeover
<1>3. DaemonOK'
  BY <1>1 DEF Types, DaemonOK, Takeover
<1>4. HandlerOK' /\ ScopeOK'
  BY <1>1 DEF Types, HandlerOK, HandlerType, Within, ScopeOK, Replied, Takeover
<1>5. ActiveOK'
  BY DroppedTyped DEF Takeover
<1>6. ClientOK' /\ AttachOK' /\ wire \in Seq(Messages')
  <2>1. UNCHANGED << client, attach >>
    BY DEF Takeover
  <2>2. QED
    BY <1>1, <2>1, MessagesGrow DEF Types
<1>7. WireOK'
  <2>1. owner.lease \in 0 .. leases'
    BY <1>1 DEF Types, DaemonOK
  <2>2. TakenOver(owner.lease) \in Messages'
    BY <1>1, <2>1 DEF TakenOver, Message, Messages, Kinds
  <2>3. wire' = ToOwner(delivered, TakenOver(owner.lease))
    BY DEF Takeover
  <2>4. QED
    BY <1>6, <2>2, <2>3, ToOwnerTyped DEF WireOK
<1>8. QED
  BY <1>1, <1>2, <1>3, <1>4, <1>5, <1>6, <1>7 DEF Types

\* What begin_request makes of one Attach: it opens it, finds its lease, or
\* has nothing to do but perhaps to refuse it.
Opens(c, id) ==
    /\ scope.records[id].state = "absent" /\ scope'.records[id] = Fresh(id, c)
    /\ handler' = [handler EXCEPT ![c] = [op |-> "attach", id |-> id, lease |-> 0]]
    /\ wire' = wire

Finds(c, id) ==
    /\ scope.records[id].state = "done" /\ scope.records[id].response \in 1 .. leases
    /\ scope' = scope
    /\ handler' = [handler EXCEPT ![c] = [op |-> "reattach", id |-> id,
                                          lease |-> scope.records[id].response]]
    /\ wire' = wire

Passes(c, id) ==
    /\ handler' = handler
    /\ \/ wire' = wire
       \/ /\ c = client.conn /\ active[c] /\ scope' = scope
          /\ wire' = Append(wire, Result(id, Failed))

LEMMA BeginAttachDoes ==
    ASSUME Types, NEW c \in Conns, BeginAttach(c)
    PROVE  LET id == inbox[c][1]
           IN  /\ id \in Ids /\ inbox[c] # << >> /\ handler[c] = Idle
               /\ inbox' = [inbox EXCEPT ![c] = Tail(@)]
               /\ scope' \in ScopeType /\ Began(scope, scope', id, c)
               /\ Opens(c, id) \/ Finds(c, id) \/ Passes(c, id)
<1> DEFINE id == inbox[c][1]
           found == Disposition(scope, id, id)
           cached == scope.records[id].response
<1>1. inbox[c] \in Seq(Ids) /\ inbox[c] # << >>
  BY DEF Types, InboxOK, BeginAttach
<1>2. Head(inbox[c]) = id /\ id \in Ids
  BY <1>1, Taken
<1>3. scope \in ScopeType /\ scope' = BeginRequest(scope, id, id, c)
  BY <1>2 DEF Types, ScopeOK, BeginAttach
<1>4. /\ scope' \in ScopeType /\ Began(scope, scope', id, c)
      /\ found = "New" => scope.records[id].state = "absent" /\ scope'.records[id] = Fresh(id, c)
      /\ found \in {"Expired", "Cached"} => scope' = scope
  BY <1>2, <1>3, BeginChanges
<1>5. found = "Cached" => scope.records[id].state = "done" /\ cached \in 0 .. leases
  <2>1. found = "Cached" => scope.records[id].state = "done"
    BY <1>2, <1>3, DispositionMeans
  <2>2. QED
    BY <1>2, <2>1 DEF Types, ScopeOK, Replied
<1>6. /\ handler[c] = Idle /\ inbox' = [inbox EXCEPT ![c] = Tail(@)]
      /\ handler' = [handler EXCEPT ![c] =
                CASE found = "New" -> [op |-> "attach", id |-> id, lease |-> 0]
                  [] found = "Cached" /\ cached # Failed -> [op |-> "reattach", id |-> id, lease |-> cached]
                  [] OTHER -> Idle]
      /\ wire' \in IF found = "Expired" \/ (found = "Cached" /\ cached = Failed)
                   THEN Attempted(c, Result(id, Failed)) ELSE {wire}
  BY <1>2 DEF BeginAttach
<1> HIDE DEF id, found, cached
<1>7. Opens(c, id) \/ Finds(c, id) \/ Passes(c, id)
  <2>1. CASE found = "New"
    BY <1>4, <1>6, <2>1 DEF Opens
  <2>2. CASE found = "Cached" /\ cached # Failed
    <3>1. found # "New" /\ found # "Expired" /\ cached \in 1 .. leases
      BY <1>5, <2>2 DEF Failed, Types, DaemonOK
    <3>2. QED
      BY <1>4, <1>5, <1>6, <2>2, <3>1 DEF Finds, cached
  <2>3. CASE found # "New" /\ ~ (found = "Cached" /\ cached # Failed)
    <3>1. handler' = [handler EXCEPT ![c] = Idle]
      BY <1>6, <2>3
    <3>2. handler' = handler
      BY <1>6, <3>1 DEF Types, HandlerOK
    <3>3. CASE found = "Expired" \/ (found = "Cached" /\ cached = Failed)
      <4>1. wire' \in Attempted(c, Result(id, Failed)) /\ scope' = scope
        BY <1>4, <1>6, <3>3
      <4>2. QED
        BY <3>2, <4>1 DEF Attempted, Passes
    <3>4. CASE ~ (found = "Expired" \/ (found = "Cached" /\ cached = Failed))
      BY <1>6, <3>2, <3>4 DEF Passes
    <3>5. QED
      BY <3>3, <3>4
  <2>4. QED
    BY <2>1, <2>2, <2>3
<1>8. QED
  BY <1>1, <1>2, <1>4, <1>6, <1>7 DEF id

LEMMA BeginAttachTyped ==
    ASSUME Types, NEW c \in Conns, BeginAttach(c)
    PROVE  Types'
<1> DEFINE id == inbox[c][1]
<1>1. /\ id \in Ids /\ inbox[c] # << >> /\ handler[c] = Idle
      /\ inbox' = [inbox EXCEPT ![c] = Tail(@)]
      /\ scope' \in ScopeType /\ Began(scope, scope', id, c)
      /\ Opens(c, id) \/ Finds(c, id) \/ Passes(c, id)
  BY BeginAttachDoes
<1> HIDE DEF id
<1>2. UNCHANGED << output, start, owner, leases, active, client, attach, screen, partial >>
  BY DEF BeginAttach
<1>3. HistoryOK' /\ DaemonOK' /\ ActiveOK' /\ ClientOK' /\ AttachOK' /\ Messages' = Messages
  BY <1>2 DEF Types, HistoryOK, DaemonOK, ActiveOK, ClientOK, ClientType, AttachOK, AttachType, Messages
<1>4. InboxOK'
  <2>1. inbox[c] \in Seq(Ids)
    BY DEF Types, InboxOK
  <2>2. Tail(inbox[c]) \in Seq(Ids)
    BY <1>1, <2>1, Taken
  <2>3. QED
    BY <1>1, <2>2 DEF Types, InboxOK
<1>5. ScopeOK'
  <2>1. ASSUME NEW j \in Ids
        PROVE  /\ scope'.records[j].state = "done" => scope'.records[j].response # None
               /\ scope'.records[j].response \in 0 .. leases' \cup {None}
    <3>1. /\ scope.records[j].state = "done" => scope.records[j].response # None
          /\ scope.records[j].response \in 0 .. leases \cup {None}
      BY DEF Types, ScopeOK, Replied
    <3>2. QED
      BY <1>1, <1>2, <3>1 DEF Began, Fresh
  <2>2. QED
    BY <1>1, <2>1 DEF ScopeOK, Replied
<1>6. HandlerOK'
  <2>1. 0 \in 0 .. leases
    BY DEF Types, DaemonOK
  <2>2. CASE Opens(c, id)
    BY <1>1, <1>2, <2>1, <2>2 DEF Opens, Types, HandlerOK, HandlerType, Within
  <2>3. CASE Finds(c, id)
    BY <1>1, <1>2, <2>1, <2>3 DEF Finds, Types, HandlerOK, HandlerType, Within
  <2>4. CASE Passes(c, id)
    BY <1>2, <2>4 DEF Passes, Types, HandlerOK, HandlerType, Within
  <2>5. QED
    BY <1>1, <2>2, <2>3, <2>4
<1>7. WireOK'
  <2>1. wire \in Seq(Messages)
    BY DEF Types, WireOK
  <2>2. Result(id, Failed) \in Messages
    BY <1>1 DEF Result, Message, Messages, Kinds, Failed, Types, DaemonOK, HistoryOK
  <2>3. wire' = wire \/ wire' = Append(wire, Result(id, Failed))
    BY <1>1 DEF Opens, Finds, Passes
  <2>4. QED
    BY <1>3, <2>1, <2>2, <2>3, Appended DEF WireOK
<1>8. QED
  BY <1>3, <1>4, <1>5, <1>6, <1>7 DEF Types

Waits(c, id) == c \in WaitingOn(scope.records[id])

\* What fits the queue of a transaction, and what is noted if it was not all.
Dispatched(sent, id, lease, told) ==
    \E n \in 0 .. Len(Parcel(id, lease, told)) :
       /\ sent = SubSeq(Parcel(id, lease, told), 1, n)
       /\ partial' = IF n < Len(Parcel(id, lease, told)) THEN partial \cup {lease} ELSE partial

LEMMA DispatchTyped ==
    ASSUME HistoryOK, NEW id \in Ids, NEW l \in Nat, NEW lease \in 0 .. l, NEW told \in BOOLEAN, NEW sent,
           Dispatched(sent, id, lease, told)
    PROVE  sent \in Seq(MessagesOf(l)) /\ partial' \subseteq partial \cup {lease} /\ partial \subseteq partial'
<1> DEFINE p == Parcel(id, lease, told)
<1>1. p \in Seq(MessagesOf(l))
  BY ParcelParts
<1> HIDE DEF p
<1>2. PICK n \in 0 .. Len(p) : /\ sent = SubSeq(p, 1, n)
                               /\ partial' = IF n < Len(p) THEN partial \cup {lease} ELSE partial
  BY DEF Dispatched, p
<1>3. QED
  BY <1>1, <1>2, Prefix

LEMMA NothingToldAbout ==
    ASSUME HistoryOK, NEW id \in Ids, NEW l \in Nat, NEW lease \in 0 .. l
    PROVE  Parcel(id, lease, FALSE) = Transaction(id, lease)
<1> DEFINE M == MessagesOf(l)
           n == ChunkCount
           t == Transaction(id, lease)
           first == Result(id, lease)
           begin == Message("begin", id, lease, start, output)
           end == Message("end", id, lease, output, output)
           chunks == ReplayChunks(id, lease)
<1>1. output \in Nat /\ start \in 0 .. output /\ output \in 0 .. output /\ 0 \in 0 .. output
  BY AttachReplayAssumption DEF HistoryOK
<1>2. first \in M /\ begin \in M /\ end \in M
  BY <1>1, MessageTyped DEF Result, Kinds
<1>3. n \in Nat
  <2>1. output - start \in Nat /\ ChunkBytes \in Nat /\ ChunkBytes # 0
    BY <1>1, AttachReplayAssumption
  <2>2. QED
    BY <2>1, Rounding DEF ChunkCount
<1>4. chunks \in Seq(M)
  <2>1. chunks = [k \in 1 .. n |-> Chunk(id, lease, k)]
    BY DEF ReplayChunks, Chunk, ChunkCount
  <2>2. \A k \in 1 .. n : Chunk(id, lease, k) \in M
    BY ChunkTyped
  <2> HIDE DEF n, M, chunks
  <2>3. QED
    BY <1>3, <2>1, <2>2
<1>5. t = (<< first, begin >> \o chunks) \o << end >>
  BY DEF Transaction
<1> HIDE DEF M, first, begin, end, chunks
<1>6. << first, begin >> \in Seq(M) /\ << end >> \in Seq(M)
  BY <1>2
<1>7. << first, begin >> \o chunks \in Seq(M)
  BY <1>4, <1>6
<1>8. t \in Seq(M)
  BY <1>5, <1>6, <1>7
<1>9. Parcel(id, lease, FALSE) = t \o << >>
  BY DEF Parcel
<1> HIDE DEF t
<1>10. t \o << >> = t
  BY <1>8
<1>11. QED
  BY <1>9, <1>10 DEF t

\* commit_attach of a request that was opened.
Commits(c, notified, selected, sent) ==
    LET id == handler[c].id
    IN  /\ handler[c].op = "attach" /\ id \in Ids
        /\ leases < LastLease /\ leases' = leases + 1
        /\ Reaches(notified)
        /\ owner' = [lease |-> leases + 1, conn |-> selected]
        /\ selected = c \/ Waits(selected, id)
        /\ scope' \in ScopeType /\ Finished(scope, scope', id, leases + 1)
        /\ handler' = [handler EXCEPT ![c] = Idle]
        /\ active' = Dropping(Cut(notified))
        /\ wire' = ToOwner(notified, TakenOver(owner.lease)) \o sent
        /\ \/ /\ sent = << >> /\ partial' = partial
              /\ ~ ((client.conn = c \/ Waits(client.conn, id)) /\ active'[client.conn])
           \/ ~ Waits(client.conn, id) /\ client.conn = c /\ sent = << >> /\ partial' = partial
              /\ selected # c
           \/ /\ client.conn = c \/ Waits(client.conn, id)
              /\ client.conn \in Conns /\ active'[client.conn]
              /\ Dispatched(sent, id, leases + 1, client.conn # selected)

LEMMA CommitNewDoes ==
    ASSUME Types, NEW c \in Conns, NEW notified \in BOOLEAN, CommitNew(c, notified)
    PROVE  \E selected \in Conns, sent \in Seq(MessagesOf(leases + 1)) :
              Commits(c, notified, selected, sent)
<1> DEFINE id == handler[c].id
           l == leases + 1
           listed == scope.records[id].waiters
           all == Waiting(c)
           selected == all[Len(all)]
           mine == client.conn \in {all[k] : k \in 1 .. Len(all)} /\ active'[client.conn]
           told == client.conn # selected
           parcel == IF mine THEN Parcel(id, l, told) ELSE << >>
<1>1. /\ handler[c].op = "attach" /\ leases < LastLease /\ leases' = l /\ Reaches(notified)
      /\ owner' = [lease |-> l, conn |-> selected]
      /\ scope' = CompleteRequest(scope, id, l)
      /\ handler' = [handler EXCEPT ![c] = Idle]
      /\ active' = Dropping(Cut(notified))
  BY DEF CommitNew
<1>2. id \in Ids /\ leases \in Nat /\ l \in Nat /\ HistoryOK
  BY <1>1 DEF Types, HandlerOK, Within, DaemonOK
<1>3. scope' \in ScopeType /\ Finished(scope, scope', id, l)
  BY <1>1, <1>2, CompleteChanges DEF Types, ScopeOK
<1>4. listed \in Seq(Conns) /\ WaitingOn(scope.records[id]) = {listed[k] : k \in 1 .. Len(listed)}
  BY <1>2 DEF Types, ScopeOK, ScopeType, RecordType, WaitingOn
<1>5. all = IF listed = << >> THEN << c >> ELSE listed
  BY DEF Waiting, WaitersOf
<1> HIDE DEF all, listed
<1>6. /\ all \in Seq(Conns) /\ Len(all) \in Nat \ {0}
      /\ \A k \in 1 .. Len(all) : all[k] = c \/ Waits(all[k], id)
  <2>1. CASE listed = << >>
    <3>1. all = << c >> /\ Len(<< c >>) = 1 /\ << c >>[1] = c /\ << c >> \in Seq(Conns)
      BY <1>5, <2>1
    <3>2. QED
      BY <3>1
  <2>2. CASE listed # << >>
    BY <1>4, <1>5, <2>2 DEF Waits
  <2>3. QED
    BY <2>1, <2>2
<1>7. selected \in Conns /\ (selected = c \/ Waits(selected, id))
  BY <1>6
<1>8. \/ client.conn \in {all[k] : k \in 1 .. Len(all)}
      \/ ~ Waits(client.conn, id) /\ client.conn # c
      \/ ~ Waits(client.conn, id) /\ client.conn = c /\ selected # c
  <2>1. CASE listed = << >>
    <3>1. all = << c >> /\ Len(all) = 1 /\ all[1] = c /\ ~ Waits(client.conn, id)
      BY <1>4, <1>5, <2>1 DEF Waits
    <3>2. QED
      BY <3>1
  <2>2. CASE listed # << >>
    <3>1. all = listed
      BY <1>5, <2>2
    <3>2. CASE Waits(client.conn, id)
      BY <1>4, <3>1, <3>2 DEF Waits
    <3>3. CASE ~ Waits(client.conn, id)
      <4>1. \A k \in 1 .. Len(all) : all[k] # client.conn
        BY <1>4, <3>1, <3>3 DEF Waits
      <4>2. selected # client.conn
        BY <1>6, <4>1
      <4>3. QED
        BY <3>3, <4>2
    <3>4. QED
      BY <3>2, <3>3
  <2>3. QED
    BY <2>1, <2>2
<1>9. PICK n \in 0 .. Len(parcel) :
          /\ wire' = ToOwner(notified, TakenOver(owner.lease)) \o SubSeq(parcel, 1, n)
          /\ partial' = IF n < Len(parcel) THEN partial \cup {l} ELSE partial
  <2>1. active' = Dropping(Cut(notified))
    BY <1>1
  <2>2. parcel = IF ~ (client.conn \in {all[k] : k \in 1 .. Len(all)} /\ Dropping(Cut(notified))[client.conn])
                 THEN << >>
                 ELSE Transaction(id, l) \o (IF client.conn = selected THEN << >> ELSE << TakenOver(l) >>)
    BY <2>1 DEF Parcel
  <2> HIDE DEF parcel, mine, told
  <2>3. QED
    BY <2>2 DEF CommitNew, all
<1> DEFINE sent == SubSeq(parcel, 1, n)
<1>10. CASE mine
  <2>1. Dispatched(sent, id, l, told)
    BY <1>9, <1>10 DEF Dispatched
  <2>2. sent \in Seq(MessagesOf(l))
    <3>1. l \in 0 .. l /\ told \in BOOLEAN
      BY <1>2
    <3> HIDE DEF sent, told, l, id
    <3>2. QED
      BY <1>2, <2>1, <3>1, DispatchTyped
  <2>3. client.conn \in Conns /\ active'[client.conn] /\ (client.conn = c \/ Waits(client.conn, id))
    BY <1>6, <1>10
  <2> HIDE DEF sent, parcel, mine
  <2>4. Commits(c, notified, selected, sent)
    <3>1. wire' = ToOwner(notified, TakenOver(owner.lease)) \o sent
      BY <1>9 DEF sent
    <3>2. QED
      BY <1>1, <1>2, <1>3, <1>7, <2>1, <2>3, <3>1 DEF Commits
  <2>5. QED
    BY <1>7, <2>2, <2>4
<1>11. CASE ~ mine
  <2>1. parcel = << >> /\ n = 0
    BY <1>9, <1>11
  <2>2. << >> \in Seq(MessagesOf(l)) /\ SubSeq(parcel, 1, n) = << >> /\ partial' = partial
    BY <1>9, <2>1
  <2>3. wire' = ToOwner(notified, TakenOver(owner.lease)) \o << >>
    BY <1>9, <2>2
  <2>4. \/ ~ ((client.conn = c \/ Waits(client.conn, id)) /\ active'[client.conn])
        \/ ~ Waits(client.conn, id) /\ client.conn = c /\ selected # c
    BY <1>8, <1>11
  <2> HIDE DEF parcel, mine, sent
  <2>5. Commits(c, notified, selected, << >>)
    BY <1>1, <1>2, <1>3, <1>7, <2>2, <2>3, <2>4 DEF Commits
  <2>6. QED
    BY <1>7, <2>2, <2>5
<1>12. QED
  BY <1>10, <1>11

LEMMA CommitNewTyped ==
    ASSUME Types, NEW c \in Conns, NEW notified \in BOOLEAN, CommitNew(c, notified)
    PROVE  Types'
<1> DEFINE id == handler[c].id
           l == leases + 1
<1>1. UNCHANGED << output, start, inbox, client, attach, screen >>
  BY DEF CommitNew
<1>2. PICK selected \in Conns, sent \in Seq(MessagesOf(l)) : Commits(c, notified, selected, sent)
  BY CommitNewDoes
<1>3. /\ id \in Ids /\ leases \in Nat /\ leases' = l /\ l \in 0 .. LastLease
      /\ owner' = [lease |-> l, conn |-> selected]
      /\ scope' \in ScopeType /\ Finished(scope, scope', id, l)
      /\ handler' = [handler EXCEPT ![c] = Idle]
      /\ active' = Dropping(Cut(notified))
      /\ wire' = ToOwner(notified, TakenOver(owner.lease)) \o sent
  BY <1>2, AttachReplayAssumption DEF Commits, Types, DaemonOK
<1>4. partial' \subseteq partial \cup {l}
  <2>1. CASE partial' = partial
    BY <2>1
  <2>2. CASE Dispatched(sent, id, l, client.conn # selected)
    <3>1. l \in Nat /\ l \in 0 .. l /\ (client.conn # selected) \in BOOLEAN
      BY <1>3
    <3> HIDE DEF id, l
    <3>2. QED
      BY <1>3, <2>2, <3>1, DispatchTyped DEF Types
  <2>3. QED
    BY <1>2, <2>1, <2>2 DEF Commits
<1>5. DaemonOK'
  BY <1>3, <1>4 DEF Types, DaemonOK, Conns
<1>6. HistoryOK' /\ InboxOK' /\ HandlerOK' /\ ActiveOK'
  <2>1. HistoryOK' /\ InboxOK'
    BY <1>1 DEF Types, HistoryOK, InboxOK
  <2>2. leases' \in Nat /\ leases <= leases'
    BY <1>3
  <2>3. HandlerOK'
    BY <1>3, <2>2, IdleTyped
  <2>4. ActiveOK'
    BY <1>3, DroppedTyped
  <2>5. QED
    BY <2>1, <2>3, <2>4
<1>7. ClientOK' /\ AttachOK' /\ wire \in Seq(Messages') /\ Messages' = MessagesOf(l)
  <2>1. output' \in Nat /\ output <= output'
    BY <1>1 DEF Types, HistoryOK
  <2>2. ClientOK' /\ AttachOK' /\ wire \in Seq(Messages')
    BY <1>1, <1>3, <2>1, MessagesGrow DEF Types
  <2>3. QED
    BY <1>1, <1>3, <2>2 DEF Messages, MessagesOf
<1>8. ScopeOK'
  <2>1. ASSUME NEW j \in Ids
        PROVE  /\ scope'.records[j].state = "done" => scope'.records[j].response # None
               /\ scope'.records[j].response \in 0 .. leases' \cup {None}
    <3>1. /\ scope.records[j].state = "done" => scope.records[j].response # None
          /\ scope.records[j].response \in 0 .. leases \cup {None}
      BY DEF Types, ScopeOK, Replied
    <3>2. None \notin Nat
      BY ConstantsTyped
    <3>3. /\ \/ scope'.records[j] = scope.records[j]
             \/ scope'.records[j] = Absent
             \/ scope'.records[j] = Answer(scope.records[j], l)
      BY <1>3 DEF Finished
    <3>4. leases \in Nat /\ leases' \in Nat /\ leases <= leases' /\ l = leases'
      BY <1>3
    <3> HIDE DEF l
    <3>5. QED
      BY <3>1, <3>2, <3>3, <3>4 DEF Answer, Absent
  <2>2. QED
    BY <1>3, <2>1 DEF ScopeOK, Replied
<1>9. WireOK'
  <2>1. owner.lease \in 0 .. l /\ output \in Nat
    BY <1>3 DEF Types, DaemonOK, HistoryOK
  <2>2. TakenOver(owner.lease) \in MessagesOf(l)
    BY <2>1 DEF TakenOver, Message, MessagesOf, Kinds
  <2>3. ToOwner(notified, TakenOver(owner.lease)) \in Seq(Messages')
    BY <1>7, <2>2, ToOwnerTyped
  <2> HIDE DEF l
  <2>4. QED
    BY <1>3, <1>7, <2>3, Joined DEF WireOK
<1>10. QED
  BY <1>5, <1>6, <1>7, <1>8, <1>9 DEF Types

LEMMA CommitFailedTyped ==
    ASSUME Types, NEW c \in Conns, NEW refused \in SUBSET Conns, CommitFailed(c, refused)
    PROVE  /\ Types'
           /\ handler[c].id \in Ids
           /\ Finished(scope, scope', handler[c].id, Failed)
           /\ \A d \in Conns : active'[d] => active[d]
           /\ \/ wire' = wire
              \/ /\ Waits(client.conn, handler[c].id) /\ active[client.conn]
                 /\ wire' = Append(wire, Result(handler[c].id, Failed))
<1> DEFINE id == handler[c].id
<1>1. UNCHANGED << output, start, owner, leases, inbox, client, attach, screen, partial >>
  BY DEF CommitFailed
<1>2. /\ handler[c].op = "attach" /\ scope' = CompleteRequest(scope, id, Failed)
      /\ handler' = [handler EXCEPT ![c] = Idle] /\ active' = Dropping(refused)
      /\ \/ wire' = wire
         \/ /\ Waits(client.conn, id) /\ active[client.conn]
            /\ wire' = Append(wire, Result(id, Failed))
  BY DEF CommitFailed, Waits
<1>3. id \in Ids /\ leases \in Nat
  BY <1>2 DEF Types, HandlerOK, Within, DaemonOK
<1>4. scope' \in ScopeType /\ Finished(scope, scope', id, Failed)
  BY <1>2, <1>3, CompleteChanges DEF Types, ScopeOK, Failed
<1>5. HistoryOK' /\ DaemonOK' /\ ClientOK' /\ AttachOK' /\ InboxOK' /\ Messages' = Messages
  BY <1>1 DEF Types, HistoryOK, DaemonOK, ClientOK, ClientType, AttachOK, AttachType, InboxOK, Messages
<1>6. HandlerOK' /\ ActiveOK' /\ \A d \in Conns : active'[d] => active[d]
  <2>1. leases' \in Nat /\ leases <= leases'
    BY <1>1, <1>3
  <2>2. HandlerOK'
    BY <1>2, <2>1, IdleTyped
  <2>3. ActiveOK' /\ \A d \in Conns : active'[d] => active[d]
    BY <1>2, DroppedTyped
  <2>4. QED
    BY <2>2, <2>3
<1>7. ScopeOK'
  <2>1. ASSUME NEW j \in Ids
        PROVE  /\ scope'.records[j].state = "done" => scope'.records[j].response # None
               /\ scope'.records[j].response \in 0 .. leases' \cup {None}
    <3>1. /\ scope.records[j].state = "done" => scope.records[j].response # None
          /\ scope.records[j].response \in 0 .. leases \cup {None}
      BY DEF Types, ScopeOK, Replied
    <3>2. None \notin Nat
      BY ConstantsTyped
    <3>3. /\ \/ scope'.records[j] = scope.records[j]
             \/ scope'.records[j] = Absent
             \/ scope'.records[j] = Answer(scope.records[j], 0)
      BY <1>4 DEF Finished, Failed
    <3>4. leases' = leases /\ leases \in Nat
      BY <1>1, <1>3
    <3>5. QED
      BY <3>1, <3>2, <3>3, <3>4 DEF Answer, Absent
  <2>2. QED
    BY <1>4, <2>1 DEF ScopeOK, Replied
<1>8. WireOK'
  <2>1. Result(id, Failed) \in Messages
    BY <1>3 DEF Result, Message, Messages, Kinds, Failed, Types, HistoryOK
  <2>2. QED
    BY <1>2, <1>5, <2>1, Appended DEF Types, WireOK
<1>9. QED
  BY <1>2, <1>3, <1>4, <1>5, <1>6, <1>7, <1>8 DEF Types

\* commit_attach of an exact retry.
Rebound(c, notified, sent) ==
    LET id == handler[c].id
    IN  /\ handler[c].op = "reattach" /\ id \in Ids /\ handler[c].lease \in 1 .. leases
        /\ owner.lease = handler[c].lease /\ active[c]
        /\ (notified => owner.conn # c) /\ Reaches(notified)
        /\ owner' = [lease |-> handler[c].lease, conn |-> c]
        /\ handler' = [handler EXCEPT ![c] = Idle]
        /\ \A d \in Conns : active'[d] => active[d]
        /\ ActiveOK'
        /\ wire' = ToOwner(notified, TakenOver(handler[c].lease)) \o sent
        /\ \/ c # client.conn /\ sent = << >> /\ partial' = partial
           \/ c = client.conn /\ Dispatched(sent, id, handler[c].lease, FALSE)

LEMMA CommitRebindDoes ==
    ASSUME Types, NEW c \in Conns, NEW notified \in BOOLEAN, CommitRebind(c, notified)
    PROVE  \E sent \in Seq(Messages) : Rebound(c, notified, sent)
<1> DEFINE id == handler[c].id
           lease == handler[c].lease
           parcel == IF c = client.conn THEN Parcel(id, lease, FALSE) ELSE << >>
<1>1. /\ handler[c].op = "reattach" /\ owner.lease = lease /\ active[c]
      /\ (notified => owner.conn # c) /\ Reaches(notified)
      /\ owner' = [owner EXCEPT !.conn = c]
      /\ handler' = [handler EXCEPT ![c] = Idle]
      /\ active' = Dropping(Cut(notified)) \/ active' = active
  BY DEF CommitRebind
<1>2. id \in Ids /\ lease \in 1 .. leases /\ leases \in Nat /\ lease \in 0 .. leases /\ HistoryOK
  BY <1>1 DEF Types, HandlerOK, Within, DaemonOK
<1>3. owner' = [lease |-> lease, conn |-> c]
  BY <1>1 DEF Types, DaemonOK
<1>4. ActiveOK' /\ \A d \in Conns : active'[d] => active[d]
  <2>1. CASE active' = active
    BY <2>1 DEF Types, ActiveOK
  <2>2. CASE active' = Dropping(Cut(notified))
    BY <2>2, DroppedTyped
  <2>3. QED
    BY <1>1, <2>1, <2>2
<1>5. Parcel(id, lease, FALSE) = Transaction(id, lease)
  <2> HIDE DEF id, lease
  <2>1. QED
    BY <1>2, NothingToldAbout
<1>6. PICK n \in 0 .. Len(parcel) :
          /\ wire' = ToOwner(notified, TakenOver(lease)) \o SubSeq(parcel, 1, n)
          /\ partial' = IF n < Len(parcel) THEN partial \cup {lease} ELSE partial
  BY <1>5 DEF CommitRebind
<1> DEFINE sent == SubSeq(parcel, 1, n)
<1>7. CASE c = client.conn
  <2>1. parcel = Parcel(id, lease, FALSE)
    BY <1>7
  <2> HIDE DEF parcel
  <2>2. Dispatched(sent, id, lease, FALSE)
    BY <1>6, <2>1 DEF Dispatched
  <2>3. sent \in Seq(Messages)
    <3> HIDE DEF sent, id, lease
    <3>1. sent \in Seq(MessagesOf(leases))
      BY <1>2, <2>2, DispatchTyped
    <3>2. QED
      BY <3>1 DEF Messages, MessagesOf
  <2>4. wire' = ToOwner(notified, TakenOver(lease)) \o sent
    BY <1>6
  <2> HIDE DEF sent
  <2>5. QED
    BY <1>1, <1>2, <1>3, <1>4, <1>7, <2>2, <2>3, <2>4 DEF Rebound
<1>8. CASE c # client.conn
  <2>1. parcel = << >> /\ n = 0
    BY <1>6, <1>8
  <2>2. SubSeq(parcel, 1, n) = << >> /\ partial' = partial
    <3>1. SubSeq(<< >>, 1, 0) = << >> /\ Len(<< >>) = 0
      OBVIOUS
    <3> HIDE DEF parcel
    <3>2. QED
      BY <1>6, <2>1, <3>1
  <2>3. wire' = ToOwner(notified, TakenOver(lease)) \o << >>
    BY <1>6, <2>2
  <2>4. << >> \in Seq(Messages)
    OBVIOUS
  <2>5. Rebound(c, notified, << >>)
    BY <1>1, <1>2, <1>3, <1>4, <1>8, <2>2, <2>3 DEF Rebound
  <2>6. QED
    BY <2>4, <2>5
<1>9. QED
  BY <1>7, <1>8

LEMMA CommitRebindTyped ==
    ASSUME Types, NEW c \in Conns, NEW notified \in BOOLEAN, CommitRebind(c, notified)
    PROVE  Types'
<1> DEFINE id == handler[c].id
           lease == handler[c].lease
<1>1. UNCHANGED << output, start, leases, scope, inbox, client, attach, screen >>
  BY DEF CommitRebind
<1>2. PICK sent \in Seq(Messages) : Rebound(c, notified, sent)
  BY CommitRebindDoes
<1>3. /\ id \in Ids /\ lease \in 1 .. leases /\ leases \in Nat /\ lease \in 0 .. leases
      /\ owner' = [lease |-> lease, conn |-> c]
      /\ handler' = [handler EXCEPT ![c] = Idle] /\ ActiveOK'
      /\ wire' = ToOwner(notified, TakenOver(lease)) \o sent
  BY <1>2 DEF Rebound, Types, DaemonOK
<1>4. partial' \subseteq partial \cup {lease}
  <2>1. CASE partial' = partial
    BY <2>1
  <2>2. CASE Dispatched(sent, id, lease, FALSE)
    <3> HIDE DEF id, lease
    <3>1. QED
      BY <1>3, <2>2, DispatchTyped DEF Types
  <2>3. QED
    BY <1>2, <2>1, <2>2 DEF Rebound
<1>5. DaemonOK'
  BY <1>1, <1>3, <1>4 DEF Types, DaemonOK, Conns
<1>6. HistoryOK' /\ InboxOK' /\ HandlerOK' /\ ScopeOK'
  <2>1. HistoryOK' /\ InboxOK' /\ ScopeOK'
    BY <1>1 DEF Types, HistoryOK, InboxOK, ScopeOK, Replied
  <2>2. leases' \in Nat /\ leases <= leases'
    BY <1>1, <1>3
  <2>3. HandlerOK'
    BY <1>3, <2>2, IdleTyped
  <2>4. QED
    BY <2>1, <2>3
<1>7. ClientOK' /\ AttachOK' /\ Messages' = Messages
  BY <1>1 DEF Types, ClientOK, ClientType, AttachOK, AttachType, Messages
<1>8. WireOK'
  <2>1. TakenOver(lease) \in Messages
    BY <1>3 DEF TakenOver, Message, Messages, Kinds, Types, HistoryOK
  <2>2. ToOwner(notified, TakenOver(lease)) \in Seq(Messages)
    BY <2>1, ToOwnerTyped DEF Types, WireOK
  <2>3. QED
    BY <1>3, <1>7, <2>2, Joined DEF WireOK
<1>9. QED
  BY <1>3, <1>5, <1>6, <1>7, <1>8 DEF Types

LEMMA CommitSupersededTyped ==
    ASSUME Types, NEW c \in Conns, CommitSuperseded(c)
    PROVE  /\ Types'
           /\ handler[c].op = "reattach" /\ handler[c].id \in Ids
           /\ handler' = [handler EXCEPT ![c] = Idle]
           /\ \/ wire' = wire
              \/ c = client.conn /\ active[c] /\ wire' = Append(wire, Result(handler[c].id, Failed))
<1> DEFINE id == handler[c].id
<1>1. UNCHANGED << output, start, owner, leases, scope, inbox, active, client, attach, screen, partial >>
  BY DEF CommitSuperseded, terminal
<1>2. /\ handler[c].op = "reattach" /\ handler' = [handler EXCEPT ![c] = Idle]
      /\ \/ wire' = wire
         \/ c = client.conn /\ active[c] /\ wire' = Append(wire, Result(id, Failed))
  BY DEF CommitSuperseded, Attempted
<1>3. id \in Ids /\ leases \in Nat
  BY <1>2 DEF Types, HandlerOK, Within, DaemonOK
<1>4. /\ HistoryOK' /\ DaemonOK' /\ ClientOK' /\ AttachOK' /\ InboxOK' /\ ActiveOK' /\ ScopeOK'
      /\ Messages' = Messages
  BY <1>1 DEF Types, HistoryOK, DaemonOK, ClientOK, ClientType, AttachOK, AttachType, InboxOK, ActiveOK,
              ScopeOK, Replied, Messages
<1>5. HandlerOK'
  <2>1. leases' \in Nat /\ leases <= leases'
    BY <1>1, <1>3
  <2>2. QED
    BY <1>2, <2>1, IdleTyped
<1>6. WireOK'
  <2>1. Result(id, Failed) \in Messages
    BY <1>3 DEF Result, Message, Messages, Kinds, Failed, Types, HistoryOK
  <2>2. QED
    BY <1>2, <1>4, <2>1, Appended DEF Types, WireOK
<1>7. QED
  BY <1>2, <1>3, <1>4, <1>5, <1>6 DEF Types

\* Either thread of a connection ends: the connection is dropped and waits no
\* longer.
LEMMA EndsTyped ==
    ASSUME Types, NEW c \in Conns, WriterEnds(c) \/ ReaderEnds(c)
    PROVE  /\ Types' /\ Quit(scope, scope')
           /\ \A d \in Conns : active'[d] <=> active[d] /\ d # c
           /\ UNCHANGED << output, start, owner, leases, handler, wire, client, attach, screen, partial >>
           /\ inbox' = inbox \/ inbox' = [inbox EXCEPT ![c] = << >>]
<1>1. /\ UNCHANGED << output, start, owner, leases, handler, wire, client, attach, screen, partial >>
      /\ active' = Dropping({c}) /\ scope' = RemoveClient(scope, c)
      /\ inbox' = inbox \/ inbox' = [inbox EXCEPT ![c] = << >>]
  BY DEF WriterEnds, ReaderEnds, terminal
<1>2. scope' \in ScopeType /\ Quit(scope, scope')
  BY <1>1, RemoveClientChanges DEF Types, ScopeOK
<1>3. /\ HistoryOK' /\ DaemonOK' /\ HandlerOK' /\ ClientOK' /\ AttachOK' /\ InboxOK' /\ WireOK'
  <2>1. HistoryOK' /\ DaemonOK' /\ HandlerOK'
    BY <1>1 DEF Types, HistoryOK, DaemonOK, HandlerOK, HandlerType, Within
  <2>2. ClientOK' /\ AttachOK' /\ WireOK'
    BY <1>1 DEF Types, ClientOK, ClientType, AttachOK, AttachType, WireOK, Messages
  <2>3. << >> \in Seq(Ids)
    OBVIOUS
  <2>4. InboxOK'
    BY <1>1, <2>3 DEF Types, InboxOK
  <2>5. QED
    BY <2>1, <2>2, <2>4
<1>4. ScopeOK'
  BY <1>1, <1>2 DEF Types, ScopeOK, Replied, Quit
<1>5. ActiveOK' /\ \A d \in Conns : active'[d] <=> active[d] /\ d # c
  BY <1>1, DroppedTyped
<1>6. QED
  BY <1>1, <1>2, <1>3, <1>4, <1>5 DEF Types

\* The client takes one message.
LEMMA ReceivesDoes ==
    ASSUME Types, Receives
    PROVE  /\ wire # << >> /\ Head(wire) = wire[1] /\ wire[1] \in Messages
           /\ Len(wire) \in Nat \ {0} /\ Len(wire') = Len(wire) - 1
           /\ \A k \in 1 .. Len(wire) - 1 : wire'[k] = wire[k + 1]
           /\ UNCHANGED << output, start, owner, leases, scope, handler, inbox, active, partial >>
           /\ HistoryOK' /\ DaemonOK' /\ HandlerOK' /\ ScopeOK' /\ InboxOK' /\ ActiveOK' /\ WireOK'
           /\ leases \in Nat /\ output \in Nat
<1>1. /\ wire # << >> /\ wire' = Tail(wire)
      /\ UNCHANGED << output, start, owner, leases, scope, handler, inbox, active, partial >>
  BY DEF Receives, daemon
<1>2. HistoryOK' /\ DaemonOK' /\ HandlerOK' /\ ScopeOK' /\ Messages' = Messages
  BY <1>1, ClientOnly
<1>3. InboxOK' /\ ActiveOK' /\ leases \in Nat /\ output \in Nat
  BY <1>1 DEF Types, InboxOK, ActiveOK, DaemonOK, HistoryOK
<1>4. wire \in Seq(Messages)
  BY DEF Types, WireOK
<1>5. /\ Head(wire) = wire[1] /\ wire[1] \in Messages /\ Len(wire) \in Nat \ {0}
      /\ wire' \in Seq(Messages) /\ Len(wire') = Len(wire) - 1
      /\ \A k \in 1 .. Len(wire) - 1 : wire'[k] = wire[k + 1]
  BY <1>1, <1>4, Taken
<1>6. WireOK'
  BY <1>2, <1>5 DEF WireOK
<1>7. QED
  BY <1>1, <1>2, <1>3, <1>5, <1>6

LEMMA AwayTyped ==
    ASSUME Types
    PROVE  Away \in AttachType
BY DEF Types, DaemonOK, HistoryOK, Away, AttachType

LEMMA FailureTyped ==
    ASSUME Types, NEW entry \in ClientType, NEW origin, NEW definite
    PROVE  /\ AfterFailure(entry, origin, definite) \in ClientType
           /\ AfterFailure(entry, origin, definite).conn = entry.conn
           /\ AfterFailure(entry, origin, definite).opened = entry.opened
           /\ AfterFailure(entry, origin, definite).last = entry.last
           /\ \/ /\ AfterFailure(entry, origin, definite).lease = entry.lease
                 /\ AfterFailure(entry, origin, definite).bound = entry.bound
                 /\ AfterFailure(entry, origin, definite).expected = entry.expected
                 /\ \/ AfterFailure(entry, origin, definite).queued
                    \/ origin # "queue" /\ AfterFailure(entry, origin, definite) = entry
              \/ /\ origin # "queue" /\ AfterFailure(entry, origin, definite).lease = 0
<1>1. 0 \in 0 .. leases /\ 0 \in 0 .. output
  BY DEF Types, DaemonOK, HistoryOK
<1>2. QED
  BY <1>1 DEF AfterFailure, Cleared, ClientType

LEMMA FailsTyped ==
    ASSUME Types, NEW definite, Fails(definite), UNCHANGED << leases, output >>
    PROVE  ClientOK' /\ AttachOK' /\ attach.id # 0 /\ attach' = Away
<1>1. /\ attach.id # 0 /\ attach' = Away
      /\ client' = AfterFailure(client, attach.origin, definite)
  BY DEF Fails
<1>2. client' \in ClientType
  BY <1>1, FailureTyped DEF Types, ClientOK
<1>3. QED
  BY <1>1, <1>2, AwayTyped DEF ClientOK, ClientType, AttachOK, AttachType

LEMMA AttachAcceptedTyped == Types /\ AttachAccepted => Types'
<1> SUFFICES ASSUME Types, AttachAccepted PROVE Types'
  OBVIOUS
<1>1. Receives /\ UNCHANGED client /\ attach' = [attach EXCEPT !.lease = Head(wire).lease]
  BY DEF AttachAccepted
<1>2. /\ Head(wire) \in Messages /\ UNCHANGED << output, leases >>
      /\ HistoryOK' /\ DaemonOK' /\ HandlerOK' /\ ScopeOK' /\ InboxOK' /\ ActiveOK' /\ WireOK'
  BY <1>1, ReceivesDoes
<1>3. ClientOK' /\ AttachOK'
  BY <1>1, <1>2 DEF Types, ClientOK, ClientType, AttachOK, AttachType, Messages
<1>4. QED
  BY <1>2, <1>3 DEF Types

LEMMA AttachRefusedTyped == Types /\ (AttachRefused \/ Disorder) => Types'
<1> SUFFICES ASSUME Types, AttachRefused \/ Disorder PROVE Types'
  OBVIOUS
<1>1. Receives /\ \E definite \in BOOLEAN : Fails(definite)
  BY DEF AttachRefused, Disorder
<1>2. /\ UNCHANGED << output, leases >>
      /\ HistoryOK' /\ DaemonOK' /\ HandlerOK' /\ ScopeOK' /\ InboxOK' /\ ActiveOK' /\ WireOK'
  BY <1>1, ReceivesDoes
<1>3. ClientOK' /\ AttachOK'
  BY <1>1, <1>2, FailsTyped
<1>4. QED
  BY <1>2, <1>3 DEF Types

LEMMA ReplayTyped == Types /\ (ReplayBegin \/ ReplayChunk) => Types'
<1> SUFFICES ASSUME Types, ReplayBegin \/ ReplayChunk PROVE Types'
  OBVIOUS
<1>1. /\ Receives /\ UNCHANGED client
      /\ \/ attach' = [attach EXCEPT !.next = Head(wire).from, !.first = Head(wire).from,
                                    !.watermark = Head(wire).to]
         \/ attach' = [attach EXCEPT !.next = Head(wire).to]
  BY DEF ReplayBegin, ReplayChunk
<1>2. /\ Head(wire) \in Messages /\ UNCHANGED << output, leases >>
      /\ HistoryOK' /\ DaemonOK' /\ HandlerOK' /\ ScopeOK' /\ InboxOK' /\ ActiveOK' /\ WireOK'
  BY <1>1, ReceivesDoes
<1>3. ClientOK' /\ AttachOK'
  BY <1>1, <1>2 DEF Types, ClientOK, ClientType, AttachOK, AttachType, Messages
<1>4. QED
  BY <1>2, <1>3 DEF Types

LEMMA ReplayEndTyped == Types /\ ReplayEnd => Types'
<1> SUFFICES ASSUME Types, ReplayEnd PROVE Types'
  OBVIOUS
<1>1. /\ Receives /\ attach' = Away
      /\ client' = [client EXCEPT !.lease = Head(wire).lease, !.expected = Head(wire).to, !.queued = FALSE]
  BY DEF ReplayEnd
<1>2. /\ Head(wire) \in Messages /\ UNCHANGED << output, leases >>
      /\ HistoryOK' /\ DaemonOK' /\ HandlerOK' /\ ScopeOK' /\ InboxOK' /\ ActiveOK' /\ WireOK'
  BY <1>1, ReceivesDoes
<1>3. ClientOK' /\ AttachOK'
  BY <1>1, <1>2, AwayTyped DEF Types, ClientOK, ClientType, AttachOK, AttachType, Messages
<1>4. QED
  BY <1>2, <1>3 DEF Types

LEMMA HandledTyped == Types /\ (ShowOutput \/ LoseLease \/ Ignore) => Types'
<1> SUFFICES ASSUME Types, ShowOutput \/ LoseLease \/ Ignore PROVE Types'
  OBVIOUS
<1>1. /\ Receives /\ UNCHANGED attach
      /\ \/ client' = [client EXCEPT !.expected = Head(wire).to]
         \/ client' = [client EXCEPT !.lease = 0, !.expected = 0]
         \/ client' = Cleared(client)
         \/ client' = client
  BY DEF ShowOutput, LoseLease, Ignore
<1>2. /\ Head(wire) \in Messages /\ UNCHANGED << output, leases >>
      /\ HistoryOK' /\ DaemonOK' /\ HandlerOK' /\ ScopeOK' /\ InboxOK' /\ ActiveOK' /\ WireOK'
      /\ leases \in Nat /\ output \in Nat
  BY <1>1, ReceivesDoes
<1>3. AttachOK'
  BY <1>1, <1>2 DEF Types, AttachOK, AttachType
<1>4. client \in ClientType /\ Head(wire).to \in 0 .. output /\ 0 \in 0 .. leases /\ 0 \in 0 .. output
  BY <1>2 DEF Types, ClientOK, Messages
<1>5. client' \in ClientType
  BY <1>1, <1>4 DEF ClientType, Cleared
<1>6. ClientOK'
  BY <1>2, <1>5 DEF ClientOK, ClientType
<1>7. QED
  BY <1>2, <1>3, <1>6 DEF Types

\* A new connection.
LEMMA ReconnectsDoes ==
    ASSUME Types, NEW requests \in Seq(Ids), Reconnects(requests)
    PROVE  /\ client.opened + 1 \in Conns /\ client.opened \in Nat
           /\ inbox' = [inbox EXCEPT ![client.opened + 1] = requests]
           /\ active' = [active EXCEPT ![client.opened + 1] = TRUE]
           /\ wire' = << >>
           /\ InboxOK' /\ ActiveOK' /\ << >> \in Seq(Messages)
<1>1. /\ client.opened < LastConn /\ wire' = << >>
      /\ inbox' = [inbox EXCEPT ![client.opened + 1] = requests]
      /\ active' = [active EXCEPT ![client.opened + 1] = TRUE]
  BY DEF Reconnects
<1>2. client.opened + 1 \in Conns /\ client.opened \in Nat
  BY <1>1, AttachReplayAssumption DEF Conns, Types, ClientOK, ClientType
<1>3. << >> \in Seq(Messages)
  OBVIOUS
<1>4. QED
  BY <1>1, <1>2, <1>3 DEF Types, InboxOK, ActiveOK

LEMMA ReconnectedTyped ==
    ASSUME Types, NEW entry \in ClientType, entry.opened + 1 \in Conns
    PROVE  /\ Reconnected(entry) \in ClientType
           /\ Reconnected(entry).conn = entry.opened + 1
           /\ Reconnected(entry).opened = entry.opened + 1
           /\ Reconnected(entry).last = entry.last
           /\ Reconnected(entry).bound = entry.bound
           /\ Reconnected(entry).lease = entry.lease
           /\ Reconnected(entry).expected = entry.expected
           /\ Reconnected(entry).queued <=> entry.queued \/ entry.bound
<1> DEFINE n == entry.opened + 1
           q == entry.queued \/ entry.bound
<1>1. n \in 0 .. LastConn /\ q \in BOOLEAN
  BY DEF Conns
<1>2. Reconnected(entry) = [entry EXCEPT !.conn = n, !.opened = n, !.queued = q]
  BY DEF Reconnected
<1> HIDE DEF n, q
<1>3. /\ Reconnected(entry) \in ClientType
      /\ Reconnected(entry).conn = n /\ Reconnected(entry).opened = n /\ Reconnected(entry).queued = q
      /\ Reconnected(entry).last = entry.last /\ Reconnected(entry).bound = entry.bound
      /\ Reconnected(entry).lease = entry.lease /\ Reconnected(entry).expected = entry.expected
  BY <1>1, <1>2 DEF ClientType
<1>4. QED
  BY <1>3 DEF n, q

LEMMA ConnectTyped == Types /\ Connect => Types'
<1> SUFFICES ASSUME Types, Connect PROVE Types'
  OBVIOUS
<1>1. /\ Reconnects(<< >>) /\ client' = Reconnected(client)
      /\ UNCHANGED << output, start, owner, leases, scope, handler, partial, attach >>
  BY DEF Connect, daemon
<1>2. HistoryOK' /\ DaemonOK' /\ HandlerOK' /\ ScopeOK' /\ Messages' = Messages
  BY <1>1, ClientOnly
<1>3. << >> \in Seq(Ids)
  OBVIOUS
<1>4. /\ client.opened + 1 \in Conns /\ wire' = << >> /\ InboxOK' /\ ActiveOK' /\ << >> \in Seq(Messages)
  BY <1>1, <1>3, ReconnectsDoes
<1>5. client' \in ClientType
  BY <1>1, <1>4, ReconnectedTyped DEF Types, ClientOK
<1>6. QED
  BY <1>1, <1>2, <1>4, <1>5 DEF Types, ClientOK, ClientType, AttachOK, AttachType, WireOK

\* The three ways of an attach that the client starts.
StartedEntry == [client EXCEPT !.last = client.last + 1, !.bound = TRUE, !.queued = FALSE]
Awaiting(id, origin) == [Away EXCEPT !.id = id, !.origin = origin]

Writes(id, origin) ==
    /\ active[client.conn]
    /\ inbox' = [inbox EXCEPT ![client.conn] = Append(@, id)]
    /\ client' = StartedEntry
    /\ attach' = Awaiting(id, origin)
    /\ UNCHANGED << active, wire >>

Reopens(id, origin) ==
    /\ ~ active[client.conn]
    /\ Reconnects(<< id >>)
    /\ client' = Reconnected(StartedEntry)
    /\ attach' = Awaiting(id, origin)

Abandons(origin) ==
    /\ ~ active[client.conn]
    /\ \E definite \in BOOLEAN : client' = AfterFailure([StartedEntry EXCEPT !.conn = 0], origin, definite)
    /\ wire' = << >>
    /\ UNCHANGED << attach, inbox, active >>

LEMMA StartAttachDoes ==
    ASSUME Types, NEW origin \in {"user", "queue"}, StartAttach(origin)
    PROVE  LET id == client.last + 1
           IN  /\ id \in Ids /\ client.conn # 0 /\ client.conn \in Conns /\ attach.id = 0
               /\ IF origin = "queue" THEN client.queued /\ client.bound
                  ELSE ~ (client.bound /\ client.lease # 0)
               /\ screen' = Blank
               /\ UNCHANGED << output, start, owner, leases, scope, handler, partial >>
               /\ StartedEntry \in ClientType
               /\ Writes(id, origin) \/ Reopens(id, origin) \/ Abandons(origin)
<1> DEFINE id == client.last + 1
<1>1. /\ id \in Ids /\ client.conn # 0 /\ attach.id = 0
      /\ IF origin = "queue" THEN client.queued /\ client.bound
         ELSE ~ (client.bound /\ client.lease # 0)
      /\ screen' = Blank
      /\ UNCHANGED << output, start, owner, leases, scope, handler, partial >>
  BY DEF StartAttach, Restarted
<1>2. client.conn \in Conns
  BY <1>1 DEF Types, ClientOK, ClientType, Conns
<1>3. StartedEntry \in ClientType
  BY <1>1 DEF Types, ClientOK, ClientType, StartedEntry
<1>4. Writes(id, origin) \/ Reopens(id, origin) \/ Abandons(origin)
  BY DEF StartAttach, Writes, Reopens, Abandons, StartedEntry, Awaiting
<1>5. QED
  BY <1>1, <1>2, <1>3, <1>4

LEMMA StartAttachTyped ==
    ASSUME Types, NEW origin \in {"user", "queue"}, StartAttach(origin)
    PROVE  Types'
<1> DEFINE id == client.last + 1
<1>1. /\ id \in Ids /\ client.conn \in Conns
      /\ UNCHANGED << output, start, owner, leases, scope, handler, partial >>
      /\ StartedEntry \in ClientType
      /\ Writes(id, origin) \/ Reopens(id, origin) \/ Abandons(origin)
  BY StartAttachDoes
<1> HIDE DEF id
<1>2. HistoryOK' /\ DaemonOK' /\ HandlerOK' /\ ScopeOK' /\ Messages' = Messages
  BY <1>1, ClientOnly
<1>3. Awaiting(id, origin) \in AttachType
  BY <1>1, AwayTyped DEF Awaiting, AttachType
<1>4. client' \in ClientType /\ attach' \in AttachType /\ InboxOK' /\ ActiveOK' /\ wire' \in Seq(Messages)
  <2>1. CASE Writes(id, origin)
    <3>1. inbox[client.conn] \in Seq(Ids)
      BY <1>1 DEF Types, InboxOK
    <3>2. Append(inbox[client.conn], id) \in Seq(Ids)
      BY <1>1, <3>1, Appended
    <3>3. QED
      BY <1>1, <1>3, <2>1, <3>2 DEF Writes, Types, InboxOK, ActiveOK, WireOK
  <2>2. CASE Reopens(id, origin)
    <3>1. << id >> \in Seq(Ids)
      BY <1>1
    <3>2. client.opened + 1 \in Conns /\ wire' = << >> /\ InboxOK' /\ ActiveOK' /\ << >> \in Seq(Messages)
      BY <2>2, <3>1, ReconnectsDoes DEF Reopens
    <3>3. StartedEntry.opened = client.opened
      BY DEF StartedEntry, Types, ClientOK, ClientType
    <3>4. client' \in ClientType
      BY <1>1, <2>2, <3>2, <3>3, ReconnectedTyped DEF Reopens
    <3>5. QED
      BY <1>3, <2>2, <3>2, <3>4 DEF Reopens
  <2>3. CASE Abandons(origin)
    <3>1. [StartedEntry EXCEPT !.conn = 0] \in ClientType
      BY <1>1, AttachReplayAssumption DEF ClientType
    <3>2. client' \in ClientType
      BY <2>3, <3>1, FailureTyped DEF Abandons
    <3>3. << >> \in Seq(Messages)
      OBVIOUS
    <3>4. QED
      BY <2>3, <3>2, <3>3 DEF Abandons, Types, AttachOK, InboxOK, ActiveOK
  <2>4. QED
    BY <1>1, <2>1, <2>2, <2>3
<1>5. ClientOK' /\ AttachOK' /\ WireOK'
  BY <1>1, <1>2, <1>4 DEF ClientOK, ClientType, AttachOK, AttachType, WireOK
<1>6. QED
  BY <1>2, <1>4, <1>5 DEF Types

\* perform_attach goes on over a new connection.
LEMMA ResumeTyped ==
    ASSUME Types, ResumeAndResend
    PROVE  /\ Types' /\ attach.id \in Ids /\ << attach.id >> \in Seq(Ids)
           /\ client.opened + 1 \in Conns /\ client.opened \in Nat
           /\ inbox' = [inbox EXCEPT ![client.opened + 1] = << attach.id >>]
           /\ active' = [active EXCEPT ![client.opened + 1] = TRUE]
           /\ wire' = << >>
           /\ client' = [Reconnected(client) EXCEPT !.lease = 0, !.expected = 0]
           /\ attach' = Awaiting(attach.id, attach.origin) /\ screen' = Blank
           /\ UNCHANGED << output, start, owner, leases, scope, handler, partial >>
<1>1. /\ attach.id # 0 /\ Reconnects(<< attach.id >>)
      /\ client' = [Reconnected(client) EXCEPT !.lease = 0, !.expected = 0]
      /\ attach' = Awaiting(attach.id, attach.origin) /\ screen' = Blank
      /\ UNCHANGED << output, start, owner, leases, scope, handler, partial >>
  BY DEF ResumeAndResend, Awaiting, Restarted
<1>2. attach.id \in Ids /\ attach.origin \in {"user", "queue"}
  BY <1>1 DEF Types, AttachOK, AttachType
<1>3. << attach.id >> \in Seq(Ids)
  BY <1>2
<1>4. /\ client.opened + 1 \in Conns /\ client.opened \in Nat /\ wire' = << >>
      /\ inbox' = [inbox EXCEPT ![client.opened + 1] = << attach.id >>]
      /\ active' = [active EXCEPT ![client.opened + 1] = TRUE]
      /\ InboxOK' /\ ActiveOK' /\ << >> \in Seq(Messages)
  BY <1>1, <1>3, ReconnectsDoes
<1>5. HistoryOK' /\ DaemonOK' /\ HandlerOK' /\ ScopeOK' /\ Messages' = Messages
  BY <1>1, ClientOnly
<1>6. client' \in ClientType
  <2>1. Reconnected(client) \in ClientType
    BY <1>4, ReconnectedTyped DEF Types, ClientOK
  <2>2. 0 \in 0 .. leases /\ 0 \in 0 .. output
    BY DEF Types, DaemonOK, HistoryOK
  <2>3. QED
    BY <1>1, <2>1, <2>2 DEF ClientType
<1>7. attach' \in AttachType
  BY <1>1, <1>2, AwayTyped DEF Awaiting, AttachType
<1>8. ClientOK' /\ AttachOK' /\ WireOK'
  BY <1>1, <1>4, <1>5, <1>6, <1>7 DEF ClientOK, ClientType, AttachOK, AttachType, WireOK
<1>9. QED
  BY <1>1, <1>2, <1>3, <1>4, <1>5, <1>8 DEF Types

\* The connection is given up, in an attach or outside of it.
LEMMA LosesTyped ==
    ASSUME Types, GiveUp \/ Disconnect
    PROVE  /\ Types' /\ wire' = << >> /\ client'.conn = 0
           /\ UNCHANGED << output, start, owner, leases, scope, handler, inbox, active, screen, partial >>
<1>1. /\ wire' = << >>
      /\ UNCHANGED << output, start, owner, leases, scope, handler, inbox, active, screen, partial >>
      /\ \/ GiveUp /\ attach' = Away
            /\ \E definite \in BOOLEAN : client' = AfterFailure([client EXCEPT !.conn = 0], attach.origin, definite)
         \/ Disconnect /\ client' = [client EXCEPT !.conn = 0] /\ attach' = attach
  BY DEF GiveUp, Disconnect, daemon
<1>2. HistoryOK' /\ DaemonOK' /\ HandlerOK' /\ ScopeOK' /\ Messages' = Messages
  BY <1>1, ClientOnly
<1>3. [client EXCEPT !.conn = 0] \in ClientType /\ [client EXCEPT !.conn = 0].conn = 0
  BY AttachReplayAssumption DEF Types, ClientOK, ClientType
<1>4. client' \in ClientType /\ client'.conn = 0
  <2> DEFINE left == [client EXCEPT !.conn = 0]
  <2>0. left \in ClientType /\ left.conn = 0
    BY <1>3
  <2> HIDE DEF left
  <2>1. ASSUME NEW definite PROVE /\ AfterFailure(left, attach.origin, definite) \in ClientType
                                  /\ AfterFailure(left, attach.origin, definite).conn = 0
    BY <2>0, FailureTyped
  <2>2. client' = left \/ \E definite \in BOOLEAN : client' = AfterFailure(left, attach.origin, definite)
    BY <1>1 DEF left
  <2>3. QED
    BY <1>3, <2>1, <2>2 DEF left
<1>5. attach' \in AttachType
  BY <1>1, AwayTyped DEF Types, AttachOK
<1>6. << >> \in Seq(Messages)
  OBVIOUS
<1>7. QED
  BY <1>1, <1>2, <1>4, <1>5, <1>6 DEF Types, ClientOK, ClientType, AttachOK, AttachType, WireOK, InboxOK, ActiveOK

LEMMA TimeoutTyped == Types /\ Timeout => Types'
<1> SUFFICES ASSUME Types, Timeout PROVE Types'
  OBVIOUS
<1>1. /\ Fails(FALSE)
      /\ UNCHANGED << output, start, owner, leases, scope, handler, inbox, active, wire, screen, partial >>
  BY DEF Timeout, daemon
<1>2. HistoryOK' /\ DaemonOK' /\ HandlerOK' /\ ScopeOK' /\ Messages' = Messages
  BY <1>1, ClientOnly
<1>3. ClientOK' /\ AttachOK'
  BY <1>1, FailsTyped
<1>4. QED
  BY <1>1, <1>2, <1>3 DEF Types, InboxOK, ActiveOK, WireOK

LEMMA NextTypes == Types /\ [Next]_vars => Types'
<1> SUFFICES ASSUME Types, [Next]_vars PROVE Types'
  OBVIOUS
<1>1. ASSUME NEW delivered \in BOOLEAN, NEW n \in 1 .. MaxRead, Publish(n, delivered) PROVE Types'
  BY <1>1, PublishTyped
<1>2. ASSUME NEW delivered \in BOOLEAN, Takeover(delivered) PROVE Types'
  BY <1>2, TakeoverTyped
<1>3. ASSUME NEW delivered \in BOOLEAN, NEW c \in Conns, CommitNew(c, delivered) PROVE Types'
  BY <1>3, CommitNewTyped
<1>4. ASSUME NEW delivered \in BOOLEAN, NEW c \in Conns, CommitRebind(c, delivered) PROVE Types'
  BY <1>4, CommitRebindTyped
<1>5. ASSUME NEW c \in Conns, BeginAttach(c) PROVE Types'
  BY <1>5, BeginAttachTyped
<1>6. ASSUME NEW c \in Conns, NEW refused \in SUBSET Conns, CommitFailed(c, refused) PROVE Types'
  BY <1>6, CommitFailedTyped
<1>7. ASSUME NEW c \in Conns, CommitSuperseded(c) PROVE Types'
  BY <1>7, CommitSupersededTyped
<1>8. ASSUME NEW c \in Conns, WriterEnds(c) \/ ReaderEnds(c) PROVE Types'
  BY <1>8, EndsTyped
<1>9. ASSUME NEW origin \in {"user", "queue"}, StartAttach(origin) PROVE Types'
  BY <1>9, StartAttachTyped
<1>10. ASSUME Connect \/ ResumeAndResend \/ GiveUp \/ Disconnect \/ Timeout PROVE Types'
  BY <1>10, ConnectTyped, ResumeTyped, LosesTyped, TimeoutTyped
<1>11. ASSUME \/ AttachAccepted \/ AttachRefused \/ ReplayBegin \/ ReplayChunk \/ ReplayEnd
              \/ Disorder \/ ShowOutput \/ LoseLease \/ Ignore
       PROVE  Types'
  BY <1>11, AttachAcceptedTyped, AttachRefusedTyped, ReplayTyped, ReplayEndTyped, HandledTyped
<1>12. CASE UNCHANGED vars
  BY <1>12 DEF vars, Types, HistoryOK, DaemonOK, HandlerOK, HandlerType, Within, InboxOK, ActiveOK, ClientOK,
               ClientType, AttachOK, AttachType, WireOK, Messages, ScopeOK, Replied
<1>13. QED
  BY <1>1, <1>2, <1>3, <1>4, <1>5, <1>6, <1>7, <1>8, <1>9, <1>10, <1>11, <1>12 DEF Next, Daemon, Client

\* Every variable has the type it is declared with, and the daemon retains no
\* more than RAW_HISTORY_MAX_BYTES, up to the newest byte.
THEOREM TypeCorrect == Spec => []TypeOK
<1>1. Types /\ [Next]_vars => Types'
  BY NextTypes
<1>2. QED
  BY InitTypes, <1>1, TypeParts, PTL DEF Spec
-----------------------------------------------------------------------------
(***************************************************************************)
(* What a transaction looks like.                                          *)
(***************************************************************************)
InTransaction == {"begin", "chunk", "end"}

\* Notices and live output answer no request and have a lease; what has bytes
\* has them in order, and live output is never empty.
Proper(m) ==
    /\ m.kind \in {"output", "taken"} <=> m.id = 0
    /\ m.kind # "result" => m.lease # 0
    /\ m.kind \in InTransaction => m.from <= m.to
    /\ m.kind = "output" => m.from < m.to

Position(m) == IF m.kind = "begin" THEN m.from ELSE m.to

\* n is the message behind m in a transaction.
Follows(m, n) ==
    /\ n.id = m.id /\ n.lease = m.lease
    /\ n.kind = "begin" => m.kind = "result"
    /\ n.kind \in {"chunk", "end"} => m.kind \in {"begin", "chunk"} /\ n.from = Position(m)
    /\ n.kind = "end" => n.from = n.to

\* A whole parcel: its last but for the notice is the end of the transaction.
Formatted(p, id, lease, told) ==
    LET e == Len(p) - (IF told THEN 1 ELSE 0)
    IN  /\ e \in 3 .. Len(p) /\ p[e].kind = "end" /\ (told => p[Len(p)] = TakenOver(lease))
        /\ \A k \in 1 .. Len(p) :
              /\ p[k].lease = lease /\ Proper(p[k]) /\ p[k].kind # "output"
              /\ p[k].kind = "taken" => p[k] = TakenOver(lease) /\ told /\ k = Len(p)
              /\ p[k].kind # "taken" => p[k].id = id
              /\ p[k].kind = "result" <=> k = 1
              /\ p[k].kind \in {"begin", "end"} => p[k].to = output
              /\ p[k].kind = "end" <=> k = e
              /\ p[k].kind \in InTransaction => k > 1 /\ Follows(p[k - 1], p[k])

LEMMA ParcelFormat ==
    ASSUME HistoryOK, NEW id \in Ids, NEW l \in Nat, NEW lease \in 1 .. l, NEW told \in BOOLEAN
    PROVE  /\ Parcel(id, lease, told) \in Seq(MessagesOf(l))
           /\ Formatted(Parcel(id, lease, told), id, lease, told)
<1> DEFINE p == Parcel(id, lease, told)
           n == ChunkCount
           e == Len(p) - (IF told THEN 1 ELSE 0)
           begin == Message("begin", id, lease, start, output)
           end == Message("end", id, lease, output, output)
           Good(k) == /\ p[k].lease = lease /\ Proper(p[k]) /\ p[k].kind # "output"
                      /\ p[k].kind = "taken" => p[k] = TakenOver(lease) /\ told /\ k = Len(p)
                      /\ p[k].kind # "taken" => p[k].id = id
                      /\ p[k].kind = "result" <=> k = 1
                      /\ p[k].kind \in {"begin", "end"} => p[k].to = output
                      /\ p[k].kind = "end" <=> k = e
                      /\ p[k].kind \in InTransaction => k > 1 /\ Follows(p[k - 1], p[k])
<1>1. /\ p \in Seq(MessagesOf(l)) /\ n \in Nat
      /\ Len(p) = n + (IF told THEN 4 ELSE 3)
      /\ p[1] = Result(id, lease) /\ p[2] = begin /\ p[n + 3] = end
      /\ \A k \in 1 .. n : p[2 + k] = Chunk(id, lease, k)
      /\ told => p[n + 4] = TakenOver(lease)
  BY ParcelParts
<1>2. /\ output \in Nat /\ start \in Nat /\ start <= output /\ id \in Nat /\ id # 0
      /\ lease \in Nat /\ lease # 0 /\ lease \in 0 .. l
  BY ConstantsTyped DEF HistoryOK
<1>3. ASSUME NEW k \in 1 .. n
      PROVE  /\ p[2 + k].kind = "chunk" /\ p[2 + k].id = id /\ p[2 + k].lease = lease
             /\ p[2 + k].from = start + (k - 1) * ChunkBytes
             /\ p[2 + k].from <= p[2 + k].to
             /\ k < n => p[2 + k].to = start + k * ChunkBytes
             /\ k = n => p[2 + k].to = output
  <2>1. p[2 + k] = Chunk(id, lease, k)
    BY <1>1
  <2> DEFINE m == Chunk(id, lease, k)
  <2>2. /\ m.kind = "chunk" /\ m.id = id /\ m.lease = lease
        /\ m.from = start + (k - 1) * ChunkBytes /\ m.from <= m.to
        /\ k < n => m.to = start + k * ChunkBytes
        /\ k = n => m.to = output
    BY <1>2, ChunkTyped
  <2> HIDE DEF m, p
  <2>3. p[2 + k] = m
    BY <2>1 DEF m
  <2>4. QED
    BY <2>2, <2>3
<1>4. n = 0 => start = output
  <2>1. output - start \in Nat /\ ChunkBytes \in Nat /\ ChunkBytes # 0
    BY <1>2, AttachReplayAssumption
  <2>2. output - start <= n * ChunkBytes
    BY <2>1, Rounding DEF ChunkCount
  <2>3. SUFFICES ASSUME n = 0 PROVE start = output
    OBVIOUS
  <2>4. n * ChunkBytes = 0
    BY <2>1, <2>3
  <2>5. QED
    BY <1>2, <2>2, <2>4
<1>5. /\ begin.kind = "begin" /\ begin.id = id /\ begin.lease = lease
      /\ begin.from = start /\ begin.to = output
      /\ end.kind = "end" /\ end.id = id /\ end.lease = lease /\ end.from = output /\ end.to = output
      /\ p[1].kind = "result" /\ p[1].id = id /\ p[1].lease = lease
      /\ TakenOver(lease).kind = "taken" /\ TakenOver(lease).id = 0 /\ TakenOver(lease).lease = lease
  BY <1>1 DEF Message, Result, TakenOver
<1> HIDE DEF n, begin, end, p
<1>6. e = n + 3 /\ e \in 3 .. Len(p)
  BY <1>1
<1> HIDE DEF e
<1>7. Good(1)
  BY <1>2, <1>5, <1>6, <1>1 DEF Proper, InTransaction
<1>8. Good(2)
  <2>1. p[2].kind = "begin" /\ p[2].id = id /\ p[2].lease = lease /\ p[2].from = start /\ p[2].to = output
    BY <1>1, <1>5
  <2>2. Follows(p[1], p[2])
    BY <1>5, <2>1 DEF Follows
  <2>3. QED
    BY <1>1, <1>2, <1>6, <2>1, <2>2 DEF Proper, InTransaction
<1>9. ASSUME NEW k \in 1 .. n PROVE Good(2 + k)
  <2>1. /\ p[2 + k].kind = "chunk" /\ p[2 + k].id = id /\ p[2 + k].lease = lease
        /\ p[2 + k].from = start + (k - 1) * ChunkBytes /\ p[2 + k].from <= p[2 + k].to
    BY <1>3
  <2>2. Follows(p[1 + k], p[2 + k])
    <3>1. CASE k = 1
      <4>1. (k - 1) * ChunkBytes = 0
        BY <3>1, AttachReplayAssumption
      <4>2. p[1 + k] = begin /\ p[2 + k].from = start
        BY <1>1, <1>2, <2>1, <3>1, <4>1
      <4>3. QED
        BY <1>5, <2>1, <4>2 DEF Follows, Position
    <3>2. CASE k # 1
      <4>1. k - 1 \in 1 .. n /\ k - 1 < n /\ 2 + (k - 1) = 1 + k
        BY <1>1, <3>2
      <4>2. /\ p[1 + k].kind = "chunk" /\ p[1 + k].id = id /\ p[1 + k].lease = lease
            /\ p[1 + k].to = start + (k - 1) * ChunkBytes
        BY <1>3, <4>1
      <4>3. QED
        BY <2>1, <4>2 DEF Follows, Position
    <3>3. QED
      BY <3>1, <3>2
  <2>3. (2 + k) - 1 = 1 + k /\ 2 + k # 1 /\ 2 + k > 1 /\ 2 + k # n + 3
    BY <1>1
  <2>4. QED
    BY <1>2, <1>6, <2>1, <2>2, <2>3 DEF Proper, InTransaction
<1>10. Good(n + 3)
  <2>1. /\ p[n + 3].kind = "end" /\ p[n + 3].id = id /\ p[n + 3].lease = lease
        /\ p[n + 3].from = output /\ p[n + 3].to = output
    BY <1>1, <1>5
  <2>2. Follows(p[n + 2], p[n + 3])
    <3>1. CASE n = 0
      <4>1. p[n + 2] = begin
        BY <1>1, <3>1
      <4>2. QED
        BY <1>2, <1>4, <1>5, <2>1, <3>1, <4>1 DEF Follows, Position
    <3>2. CASE n # 0
      <4>1. n \in 1 .. n /\ 2 + n = n + 2
        BY <1>1, <3>2
      <4>2. p[n + 2].kind = "chunk" /\ p[n + 2].id = id /\ p[n + 2].lease = lease /\ p[n + 2].to = output
        BY <1>3, <4>1
      <4>3. QED
        BY <2>1, <4>2 DEF Follows, Position
    <3>3. QED
      BY <3>1, <3>2
  <2>3. (n + 3) - 1 = n + 2 /\ n + 3 > 1
    BY <1>1
  <2>4. QED
    BY <1>2, <1>6, <2>1, <2>2, <2>3 DEF Proper, InTransaction
<1>11. told => Good(n + 4)
  <2>1. SUFFICES ASSUME told PROVE Good(n + 4)
    OBVIOUS
  <2>2. p[n + 4] = TakenOver(lease) /\ Len(p) = n + 4
    BY <1>1, <2>1
  <2>3. QED
    BY <1>1, <1>2, <1>5, <1>6, <2>1, <2>2 DEF Proper, InTransaction
<1>12. ASSUME NEW k \in 1 .. Len(p) PROVE Good(k)
  <2> HIDE DEF Good
  <2>1. k = 1 \/ k = 2 \/ (k - 2 \in 1 .. n /\ k = 2 + (k - 2)) \/ k = n + 3 \/ (told /\ k = n + 4)
    BY <1>1
  <2>2. QED
    BY <1>7, <1>8, <1>9, <1>10, <1>11, <2>1
<1>13. p[e].kind = "end" /\ (told => p[Len(p)] = TakenOver(lease))
  BY <1>1, <1>5, <1>6
<1>14. QED
  BY <1>1, <1>6, <1>12, <1>13 DEF p, e, Formatted

\* What the client is sent of it: a prefix, and all of it unless the lease is
\* noted.
Shipped(sent, id, lease, told) ==
    /\ \A k \in 1 .. Len(sent) :
          /\ sent[k].lease = lease /\ Proper(sent[k]) /\ sent[k].kind # "output"
          /\ sent[k].kind = "taken" => sent[k] = TakenOver(lease) /\ told /\ k = Len(sent)
          /\ sent[k].kind # "taken" => sent[k].id = id
          /\ sent[k].kind = "result" <=> k = 1
          /\ sent[k].kind \in {"begin", "end"} => sent[k].to = output
          /\ sent[k].kind \in InTransaction => k > 1 /\ Follows(sent[k - 1], sent[k])
    /\ lease \notin partial' =>
          LET e == Len(sent) - (IF told THEN 1 ELSE 0)
          IN  /\ e \in 3 .. Len(sent) /\ sent[e].kind = "end"
              /\ told => sent[Len(sent)] = TakenOver(lease)
              /\ \A k \in 1 .. Len(sent) : sent[k].kind = "end" => k = e

LEMMA DispatchShips ==
    ASSUME HistoryOK, NEW id \in Ids, NEW l \in Nat, NEW lease \in 1 .. l, NEW told \in BOOLEAN, NEW sent,
           Dispatched(sent, id, lease, told)
    PROVE  /\ sent \in Seq(MessagesOf(l)) /\ Shipped(sent, id, lease, told)
           /\ partial \subseteq partial' /\ partial' \subseteq partial \cup {lease}
<1> DEFINE p == Parcel(id, lease, told)
           e == Len(p) - (IF told THEN 1 ELSE 0)
<1>0. p \in Seq(MessagesOf(l)) /\ Formatted(p, id, lease, told)
  BY ParcelFormat
<1>1. /\ e \in 3 .. Len(p) /\ p[e].kind = "end" /\ (told => p[Len(p)] = TakenOver(lease))
      /\ \A k \in 1 .. Len(p) :
            /\ p[k].lease = lease /\ Proper(p[k]) /\ p[k].kind # "output"
            /\ p[k].kind = "taken" => p[k] = TakenOver(lease) /\ told /\ k = Len(p)
            /\ p[k].kind # "taken" => p[k].id = id
            /\ p[k].kind = "result" <=> k = 1
            /\ p[k].kind \in {"begin", "end"} => p[k].to = output
            /\ p[k].kind = "end" <=> k = e
            /\ p[k].kind \in InTransaction => k > 1 /\ Follows(p[k - 1], p[k])
  <2> HIDE DEF p
  <2>1. QED
    BY <1>0 DEF Formatted
<1>2. PICK n \in 0 .. Len(p) : /\ sent = SubSeq(p, 1, n)
                               /\ partial' = IF n < Len(p) THEN partial \cup {lease} ELSE partial
  BY DEF Dispatched
<1> HIDE DEF p
<1>3. /\ sent \in Seq(MessagesOf(l)) /\ Len(sent) = n /\ n \in Nat /\ Len(p) \in Nat
      /\ \A k \in 1 .. n : sent[k] = p[k] /\ k \in 1 .. Len(p)
  BY <1>0, <1>2, Prefix
<1>4. ASSUME NEW k \in 1 .. Len(sent)
      PROVE  /\ sent[k].lease = lease /\ Proper(sent[k]) /\ sent[k].kind # "output"
             /\ sent[k].kind = "taken" => sent[k] = TakenOver(lease) /\ told /\ k = Len(sent)
             /\ sent[k].kind # "taken" => sent[k].id = id
             /\ sent[k].kind = "result" <=> k = 1
             /\ sent[k].kind \in {"begin", "end"} => sent[k].to = output
             /\ sent[k].kind \in InTransaction => k > 1 /\ Follows(sent[k - 1], sent[k])
  <2>1. sent[k] = p[k] /\ k \in 1 .. Len(p) /\ (k > 1 => sent[k - 1] = p[k - 1])
    BY <1>3
  <2>2. k = Len(p) => k = Len(sent)
    BY <1>3
  <2> HIDE DEF e
  <2>3. QED
    BY <1>1, <2>1, <2>2
<1>5. lease \notin partial' =>
         LET last == Len(sent) - (IF told THEN 1 ELSE 0)
         IN  /\ last \in 3 .. Len(sent) /\ sent[last].kind = "end"
             /\ told => sent[Len(sent)] = TakenOver(lease)
             /\ \A k \in 1 .. Len(sent) : sent[k].kind = "end" => k = last
  <2>1. SUFFICES ASSUME lease \notin partial'
                 PROVE  LET last == Len(sent) - (IF told THEN 1 ELSE 0)
                        IN  /\ last \in 3 .. Len(sent) /\ sent[last].kind = "end"
                            /\ told => sent[Len(sent)] = TakenOver(lease)
                            /\ \A k \in 1 .. Len(sent) : sent[k].kind = "end" => k = last
    OBVIOUS
  <2>2. Len(sent) = Len(p) /\ \A k \in 1 .. Len(p) : sent[k] = p[k]
    BY <1>2, <1>3, <2>1
  <2>3. e = Len(sent) - (IF told THEN 1 ELSE 0) /\ e \in 1 .. Len(p) /\ Len(p) \in 1 .. Len(p)
    BY <1>1, <1>3, <2>2
  <2> HIDE DEF e
  <2>4. sent[e].kind = "end" /\ (told => sent[Len(p)] = TakenOver(lease))
        /\ \A k \in 1 .. Len(p) : sent[k].kind = "end" => k = e
    BY <1>1, <2>2, <2>3
  <2>5. QED
    BY <1>1, <2>2, <2>3, <2>4
<1>6. Shipped(sent, id, lease, told)
  BY <1>4, <1>5 DEF Shipped
<1>7. QED
  BY <1>2, <1>3, <1>6
-----------------------------------------------------------------------------
(***************************************************************************)
(* Connections and requests are numbered: only the newest connection is    *)
(* up, and nothing is known of a request that was not sent.                *)
(***************************************************************************)
ConnectionOK == /\ client.conn # 0 => client.conn = client.opened
                /\ client.conn = 0 => wire = << >> /\ attach.id = 0
OwnerOK      == owner.conn <= client.opened /\ (owner.conn # 0 => owner.lease # 0)
CurrentOnly  == \A c \in Conns : active[c] => c = client.conn
Unopened     == \A c \in Conns : c > client.opened => handler[c] = Idle /\ inbox[c] = << >>
WaiterOK     == \A c \in Conns, id \in Ids : Waits(c, id) => c <= client.opened

Unsent    == \A id \in Ids : id > client.last => scope.records[id] = Absent
HandledOK == \A c \in Conns : handler[c].id <= client.last
QueuedOK  == \A c \in Conns : \A k \in 1 .. Len(inbox[c]) : inbox[c][k] <= client.last
WireSent  == \A k \in 1 .. Len(wire) : Proper(wire[k]) /\ wire[k].id <= client.last

EntryOK   == attach.id <= client.last /\ (attach.id = 0 => attach = Away)

Numbered == /\ ConnectionOK /\ OwnerOK /\ CurrentOnly /\ Unopened /\ WaiterOK
            /\ Unsent /\ HandledOK /\ QueuedOK /\ WireSent /\ EntryOK

LEMMA IdsTyped == \A id \in Ids \cup {0} : id \in Nat
BY RequestCacheAssumption

LEMMA NumbersTyped ==
    ASSUME Types
    PROVE  /\ client.last \in Nat /\ client.opened \in Nat /\ client.conn \in Nat /\ attach.id \in Nat
           /\ owner.conn \in Nat /\ owner.lease \in Nat /\ leases \in Nat /\ output \in Nat
           /\ \A c \in Conns : handler[c].id \in Nat
           /\ client.conn # 0 => client.conn \in Conns
           /\ owner.conn # 0 => owner.conn \in Conns
           /\ wire \in Seq(Messages) /\ Len(wire) \in Nat
           /\ \A k \in 1 .. Len(wire) : wire[k] \in Messages /\ wire[k].id \in Nat
<1>1. /\ client.last \in Nat /\ client.opened \in Nat /\ client.conn \in Nat /\ attach.id \in Nat
      /\ owner.conn \in Nat /\ owner.lease \in Nat /\ leases \in Nat /\ output \in Nat
      /\ client.conn # 0 => client.conn \in Conns
      /\ owner.conn # 0 => owner.conn \in Conns
  <2>1. client.last \in Ids \cup {0} /\ client.opened \in 0 .. LastConn /\ client.conn \in 0 .. LastConn
    BY DEF Types, ClientOK, ClientType
  <2>2. attach.id \in Ids \cup {0}
    BY DEF Types, AttachOK, AttachType
  <2>3. owner.conn \in 0 .. LastConn /\ owner.lease \in 0 .. leases /\ leases \in Nat /\ output \in Nat
    BY DEF Types, DaemonOK, HistoryOK
  <2>4. QED
    BY <2>1, <2>2, <2>3, IdsTyped DEF Conns
<1>2. \A c \in Conns : handler[c].id \in Nat
  BY IdsTyped DEF Types, HandlerOK, HandlerType
<1>3. wire \in Seq(Messages) /\ Len(wire) \in Nat
  BY DEF Types, WireOK
<1>4. \A k \in 1 .. Len(wire) : wire[k] \in Messages
  BY <1>3
<1>5. \A m \in Messages : m.id \in Nat
  BY IdsTyped DEF Messages
<1>6. QED
  BY <1>1, <1>2, <1>3, <1>4, <1>5

LEMMA InitNumbered == Init => Numbered
<1> SUFFICES ASSUME Init PROVE Numbered
  OBVIOUS
<1>1. /\ ConnectionOK /\ OwnerOK /\ CurrentOnly /\ Unopened /\ HandledOK /\ EntryOK
  BY DEF Init, ConnectionOK, OwnerOK, CurrentOnly, Unopened, HandledOK, EntryOK, Idle, Away
<1>2. WaiterOK /\ Unsent
  BY DEF Init, WaiterOK, Unsent, Waits, WaitingOn, EmptyScope, Absent
<1>3. QueuedOK /\ WireSent
  BY DEF Init, QueuedOK, WireSent
<1>4. QED
  BY <1>1, <1>2, <1>3 DEF Numbered

\* Who waits after the cache was changed.
LEMMA BeganWaits ==
    ASSUME Types, NEW id \in Ids, NEW c \in Conns, Began(scope, scope', id, c),
           NEW d, NEW j \in Ids, Waits(d, j)'
    PROVE  Waits(d, j) \/ (d = c /\ j = id)
BY FreshTyped DEF Began, Waits

LEMMA FinishedWaits ==
    ASSUME NEW id \in Ids, NEW r, Finished(scope, scope', id, r), NEW d, NEW j \in Ids, Waits(d, j)'
    PROVE  Waits(d, j) /\ (j = id => scope.records[id].state = "absent")
<1>1. WaitingOn(Absent) = {} /\ WaitingOn(Answer(scope.records[id], r)) = {}
  BY DEF WaitingOn, Absent, Answer
<1>2. QED
  BY <1>1 DEF Finished, Waits

LEMMA QuitWaits ==
    ASSUME Quit(scope, scope'), NEW d, NEW j \in Ids, Waits(d, j)'
    PROVE  Waits(d, j)
BY DEF Quit, Waits

\* What is behind the owner's notice.
LEMMA NoticeSent ==
    ASSUME Types, Numbered, NEW delivered \in BOOLEAN, Reaches(delivered), NEW m, Proper(m), m.id = 0
    PROVE  /\ \A k \in 1 .. Len(ToOwner(delivered, m)) :
                 Proper(ToOwner(delivered, m)[k]) /\ ToOwner(delivered, m)[k].id <= client.last
           /\ client.conn = 0 => ToOwner(delivered, m) = << >>
<1>1. wire \in Seq(Messages) /\ client.last \in Nat
  BY NumbersTyped
<1>2. /\ Len(Append(wire, m)) = Len(wire) + 1 /\ Append(wire, m)[Len(wire) + 1] = m
      /\ \A k \in 1 .. Len(wire) : Append(wire, m)[k] = wire[k]
  BY <1>1
<1>3. \A k \in 1 .. Len(wire) : Proper(wire[k]) /\ wire[k].id <= client.last
  BY DEF Numbered, WireSent
<1>4. client.conn = 0 => wire = << >> /\ ~ (delivered /\ owner.conn = client.conn)
  BY DEF Numbered, ConnectionOK, Reaches
<1>5. QED
  BY <1>1, <1>2, <1>3, <1>4 DEF ToOwner

LEMMA PublishNumbered ==
    ASSUME Types, Numbered, NEW n \in 1 .. MaxRead, NEW delivered \in BOOLEAN, Publish(n, delivered)
    PROVE  Numbered'
<1>1. /\ UNCHANGED << owner, leases, scope, handler, inbox, client, attach >>
      /\ active' = Dropping(Cut(delivered)) /\ wire' = ToOwner(delivered, LiveFrame(n)) /\ Reaches(delivered)
  BY DEF Publish
<1>2. OwnerOK' /\ Unopened' /\ WaiterOK' /\ Unsent' /\ HandledOK' /\ QueuedOK' /\ EntryOK'
  BY <1>1 DEF Numbered, OwnerOK, Unopened, WaiterOK, Waits, Unsent, HandledOK, QueuedOK, EntryOK
<1>3. CurrentOnly'
  BY <1>1, DroppedTyped DEF Numbered, CurrentOnly
<1>4. CASE delivered
  <2>1. owner.lease # 0 /\ n \in Nat /\ n # 0 /\ output \in Nat
    BY <1>1, <1>4, NumbersTyped DEF Reaches, Numbered, OwnerOK
  <2>2. Proper(LiveFrame(n)) /\ LiveFrame(n).id = 0
    BY <2>1 DEF LiveFrame, Message, Proper, InTransaction
  <2>3. WireSent' /\ ConnectionOK'
    BY <1>1, <2>2, NoticeSent DEF Numbered, WireSent, ConnectionOK
  <2>4. QED
    BY <1>2, <1>3, <2>3 DEF Numbered
<1>5. CASE ~ delivered
  BY <1>1, <1>2, <1>3, <1>5 DEF Numbered, WireSent, ConnectionOK, ToOwner
<1>6. QED
  BY <1>4, <1>5

LEMMA TakeoverNumbered ==
    ASSUME Types, Numbered, NEW delivered \in BOOLEAN, Takeover(delivered)
    PROVE  Numbered'
<1>1. /\ UNCHANGED << scope, handler, inbox, client, attach >>
      /\ owner' = [lease |-> leases + 1, conn |-> 0]
      /\ active' = Dropping(Cut(delivered)) /\ wire' = ToOwner(delivered, TakenOver(owner.lease))
      /\ Reaches(delivered)
  BY DEF Takeover
<1>2. OwnerOK' /\ Unopened' /\ WaiterOK' /\ Unsent' /\ HandledOK' /\ QueuedOK' /\ EntryOK'
  BY <1>1, NumbersTyped DEF Numbered, OwnerOK, Unopened, WaiterOK, Waits, Unsent, HandledOK, QueuedOK, EntryOK
<1>3. CurrentOnly'
  BY <1>1, DroppedTyped DEF Numbered, CurrentOnly
<1>4. CASE delivered
  <2>1. owner.lease # 0
    BY <1>1, <1>4 DEF Reaches, Numbered, OwnerOK
  <2>2. Proper(TakenOver(owner.lease)) /\ TakenOver(owner.lease).id = 0
    BY <2>1 DEF TakenOver, Message, Proper, InTransaction
  <2>3. WireSent' /\ ConnectionOK'
    BY <1>1, <2>2, NoticeSent DEF Numbered, WireSent, ConnectionOK
  <2>4. QED
    BY <1>2, <1>3, <2>3 DEF Numbered
<1>5. CASE ~ delivered
  BY <1>1, <1>2, <1>3, <1>5 DEF Numbered, WireSent, ConnectionOK, ToOwner
<1>6. QED
  BY <1>4, <1>5

\* One more refusal is queued, or nothing.
LEMMA RefusalSent ==
    ASSUME Types, Numbered, NEW id \in Ids, id <= client.last, UNCHANGED << client, attach >>,
           wire' = wire \/ (client.conn # 0 /\ wire' = Append(wire, Result(id, Failed)))
    PROVE  WireSent' /\ ConnectionOK'
<1> DEFINE m == Result(id, Failed)
<1>1. m.id = id /\ Proper(m)
  BY ConstantsTyped DEF Result, Message, Proper, InTransaction
<1> HIDE DEF m
<1>2. wire \in Seq(Messages)
  BY NumbersTyped
<1>3. /\ Len(Append(wire, m)) = Len(wire) + 1 /\ Append(wire, m)[Len(wire) + 1] = m
      /\ \A k \in 1 .. Len(wire) : Append(wire, m)[k] = wire[k]
  BY <1>2
<1>4. wire' = wire \/ (client.conn # 0 /\ wire' = Append(wire, m))
  BY DEF m
<1>5. WireSent'
  BY <1>1, <1>2, <1>3, <1>4 DEF Numbered, WireSent
<1>6. QED
  BY <1>4, <1>5 DEF Numbered, ConnectionOK

LEMMA BeginAttachNumbered ==
    ASSUME Types, Numbered, NEW c \in Conns, BeginAttach(c)
    PROVE  Numbered'
<1> DEFINE id == inbox[c][1]
<1>1. /\ id \in Ids /\ inbox[c] # << >> /\ handler[c] = Idle
      /\ inbox' = [inbox EXCEPT ![c] = Tail(@)]
      /\ scope' \in ScopeType /\ Began(scope, scope', id, c)
      /\ Opens(c, id) \/ Finds(c, id) \/ Passes(c, id)
  BY BeginAttachDoes
<1>2. UNCHANGED << owner, active, client, attach >>
  BY DEF BeginAttach
<1>3. inbox[c] \in Seq(Ids)
  BY DEF Types, InboxOK
<1>4. /\ Len(inbox[c]) \in Nat \ {0} /\ Len(Tail(inbox[c])) = Len(inbox[c]) - 1
      /\ \A k \in 1 .. Len(inbox[c]) - 1 : Tail(inbox[c])[k] = inbox[c][k + 1]
  BY <1>1, <1>3, Taken
<1>5. id <= client.last /\ c <= client.opened
  BY <1>1, <1>4, ConstantsTyped, NumbersTyped DEF Numbered, QueuedOK, Unopened
<1> HIDE DEF id
<1>6. OwnerOK' /\ CurrentOnly' /\ EntryOK'
  BY <1>2 DEF Numbered, OwnerOK, CurrentOnly, EntryOK
<1>7. WaiterOK'
  BY <1>1, <1>2, <1>5, BeganWaits DEF Numbered, WaiterOK
<1>8. Unsent'
  BY <1>1, <1>2, <1>5, ConstantsTyped, NumbersTyped, SMTT(30) DEF Numbered, Unsent, Began
<1>9. \A d \in Conns : handler'[d] = handler[d] \/ (d = c /\ handler'[d].id = id)
  <2>1. handler \in [Conns -> HandlerType]
    BY DEF Types, HandlerOK
  <2>2. QED
    BY <1>1, <2>1 DEF Opens, Finds, Passes
<1>10. HandledOK'
  BY <1>2, <1>5, <1>9 DEF Numbered, HandledOK
<1>11. inbox' \in [Conns -> Seq(Ids)] /\ (\A d \in Conns \ {c} : inbox'[d] = inbox[d]) /\ inbox'[c] = Tail(inbox[c])
  BY <1>1, BeginAttachTyped DEF Types, InboxOK
<1>12. Unopened'
  <2>1. SUFFICES ASSUME NEW d \in Conns, d > client.opened PROVE handler'[d] = Idle /\ inbox'[d] = << >>
    BY <1>2 DEF Unopened
  <2>2. d # c
    BY <1>5, <2>1, ConstantsTyped, NumbersTyped
  <2>3. QED
    BY <1>9, <1>11, <2>1, <2>2 DEF Numbered, Unopened
<1>13. QueuedOK'
  <2>1. SUFFICES ASSUME NEW d \in Conns, NEW k \in 1 .. Len(inbox'[d]) PROVE inbox'[d][k] <= client.last
    BY <1>2 DEF QueuedOK
  <2>2. CASE d # c
    BY <1>11, <2>2 DEF Numbered, QueuedOK
  <2>3. CASE d = c
    <3>1. k \in 1 .. Len(inbox[c]) - 1 /\ k + 1 \in 1 .. Len(inbox[c])
      BY <1>4, <1>11, <2>1, <2>3
    <3>2. QED
      BY <1>4, <1>11, <2>3, <3>1 DEF Numbered, QueuedOK
  <2>4. QED
    BY <2>2, <2>3
<1>14. WireSent' /\ ConnectionOK'
  <2>1. wire' = wire \/ (client.conn # 0 /\ wire' = Append(wire, Result(id, Failed)))
    BY <1>1, ConstantsTyped DEF Opens, Finds, Passes
  <2>2. QED
    BY <1>1, <1>2, <1>5, <2>1, RefusalSent
<1>15. QED
  BY <1>6, <1>7, <1>8, <1>10, <1>12, <1>13, <1>14 DEF Numbered

\* A transaction behind the notice to the owner.
LEMMA ShipmentSent ==
    ASSUME Types, Numbered, NEW notified \in BOOLEAN, Reaches(notified), NEW id \in Ids, id <= client.last,
           NEW lease, NEW told, NEW S, NEW sent \in Seq(S), NEW old \in Nat, notified => old # 0,
           sent = << >> \/ (client.conn # 0 /\ Shipped(sent, id, lease, told)),
           TakenOver(old) \in S, wire \in Seq(S),
           wire' = ToOwner(notified, TakenOver(old)) \o sent, UNCHANGED << client, attach >>
    PROVE  WireSent' /\ ConnectionOK'
<1> DEFINE w == ToOwner(notified, TakenOver(old))
<1>1. w \in Seq(S)
  BY ToOwnerTyped
<1>2. /\ \A k \in 1 .. Len(w) : Proper(w[k]) /\ w[k].id <= client.last
      /\ client.conn = 0 => w = << >>
  <2>1. CASE notified
    <3>1. Proper(TakenOver(old)) /\ TakenOver(old).id = 0
      BY <2>1 DEF TakenOver, Message, Proper, InTransaction
    <3>2. QED
      BY <3>1, NoticeSent
  <2>2. CASE ~ notified
    BY <2>2 DEF ToOwner, Numbered, WireSent, ConnectionOK
  <2>3. QED
    BY <2>1, <2>2
<1> HIDE DEF w
<1>3. wire' = w \o sent
  BY DEF w
<1>4. /\ Len(wire') = Len(w) + Len(sent) /\ Len(w) \in Nat /\ Len(sent) \in Nat
      /\ \A k \in 1 .. Len(w) : wire'[k] = w[k]
      /\ \A k \in 1 .. Len(sent) : wire'[Len(w) + k] = sent[k]
  BY <1>1, <1>3, Joined
<1>5. \A k \in 1 .. Len(sent) : Proper(sent[k]) /\ sent[k].id <= client.last
  <2>1. CASE sent = << >>
    BY <2>1
  <2>2. CASE Shipped(sent, id, lease, told)
    <3>1. \A k \in 1 .. Len(sent) : Proper(sent[k]) /\ (sent[k].id = id \/ sent[k].kind = "taken")
      BY <2>2 DEF Shipped
    <3>2. 0 <= client.last
      BY NumbersTyped
    <3>3. QED
      BY <3>1, <3>2 DEF Proper
  <2>3. QED
    BY <2>1, <2>2
<1>6. WireSent'
  <2>1. SUFFICES ASSUME NEW k \in 1 .. Len(wire') PROVE Proper(wire'[k]) /\ wire'[k].id <= client.last
    BY DEF WireSent
  <2>2. CASE k <= Len(w)
    BY <1>2, <1>4, <2>2
  <2>3. CASE k > Len(w)
    <3>1. k - Len(w) \in 1 .. Len(sent) /\ k = Len(w) + (k - Len(w))
      BY <1>4, <2>3
    <3>2. wire'[k] = sent[k - Len(w)]
      BY <1>4, <3>1
    <3>3. QED
      BY <1>5, <3>1, <3>2
  <2>4. QED
    BY <1>4, <2>2, <2>3
<1>7. ConnectionOK'
  <2>1. client.conn = 0 => wire' = << >> \o << >> /\ << >> \o << >> = << >>
    BY <1>2, <1>3
  <2>2. QED
    BY <2>1 DEF Numbered, ConnectionOK
<1>8. QED
  BY <1>6, <1>7

LEMMA HandlerOpened ==
    ASSUME Types, Numbered, NEW c \in Conns, handler[c].op # "idle"
    PROVE  handler[c].id <= client.last /\ c <= client.opened
<1>1. c \in Nat /\ client.opened \in Nat /\ handler[c] # Idle
  BY ConstantsTyped, NumbersTyped DEF Idle
<1>2. QED
  BY <1>1 DEF Numbered, HandledOK, Unopened

LEMMA FinishedUnsent ==
    ASSUME Types, Numbered, NEW id \in Ids, id <= client.last, NEW r, Finished(scope, scope', id, r),
           UNCHANGED client
    PROVE  Unsent'
<1>1. SUFFICES ASSUME NEW j \in Ids, j > client.last PROVE scope'.records[j] = Absent
  BY DEF Unsent
<1>2. j # id /\ scope.records[j] = Absent
  BY <1>1, IdsTyped, NumbersTyped DEF Numbered, Unsent
<1>3. QED
  BY <1>2 DEF Finished

LEMMA CommitNewNumbered ==
    ASSUME Types, Numbered, NEW c \in Conns, NEW notified \in BOOLEAN, CommitNew(c, notified)
    PROVE  Numbered'
<1> DEFINE id == handler[c].id
           l == leases + 1
<1>1. UNCHANGED << inbox, client, attach >>
  BY DEF CommitNew
<1>2. PICK selected \in Conns, sent \in Seq(MessagesOf(l)) : Commits(c, notified, selected, sent)
  BY CommitNewDoes
<1>3. /\ id \in Ids /\ handler[c].op = "attach" /\ Reaches(notified)
      /\ owner' = [lease |-> l, conn |-> selected] /\ (selected = c \/ Waits(selected, id))
      /\ Finished(scope, scope', id, l)
      /\ handler' = [handler EXCEPT ![c] = Idle]
      /\ active' = Dropping(Cut(notified))
      /\ wire' = ToOwner(notified, TakenOver(owner.lease)) \o sent
  BY <1>2 DEF Commits
<1>4. id <= client.last /\ c <= client.opened /\ leases \in Nat /\ l \in Nat /\ l # 0
  <2>1. handler[c].op # "idle"
    BY <1>3
  <2>2. id <= client.last /\ c <= client.opened
    BY <2>1, HandlerOpened
  <2>3. leases \in Nat
    BY NumbersTyped
  <2>4. QED
    BY <1>3, <2>2, <2>3
<1>5. OwnerOK'
  BY <1>1, <1>3, <1>4 DEF Numbered, OwnerOK, WaiterOK
<1>6. CurrentOnly'
  BY <1>1, <1>3, DroppedTyped DEF Numbered, CurrentOnly
<1>7. Unopened' /\ HandledOK' /\ QueuedOK' /\ EntryOK'
  BY <1>1, <1>3, NumbersTyped DEF Numbered, Unopened, HandledOK, QueuedOK, EntryOK, Idle, Types, HandlerOK
<1>8. WaiterOK'
  BY <1>1, <1>3, FinishedWaits DEF Numbered, WaiterOK
<1>9. Unsent'
  BY <1>1, <1>3, <1>4, FinishedUnsent
<1>10. WireSent' /\ ConnectionOK'
  <2> DEFINE told == client.conn # selected
  <2>1. sent = << >> \/ (client.conn # 0 /\ Shipped(sent, id, l, told))
    <3>1. CASE sent = << >>
      BY <3>1
    <3>2. CASE sent # << >>
      <4>1. client.conn # 0 /\ Dispatched(sent, id, l, told)
        BY <1>2, <3>2, ConstantsTyped DEF Commits
      <4>2. l \in 1 .. l /\ told \in BOOLEAN /\ HistoryOK
        BY <1>4 DEF Types
      <4> HIDE DEF id, l, told
      <4>3. QED
        BY <1>3, <1>4, <4>1, <4>2, DispatchShips
    <3>3. QED
      BY <3>1, <3>2
  <2>2. owner.lease \in Nat /\ owner.lease \in 0 .. l /\ 0 \in 0 .. output
    BY DEF Types, DaemonOK, HistoryOK
  <2>3. TakenOver(owner.lease) \in MessagesOf(l)
    BY <2>2 DEF TakenOver, Message, MessagesOf, Kinds
  <2>4. wire \in Seq(MessagesOf(l))
    <3>1. output' = output /\ leases' = l /\ output \in Nat
      BY DEF CommitNew, Types, HistoryOK
    <3>2. wire \in Seq(Messages') /\ Messages' = MessagesOf(l)
      BY <1>4, <3>1, MessagesGrow DEF Messages, MessagesOf
    <3>3. QED
      BY <3>2
  <2>5. notified => owner.lease # 0
    BY <1>3 DEF Reaches, Numbered, OwnerOK
  <2> HIDE DEF id, l, told
  <2>6. QED
    BY <1>1, <1>3, <1>4, <2>1, <2>2, <2>3, <2>4, <2>5, ShipmentSent
<1>11. QED
  BY <1>5, <1>6, <1>7, <1>8, <1>9, <1>10 DEF Numbered

LEMMA CommitFailedNumbered ==
    ASSUME Types, Numbered, NEW c \in Conns, NEW refused \in SUBSET Conns, CommitFailed(c, refused)
    PROVE  Numbered'
<1> DEFINE id == handler[c].id
<1>1. /\ UNCHANGED << owner, inbox, client, attach >> /\ handler' = [handler EXCEPT ![c] = Idle]
  BY DEF CommitFailed
<1>2. /\ id \in Ids /\ Finished(scope, scope', id, Failed)
      /\ \A d \in Conns : active'[d] => active[d]
      /\ \/ wire' = wire
         \/ Waits(client.conn, id) /\ wire' = Append(wire, Result(id, Failed))
  BY CommitFailedTyped
<1>3. id <= client.last
  BY DEF Numbered, HandledOK
<1>4. OwnerOK' /\ CurrentOnly' /\ QueuedOK' /\ EntryOK'
  BY <1>1, <1>2 DEF Numbered, OwnerOK, CurrentOnly, QueuedOK, EntryOK
<1>5. Unopened' /\ HandledOK'
  BY <1>1, NumbersTyped DEF Numbered, Unopened, HandledOK, Idle, Types, HandlerOK
<1>6. WaiterOK'
  BY <1>1, <1>2, FinishedWaits DEF Numbered, WaiterOK
<1>7. Unsent'
  BY <1>1, <1>2, <1>3, FinishedUnsent
<1>8. WireSent' /\ ConnectionOK'
  <2>1. Waits(client.conn, id) => client.conn # 0
    <3>1. scope.records[id].waiters \in Seq(Conns)
      BY <1>2 DEF Types, ScopeOK, ScopeType, RecordType
    <3>2. Waits(client.conn, id) => client.conn \in Conns
      BY <3>1 DEF Waits, WaitingOn
    <3>3. QED
      BY <3>2, ConstantsTyped
  <2>2. QED
    BY <1>1, <1>2, <1>3, <2>1, RefusalSent
<1>9. QED
  BY <1>4, <1>5, <1>6, <1>7, <1>8 DEF Numbered

LEMMA CommitRebindNumbered ==
    ASSUME Types, Numbered, NEW c \in Conns, NEW notified \in BOOLEAN, CommitRebind(c, notified)
    PROVE  Numbered'
<1> DEFINE id == handler[c].id
           l == handler[c].lease
<1>1. UNCHANGED << scope, inbox, client, attach >>
  BY DEF CommitRebind
<1>2. PICK sent \in Seq(Messages) : Rebound(c, notified, sent)
  BY CommitRebindDoes
<1>3. /\ id \in Ids /\ handler[c].op = "reattach" /\ l \in 1 .. leases
      /\ (notified => owner.conn # c) /\ Reaches(notified)
      /\ owner.lease = l
      /\ owner' = [lease |-> l, conn |-> c]
      /\ handler' = [handler EXCEPT ![c] = Idle]
      /\ \A d \in Conns : active'[d] => active[d]
      /\ wire' = ToOwner(notified, TakenOver(l)) \o sent
      /\ sent = << >> \/ (c = client.conn /\ Dispatched(sent, id, l, FALSE))
  BY <1>2 DEF Rebound
<1>4. id <= client.last /\ c <= client.opened /\ leases \in Nat /\ l \in Nat /\ l # 0
  <2>1. handler[c].op # "idle"
    BY <1>3
  <2>2. id <= client.last /\ c <= client.opened
    BY <2>1, HandlerOpened
  <2>3. leases \in Nat
    BY NumbersTyped
  <2>4. QED
    BY <1>3, <2>2, <2>3
<1>5. OwnerOK' /\ CurrentOnly'
  BY <1>1, <1>3, <1>4 DEF Numbered, OwnerOK, CurrentOnly
<1>6. Unopened' /\ HandledOK' /\ QueuedOK' /\ EntryOK' /\ WaiterOK' /\ Unsent'
  <2>1. Unopened' /\ HandledOK'
    BY <1>1, <1>3, NumbersTyped DEF Numbered, Unopened, HandledOK, Idle, Types, HandlerOK
  <2>2. QueuedOK' /\ EntryOK' /\ WaiterOK' /\ Unsent'
    BY <1>1 DEF Numbered, QueuedOK, EntryOK, WaiterOK, Waits, Unsent
  <2>3. QED
    BY <2>1, <2>2
<1>8. WireSent' /\ ConnectionOK'
  <2>1. sent = << >> \/ (client.conn # 0 /\ Shipped(sent, id, l, FALSE))
    <3>1. CASE sent = << >>
      BY <3>1
    <3>2. CASE sent # << >>
      <4>1. client.conn # 0 /\ Dispatched(sent, id, l, FALSE) /\ HistoryOK
        BY <1>3, <3>2, ConstantsTyped DEF Types
      <4> HIDE DEF id, l
      <4>2. QED
        BY <1>3, <1>4, <4>1, DispatchShips
    <3>3. QED
      BY <3>1, <3>2
  <2>2. TakenOver(l) \in Messages
    BY <1>3, <1>4 DEF TakenOver, Message, Messages, Kinds, Types, HistoryOK
  <2>3. wire \in Seq(Messages)
    BY NumbersTyped
  <2> HIDE DEF id, l
  <2>4. QED
    BY <1>1, <1>3, <1>4, <2>1, <2>2, <2>3, ShipmentSent
<1>9. QED
  BY <1>5, <1>6, <1>8 DEF Numbered

LEMMA CommitSupersededNumbered ==
    ASSUME Types, Numbered, NEW c \in Conns, CommitSuperseded(c)
    PROVE  Numbered'
<1> DEFINE id == handler[c].id
<1>1. UNCHANGED << owner, scope, inbox, active, client, attach >>
  BY DEF CommitSuperseded, terminal
<1>2. /\ id \in Ids /\ handler' = [handler EXCEPT ![c] = Idle]
      /\ wire' = wire \/ (c = client.conn /\ wire' = Append(wire, Result(id, Failed)))
  BY CommitSupersededTyped
<1>3. id <= client.last /\ c # 0
  BY ConstantsTyped DEF Numbered, HandledOK
<1>4. OwnerOK' /\ CurrentOnly' /\ QueuedOK' /\ EntryOK' /\ Unopened' /\ HandledOK' /\ WaiterOK' /\ Unsent'
  BY <1>1, <1>2, NumbersTyped DEF Numbered, OwnerOK, CurrentOnly, QueuedOK, EntryOK, Unopened, HandledOK, Idle,
           Types, HandlerOK, WaiterOK, Waits, Unsent
<1>5. WireSent' /\ ConnectionOK'
  BY <1>1, <1>2, <1>3, RefusalSent
<1>6. QED
  BY <1>4, <1>5 DEF Numbered

LEMMA EndsNumbered ==
    ASSUME Types, Numbered, NEW c \in Conns, WriterEnds(c) \/ ReaderEnds(c)
    PROVE  Numbered'
<1>1. /\ Quit(scope, scope') /\ \A d \in Conns : active'[d] <=> active[d] /\ d # c
      /\ UNCHANGED << owner, handler, wire, client, attach >>
      /\ inbox' = inbox \/ inbox' = [inbox EXCEPT ![c] = << >>]
  BY EndsTyped
<1>2. ConnectionOK' /\ OwnerOK' /\ CurrentOnly' /\ WireSent' /\ EntryOK' /\ HandledOK'
  BY <1>1 DEF Numbered, ConnectionOK, OwnerOK, CurrentOnly, WireSent, EntryOK, HandledOK
<1>3. \A d \in Conns : inbox'[d] = inbox[d] \/ inbox'[d] = << >>
  BY <1>1 DEF Types, InboxOK
<1>4. Unopened' /\ QueuedOK'
  BY <1>1, <1>3 DEF Numbered, Unopened, QueuedOK
<1>5. WaiterOK'
  BY <1>1, QuitWaits DEF Numbered, WaiterOK
<1>6. Unsent'
  BY <1>1 DEF Numbered, Unsent, Quit
<1>7. QED
  BY <1>2, <1>4, <1>5, <1>6 DEF Numbered

\* A step of the client on its connection.
LEMMA SameConnection ==
    ASSUME Types, Numbered,
           UNCHANGED << owner, scope, handler, inbox, active >>,
           client'.conn = client.conn, client'.opened = client.opened, client'.last = client.last,
           client.conn = 0 => attach'.id = 0, EntryOK',
           wire' = wire \/ Receives
    PROVE  Numbered'
<1>1. OwnerOK' /\ CurrentOnly' /\ Unopened' /\ WaiterOK' /\ Unsent' /\ HandledOK' /\ QueuedOK'
  BY DEF Numbered, OwnerOK, CurrentOnly, Unopened, WaiterOK, Waits, Unsent, HandledOK, QueuedOK
<1>2. CASE wire' = wire
  BY <1>1, <1>2 DEF Numbered, ConnectionOK, WireSent
<1>3. CASE Receives
  <2>1. /\ wire # << >> /\ Len(wire) \in Nat \ {0} /\ Len(wire') = Len(wire) - 1
        /\ \A k \in 1 .. Len(wire) - 1 : wire'[k] = wire[k + 1]
    BY <1>3, ReceivesDoes
  <2>2. WireSent'
    <3>1. SUFFICES ASSUME NEW k \in 1 .. Len(wire') PROVE Proper(wire'[k]) /\ wire'[k].id <= client.last
      BY DEF WireSent
    <3>2. k + 1 \in 1 .. Len(wire) /\ wire'[k] = wire[k + 1]
      BY <2>1, <3>1
    <3>3. QED
      BY <3>2 DEF Numbered, WireSent
  <2>3. ConnectionOK'
    BY <2>1 DEF Numbered, ConnectionOK
  <2>4. QED
    BY <1>1, <2>2, <2>3 DEF Numbered
<1>4. QED
  BY <1>2, <1>3

LEMMA FailureNumbered ==
    ASSUME Types, Numbered, AttachRefused \/ Disorder \/ Timeout
    PROVE  Numbered'
<1>1. PICK definite \in BOOLEAN : Fails(definite)
  BY DEF AttachRefused, Disorder, Timeout
<1>2. /\ UNCHANGED << owner, scope, handler, inbox, active >> /\ (wire' = wire \/ Receives)
  BY DEF AttachRefused, Disorder, Timeout, Receives, daemon
<1>3. attach' = Away /\ client' = AfterFailure(client, attach.origin, definite)
  BY <1>1 DEF Fails
<1>4. client'.conn = client.conn /\ client'.opened = client.opened /\ client'.last = client.last
  BY <1>3, FailureTyped DEF Types, ClientOK
<1>5. EntryOK' /\ attach'.id = 0
  BY <1>3, <1>4, NumbersTyped DEF EntryOK, Away
<1>6. QED
  BY <1>2, <1>4, <1>5, SameConnection

LEMMA HandledNumbered ==
    ASSUME Types, Numbered,
           AttachAccepted \/ ReplayBegin \/ ReplayChunk \/ ReplayEnd \/ ShowOutput \/ LoseLease \/ Ignore
    PROVE  Numbered'
<1>1. Receives /\ UNCHANGED << owner, scope, handler, inbox, active >>
  BY DEF AttachAccepted, ReplayBegin, ReplayChunk, ReplayEnd, ShowOutput, LoseLease, Ignore, Receives, daemon
<1>2. client.conn # 0
  BY <1>1, ReceivesDoes DEF Numbered, ConnectionOK
<1>3. client'.conn = client.conn /\ client'.opened = client.opened /\ client'.last = client.last
  BY DEF AttachAccepted, ReplayBegin, ReplayChunk, ReplayEnd, ShowOutput, LoseLease, Ignore, Cleared,
         Types, ClientOK, ClientType
<1>4. EntryOK'
  <2>1. CASE ReplayEnd
    BY <1>3, <2>1, NumbersTyped DEF ReplayEnd, EntryOK, Away
  <2>2. CASE AttachAccepted \/ ReplayBegin \/ ReplayChunk
    <3>1. attach.id # 0 /\ attach'.id = attach.id
      BY <2>2 DEF AttachAccepted, ReplayBegin, ReplayChunk, Answers, Types, AttachOK, AttachType
    <3>2. QED
      BY <1>3, <3>1 DEF Numbered, EntryOK
  <2>3. CASE ShowOutput \/ LoseLease \/ Ignore
    BY <1>3, <2>3 DEF ShowOutput, LoseLease, Ignore, Numbered, EntryOK
  <2>4. QED
    BY <2>1, <2>2, <2>3
<1>5. QED
  BY <1>1, <1>2, <1>3, <1>4, SameConnection

\* A step of the client onto a new connection, with the requests it opens with.
LEMMA NewConnection ==
    ASSUME Types, Numbered, NEW requests \in Seq(Ids), client.opened + 1 \in Conns,
           \A d \in Conns : ~ active[d],
           inbox' = [inbox EXCEPT ![client.opened + 1] = requests],
           active' = [active EXCEPT ![client.opened + 1] = TRUE],
           wire' = << >>, UNCHANGED << owner, scope, handler >>,
           client'.conn = client.opened + 1, client'.opened = client.opened + 1,
           client'.last \in Nat, client.last <= client'.last,
           \A k \in 1 .. Len(requests) : requests[k] <= client'.last, EntryOK'
    PROVE  Numbered'
<1> DEFINE n == client.opened + 1
<1>1. n \in Nat /\ n # 0 /\ client.opened \in Nat /\ client.last \in Nat
  BY NumbersTyped
<1> HIDE DEF n
<1>2. ConnectionOK' /\ WireSent'
  BY <1>1 DEF ConnectionOK, WireSent, n
<1>3. CurrentOnly'
  BY DEF CurrentOnly, Types, ActiveOK
<1>4. OwnerOK' /\ WaiterOK'
  <2>1. OwnerOK'
    BY <1>1, NumbersTyped DEF Numbered, OwnerOK
  <2>2. ASSUME NEW c \in Conns, NEW id \in Ids, Waits(c, id)' PROVE c <= client'.opened
    <3>1. c \in Nat /\ c <= client.opened
      BY <2>2, ConstantsTyped DEF Waits, Numbered, WaiterOK
    <3>2. QED
      BY <1>1, <3>1
  <2>3. QED
    BY <2>1, <2>2 DEF WaiterOK
<1>5. inbox' \in [Conns -> Seq(Ids)] /\ inbox'[n] = requests /\ \A d \in Conns \ {n} : inbox'[d] = inbox[d]
  BY DEF Types, InboxOK, n
<1>6. Unopened'
  <2>1. SUFFICES ASSUME NEW d \in Conns, d > n PROVE handler'[d] = Idle /\ inbox'[d] = << >>
    BY DEF Unopened, n
  <2>2. d \in Nat /\ d # n /\ d > client.opened
    BY <1>1, <2>1, ConstantsTyped DEF n
  <2>3. QED
    BY <1>5, <2>1, <2>2 DEF Numbered, Unopened
<1>7. Unsent'
  <2>1. SUFFICES ASSUME NEW j \in Ids, j > client'.last PROVE scope'.records[j] = Absent
    BY DEF Unsent
  <2>2. j > client.last
    BY <1>1, <2>1, IdsTyped
  <2>3. QED
    BY <2>1, <2>2 DEF Numbered, Unsent
<1>8. HandledOK'
  <2>1. SUFFICES ASSUME NEW d \in Conns PROVE handler[d].id <= client'.last
    BY DEF HandledOK
  <2>2. handler[d].id \in Nat /\ handler[d].id <= client.last
    BY NumbersTyped DEF Numbered, HandledOK
  <2>3. QED
    BY <1>1, <2>2
<1>9. QueuedOK'
  <2>1. SUFFICES ASSUME NEW d \in Conns, NEW k \in 1 .. Len(inbox'[d]) PROVE inbox'[d][k] <= client'.last
    BY DEF QueuedOK
  <2>2. CASE d = n
    BY <1>5, <2>1, <2>2
  <2>3. CASE d # n
    <3>1. inbox'[d] = inbox[d] /\ inbox[d] \in Seq(Ids) /\ inbox[d][k] \in Ids
      BY <1>5, <2>1, <2>3 DEF Types, InboxOK
    <3>2. inbox[d][k] \in Nat /\ inbox[d][k] <= client.last
      BY <2>1, <3>1, IdsTyped DEF Numbered, QueuedOK
    <3>3. QED
      BY <1>1, <3>1, <3>2
  <2>4. QED
    BY <2>2, <2>3
<1>10. QED
  BY <1>2, <1>3, <1>4, <1>6, <1>7, <1>8, <1>9 DEF Numbered

LEMMA NobodyUp ==
    ASSUME Types, Numbered, client.conn = 0 \/ ~ active[client.conn]
    PROVE  \A d \in Conns : ~ active[d]
BY ConstantsTyped DEF Numbered, CurrentOnly

LEMMA ConnectNumbered ==
    ASSUME Types, Numbered, Connect
    PROVE  Numbered'
<1>1. /\ Reconnects(<< >>) /\ client' = Reconnected(client) /\ client.conn = 0
      /\ UNCHANGED << owner, scope, handler, attach >>
  BY DEF Connect, daemon
<1>2. << >> \in Seq(Ids) /\ Len(<< >>) = 0
  OBVIOUS
<1>3. /\ client.opened + 1 \in Conns /\ wire' = << >>
      /\ inbox' = [inbox EXCEPT ![client.opened + 1] = << >>]
      /\ active' = [active EXCEPT ![client.opened + 1] = TRUE]
  BY <1>1, <1>2, ReconnectsDoes
<1>4. /\ client'.conn = client.opened + 1 /\ client'.opened = client.opened + 1
      /\ client'.last = client.last
  BY <1>1, <1>3, ReconnectedTyped DEF Types, ClientOK
<1>5. client.last \in Nat /\ client.last <= client.last /\ EntryOK'
  BY <1>1, <1>4, NumbersTyped DEF Numbered, EntryOK
<1>6. \A d \in Conns : ~ active[d]
  BY <1>1, NobodyUp
<1>7. \A k \in 1 .. Len(<< >>) : << >>[k] <= client'.last
  BY <1>2
<1>8. client'.last \in Nat /\ client.last <= client'.last
  BY <1>4, <1>5
<1> DEFINE requests == << >>
<1>9. requests \in Seq(Ids) /\ (\A k \in 1 .. Len(requests) : requests[k] <= client'.last)
      /\ inbox' = [inbox EXCEPT ![client.opened + 1] = requests]
  BY <1>2, <1>3, <1>7
<1> HIDE DEF requests
<1>10. QED
  BY <1>1, <1>3, <1>4, <1>5, <1>6, <1>8, <1>9, NewConnection

LEMMA ResumeNumbered ==
    ASSUME Types, Numbered, ResumeAndResend
    PROVE  Numbered'
<1>1. /\ attach.id \in Ids /\ << attach.id >> \in Seq(Ids)
      /\ client.opened + 1 \in Conns /\ client.opened \in Nat
      /\ inbox' = [inbox EXCEPT ![client.opened + 1] = << attach.id >>]
      /\ active' = [active EXCEPT ![client.opened + 1] = TRUE]
      /\ wire' = << >>
      /\ client' = [Reconnected(client) EXCEPT !.lease = 0, !.expected = 0]
      /\ attach' = Awaiting(attach.id, attach.origin)
      /\ UNCHANGED << owner, scope, handler >>
  BY ResumeTyped
<1>2. /\ Reconnected(client) \in ClientType /\ Reconnected(client).conn = client.opened + 1
      /\ Reconnected(client).opened = client.opened + 1 /\ Reconnected(client).last = client.last
  BY <1>1, ReconnectedTyped DEF Types, ClientOK
<1>3. client'.conn = client.opened + 1 /\ client'.opened = client.opened + 1 /\ client'.last = client.last
  BY <1>1, <1>2 DEF ClientType
<1>4. client.last \in Nat /\ client.last <= client.last /\ attach.id <= client.last /\ attach.id # 0
  BY <1>1, ConstantsTyped, NumbersTyped DEF Numbered, EntryOK
<1>5. EntryOK'
  BY <1>1, <1>3, <1>4 DEF EntryOK, Awaiting, Away
<1>6. \A d \in Conns : ~ active[d]
  BY NobodyUp DEF ResumeAndResend
<1>7. \A k \in 1 .. Len(<< attach.id >>) : << attach.id >>[k] <= client'.last
  BY <1>3, <1>4
<1>8. QED
  BY <1>1, <1>3, <1>4, <1>5, <1>6, <1>7, NewConnection

LEMMA LosesNumbered ==
    ASSUME Types, Numbered, GiveUp \/ Disconnect
    PROVE  Numbered'
<1>1. /\ wire' = << >> /\ client'.conn = 0
      /\ UNCHANGED << owner, scope, handler, inbox, active >>
  BY LosesTyped
<1>2. \A d \in Conns : ~ active[d]
  BY NobodyUp DEF GiveUp, Disconnect
<1>3. client'.opened = client.opened /\ client'.last = client.last /\ EntryOK' /\ attach'.id = 0
  <2>1. CASE GiveUp
    <3> DEFINE left == [client EXCEPT !.conn = 0]
    <3>1. left \in ClientType /\ left.opened = client.opened /\ left.last = client.last
      BY AttachReplayAssumption DEF Types, ClientOK, ClientType
    <3>2. PICK definite \in BOOLEAN : client' = AfterFailure(left, attach.origin, definite)
      BY <2>1 DEF GiveUp
    <3> HIDE DEF left
    <3>3. client'.opened = client.opened /\ client'.last = client.last
      BY <3>1, <3>2, FailureTyped
    <3>4. QED
      BY <2>1, <3>3, NumbersTyped DEF GiveUp, EntryOK, Away
  <2>2. CASE Disconnect
    BY <2>2 DEF Disconnect, EntryOK, Numbered, Types, ClientOK, ClientType
  <2>3. QED
    BY <2>1, <2>2
<1>4. ConnectionOK' /\ WireSent' /\ CurrentOnly'
  BY <1>1, <1>2, <1>3 DEF ConnectionOK, WireSent, CurrentOnly
<1>5. OwnerOK' /\ Unopened' /\ WaiterOK' /\ Unsent' /\ HandledOK' /\ QueuedOK'
  BY <1>1, <1>3 DEF Numbered, OwnerOK, Unopened, WaiterOK, Waits, Unsent, HandledOK, QueuedOK
<1>6. QED
  BY <1>3, <1>4, <1>5 DEF Numbered

LEMMA StartAttachNumbered ==
    ASSUME Types, Numbered, NEW origin \in {"user", "queue"}, StartAttach(origin)
    PROVE  Numbered'
<1> DEFINE id == client.last + 1
<1>1. /\ id \in Ids /\ client.conn # 0 /\ client.conn \in Conns /\ attach.id = 0
      /\ UNCHANGED << owner, scope, handler >>
      /\ StartedEntry \in ClientType
      /\ Writes(id, origin) \/ Reopens(id, origin) \/ Abandons(origin)
  BY StartAttachDoes
<1>2. /\ StartedEntry.conn = client.conn /\ StartedEntry.opened = client.opened
      /\ StartedEntry.last = id
  BY DEF StartedEntry, Types, ClientOK, ClientType
<1>3. client.last \in Nat /\ id \in Nat /\ client.last <= id /\ id # 0
  BY NumbersTyped
<1> HIDE DEF id
<1>4. Awaiting(id, origin).id = id
  BY DEF Awaiting, Away
<1>5. ASSUME client'.opened = client.opened, client'.last = id, UNCHANGED << owner, scope, handler >>
      PROVE  OwnerOK' /\ WaiterOK' /\ Unsent' /\ HandledOK'
  <2>1. OwnerOK' /\ WaiterOK'
    BY <1>5 DEF Numbered, OwnerOK, WaiterOK, Waits
  <2>2. ASSUME NEW j \in Ids, j > id PROVE scope'.records[j] = Absent
    <3>1. j > client.last
      BY <1>3, <2>2, IdsTyped
    <3>2. QED
      BY <1>5, <2>2, <3>1 DEF Numbered, Unsent
  <2>3. ASSUME NEW d \in Conns PROVE handler[d].id <= id
    <3>1. handler[d].id \in Nat /\ handler[d].id <= client.last
      BY <2>3, NumbersTyped DEF Numbered, HandledOK
    <3>2. QED
      BY <1>3, <3>1
  <2>4. QED
    BY <1>5, <2>1, <2>2, <2>3 DEF Unsent, HandledOK
<1>6. ASSUME NEW d \in Conns, NEW k \in 1 .. Len(inbox[d]) PROVE inbox[d][k] <= id
  <2>1. inbox[d] \in Seq(Ids) /\ inbox[d][k] \in Ids
    BY <1>6 DEF Types, InboxOK
  <2>2. inbox[d][k] \in Nat /\ inbox[d][k] <= client.last
    BY <1>6, <2>1, IdsTyped DEF Numbered, QueuedOK
  <2>3. QED
    BY <1>3, <2>2
<1>7. CASE Writes(id, origin)
  <2>1. /\ inbox' = [inbox EXCEPT ![client.conn] = Append(@, id)]
        /\ client' = StartedEntry /\ attach' = Awaiting(id, origin) /\ UNCHANGED << active, wire >>
    BY <1>7 DEF Writes
  <2>2. OwnerOK' /\ WaiterOK' /\ Unsent' /\ HandledOK'
    BY <1>1, <1>2, <1>5, <2>1
  <2>3. ConnectionOK' /\ CurrentOnly' /\ EntryOK'
    BY <1>1, <1>2, <1>3, <1>4, <2>1 DEF Numbered, ConnectionOK, CurrentOnly, EntryOK
  <2>4. WireSent'
    <3>1. SUFFICES ASSUME NEW k \in 1 .. Len(wire) PROVE Proper(wire[k]) /\ wire[k].id <= id
      BY <1>2, <2>1 DEF WireSent
    <3>2. Proper(wire[k]) /\ wire[k].id <= client.last /\ wire[k].id \in Nat
      BY <3>1, NumbersTyped DEF Numbered, WireSent
    <3>3. QED
      BY <1>3, <3>2
  <2> DEFINE c == client.conn
  <2>5. /\ inbox'[c] = Append(inbox[c], id) /\ inbox[c] \in Seq(Ids)
        /\ \A d \in Conns \ {c} : inbox'[d] = inbox[d]
    BY <1>1, <2>1 DEF Types, InboxOK
  <2>6. Unopened'
    <3>1. SUFFICES ASSUME NEW d \in Conns, d > client.opened PROVE handler[d] = Idle /\ inbox'[d] = << >>
      BY <1>1, <1>2, <2>1 DEF Unopened
    <3>2. d # c
      BY <1>1, <3>1, ConstantsTyped, NumbersTyped DEF Numbered, ConnectionOK
    <3>3. QED
      BY <2>5, <3>1, <3>2 DEF Numbered, Unopened
  <2>7. QueuedOK'
    <3>1. SUFFICES ASSUME NEW d \in Conns, NEW k \in 1 .. Len(inbox'[d]) PROVE inbox'[d][k] <= id
      BY <1>2, <2>1 DEF QueuedOK
    <3>2. CASE d # c
      BY <1>6, <2>5, <3>1, <3>2
    <3>3. CASE d = c
      <4>1. /\ Len(inbox'[c]) = Len(inbox[c]) + 1 /\ inbox'[c][Len(inbox[c]) + 1] = id
            /\ \A j \in 1 .. Len(inbox[c]) : inbox'[c][j] = inbox[c][j]
        BY <1>1, <2>5, Appended
      <4>2. Len(inbox[c]) \in Nat
        BY <2>5
      <4>3. k \in 1 .. Len(inbox[c]) \/ k = Len(inbox[c]) + 1
        BY <3>1, <3>3, <4>1, <4>2
      <4>4. QED
        BY <1>1, <1>3, <1>6, <3>3, <4>1, <4>3, SMTT(30)
    <3>4. QED
      BY <3>2, <3>3
  <2>8. QED
    BY <2>2, <2>3, <2>4, <2>6, <2>7 DEF Numbered
<1>8. CASE Reopens(id, origin)
  <2>1. << id >> \in Seq(Ids)
    BY <1>1
  <2>2. /\ client.opened + 1 \in Conns /\ wire' = << >>
        /\ inbox' = [inbox EXCEPT ![client.opened + 1] = << id >>]
        /\ active' = [active EXCEPT ![client.opened + 1] = TRUE]
    BY <1>8, <2>1, ReconnectsDoes DEF Reopens
  <2>3. client'.conn = client.opened + 1 /\ client'.opened = client.opened + 1 /\ client'.last = id
    BY <1>1, <1>2, <1>8, <2>2, ReconnectedTyped DEF Reopens
  <2>4. \A d \in Conns : ~ active[d]
    BY <1>8, NobodyUp DEF Reopens
  <2>5. EntryOK'
    BY <1>3, <1>4, <1>8, <2>3 DEF Reopens, EntryOK
  <2>6. \A k \in 1 .. Len(<< id >>) : << id >>[k] <= client'.last
    BY <1>3, <2>3
  <2>7. QED
    BY <1>1, <1>3, <2>1, <2>2, <2>3, <2>4, <2>5, <2>6, NewConnection
<1>9. CASE Abandons(origin)
  <2> DEFINE left == [StartedEntry EXCEPT !.conn = 0]
  <2>1. left \in ClientType /\ left.conn = 0 /\ left.opened = client.opened /\ left.last = id
    BY <1>1, <1>2, AttachReplayAssumption DEF ClientType
  <2>2. PICK definite \in BOOLEAN : client' = AfterFailure(left, origin, definite)
    BY <1>9 DEF Abandons
  <2> HIDE DEF left
  <2>3. client'.conn = 0 /\ client'.opened = client.opened /\ client'.last = id
    BY <2>1, <2>2, FailureTyped
  <2>4. wire' = << >> /\ UNCHANGED << attach, inbox, active >> /\ \A d \in Conns : ~ active[d]
    BY <1>9, NobodyUp DEF Abandons
  <2>5. OwnerOK' /\ WaiterOK' /\ Unsent' /\ HandledOK'
    BY <1>1, <1>5, <2>3
  <2>6. ConnectionOK' /\ WireSent' /\ CurrentOnly' /\ EntryOK'
    BY <1>1, <1>3, <2>3, <2>4 DEF ConnectionOK, WireSent, CurrentOnly, EntryOK, Numbered
  <2>7. Unopened' /\ QueuedOK'
    BY <1>1, <1>6, <2>3, <2>4 DEF Numbered, Unopened, QueuedOK
  <2>8. QED
    BY <2>5, <2>6, <2>7 DEF Numbered
<1>10. QED
  BY <1>1, <1>7, <1>8, <1>9

LEMMA NextNumbered == Types /\ Numbered /\ [Next]_vars => Numbered'
<1> SUFFICES ASSUME Types, Numbered, [Next]_vars PROVE Numbered'
  OBVIOUS
<1>1. ASSUME NEW delivered \in BOOLEAN, NEW n \in 1 .. MaxRead, Publish(n, delivered) PROVE Numbered'
  BY <1>1, PublishNumbered
<1>2. ASSUME NEW delivered \in BOOLEAN, Takeover(delivered) PROVE Numbered'
  BY <1>2, TakeoverNumbered
<1>3. ASSUME NEW delivered \in BOOLEAN, NEW c \in Conns, CommitNew(c, delivered) PROVE Numbered'
  BY <1>3, CommitNewNumbered
<1>4. ASSUME NEW delivered \in BOOLEAN, NEW c \in Conns, CommitRebind(c, delivered) PROVE Numbered'
  BY <1>4, CommitRebindNumbered
<1>5. ASSUME NEW c \in Conns, BeginAttach(c) PROVE Numbered'
  BY <1>5, BeginAttachNumbered
<1>6. ASSUME NEW c \in Conns, NEW refused \in SUBSET Conns, CommitFailed(c, refused) PROVE Numbered'
  BY <1>6, CommitFailedNumbered
<1>7. ASSUME NEW c \in Conns, CommitSuperseded(c) PROVE Numbered'
  BY <1>7, CommitSupersededNumbered
<1>8. ASSUME NEW c \in Conns, WriterEnds(c) \/ ReaderEnds(c) PROVE Numbered'
  BY <1>8, EndsNumbered
<1>9. ASSUME NEW origin \in {"user", "queue"}, StartAttach(origin) PROVE Numbered'
  BY <1>9, StartAttachNumbered
<1>10. ASSUME Connect \/ ResumeAndResend \/ GiveUp \/ Disconnect \/ Timeout PROVE Numbered'
  BY <1>10, ConnectNumbered, ResumeNumbered, LosesNumbered, FailureNumbered
<1>11. ASSUME \/ AttachAccepted \/ AttachRefused \/ ReplayBegin \/ ReplayChunk \/ ReplayEnd
              \/ Disorder \/ ShowOutput \/ LoseLease \/ Ignore
       PROVE  Numbered'
  BY <1>11, FailureNumbered, HandledNumbered
<1>12. CASE UNCHANGED vars
  BY <1>12 DEF vars, Numbered, ConnectionOK, OwnerOK, CurrentOnly, Unopened, WaiterOK, Waits, Unsent, HandledOK,
               QueuedOK, WireSent, EntryOK
<1>13. QED
  BY <1>1, <1>2, <1>3, <1>4, <1>5, <1>6, <1>7, <1>8, <1>9, <1>10, <1>11, <1>12 DEF Next, Daemon, Client
-----------------------------------------------------------------------------
(***************************************************************************)
(* How requests are read: one Attach of one connection at a time, each     *)
(* read once, and a lease is the answer of one request only.               *)
(***************************************************************************)
InHand(c, id) == (handler[c].op # "idle" /\ handler[c].id = id) \/ Waits(c, id)
Unread(c, id) == \E k \in 1 .. Len(inbox[c]) : inbox[c][k] = id

Granting(id) == scope.records[id].response \notin {None, Failed}

OneLease ==
    /\ \A c \in Conns, id \in Ids :
          handler[c].op = "reattach" /\ scope.records[id].response = handler[c].lease => id = handler[c].id
    /\ \A i, j \in Ids :
          Granting(i) /\ scope.records[i].response = scope.records[j].response => i = j
ReadOnce ==
    /\ \A c \in Conns, id \in Ids : InHand(c, id) => ~ Unread(c, id)
    /\ \A c \in Conns : \A j, k \in 1 .. Len(inbox[c]) : inbox[c][j] = inbox[c][k] => j = k
Asking ==
    /\ \A c \in Conns : handler[c].op = "attach" => scope.records[handler[c].id].state = "pending"
    /\ \A c, d \in Conns : handler[c].op = "attach" /\ handler[d].op = "attach" /\ handler[c].id = handler[d].id => c = d
    /\ \A c \in Conns : handler[c].op = "reattach" => ~ Waits(c, handler[c].id)
    /\ \A c \in Conns, id \in Ids : Waits(c, id) => scope.records[id].state = "pending"

Reading == OneLease /\ ReadOnce /\ Asking

LEMMA InitReading == Init => Reading
<1> SUFFICES ASSUME Init PROVE Reading
  OBVIOUS
<1>1. /\ \A id \in Ids : scope.records[id] = Absent
      /\ \A c \in Conns : handler[c] = Idle /\ inbox[c] = << >>
  BY DEF Init, EmptyScope
<1>2. \A c \in Conns : handler[c].op = "idle" /\ Len(inbox[c]) = 0
  BY <1>1 DEF Idle
<1>3. \A id \in Ids : ~ Granting(id) /\ \A c \in Conns : ~ Waits(c, id)
  BY <1>1 DEF Waits, WaitingOn, Absent, Granting
<1>4. OneLease
  BY <1>2, <1>3 DEF OneLease
<1>5. ReadOnce
  BY <1>2 DEF ReadOnce, Unread
<1>6. Asking
  BY <1>2, <1>3 DEF Asking
<1>7. QED
  BY <1>4, <1>5, <1>6 DEF Reading

\* Nothing of it changes.
LEMMA SameReading ==
    ASSUME Reading, UNCHANGED << scope, handler, inbox >>
    PROVE  Reading'
BY DEF Reading, OneLease, ReadOnce, Asking, InHand, Unread, Waits, Granting

LEMMA HandlerTyped ==
    ASSUME Types, NEW c \in Conns
    PROVE  /\ handler[c].op \in {"idle", "attach", "reattach"} /\ handler[c].lease \in 0 .. leases
           /\ handler[c].op = "idle" => handler[c] = Idle
           /\ handler[c].op # "idle" => handler[c].id \in Ids
           /\ handler[c].op = "reattach" => handler[c].lease \in 1 .. leases
           /\ \A id \in Ids : scope.records[id] \in RecordType /\ scope.records[id].response \in 0 .. leases \cup {None}
           /\ inbox[c] \in Seq(Ids)
BY DEF Types, HandlerOK, HandlerType, Within, ScopeOK, ScopeType, Replied, InboxOK

LEMMA BeginAttachReading ==
    ASSUME Types, Numbered, Reading, NEW c \in Conns, BeginAttach(c)
    PROVE  Reading'
<1> DEFINE id == inbox[c][1]
           lease == scope.records[id].response
<1>1. /\ id \in Ids /\ inbox[c] # << >> /\ handler[c] = Idle
      /\ inbox' = [inbox EXCEPT ![c] = Tail(@)]
      /\ scope' \in ScopeType /\ Began(scope, scope', id, c)
      /\ Opens(c, id) \/ Finds(c, id) \/ Passes(c, id)
  BY BeginAttachDoes
<1>2. inbox[c] \in Seq(Ids)
  BY DEF Types, InboxOK
<1>3. /\ Len(inbox[c]) \in Nat \ {0} /\ Len(Tail(inbox[c])) = Len(inbox[c]) - 1
      /\ \A k \in 1 .. Len(inbox[c]) - 1 : Tail(inbox[c])[k] = inbox[c][k + 1]
  BY <1>1, <1>2, Taken
<1>4. (\A d \in Conns \ {c} : inbox'[d] = inbox[d]) /\ inbox'[c] = Tail(inbox[c])
  BY <1>1, BeginAttachTyped DEF Types, InboxOK
<1>5. Unread(c, id) /\ (\A j \in Ids : Unread(c, j)' => Unread(c, j) /\ j # id)
  <2>1. Unread(c, id)
    BY <1>3 DEF Unread
  <2>2. ASSUME NEW j \in Ids, NEW k \in 1 .. Len(inbox'[c]), inbox'[c][k] = j PROVE Unread(c, j) /\ j # id
    <3>1. k + 1 \in 1 .. Len(inbox[c]) /\ inbox[c][k + 1] = j /\ k + 1 # 1 /\ 1 \in 1 .. Len(inbox[c])
      BY <1>3, <1>4, <2>2
    <3>2. QED
      BY <3>1 DEF Unread, Reading, ReadOnce
  <2>3. QED
    BY <2>1, <2>2 DEF Unread
<1>6. \A d \in Conns \ {c}, j \in Ids : Unread(d, j)' <=> Unread(d, j)
  BY <1>4 DEF Unread
<1>7. /\ \A d \in Conns \ {c} : handler'[d] = handler[d]
      /\ \/ handler'[c] = handler[c]
         \/ Opens(c, id) /\ handler'[c] = [op |-> "attach", id |-> id, lease |-> 0]
         \/ Finds(c, id) /\ handler'[c] = [op |-> "reattach", id |-> id, lease |-> lease]
  <2>1. handler \in [Conns -> HandlerType]
    BY DEF Types, HandlerOK
  <2>2. QED
    BY <1>1, <2>1 DEF Opens, Finds, Passes
<1>8. \A d \in Conns, j \in Ids : Waits(d, j)' => Waits(d, j) \/ (d = c /\ j = id)
  BY <1>1, BeganWaits
<1>9. /\ \A j \in Ids \ {id} : scope'.records[j] = scope.records[j]
      /\ \/ scope' = scope
         \/ /\ scope.records[id].state = "pending" /\ scope'.records[id].state = "pending"
            /\ scope'.records[id].response = lease
         \/ /\ scope.records[id].state = "absent" /\ scope'.records[id].state = "pending"
            /\ scope'.records[id].response = None
  BY <1>1 DEF Began, Fresh
<1>10. handler[c].op = "idle"
  BY <1>1 DEF Idle
<1>11. lease \in 0 .. leases \cup {None} /\ leases \in Nat /\ None \notin Nat /\ id \in Ids
  BY <1>1, ConstantsTyped, NumbersTyped, HandlerTyped
<1> HIDE DEF id, lease
<1>12. \A j \in Ids : \/ scope'.records[j].response = scope.records[j].response
                      \/ scope'.records[j].response = None
  BY <1>9 DEF lease
<1>13. OneLease'
  <2>1. ASSUME NEW d \in Conns, NEW j \in Ids, handler'[d].op = "reattach",
               scope'.records[j].response = handler'[d].lease
        PROVE  j = handler'[d].id
    <3>1. CASE handler'[d] = handler[d]
      <4>1. handler[d].lease \in 1 .. leases
        BY <2>1, <3>1, HandlerTyped
      <4>2. scope.records[j].response = handler[d].lease
        BY <1>11, <1>12, <2>1, <3>1, <4>1
      <4>3. QED
        BY <2>1, <3>1, <4>2 DEF Reading, OneLease
    <3>2. CASE handler'[d] # handler[d]
      <4>1. d = c /\ Finds(c, id) /\ handler'[d].lease = lease /\ handler'[d].id = id
        BY <1>7, <2>1, <3>2
      <4>2. scope' = scope /\ lease \in 1 .. leases
        BY <4>1 DEF Finds, lease
      <4>3. scope.records[j].response = lease /\ Granting(j)
        BY <1>11, <2>1, <4>1, <4>2 DEF Granting, Failed
      <4>4. QED
        BY <1>11, <4>1, <4>3 DEF Reading, OneLease, lease
    <3>3. QED
      BY <3>1, <3>2
  <2>2. ASSUME NEW i \in Ids, NEW j \in Ids, Granting(i)', (scope.records[i].response = scope.records[j].response)'
        PROVE  i = j
    <3>1. scope'.records[i].response = scope.records[i].response /\ scope'.records[j].response = scope.records[j].response
      BY <1>12, <2>2 DEF Granting
    <3>2. QED
      BY <2>2, <3>1 DEF Reading, OneLease, Granting
  <2>3. QED
    BY <2>1, <2>2 DEF OneLease
<1>14. ReadOnce'
  <2>1. ASSUME NEW d \in Conns, NEW j \in Ids, InHand(d, j)', Unread(d, j)' PROVE FALSE
    <3>1. InHand(d, j)
      BY <1>5, <1>7, <1>8, <1>10, <2>1 DEF InHand
    <3>2. Unread(d, j)
      BY <1>5, <1>6, <2>1
    <3>3. QED
      BY <3>1, <3>2 DEF Reading, ReadOnce
  <2>2. ASSUME NEW d \in Conns, NEW i \in 1 .. Len(inbox'[d]), NEW j \in 1 .. Len(inbox'[d]),
               inbox'[d][i] = inbox'[d][j]
        PROVE  i = j
    <3>1. CASE d = c
      <4>0. /\ i \in 1 .. Len(inbox[c]) - 1 /\ j \in 1 .. Len(inbox[c]) - 1
            /\ Tail(inbox[c])[i] = Tail(inbox[c])[j]
        BY <1>3, <1>4, <2>2, <3>1
      <4>1. /\ i + 1 \in 1 .. Len(inbox[c]) /\ j + 1 \in 1 .. Len(inbox[c])
            /\ inbox[c][i + 1] = inbox[c][j + 1]
        BY <1>3, <4>0
      <4>2. i + 1 = j + 1
        BY <4>1 DEF Reading, ReadOnce
      <4>3. QED
        BY <1>3, <1>4, <3>1, <4>2
    <3>2. CASE d # c
      BY <1>4, <2>2, <3>2 DEF Reading, ReadOnce
    <3>3. QED
      BY <3>1, <3>2
  <2>3. QED
    BY <2>1, <2>2 DEF ReadOnce
<1>15. Asking'
  <2>1. ASSUME NEW d \in Conns, handler'[d].op = "attach"
        PROVE  /\ scope'.records[handler'[d].id].state = "pending"
               /\ \A e \in Conns : handler'[e].op = "attach" /\ handler'[d].id = handler'[e].id => d = e
    <3>1. CASE handler'[d] = handler[d]
      <4>1. scope.records[handler[d].id].state = "pending" /\ handler[d].id \in Ids
        BY <2>1, <3>1, HandlerTyped DEF Reading, Asking
      <4>2. scope'.records[handler[d].id].state = "pending"
        BY <1>9, <4>1
      <4>3. ASSUME NEW e \in Conns, handler'[e].op = "attach", handler'[d].id = handler'[e].id PROVE d = e
        <5>1. CASE handler'[e] = handler[e]
          BY <2>1, <3>1, <4>3, <5>1 DEF Reading, Asking
        <5>2. CASE handler'[e] # handler[e]
          <6>1. Opens(c, id) /\ handler'[e].id = id
            BY <1>7, <4>3, <5>2
          <6>2. scope.records[id].state = "absent" /\ handler[d].id = id
            BY <3>1, <4>3, <6>1 DEF Opens
          <6>3. QED
            BY <4>1, <6>2
        <5>3. QED
          BY <5>1, <5>2
      <4>4. QED
        BY <3>1, <4>2, <4>3
    <3>2. CASE handler'[d] # handler[d]
      <4>1. d = c /\ Opens(c, id) /\ handler'[d].id = id
        BY <1>7, <2>1, <3>2
      <4>2. scope.records[id].state = "absent" /\ scope'.records[id].state = "pending"
        BY <4>1 DEF Opens, Fresh
      <4>3. ASSUME NEW e \in Conns, handler'[e].op = "attach", handler'[d].id = handler'[e].id PROVE d = e
        <5>1. CASE e # c
          <6>1. handler[e].op = "attach" /\ handler[e].id = id
            BY <1>7, <4>1, <4>3, <5>1
          <6>2. QED
            BY <4>2, <6>1 DEF Reading, Asking
        <5>2. QED
          BY <4>1, <5>1
      <4>4. QED
        BY <4>1, <4>2, <4>3
    <3>3. QED
      BY <3>1, <3>2
  <2>2. ASSUME NEW d \in Conns, handler'[d].op = "reattach", Waits(d, handler[d].id)' PROVE FALSE
    <3>1. CASE handler'[d] = handler[d]
      <4>1. handler[d].id \in Ids /\ d # c
        BY <1>10, <2>2, <3>1, HandlerTyped
      <4>2. Waits(d, handler[d].id)
        BY <1>8, <2>2, <3>1, <4>1
      <4>3. QED
        BY <2>2, <3>1, <4>2 DEF Reading, Asking
    <3>2. CASE handler'[d] # handler[d]
      <4>1. Finds(c, id) /\ handler'[d].id = id
        BY <1>7, <2>2, <3>2
      <4>2. scope' = scope /\ scope.records[id].state = "done"
        BY <4>1 DEF Finds
      <4>3. Waits(d, id)
        BY <2>2, <4>1, <4>2 DEF Waits
      <4>4. QED
        BY <1>11, <4>2, <4>3 DEF Reading, Asking
    <3>3. QED
      BY <3>1, <3>2
  <2>3. ASSUME NEW d \in Conns, NEW j \in Ids, Waits(d, j)' PROVE scope'.records[j].state = "pending"
    <3>1. CASE scope' = scope
      BY <2>3, <3>1 DEF Waits, Reading, Asking
    <3>2. CASE scope' # scope
      BY <1>8, <1>9, <2>3, <3>2 DEF Reading, Asking
    <3>3. QED
      BY <3>1, <3>2
  <2>4. QED
    BY <2>1, <2>2, <2>3 DEF Asking
<1>16. QED
  BY <1>13, <1>14, <1>15 DEF Reading

\* A request is answered: its reader thread is done with it, and its record is
\* stored with nobody waiting on it, or forgotten.
LEMMA AnsweredReading ==
    ASSUME Types, Numbered, Reading, NEW c \in Conns, handler[c].op = "attach",
           NEW response \in Nat, response = 0 \/ response = leases + 1,
           Finished(scope, scope', handler[c].id, response),
           handler' = [handler EXCEPT ![c] = Idle], UNCHANGED inbox
    PROVE  Reading'
<1> DEFINE id == handler[c].id
<1>1. /\ id \in Ids /\ leases \in Nat /\ None \notin Nat
      /\ scope.records[id].state = "pending" /\ Finished(scope, scope', id, response)
  BY ConstantsTyped, NumbersTyped, HandlerTyped DEF Reading, Asking
<1>2. handler'[c] = Idle /\ handler'[c].op = "idle" /\ \A d \in Conns \ {c} : handler'[d] = handler[d]
  BY DEF Types, HandlerOK, Idle
<1> HIDE DEF id
<1> DEFINE Kept(j) == j # id /\ scope'.records[j] = scope.records[j]
           Closed(j) == /\ j = id \/ scope.records[j].state = "done"
                        /\ scope'.records[j].state \in {"absent", "done"}
                        /\ scope'.records[j].response \in {None, response}
                        /\ j # id => scope'.records[j].response = None
<1>3. \A j \in Ids : Kept(j) \/ Closed(j)
  <2>1. SUFFICES ASSUME NEW j \in Ids
                 PROVE  Kept(j) \/ Closed(j)
    OBVIOUS
  <2>2. \/ scope'.records[j] = scope.records[j] /\ (j = id => scope.records[j].state = "absent")
        \/ scope'.records[j] = Absent /\ (j = id \/ scope.records[j].state = "done")
        \/ j = id /\ scope'.records[j] = Answer(scope.records[j], response)
    BY <1>1 DEF Finished
  <2>3. Absent.state = "absent" /\ Absent.response = None
    BY DEF Absent
  <2>4. Answer(scope.records[j], response).state = "done" /\ Answer(scope.records[j], response).response = response
    BY DEF Answer
  <2>5. CASE scope'.records[j] = scope.records[j] /\ (j = id => scope.records[j].state = "absent")
    <3>1. ASSUME j = id PROVE scope.records[j].state = "pending"
      BY <1>1, <3>1
    <3>2. j # id
      BY <2>5, <3>1
    <3>3. QED
      BY <2>5, <3>2
  <2>6. CASE scope'.records[j] = Absent /\ (j = id \/ scope.records[j].state = "done")
    BY <2>3, <2>6
  <2>7. CASE j = id /\ scope'.records[j] = Answer(scope.records[j], response)
    BY <2>4, <2>7
  <2>8. QED
    BY <2>2, <2>5, <2>6, <2>7
<1>4. \A d, j : Waits(d, j)' /\ j \in Ids => Waits(d, j) /\ j # id
  BY <1>1, FinishedWaits
<1>5. OneLease'
  <2>1. ASSUME NEW d \in Conns, NEW j \in Ids, handler'[d].op = "reattach",
               scope'.records[j].response = handler'[d].lease
        PROVE  j = handler'[d].id
    <3>1. handler'[d] = handler[d] /\ handler[d].lease \in 1 .. leases
      BY <1>2, <2>1, HandlerTyped
    <3>2. scope'.records[j] = scope.records[j]
      BY <1>1, <1>3, <2>1, <3>1
    <3>3. QED
      BY <2>1, <3>1, <3>2 DEF Reading, OneLease
  <2>2. ASSUME NEW i \in Ids, NEW j \in Ids, Granting(i)', (scope.records[i].response = scope.records[j].response)'
        PROVE  i = j
    <3>1. scope'.records[i].response \notin {None, Failed}
      BY <2>2 DEF Granting
    <3>2. \A k \in Ids : scope.records[k].response \in 0 .. leases \cup {None}
      BY <1>1, HandlerTyped
    <3>3. CASE i # id /\ j # id
      <4>1. scope'.records[i] = scope.records[i] /\ scope'.records[j] = scope.records[j]
        BY <1>3, <2>2, <3>1, <3>3
      <4>2. QED
        BY <2>2, <4>1 DEF Reading, OneLease, Granting
    <3>4. CASE i = id /\ j # id
      <4>1. scope'.records[i].response = leases + 1 /\ scope'.records[j] = scope.records[j]
        BY <1>1, <1>3, <2>2, <3>1, <3>4 DEF Failed
      <4>2. scope.records[j].response = leases + 1
        BY <2>2, <4>1
      <4>3. QED
        BY <1>1, <3>2, <4>2
    <3>5. CASE i # id /\ j = id
      <4>1. scope'.records[j].response = leases + 1 /\ scope'.records[i] = scope.records[i]
        BY <1>1, <1>3, <2>2, <3>1, <3>5 DEF Failed
      <4>2. scope.records[i].response = leases + 1
        BY <2>2, <4>1
      <4>3. QED
        BY <1>1, <3>2, <4>2
    <3>6. QED
      BY <3>3, <3>4, <3>5
  <2>3. QED
    BY <2>1, <2>2 DEF OneLease
<1>6. ReadOnce'
  BY <1>2, <1>4 DEF Reading, ReadOnce, InHand, Unread
<1>7. Asking'
  <2>1. ASSUME NEW d \in Conns, handler'[d].op = "attach"
        PROVE  /\ scope'.records[handler'[d].id].state = "pending"
               /\ \A e \in Conns : handler'[e].op = "attach" /\ handler'[d].id = handler'[e].id => d = e
    <3>1. d # c /\ handler'[d] = handler[d]
      BY <1>2, <2>1
    <3>2. handler[d].id \in Ids /\ handler[d].id # id /\ scope.records[handler[d].id].state = "pending"
      BY <2>1, <3>1, HandlerTyped DEF Reading, Asking, id
    <3>3. scope'.records[handler[d].id] = scope.records[handler[d].id]
      BY <1>3, <3>2
    <3>4. QED
      BY <1>2, <2>1, <3>1, <3>2, <3>3 DEF Reading, Asking
  <2>2. ASSUME NEW d \in Conns, handler'[d].op = "reattach", Waits(d, handler[d].id)' PROVE FALSE
    <3>1. handler'[d] = handler[d] /\ handler[d].id \in Ids
      BY <1>2, <2>2, HandlerTyped
    <3>2. QED
      BY <1>4, <2>2, <3>1 DEF Reading, Asking
  <2>3. ASSUME NEW d \in Conns, NEW j \in Ids, Waits(d, j)' PROVE scope'.records[j].state = "pending"
    <3>1. Waits(d, j) /\ j # id /\ scope.records[j].state = "pending"
      BY <1>4, <2>3 DEF Reading, Asking
    <3>2. QED
      BY <1>3, <3>1
  <2>4. ASSUME NEW d \in Conns, handler'[d].op = "reattach" PROVE ~ Waits(d, handler[d].id)' /\ handler'[d].id = handler[d].id
    BY <1>2, <2>2, <2>4
  <2>5. QED
    BY <2>1, <2>3, <2>4 DEF Asking
<1>8. QED
  BY <1>5, <1>6, <1>7 DEF Reading

\* A reader thread is done with a retry.
LEMMA DoneReading ==
    ASSUME Types, Reading, NEW c \in Conns, handler' = [handler EXCEPT ![c] = Idle], UNCHANGED << scope, inbox >>
    PROVE  Reading'
<1>1. handler'[c].op = "idle" /\ \A d \in Conns \ {c} : handler'[d] = handler[d]
  BY DEF Types, HandlerOK, Idle
<1>2. OneLease'
  BY <1>1 DEF Reading, OneLease, Granting
<1>3. ReadOnce'
  BY <1>1 DEF Reading, ReadOnce, InHand, Unread, Waits
<1>4. Asking'
  BY <1>1 DEF Reading, Asking, Waits
<1>5. QED
  BY <1>2, <1>3, <1>4 DEF Reading

\* A thread of a connection ends.
LEMMA EndsReading ==
    ASSUME Types, Reading, NEW c \in Conns, WriterEnds(c) \/ ReaderEnds(c)
    PROVE  Reading'
<1>1. Quit(scope, scope') /\ handler' = handler /\ (inbox' = inbox \/ inbox' = [inbox EXCEPT ![c] = << >>])
  BY EndsTyped
<1>2. \A d \in Conns : inbox'[d] = inbox[d] \/ Len(inbox'[d]) = 0
  BY <1>1 DEF Types, InboxOK
<1>3. \A d, j : j \in Ids /\ Waits(d, j)' => Waits(d, j)
  BY <1>1, QuitWaits
<1>4. \A j \in Ids : /\ scope'.records[j].state = scope.records[j].state
                     /\ scope'.records[j].response = scope.records[j].response
  BY <1>1 DEF Quit
<1>5. OneLease'
  BY <1>1, <1>4 DEF Reading, OneLease, Granting
<1>6. ReadOnce'
  BY <1>1, <1>2, <1>3 DEF Reading, ReadOnce, InHand, Unread
<1>7. Asking'
  <2>1. \A d \in Conns : handler[d].op # "idle" => handler[d].id \in Ids
    BY HandlerTyped
  <2>2. ASSUME NEW d \in Conns, handler[d].op = "reattach" PROVE ~ Waits(d, handler[d].id)'
    BY <1>1, <1>3, <2>1, <2>2 DEF Reading, Asking
  <2>3. \A d \in Conns, j \in Ids : Waits(d, j)' => scope'.records[j].state = "pending"
    BY <1>3, <1>4 DEF Reading, Asking
  <2>4. QED
    BY <1>1, <1>4, <2>1, <2>2, <2>3 DEF Reading, Asking
<1>8. QED
  BY <1>5, <1>6, <1>7 DEF Reading

\* The client writes one more request, which nobody has seen.
LEMMA WrittenReading ==
    ASSUME Types, Numbered, Reading, NEW c \in Conns, NEW id \in Ids, UNCHANGED << scope, handler >>,
           \/ id > client.last /\ inbox' = [inbox EXCEPT ![c] = Append(@, id)]
           \/ c > client.opened /\ inbox' = [inbox EXCEPT ![c] = << id >>]
           \/ inbox' = [inbox EXCEPT ![c] = << >>]
    PROVE  Reading'
<1>1. inbox[c] \in Seq(Ids) /\ c \in Nat /\ id \in Nat /\ client.last \in Nat /\ client.opened \in Nat
  BY ConstantsTyped, IdsTyped, NumbersTyped DEF Types, InboxOK
<1>2. /\ Len(Append(inbox[c], id)) = Len(inbox[c]) + 1 /\ Append(inbox[c], id)[Len(inbox[c]) + 1] = id
      /\ \A k \in 1 .. Len(inbox[c]) : Append(inbox[c], id)[k] = inbox[c][k]
  BY <1>1, Appended
<1>3. \A d \in Conns \ {c} : inbox'[d] = inbox[d]
  BY DEF Types, InboxOK
<1>4. \/ id > client.last /\ inbox'[c] = Append(inbox[c], id)
      \/ c > client.opened /\ inbox'[c] = << id >>
      \/ inbox'[c] = << >>
  BY DEF Types, InboxOK
<1>5. ASSUME NEW j \in Ids, InHand(c, j) PROVE c <= client.opened /\ j <= client.last
  <2>1. CASE Waits(c, j)
    <3>1. scope.records[j] # Absent
      <4>1. WaitingOn(Absent) = {}
        BY DEF WaitingOn, Absent
      <4>2. QED
        BY <2>1, <4>1 DEF Waits
    <3>2. QED
      BY <1>1, <2>1, <3>1, IdsTyped DEF Numbered, WaiterOK, Unsent
  <2>2. CASE handler[c].op # "idle" /\ handler[c].id = j
    BY <2>2, HandlerOpened
  <2>3. QED
    BY <1>5, <2>1, <2>2 DEF InHand
<1>6. OneLease' /\ Asking'
  BY DEF Reading, OneLease, Asking, Granting, Waits
<1>7. ASSUME NEW j \in Ids, InHand(c, j), Unread(c, j)' PROVE FALSE
  <2>1. j # id \/ inbox'[c] = << >>
    BY <1>1, <1>4, <1>5, <1>7, IdsTyped
  <2>2. PICK k \in 1 .. Len(inbox'[c]) : inbox'[c][k] = j
    BY <1>7 DEF Unread
  <2>3. inbox'[c] # << >>
    BY <2>2
  <2>4. inbox'[c] = Append(inbox[c], id)
    BY <1>4, <2>1, <2>2, <2>3
  <2>5. k \in 1 .. Len(inbox[c]) /\ inbox[c][k] = j
    BY <1>1, <1>2, <2>1, <2>2, <2>3, <2>4
  <2>6. QED
    BY <1>7, <2>5 DEF Unread, Reading, ReadOnce
<1>8. ASSUME NEW i \in 1 .. Len(inbox'[c]), NEW j \in 1 .. Len(inbox'[c]), inbox'[c][i] = inbox'[c][j] PROVE i = j
  <2>1. CASE id > client.last /\ inbox'[c] = Append(inbox[c], id)
    <3>0. \A k \in 1 .. Len(inbox[c]) : inbox[c][k] \in Ids
      BY <1>1
    <3>1. \A k \in 1 .. Len(inbox[c]) : inbox[c][k] \in Nat /\ inbox[c][k] <= client.last
      BY <3>0, IdsTyped DEF Numbered, QueuedOK
    <3>2. \A k \in 1 .. Len(inbox[c]) : inbox[c][k] # id
      BY <1>1, <2>1, <3>1
    <3>3. Len(inbox[c]) \in Nat
      BY <1>1
    <3>4. CASE i \in 1 .. Len(inbox[c]) /\ j \in 1 .. Len(inbox[c])
      BY <1>2, <1>8, <2>1, <3>4 DEF Reading, ReadOnce
    <3>5. QED
      BY <1>2, <1>8, <2>1, <3>2, <3>3, <3>4
  <2>2. CASE inbox'[c] = << id >> \/ inbox'[c] = << >>
    BY <1>8, <2>2
  <2>3. QED
    BY <1>4, <2>1, <2>2
<1>9. ReadOnce'
  <2>1. \A d \in Conns, j \in Ids : InHand(d, j)' <=> InHand(d, j)
    BY DEF InHand, Waits
  <2>2. \A d \in Conns, j \in Ids : d # c => (Unread(d, j)' <=> Unread(d, j))
    BY <1>3 DEF Unread
  <2>3. \A d \in Conns, j \in Ids : InHand(d, j)' => ~ Unread(d, j)'
    BY <1>7, <2>1, <2>2 DEF Reading, ReadOnce
  <2>4. \A d \in Conns : \A i, j \in 1 .. Len(inbox'[d]) : inbox'[d][i] = inbox'[d][j] => i = j
    BY <1>3, <1>8 DEF Reading, ReadOnce
  <2>5. QED
    BY <2>3, <2>4 DEF ReadOnce
<1>10. QED
  BY <1>6, <1>9 DEF Reading
-----------------------------------------------------------------------------
(***************************************************************************)
(* What the client can still hear of a lease.  A lease it has seen on its  *)
(* connection is not bound to the connection again; one it believed in     *)
(* before it had to attach again is never heard of on the new connection.  *)
(***************************************************************************)
Held  == client.lease # 0 /\ attach.id = 0 /\ ~ client.queued
Stale == client.lease # 0 /\ ~ Held

On(l)   == \E k \in 1 .. Len(wire) : wire[k].lease = l
Mine(l) == owner.lease = l /\ owner.conn = client.conn
Seen(l) == client.lease = l \/ attach.lease = l \/ Mine(l) \/ On(l)

Rebinds(l) ==
    \/ \E id \in Ids : Unread(client.conn, id) /\ scope.records[id].response = l
    \/ handler[client.conn].op = "reattach" /\ handler[client.conn].lease = l

Once  == client.conn # 0 => \A l \in 1 .. leases : Seen(l) => ~ Rebinds(l)
Gone  == client.conn # 0 /\ Stale => /\ attach.lease # client.lease
                                     /\ ~ Mine(client.lease)
                                     /\ ~ On(client.lease)
Bound == /\ client.lease # 0 => client.bound
         /\ attach.id # 0 => client.bound
         /\ attach.id # 0 /\ attach.origin = "user" => client.lease = 0

Leased == Once /\ Gone /\ Bound

LEMMA LeasesTyped ==
    ASSUME Types
    PROVE  /\ client.lease \in 0 .. leases /\ attach.lease \in 0 .. leases /\ owner.lease \in 0 .. leases
           /\ leases \in Nat
           /\ \A k \in 1 .. Len(wire) : wire[k].lease \in 0 .. leases
           /\ \A l : On(l) => l \in 0 .. leases
<1>1. \A k \in 1 .. Len(wire) : wire[k].lease \in 0 .. leases
  BY NumbersTyped DEF Messages
<1>2. QED
  BY <1>1 DEF On, Types, ClientOK, ClientType, AttachOK, AttachType, DaemonOK

LEMMA InitLeased == Init => Leased
BY DEF Init, Leased, Once, Gone, Bound, Stale, Away

\* What a step of the daemon must not do.
LEMMA DaemonLeased ==
    ASSUME Types, Leased, UNCHANGED << client, attach >>, leases' \in Nat, leases <= leases',
           client.conn # 0 =>
              /\ \A l \in 1 .. leases : Rebinds(l)' => Rebinds(l)
              /\ \A l \in 1 .. leases : Mine(l)' \/ On(l)' => Mine(l) \/ On(l) \/ (Rebinds(l) /\ ~ Rebinds(l)')
              /\ \A l \in 1 .. leases' : l > leases => ~ (Rebinds(l)' /\ (Mine(l)' \/ On(l)'))
    PROVE  Leased'
<1>1. /\ client.lease \in 0 .. leases /\ attach.lease \in 0 .. leases /\ leases \in Nat
  BY LeasesTyped
<1>2. Bound' /\ (Stale' <=> Stale)
  BY DEF Leased, Bound, Stale, Held
<1>3. Once'
  <2>1. SUFFICES ASSUME client.conn # 0, NEW l \in 1 .. leases', Seen(l)', Rebinds(l)' PROVE FALSE
    BY DEF Once
  <2>2. CASE l <= leases
    <3>1. l \in 1 .. leases
      BY <1>1, <2>1, <2>2
    <3>2. Seen(l) /\ Rebinds(l)
      BY <2>1, <3>1 DEF Seen
    <3>3. QED
      BY <2>1, <3>1, <3>2 DEF Leased, Once
  <2>3. CASE l > leases
    <3>1. client.lease # l /\ attach.lease # l
      BY <1>1, <2>1, <2>3
    <3>2. QED
      BY <2>1, <2>3, <3>1 DEF Seen
  <2>4. QED
    BY <1>1, <2>2, <2>3
<1>4. Gone'
  <2>1. SUFFICES ASSUME client.conn # 0, Stale
                 PROVE  attach.lease # client.lease /\ ~ Mine(client.lease)' /\ ~ On(client.lease)'
    BY <1>2 DEF Gone
  <2>2. client.lease \in 1 .. leases
    BY <1>1, <2>1 DEF Stale
  <2>3. attach.lease # client.lease /\ ~ Mine(client.lease) /\ ~ On(client.lease)
    BY <2>1 DEF Leased, Gone
  <2>4. ~ Rebinds(client.lease)
    BY <2>1, <2>2 DEF Leased, Once, Seen
  <2>5. \A l \in 1 .. leases : l = client.lease => ~ Mine(l)' /\ ~ On(l)'
    BY <2>1, <2>3, <2>4
  <2>6. Mine(client.lease)' <=> owner'.lease = client.lease /\ owner'.conn = client.conn
    BY DEF Mine
  <2>7. On(client.lease)' <=> \E k \in 1 .. Len(wire') : wire'[k].lease = client.lease
    BY DEF On
  <2>8. QED
    BY <2>2, <2>3, <2>5, <2>6, <2>7 DEF Mine, On
<1>5. QED
  BY <1>2, <1>3, <1>4 DEF Leased

\* The leases of what is put behind the wire.
Lengthens(delivered, m, sent) ==
    /\ delivered \in BOOLEAN /\ wire' = ToOwner(delivered, m) \o sent
    /\ \E S : wire \in Seq(S) /\ m \in S /\ sent \in Seq(S)

LEMMA OnAppended ==
    ASSUME NEW m, NEW sent, NEW delivered, Lengthens(delivered, m, sent), NEW l, On(l)'
    PROVE  \/ On(l)
           \/ delivered /\ owner.conn = client.conn /\ m.lease = l
           \/ \E k \in 1 .. Len(sent) : sent[k].lease = l
<1> DEFINE w == ToOwner(delivered, m)
<1>0. PICK S : wire \in Seq(S) /\ m \in S /\ sent \in Seq(S) /\ delivered \in BOOLEAN
                /\ wire' = ToOwner(delivered, m) \o sent
  BY DEF Lengthens
<1>1. w \in Seq(S)
  BY <1>0, ToOwnerTyped
<1>2. \A k \in 1 .. Len(w) : \/ k \in 1 .. Len(wire) /\ w[k] = wire[k]
                             \/ delivered /\ owner.conn = client.conn /\ w[k] = m
  <2>1. /\ Len(Append(wire, m)) = Len(wire) + 1 /\ Append(wire, m)[Len(wire) + 1] = m
        /\ \A k \in 1 .. Len(wire) : Append(wire, m)[k] = wire[k]
    BY <1>0, Appended
  <2>2. Len(wire) \in Nat
    BY <1>0
  <2>3. QED
    BY <2>1, <2>2 DEF ToOwner
<1> HIDE DEF w
<1>3. wire' = w \o sent
  BY <1>0 DEF w
<1>4. /\ Len(wire') = Len(w) + Len(sent) /\ Len(w) \in Nat /\ Len(sent) \in Nat
      /\ \A k \in 1 .. Len(w) : wire'[k] = w[k]
      /\ \A k \in 1 .. Len(sent) : wire'[Len(w) + k] = sent[k]
  BY <1>0, <1>1, <1>3, Joined
<1>5. PICK k \in 1 .. Len(wire') : wire'[k].lease = l
  BY DEF On
<1>6. CASE k <= Len(w)
  BY <1>2, <1>4, <1>5, <1>6 DEF On
<1>7. CASE k > Len(w)
  <2>1. k - Len(w) \in 1 .. Len(sent) /\ k = Len(w) + (k - Len(w))
    BY <1>4, <1>7
  <2>2. wire'[k] = sent[k - Len(w)]
    BY <1>4, <2>1
  <2>3. QED
    BY <1>5, <2>1, <2>2
<1>8. QED
  BY <1>4, <1>6, <1>7

\* The owner's notice alone.
LEMMA OnNotified ==
    ASSUME Types, NEW S, wire \in Seq(S), NEW m \in S, NEW delivered \in BOOLEAN,
           wire' = ToOwner(delivered, m), NEW l, On(l)'
    PROVE  On(l) \/ (delivered /\ owner.conn = client.conn /\ m.lease = l)
<1>1. ToOwner(delivered, m) \in Seq(S) /\ << >> \in Seq(S) /\ Len(<< >>) = 0
  BY ToOwnerTyped
<1>2. \A w : w \in Seq(S) => w \o << >> = w
  OBVIOUS
<1> DEFINE none == << >>
<1>3. Lengthens(delivered, m, none) /\ ~ \E k \in 1 .. Len(none) : TRUE
  BY <1>1, <1>2 DEF Lengthens
<1> HIDE DEF none
<1>4. QED
  BY <1>3, OnAppended

\* A refusal carries no lease.
LEMMA OnRefused ==
    ASSUME Types, NEW id, wire' = wire \/ wire' = Append(wire, Result(id, Failed)), NEW l, l # 0, On(l)'
    PROVE  On(l)
<1>1. Result(id, Failed).lease = 0
  BY DEF Result, Message, Failed
<1> DEFINE m == Result(id, Failed)
<1> HIDE DEF m
<1>2. wire \in Seq(Messages \cup {m}) /\ wire \in Seq(Messages)
  <2>1. wire \in Seq(Messages)
    BY NumbersTyped
  <2>2. wire = [k \in 1 .. Len(wire) |-> wire[k]] /\ Len(wire) \in Nat /\ \A k \in 1 .. Len(wire) : wire[k] \in Messages
    BY <2>1
  <2>3. QED
    BY <2>1, <2>2
<1>3. /\ Len(Append(wire, m)) = Len(wire) + 1 /\ Append(wire, m)[Len(wire) + 1] = m
      /\ \A k \in 1 .. Len(wire) : Append(wire, m)[k] = wire[k]
  BY <1>2, Appended
<1>4. wire' = wire \/ wire' = Append(wire, m)
  BY DEF m
<1>5. m.lease = 0 /\ Len(wire) \in Nat
  BY <1>1, <1>2 DEF m
<1>6. QED
  BY <1>3, <1>4, <1>5 DEF On

LEMMA PublishLeased ==
    ASSUME Types, Numbered, Leased, NEW delivered \in BOOLEAN,
           (\E n \in 1 .. MaxRead : Publish(n, delivered)) \/ Takeover(delivered)
    PROVE  Leased'
<1>1. UNCHANGED << scope, handler, inbox, client, attach >> /\ leases' \in Nat /\ leases <= leases'
      /\ (leases' = leases \/ leases' = leases + 1)
  BY LeasesTyped DEF Publish, Takeover
<1>2. \A l : Rebinds(l)' <=> Rebinds(l)
  BY <1>1 DEF Rebinds, Unread
<1>3. ASSUME client.conn # 0, NEW l, Mine(l)' PROVE Mine(l)
  BY <1>1, <1>3 DEF Mine, Publish, Takeover
<1>4. ASSUME client.conn # 0, NEW l \in 1 .. leases', On(l)' PROVE Mine(l) \/ On(l)
  <2>1. CASE \E n \in 1 .. MaxRead : Publish(n, delivered)
    <3>1. PICK n \in 1 .. MaxRead : Publish(n, delivered)
      BY <2>1
    <3> DEFINE S == Messages \cup {LiveFrame(n)}
    <3>2. wire \in Seq(S) /\ LiveFrame(n) \in S
      <4>1. wire \in Seq(Messages)
        BY NumbersTyped
      <4>2. wire = [k \in 1 .. Len(wire) |-> wire[k]] /\ Len(wire) \in Nat /\ \A k \in 1 .. Len(wire) : wire[k] \in Messages
        BY <4>1
      <4>3. QED
        BY <4>1, <4>2
    <3>3. LiveFrame(n).lease = owner.lease /\ wire' = ToOwner(delivered, LiveFrame(n))
      BY <3>1 DEF LiveFrame, Message, Publish
    <3> HIDE DEF S
    <3>4. On(l) \/ (owner.conn = client.conn /\ LiveFrame(n).lease = l)
      BY <1>4, <3>2, <3>3, OnNotified
    <3>5. QED
      BY <3>3, <3>4 DEF Mine
  <2>2. CASE Takeover(delivered)
    <3> DEFINE S == Messages \cup {TakenOver(owner.lease)}
    <3>2. wire \in Seq(S) /\ TakenOver(owner.lease) \in S
      <4>1. wire \in Seq(Messages)
        BY NumbersTyped
      <4>2. wire = [k \in 1 .. Len(wire) |-> wire[k]] /\ Len(wire) \in Nat /\ \A k \in 1 .. Len(wire) : wire[k] \in Messages
        BY <4>1
      <4>3. QED
        BY <4>1, <4>2
    <3>3. TakenOver(owner.lease).lease = owner.lease /\ wire' = ToOwner(delivered, TakenOver(owner.lease))
      BY <2>2 DEF TakenOver, Message, Takeover
    <3> HIDE DEF S
    <3>4. On(l) \/ (owner.conn = client.conn /\ TakenOver(owner.lease).lease = l)
      BY <1>4, <3>2, <3>3, OnNotified
    <3>5. QED
      BY <3>3, <3>4 DEF Mine
  <2>3. QED
    BY <2>1, <2>2
<1>5. ASSUME client.conn # 0, NEW l \in 1 .. leases', l > leases PROVE ~ (Mine(l)' \/ On(l)')
  BY <1>3, <1>4, <1>5, LeasesTyped DEF Mine
<1>6. ASSUME client.conn # 0, NEW l \in 1 .. leases, Mine(l)' \/ On(l)' PROVE Mine(l) \/ On(l)
  <2>1. l \in 1 .. leases'
    BY <1>1, LeasesTyped
  <2>2. QED
    BY <1>3, <1>4, <1>6, <2>1
<1>7. QED
  BY <1>1, <1>2, <1>5, <1>6, DaemonLeased

LEMMA BeginAttachLeased ==
    ASSUME Types, Numbered, Reading, Leased, NEW c \in Conns, BeginAttach(c)
    PROVE  Leased'
<1> DEFINE id == inbox[c][1]
<1>1. /\ id \in Ids /\ inbox[c] # << >> /\ handler[c] = Idle
      /\ inbox' = [inbox EXCEPT ![c] = Tail(@)]
      /\ Began(scope, scope', id, c)
      /\ Opens(c, id) \/ Finds(c, id) \/ Passes(c, id)
  BY BeginAttachDoes
<1>2. UNCHANGED << owner, leases, client, attach >>
  BY DEF BeginAttach
<1>3. inbox[c] \in Seq(Ids) /\ leases \in Nat /\ None \notin Nat
  BY LeasesTyped, ConstantsTyped DEF Types, InboxOK
<1>4. /\ Len(inbox[c]) \in Nat \ {0} /\ Len(Tail(inbox[c])) = Len(inbox[c]) - 1
      /\ \A k \in 1 .. Len(inbox[c]) - 1 : Tail(inbox[c])[k] = inbox[c][k + 1]
  BY <1>1, <1>3, Taken
<1>5. (\A d \in Conns \ {c} : inbox'[d] = inbox[d]) /\ inbox'[c] = Tail(inbox[c])
  BY <1>1, BeginAttachTyped DEF Types, InboxOK
<1>6. Unread(c, id) /\ \A d \in Conns, j \in Ids : Unread(d, j)' => Unread(d, j)
  <2>1. Unread(c, id)
    BY <1>4 DEF Unread
  <2>2. ASSUME NEW j \in Ids, NEW k \in 1 .. Len(inbox'[c]), inbox'[c][k] = j PROVE Unread(c, j)
    <3>0. k \in 1 .. Len(inbox[c]) - 1 /\ Tail(inbox[c])[k] = j
      BY <1>4, <1>5, <2>2
    <3>1. k + 1 \in 1 .. Len(inbox[c]) /\ inbox[c][k + 1] = j
      BY <1>4, <3>0
    <3>2. QED
      BY <3>1 DEF Unread
  <2>3. QED
    BY <1>5, <2>1, <2>2 DEF Unread
<1>7. \A j \in Ids : \/ scope'.records[j].response = scope.records[j].response
                     \/ scope'.records[j].response = None
  BY <1>1 DEF Began, Fresh
<1>8. \A d \in Conns : \/ handler'[d] = handler[d]
                       \/ handler'[d].op = "attach"
                       \/ d = c /\ handler'[d].lease = scope.records[id].response
  BY <1>1 DEF Opens, Finds, Passes, Types, HandlerOK
<1> HIDE DEF id
<1>9. ASSUME client.conn # 0, NEW l \in 1 .. leases, Rebinds(l)' PROVE Rebinds(l)
  <2>0. client.conn \in Conns
    BY <1>9, NumbersTyped
  <2>1. CASE \E j \in Ids : Unread(client.conn, j)' /\ scope'.records[j].response = l
    BY <1>2, <1>3, <1>6, <1>7, <2>0, <2>1 DEF Rebinds
  <2>2. CASE handler'[client.conn].op = "reattach" /\ handler'[client.conn].lease = l
    BY <1>1, <1>6, <1>8, <2>0, <2>2 DEF Rebinds
  <2>3. QED
    BY <1>2, <1>9, <2>1, <2>2 DEF Rebinds, Unread
<1>10. \A l : Mine(l)' <=> Mine(l)
  BY <1>2 DEF Mine
<1>11. \A l : l # 0 /\ On(l)' => On(l)
  <2>1. wire' = wire \/ wire' = Append(wire, Result(id, Failed))
    BY <1>1 DEF Opens, Finds, Passes
  <2>2. QED
    BY <2>1, OnRefused
<1>12. \A l \in 1 .. leases : Mine(l)' \/ On(l)' => Mine(l) \/ On(l)
  BY <1>10, <1>11
<1>13. QED
  BY <1>2, <1>3, <1>9, <1>12, DaemonLeased

\* A reader thread is done, with a refusal or nothing sent to the client.
LEMMA RefusedLeased ==
    ASSUME Types, Numbered, Reading, Leased, NEW c \in Conns, NEW id,
           CommitSuperseded(c) \/ (\E refused \in SUBSET Conns : CommitFailed(c, refused)),
           id = handler[c].id
    PROVE  Leased'
<1>1. UNCHANGED << owner, leases, client, attach, inbox >> /\ leases \in Nat /\ None \notin Nat
  BY LeasesTyped, ConstantsTyped DEF CommitSuperseded, CommitFailed, terminal
<1>2. /\ handler' = [handler EXCEPT ![c] = Idle]
      /\ wire' = wire \/ wire' = Append(wire, Result(id, Failed))
      /\ scope' = scope \/ Finished(scope, scope', id, Failed)
  <2>1. CASE CommitSuperseded(c)
    BY <2>1, CommitSupersededTyped DEF CommitSuperseded
  <2>2. CASE \E refused \in SUBSET Conns : CommitFailed(c, refused)
    BY <2>2, CommitFailedTyped DEF CommitFailed
  <2>3. QED
    BY <2>1, <2>2
<1>3. \A j \in Ids : scope'.records[j].response \in {scope.records[j].response, None, 0}
  <2>1. CASE scope' = scope
    BY <2>1
  <2>2. CASE Finished(scope, scope', id, Failed)
    <3>1. \A j \in Ids : \/ scope'.records[j] = scope.records[j]
                         \/ scope'.records[j] = Absent
                         \/ scope'.records[j] = Answer(scope.records[j], Failed)
      BY <2>2 DEF Finished
    <3>2. Absent.response = None /\ \A r : Answer(r, Failed).response = 0
      BY DEF Absent, Answer, Failed
    <3>3. QED
      BY <3>1, <3>2
  <2>3. QED
    BY <1>2, <2>1, <2>2
<1>4. \A d \in Conns : handler'[d] = handler[d] \/ handler'[d].op = "idle"
  BY <1>2 DEF Idle, Types, HandlerOK
<1>5. ASSUME client.conn # 0, NEW l \in 1 .. leases, Rebinds(l)' PROVE Rebinds(l)
  <2>0. client.conn \in Conns
    BY <1>5, NumbersTyped
  <2>1. CASE \E j \in Ids : Unread(client.conn, j)' /\ scope'.records[j].response = l
    BY <1>1, <1>3, <2>1 DEF Rebinds, Unread
  <2>2. CASE handler'[client.conn].op = "reattach" /\ handler'[client.conn].lease = l
    BY <1>4, <2>0, <2>2 DEF Rebinds
  <2>3. QED
    BY <1>1, <1>5, <2>1, <2>2 DEF Rebinds, Unread
<1>6. \A l \in 1 .. leases : Mine(l)' \/ On(l)' => Mine(l) \/ On(l)
  <2>1. \A l : Mine(l)' <=> Mine(l)
    BY <1>1 DEF Mine
  <2>2. \A l : l # 0 /\ On(l)' => On(l)
    BY <1>2, OnRefused
  <2>3. QED
    BY <2>1, <2>2
<1>7. QED
  BY <1>1, <1>5, <1>6, DaemonLeased

LEMMA EndsLeased ==
    ASSUME Types, Leased, NEW c \in Conns, WriterEnds(c) \/ ReaderEnds(c)
    PROVE  Leased'
<1>1. /\ Quit(scope, scope') /\ UNCHANGED << owner, leases, handler, wire, client, attach >>
      /\ inbox' = inbox \/ inbox' = [inbox EXCEPT ![c] = << >>]
      /\ leases \in Nat
  BY EndsTyped, LeasesTyped
<1>2. \A d \in Conns : inbox'[d] = inbox[d] \/ Len(inbox'[d]) = 0
  BY <1>1 DEF Types, InboxOK
<1>3. ASSUME client.conn # 0, NEW l \in 1 .. leases, Rebinds(l)' PROVE Rebinds(l)
  <2>0. client.conn \in Conns
    BY <1>3, NumbersTyped
  <2>1. \A j \in Ids : Unread(client.conn, j)' => Unread(client.conn, j)
    BY <1>1, <1>2, <2>0 DEF Unread
  <2>2. QED
    BY <1>1, <1>3, <2>1 DEF Rebinds, Quit
<1>4. \A l : (Mine(l)' <=> Mine(l)) /\ (On(l)' <=> On(l))
  BY <1>1 DEF Mine, On
<1>5. QED
  BY <1>1, <1>3, <1>4, DaemonLeased

LEMMA CommitRebindLeased ==
    ASSUME Types, Numbered, Reading, Leased, NEW c \in Conns, NEW notified \in BOOLEAN, CommitRebind(c, notified)
    PROVE  Leased'
<1> DEFINE id == handler[c].id
           l == handler[c].lease
<1>1. UNCHANGED << leases, scope, inbox, client, attach >>
  BY DEF CommitRebind
<1>2. PICK sent \in Seq(Messages) : Rebound(c, notified, sent)
  BY CommitRebindDoes
<1>3. /\ id \in Ids /\ handler[c].op = "reattach" /\ l \in 1 .. leases
      /\ owner.lease = l
      /\ owner' = [lease |-> l, conn |-> c]
      /\ handler' = [handler EXCEPT ![c] = Idle]
      /\ wire' = ToOwner(notified, TakenOver(l)) \o sent
      /\ sent = << >> \/ (c = client.conn /\ Dispatched(sent, id, l, FALSE))
  BY <1>2 DEF Rebound
<1>4. leases \in Nat /\ None \notin Nat /\ wire \in Seq(Messages) /\ l # 0 /\ Failed = 0
  BY <1>3, LeasesTyped, ConstantsTyped, NumbersTyped DEF Failed
<1>5. TakenOver(l) \in Messages /\ TakenOver(l).lease = l
  BY <1>3, <1>4 DEF TakenOver, Message, Messages, Kinds, Types, HistoryOK
<1>6. (\E k \in 1 .. Len(sent) : TRUE) => c = client.conn
  <2>1. sent = << >> => ~ \E k \in 1 .. Len(sent) : TRUE
    OBVIOUS
  <2>2. QED
    BY <1>3, <2>1
<1>7. \A k \in 1 .. Len(sent) : sent[k].lease = l
  <2>1. CASE sent = << >>
    BY <2>1
  <2>2. CASE Dispatched(sent, id, l, FALSE)
    <3>1. l \in 1 .. leases /\ HistoryOK /\ Dispatched(sent, id, l, FALSE) /\ id \in Ids /\ leases \in Nat
      BY <1>3, <1>4, <2>2 DEF Types
    <3> HIDE DEF id, l
    <3>2. Shipped(sent, id, l, FALSE)
      BY <3>1, DispatchShips
    <3>3. QED
      BY <3>2 DEF Shipped
  <2>3. QED
    BY <1>3, <2>1, <2>2
<1>8. \A d \in Conns : handler'[d] = handler[d] \/ handler'[d].op = "idle"
  BY <1>3 DEF Idle, Types, HandlerOK
<1>9. handler'[c].op = "idle"
  BY <1>3 DEF Idle, Types, HandlerOK
<1>10. \A j \in Ids : Unread(c, j) => scope.records[j].response # l
  <2>1. InHand(c, id)
    BY <1>3 DEF InHand
  <2>2. \A j \in Ids : scope.records[j].response = l => j = id
    BY <1>3 DEF Reading, OneLease
  <2>3. QED
    BY <1>3, <2>1, <2>2 DEF Reading, ReadOnce
<1> HIDE DEF id, l
<1>11. ASSUME client.conn # 0, NEW j \in 1 .. leases, Rebinds(j)' PROVE Rebinds(j)
  <2>0. client.conn \in Conns
    BY <1>11, NumbersTyped
  <2>1. QED
    BY <1>1, <1>8, <1>11, <2>0 DEF Rebinds, Unread
<1>12. c = client.conn => Rebinds(l)
  BY <1>3 DEF Rebinds, l
<1>13. ASSUME client.conn # 0, NEW j \in 1 .. leases, Mine(j)' \/ On(j)'
       PROVE  Mine(j) \/ On(j) \/ (j = l /\ c = client.conn)
  <2>1. CASE Mine(j)'
    BY <1>1, <1>3, <2>1 DEF Mine
  <2>2. CASE On(j)'
    <3>1. \/ On(j)
          \/ notified /\ owner.conn = client.conn /\ TakenOver(l).lease = j
          \/ \E k \in 1 .. Len(sent) : sent[k].lease = j
      <4>1. wire' = ToOwner(notified, TakenOver(l)) \o sent
        BY <1>3
      <4> DEFINE m == TakenOver(l)
      <4>2. Lengthens(notified, m, sent)
        BY <1>4, <1>5, <4>1 DEF Lengthens
      <4> HIDE DEF m
      <4>3. \/ On(j)
            \/ notified /\ owner.conn = client.conn /\ m.lease = j
            \/ \E k \in 1 .. Len(sent) : sent[k].lease = j
        BY <2>2, <4>2, OnAppended
      <4>4. QED
        BY <4>3 DEF m
    <3>2. QED
      BY <1>3, <1>5, <1>6, <1>7, <3>1 DEF Mine
  <2>3. QED
    BY <1>13, <2>1, <2>2
<1>14. ASSUME client.conn # 0, NEW j \in 1 .. leases, Mine(j)' \/ On(j)'
       PROVE  Mine(j) \/ On(j) \/ (Rebinds(j) /\ ~ Rebinds(j)')
  <2>1. CASE j = l /\ c = client.conn
    <3>1. Rebinds(j)
      BY <1>12, <2>1
    <3>2. ~ Rebinds(j)'
      <4>1. handler'[client'.conn].op # "reattach"
        BY <1>1, <1>9, <2>1
      <4>2. \A i \in Ids : ~ (Unread(c, i)' /\ scope'.records[i].response = j)
        BY <1>1, <1>10, <2>1 DEF Unread
      <4>3. QED
        BY <1>1, <2>1, <4>1, <4>2 DEF Rebinds, Unread
    <3>3. QED
      BY <3>1, <3>2
  <2>2. QED
    BY <1>13, <1>14, <2>1
<1>15. QED
  BY <1>1, <1>4, <1>11, <1>14, DaemonLeased

LEMMA CommitNewLeased ==
    ASSUME Types, Numbered, Reading, Leased, NEW c \in Conns, NEW notified \in BOOLEAN, CommitNew(c, notified)
    PROVE  Leased'
<1> DEFINE id == handler[c].id
           l == leases + 1
           M == MessagesOf(l)
           notice == TakenOver(owner.lease)
<1>1. UNCHANGED << inbox, client, attach >>
  BY DEF CommitNew
<1>2. PICK selected \in Conns, sent \in Seq(M) : Commits(c, notified, selected, sent)
  BY CommitNewDoes
<1>3. /\ id \in Ids /\ handler[c].op = "attach" /\ leases' = l
      /\ owner' = [lease |-> l, conn |-> selected] /\ (selected = c \/ Waits(selected, id))
      /\ Finished(scope, scope', id, l)
      /\ handler' = [handler EXCEPT ![c] = Idle]
      /\ wire' = ToOwner(notified, notice) \o sent
      /\ sent = << >> \/ /\ client.conn = c \/ Waits(client.conn, id)
                         /\ Dispatched(sent, id, l, client.conn # selected)
  BY <1>2 DEF Commits
<1>4. leases \in Nat /\ None \notin Nat /\ l \in Nat /\ l > leases /\ leases <= l /\ owner.lease \in 0 .. leases
  BY LeasesTyped, ConstantsTyped
<1>5. Lengthens(notified, notice, sent) /\ notice.lease = owner.lease
  <2>1. output' = output /\ leases' = l /\ output \in Nat
    BY <1>3 DEF CommitNew, Types, HistoryOK
  <2>2. wire \in Seq(Messages') /\ Messages' = M
    BY <1>4, <2>1, MessagesGrow DEF Messages, MessagesOf
  <2>3. notice \in M /\ notice.lease = owner.lease
    BY <1>4, <2>1 DEF TakenOver, Message, MessagesOf, Kinds
  <2> HIDE DEF M, notice
  <2>4. Lengthens(notified, notice, sent)
    BY <1>3, <2>2, <2>3 DEF Lengthens
  <2>5. QED
    BY <2>2, <2>3, <2>4
<1>6. \A k \in 1 .. Len(sent) : sent[k].lease = l /\ (client.conn = c \/ Waits(client.conn, id))
  <2>1. CASE sent = << >>
    BY <2>1
  <2>2. CASE sent # << >>
    <3> DEFINE told == client.conn # selected
    <3>1. /\ client.conn = c \/ Waits(client.conn, id)
          /\ HistoryOK /\ Dispatched(sent, id, l, told) /\ told \in BOOLEAN /\ l \in 1 .. l
      BY <1>3, <1>4, <2>2 DEF Types
    <3> HIDE DEF id, l, told
    <3>2. Shipped(sent, id, l, told)
      BY <1>3, <1>4, <3>1, DispatchShips
    <3>3. QED
      BY <3>1, <3>2 DEF Shipped
  <2>3. QED
    BY <2>1, <2>2
<1>7. \A d \in Conns : handler'[d] = handler[d] \/ handler'[d].op = "idle"
  BY <1>3 DEF Idle, Types, HandlerOK
<1> HIDE DEF id, l, M, notice
<1>8. \A j \in Ids : \/ scope'.records[j].response = scope.records[j].response
                     \/ scope'.records[j].response = None
                     \/ j = id /\ scope'.records[j].response = l
  <2>1. \A j \in Ids : \/ scope'.records[j] = scope.records[j]
                       \/ scope'.records[j] = Absent
                       \/ j = id /\ scope'.records[j] = Answer(scope.records[j], l)
    BY <1>3 DEF Finished
  <2>2. Absent.response = None /\ \A r : Answer(r, l).response = l
    BY DEF Absent, Answer
  <2>3. QED
    BY <2>1, <2>2
<1>9. ASSUME NEW j, On(j)', j # l PROVE On(j) \/ (owner.conn = client.conn /\ owner.lease = j)
  <2>2. \/ On(j)
        \/ notified /\ owner.conn = client.conn /\ notice.lease = j
        \/ \E k \in 1 .. Len(sent) : sent[k].lease = j
    BY <1>5, <1>9, OnAppended
  <2>3. QED
    BY <1>5, <1>6, <1>9, <2>2
<1>10. ASSUME NEW j, On(j)', j = l PROVE client.conn = c \/ Waits(client.conn, id)
  <2>1. \/ On(j)
        \/ notified /\ owner.conn = client.conn /\ notice.lease = j
        \/ \E k \in 1 .. Len(sent) : sent[k].lease = j
    BY <1>5, <1>10, OnAppended
  <2>2. ~ On(j) /\ notice.lease # j
    BY <1>4, <1>5, <1>10, LeasesTyped
  <2>3. QED
    BY <1>6, <2>1, <2>2
<1>11. ASSUME client.conn # 0, NEW j \in 1 .. leases, Rebinds(j)' PROVE Rebinds(j)
  <2>0. client.conn \in Conns /\ j # l
    BY <1>4, <1>11, NumbersTyped
  <2>1. QED
    BY <1>1, <1>4, <1>7, <1>8, <1>11, <2>0 DEF Rebinds, Unread
<1>12. ASSUME client.conn # 0, NEW j \in 1 .. leases, Mine(j)' \/ On(j)' PROVE Mine(j) \/ On(j)
  <2>1. ~ Mine(j)' /\ j # l
    BY <1>3, <1>4 DEF Mine
  <2>2. QED
    BY <1>9, <1>12, <2>1 DEF Mine
<1>13. ASSUME client.conn # 0, NEW j \in 1 .. leases', j > leases, Rebinds(j)', Mine(j)' \/ On(j)' PROVE FALSE
  <2>1. j = l /\ client.conn \in Conns
    BY <1>3, <1>4, <1>13, NumbersTyped DEF l
  <2>2. handler'[client.conn].op = "reattach" => handler'[client.conn].lease # l
    <3>1. handler'[client.conn].op = "reattach" => handler'[client.conn] = handler[client.conn]
      BY <1>7, <2>1
    <3>2. QED
      BY <1>4, <2>1, <3>1, HandlerTyped
  <2>3. PICK i \in Ids : Unread(client.conn, i) /\ scope'.records[i].response = l
    BY <1>1, <1>13, <2>1, <2>2 DEF Rebinds, Unread
  <2>4. i = id
    <3>1. scope.records[i].response \in 0 .. leases \cup {None}
      BY <2>1, HandlerTyped
    <3>2. QED
      BY <1>4, <1>8, <2>3, <3>1
  <2>5. client.conn = c \/ Waits(client.conn, id)
    <3>1. CASE Mine(j)'
      BY <1>1, <1>3, <3>1 DEF Mine
    <3>2. CASE On(j)'
      BY <1>10, <2>1, <3>2
    <3>3. QED
      BY <1>13, <3>1, <3>2
  <2>6. InHand(client.conn, id)
    BY <1>3, <2>5 DEF InHand, id
  <2>7. QED
    BY <1>3, <2>1, <2>3, <2>4, <2>6 DEF Reading, ReadOnce
<1>14. QED
  BY <1>1, <1>3, <1>4, <1>11, <1>12, <1>13, DaemonLeased

\* A step of the client on its connection: what it believes, or takes for the
\* lease of its attach, is what it did before, nothing, or what it heard.
LEMMA HeardLeased ==
    ASSUME Types, Leased, UNCHANGED << owner, leases >>, client.conn # 0, client'.conn = client.conn,
           \A l \in 1 .. leases : Rebinds(l)' => Rebinds(l),
           \A l : On(l)' => On(l),
           attach'.lease \in {0, attach.lease} \/ On(attach'.lease),
           client'.lease \in {0, client.lease} \/ On(client'.lease),
           Stale' => Stale /\ client'.lease = client.lease,
           Bound'
    PROVE  Leased'
<1>1. Once'
  <2>1. SUFFICES ASSUME NEW l \in 1 .. leases, Seen(l)', Rebinds(l)' PROVE FALSE
    BY DEF Once
  <2>2. l # 0 /\ Rebinds(l)
    BY <2>1, LeasesTyped
  <2>3. Seen(l)
    BY <2>1, <2>2 DEF Seen, Mine
  <2>4. QED
    BY <2>2, <2>3 DEF Leased, Once
<1>2. Gone'
  <2>1. SUFFICES ASSUME Stale'
                 PROVE  attach'.lease # client'.lease /\ ~ Mine(client.lease)' /\ ~ On(client.lease)'
    BY DEF Gone
  <2>2. Stale /\ client'.lease = client.lease /\ client.lease # 0
    BY <2>1 DEF Stale
  <2>3. attach.lease # client.lease /\ ~ Mine(client.lease) /\ ~ On(client.lease)
    BY <2>2 DEF Leased, Gone
  <2>4. ~ Mine(client.lease)'
    BY <2>2, <2>3 DEF Mine
  <2>5. ~ On(client.lease)'
    <3>1. ASSUME NEW l, On(l)', l = client.lease PROVE FALSE
      BY <2>3, <3>1
    <3>2. QED
      BY <2>2, <3>1 DEF On
  <2>6. QED
    BY <2>2, <2>3, <2>4, <2>5
<1>3. QED
  BY <1>1, <1>2 DEF Leased

LEMMA OnTaken ==
    ASSUME Types, Receives
    PROVE  /\ On(wire[1].lease) /\ \A l : On(l)' => On(l)
           /\ \A l \in 1 .. leases : Rebinds(l)' => Rebinds(l) \/ client'.conn # client.conn
<1>1. /\ Len(wire) \in Nat \ {0} /\ Len(wire') = Len(wire) - 1
      /\ \A k \in 1 .. Len(wire) - 1 : wire'[k] = wire[k + 1]
      /\ UNCHANGED << scope, handler, inbox >>
  BY ReceivesDoes
<1>2. On(wire[1].lease)
  BY <1>1 DEF On
<1>3. ASSUME NEW l, NEW k \in 1 .. Len(wire'), wire'[k].lease = l PROVE On(l)
  <2>1. k + 1 \in 1 .. Len(wire) /\ wire[k + 1].lease = l
    BY <1>1, <1>3
  <2>2. QED
    BY <2>1 DEF On
<1>4. \A l : On(l)' => On(l)
  BY <1>3 DEF On
<1>5. QED
  BY <1>1, <1>2, <1>4 DEF Rebinds, Unread

LEMMA FailureLeased ==
    ASSUME Types, Numbered, Leased, AttachRefused \/ Disorder \/ Timeout
    PROVE  Leased'
<1>1. PICK definite \in BOOLEAN : Fails(definite)
  BY DEF AttachRefused, Disorder, Timeout
<1>2. UNCHANGED << owner, leases, scope, handler, inbox >> /\ (wire' = wire \/ Receives)
  BY DEF AttachRefused, Disorder, Timeout, Receives, daemon
<1>3. attach' = Away /\ attach.id # 0 /\ client' = AfterFailure(client, attach.origin, definite)
  BY <1>1 DEF Fails
<1>4. client \in ClientType
  BY DEF Types, ClientOK
<1>5. /\ client'.conn = client.conn
      /\ \/ /\ client'.lease = client.lease /\ client'.bound = client.bound
         \/ client'.lease = 0
  BY <1>3, <1>4, FailureTyped
<1>6. Bound' /\ attach'.lease = 0 /\ client.conn # 0
  BY <1>3, <1>5 DEF Leased, Bound, Away, Numbered, ConnectionOK
<1>7. Stale' => Stale /\ client'.lease = client.lease
  BY <1>3, <1>5 DEF Stale, Held
<1>8. (\A l : On(l)' => On(l)) /\ \A l \in 1 .. leases : Rebinds(l)' => Rebinds(l)
  <2>1. CASE Receives
    BY <1>5, <2>1, OnTaken
  <2>2. CASE wire' = wire
    BY <1>2, <1>5, <2>2 DEF On, Rebinds, Unread
  <2>3. QED
    BY <1>2, <2>1, <2>2
<1>9. QED
  BY <1>2, <1>5, <1>6, <1>7, <1>8, HeardLeased

LEMMA HandledLeased ==
    ASSUME Types, Numbered, Leased,
           AttachAccepted \/ ReplayBegin \/ ReplayChunk \/ ReplayEnd \/ ShowOutput \/ LoseLease \/ Ignore
    PROVE  Leased'
<1>1. Receives
  BY DEF AttachAccepted, ReplayBegin, ReplayChunk, ReplayEnd, ShowOutput, LoseLease, Ignore
<1>2. Head(wire) = wire[1] /\ wire # << >> /\ UNCHANGED << owner, leases >>
  BY <1>1, ReceivesDoes
<1>3. client.conn # 0 /\ client \in ClientType /\ attach \in AttachType
  BY <1>2 DEF Numbered, ConnectionOK, Types, ClientOK, AttachOK
<1>4. client'.conn = client.conn
  BY <1>3 DEF AttachAccepted, ReplayBegin, ReplayChunk, ReplayEnd, ShowOutput, LoseLease, Ignore, Cleared, ClientType
<1>5. /\ On(wire[1].lease) /\ \A l : On(l)' => On(l)
      /\ \A l \in 1 .. leases : Rebinds(l)' => Rebinds(l)
  BY <1>1, <1>4, OnTaken
<1>6. CASE AttachAccepted
  <2>1. client' = client /\ attach'.lease = wire[1].lease /\ attach'.id = attach.id /\ attach'.origin = attach.origin
    BY <1>2, <1>3, <1>6 DEF AttachAccepted, AttachType
  <2>2. Bound' /\ (Stale' => Stale)
    BY <2>1 DEF Leased, Bound, Stale, Held
  <2>3. QED
    BY <1>2, <1>3, <1>5, <2>1, <2>2, HeardLeased
<1>7. CASE ReplayBegin \/ ReplayChunk
  <2>1. client' = client /\ attach'.lease = attach.lease /\ attach'.id = attach.id /\ attach'.origin = attach.origin
    BY <1>2, <1>3, <1>7 DEF ReplayBegin, ReplayChunk, AttachType
  <2>2. Bound' /\ (Stale' => Stale)
    BY <2>1 DEF Leased, Bound, Stale, Held
  <2>3. QED
    BY <1>2, <1>3, <1>5, <2>1, <2>2, HeardLeased
<1>8. CASE ReplayEnd
  <2>1. /\ client'.lease = wire[1].lease /\ client'.bound = client.bound /\ ~ client'.queued
        /\ attach' = Away /\ attach.id # 0
    BY <1>2, <1>3, <1>8 DEF ReplayEnd, Answers, ClientType
  <2>2. Bound' /\ ~ Stale' /\ attach'.lease = 0
    BY <2>1 DEF Leased, Bound, Stale, Held, Away
  <2>3. QED
    BY <1>2, <1>3, <1>4, <1>5, <2>1, <2>2, HeardLeased
<1>9. CASE ShowOutput \/ Ignore
  <2>1. /\ client'.lease \in {0, client.lease} /\ client'.bound = client.bound
        /\ client'.queued = client.queued /\ attach' = attach
    BY <1>2, <1>3, <1>9 DEF ShowOutput, Ignore, ClientType
  <2>2. Bound' /\ (Stale' => Stale /\ client'.lease = client.lease)
    BY <2>1 DEF Leased, Bound, Stale, Held
  <2>3. QED
    BY <1>2, <1>3, <1>4, <1>5, <2>1, <2>2, HeardLeased
<1>10. CASE LoseLease
  <2>1. /\ client.lease # 0 /\ client.lease = wire[1].lease /\ client'.lease = 0 /\ attach' = attach
    BY <1>2, <1>3, <1>10 DEF LoseLease, Concerns, Cleared, ClientType
  <2>2. attach.id = 0
    BY <1>3, <1>5, <2>1 DEF Leased, Gone, Stale, Held
  <2>3. Bound' /\ ~ Stale'
    BY <2>1, <2>2 DEF Bound, Stale
  <2>4. QED
    BY <1>2, <1>3, <1>4, <1>5, <2>1, <2>3, HeardLeased
<1>11. QED
  BY <1>6, <1>7, <1>8, <1>9, <1>10

\* On a new connection nothing was heard yet.
LEMMA ReconnectedLeased ==
    ASSUME Types, Numbered, NEW n \in Conns, n = client.opened + 1, UNCHANGED << owner, leases, scope, handler >>,
           client'.conn = n, wire' = << >>, attach'.lease = 0, Bound',
           client'.lease = 0 \/ \A id \in Ids : Unread(n, id)' => scope.records[id] = Absent
    PROVE  Leased'
<1>1. /\ n \in Nat /\ n > client.opened /\ n # 0 /\ owner.conn \in Nat /\ owner.conn <= client.opened
      /\ client.opened \in Nat
  BY ConstantsTyped, NumbersTyped DEF Numbered, OwnerOK
<1>2. handler'[n].op = "idle"
  BY <1>1 DEF Numbered, Unopened, Idle
<1>3. Len(wire') = 0 /\ owner'.conn # client'.conn
  BY <1>1
<1>4. \A l : ~ Mine(l)' /\ ~ On(l)'
  BY <1>3 DEF Mine, On
<1>5. ASSUME NEW l \in 1 .. leases', Seen(l)', Rebinds(l)' PROVE FALSE
  <2>1. client'.lease = l /\ l # 0
    BY <1>4, <1>5, LeasesTyped DEF Seen
  <2>2. PICK id \in Ids : Unread(n, id)' /\ scope.records[id].response = l
    BY <1>2, <1>5 DEF Rebinds, Unread
  <2>3. scope.records[id] = Absent
    BY <2>1, <2>2
  <2>4. Absent.response = None /\ None \notin Nat /\ leases' \in Nat
    BY LeasesTyped, ConstantsTyped DEF Absent
  <2>5. QED
    BY <2>2, <2>3, <2>4
<1>6. Once'
  BY <1>5 DEF Once
<1>7. Gone'
  <2>1. SUFFICES ASSUME Stale' PROVE attach'.lease # client'.lease /\ ~ Mine(client.lease)' /\ ~ On(client.lease)'
    BY DEF Gone
  <2>2. attach'.lease # client'.lease
    BY <2>1 DEF Stale
  <2>3. QED
    BY <1>3, <2>2 DEF Mine, On
<1>8. QED
  BY <1>6, <1>7 DEF Leased

LEMMA ConnectLeased ==
    ASSUME Types, Numbered, Leased, Connect
    PROVE  Leased'
<1>1. /\ Reconnects(<< >>) /\ client' = Reconnected(client) /\ client.conn = 0
      /\ UNCHANGED << owner, leases, scope, handler, attach >>
  BY DEF Connect, daemon
<1>2. << >> \in Seq(Ids) /\ Len(<< >>) = 0
  OBVIOUS
<1>3. /\ client.opened + 1 \in Conns /\ wire' = << >>
      /\ inbox' = [inbox EXCEPT ![client.opened + 1] = << >>]
  BY <1>1, <1>2, ReconnectsDoes
<1>4. /\ client'.conn = client.opened + 1 /\ client'.lease = client.lease /\ client'.bound = client.bound
  BY <1>1, <1>3, ReconnectedTyped DEF Types, ClientOK
<1>5. attach.id = 0 /\ attach' = attach /\ attach.lease = 0
  BY <1>1 DEF Numbered, ConnectionOK, EntryOK, Away
<1>6. Bound'
  BY <1>4, <1>5 DEF Leased, Bound
<1> DEFINE n == client.opened + 1
<1>7. Len(inbox'[n]) = 0
  BY <1>2, <1>3 DEF Types, InboxOK
<1>8. n \in Conns /\ n = client.opened + 1 /\ client'.conn = n
  BY <1>3, <1>4
<1> HIDE DEF n
<1>9. \A m \in Conns : m = n => \A id \in Ids : ~ Unread(m, id)'
  BY <1>7 DEF Unread
<1>10. ASSUME NEW m \in Conns, m = n PROVE Leased'
  <2>1. m = client.opened + 1 /\ client'.conn = m /\ \A id \in Ids : ~ Unread(m, id)'
    BY <1>8, <1>9, <1>10
  <2>2. QED
    BY <1>1, <1>3, <1>5, <1>6, <2>1, ReconnectedLeased
<1>11. QED
  BY <1>8, <1>10

LEMMA ResumeLeased ==
    ASSUME Types, Numbered, Leased, ResumeAndResend
    PROVE  Leased'
<1>1. /\ client.opened + 1 \in Conns /\ wire' = << >>
      /\ client' = [Reconnected(client) EXCEPT !.lease = 0, !.expected = 0]
      /\ attach' = Awaiting(attach.id, attach.origin)
      /\ UNCHANGED << owner, leases, scope, handler >>
  BY ResumeTyped
<1>2. /\ Reconnected(client) \in ClientType /\ Reconnected(client).conn = client.opened + 1
      /\ Reconnected(client).bound = client.bound
  BY <1>1, ReconnectedTyped DEF Types, ClientOK
<1>3. client'.conn = client.opened + 1 /\ client'.bound = client.bound /\ client'.lease = 0
  BY <1>1, <1>2 DEF ClientType
<1>4. attach'.lease = 0 /\ attach'.id = attach.id /\ attach'.origin = attach.origin
  BY <1>1 DEF Awaiting, Away
<1>5. Bound'
  BY <1>3, <1>4 DEF Leased, Bound
<1>6. ASSUME NEW m \in Conns, m = client.opened + 1 PROVE Leased'
  BY <1>1, <1>3, <1>4, <1>5, <1>6, ReconnectedLeased
<1>7. QED
  BY <1>1, <1>6

LEMMA LosesLeased ==
    ASSUME Types, Leased, GiveUp \/ Disconnect
    PROVE  Leased'
<1>1. client'.conn = 0
  BY LosesTyped
<1>2. Bound'
  <2>1. CASE GiveUp
    <3> DEFINE left == [client EXCEPT !.conn = 0]
    <3>1. left \in ClientType /\ left.lease = client.lease /\ left.bound = client.bound
      BY AttachReplayAssumption DEF Types, ClientOK, ClientType
    <3>2. PICK definite \in BOOLEAN : client' = AfterFailure(left, attach.origin, definite)
      BY <2>1 DEF GiveUp
    <3> HIDE DEF left
    <3>3. (client'.lease = client.lease /\ client'.bound = client.bound) \/ client'.lease = 0
      BY <3>1, <3>2, FailureTyped
    <3>4. attach'.id = 0
      BY <2>1 DEF GiveUp, Away
    <3>5. QED
      BY <3>3, <3>4 DEF Leased, Bound
  <2>2. CASE Disconnect
    BY <2>2 DEF Disconnect, Leased, Bound, Types, ClientOK, ClientType
  <2>3. QED
    BY <2>1, <2>2
<1>3. QED
  BY <1>1, <1>2 DEF Leased, Once, Gone

LEMMA StartAttachLeased ==
    ASSUME Types, Numbered, Leased, NEW origin \in {"user", "queue"}, StartAttach(origin)
    PROVE  Leased'
<1> DEFINE id == client.last + 1
<1>1. /\ id \in Ids /\ client.conn # 0 /\ client.conn \in Conns /\ attach.id = 0
      /\ IF origin = "queue" THEN client.queued /\ client.bound
         ELSE ~ (client.bound /\ client.lease # 0)
      /\ UNCHANGED << owner, leases, scope, handler >>
      /\ StartedEntry \in ClientType
      /\ Writes(id, origin) \/ Reopens(id, origin) \/ Abandons(origin)
  BY StartAttachDoes
<1>2. /\ StartedEntry.conn = client.conn /\ StartedEntry.lease = client.lease
      /\ StartedEntry.bound /\ StartedEntry.opened = client.opened
  BY DEF StartedEntry, Types, ClientOK, ClientType
<1>3. scope.records[id] = Absent /\ Absent.response = None /\ None \notin Nat /\ leases \in Nat
  <2>1. id > client.last /\ client.last \in Nat
    BY NumbersTyped
  <2>2. QED
    BY <1>1, <2>1, LeasesTyped, ConstantsTyped DEF Numbered, Unsent, Absent
<1> HIDE DEF id
<1>4. /\ Awaiting(id, origin).id = id /\ Awaiting(id, origin).lease = 0
      /\ Awaiting(id, origin).origin = origin
  BY DEF Awaiting, Away
<1>5. /\ origin = "user" => client.lease = 0
      /\ client.lease # 0 => Stale
  BY <1>1 DEF Leased, Bound, Stale, Held
<1>6. CASE Writes(id, origin)
  <2>1. /\ client' = StartedEntry /\ attach' = Awaiting(id, origin) /\ wire' = wire
        /\ inbox' = [inbox EXCEPT ![client.conn] = Append(@, id)]
    BY <1>6 DEF Writes
  <2>2. inbox[client.conn] \in Seq(Ids) /\ inbox'[client.conn] = Append(inbox[client.conn], id)
    BY <1>1, <2>1 DEF Types, InboxOK
  <2>3. \A j \in Ids : Unread(client.conn, j)' => Unread(client.conn, j) \/ j = id
    <3>1. /\ Len(Append(inbox[client.conn], id)) = Len(inbox[client.conn]) + 1
          /\ Append(inbox[client.conn], id)[Len(inbox[client.conn]) + 1] = id
          /\ \A k \in 1 .. Len(inbox[client.conn]) : Append(inbox[client.conn], id)[k] = inbox[client.conn][k]
          /\ Len(inbox[client.conn]) \in Nat
      BY <1>1, <2>2, Appended
    <3>2. client'.conn = client.conn
      BY <1>2, <2>1
    <3>3. ASSUME NEW j \in Ids, NEW k \in 1 .. Len(inbox[client.conn]) + 1,
                 Append(inbox[client.conn], id)[k] = j, k # Len(inbox[client.conn]) + 1
          PROVE  k \in 1 .. Len(inbox[client.conn]) /\ inbox[client.conn][k] = j
      BY <3>1, <3>3
    <3>4. ASSUME NEW j \in Ids, Unread(client.conn, j)', j # id
          PROVE  Unread(client.conn, j)
      <4>1. PICK k \in 1 .. Len(Append(inbox[client.conn], id)) : Append(inbox[client.conn], id)[k] = j
        BY <2>2, <3>2, <3>4 DEF Unread
      <4>2. k \in 1 .. Len(inbox[client.conn]) + 1 /\ k # Len(inbox[client.conn]) + 1
        BY <3>1, <3>4, <4>1
      <4>3. QED
        BY <3>3, <4>1, <4>2 DEF Unread
    <3>5. QED
      BY <3>4
  <2>4. \A l \in 1 .. leases : Rebinds(l)' => Rebinds(l)
    BY <1>1, <1>2, <1>3, <2>1, <2>3 DEF Rebinds
  <2>5. \A l : On(l)' => On(l)
    BY <2>1 DEF On
  <2>6. Bound' /\ (Stale' => Stale /\ client'.lease = client.lease)
    BY <1>2, <1>4, <1>5, <2>1 DEF Bound, Stale
  <2>7. QED
    BY <1>1, <1>2, <1>4, <2>1, <2>4, <2>5, <2>6, HeardLeased
<1>7. CASE Reopens(id, origin)
  <2>1. Reconnects(<< id >>) /\ client' = Reconnected(StartedEntry) /\ attach' = Awaiting(id, origin)
    BY <1>7 DEF Reopens
  <2>2. << id >> \in Seq(Ids) /\ Len(<< id >>) = 1 /\ << id >>[1] = id
    BY <1>1
  <2>3. /\ client.opened + 1 \in Conns /\ wire' = << >>
        /\ inbox' = [inbox EXCEPT ![client.opened + 1] = << id >>]
    BY <2>1, <2>2, ReconnectsDoes
  <2>4. /\ client'.conn = client.opened + 1 /\ client'.lease = client.lease /\ client'.bound
    BY <1>1, <1>2, <2>1, <2>3, ReconnectedTyped
  <2>5. Bound'
    BY <1>4, <1>5, <2>1, <2>4 DEF Bound
  <2>6. ASSUME NEW m \in Conns, m = client.opened + 1 PROVE Leased'
    <3>1. inbox'[m] = << id >>
      BY <2>3, <2>6 DEF Types, InboxOK
    <3>2. \A j \in Ids : Unread(m, j)' => scope.records[j] = Absent
      BY <1>3, <2>2, <3>1 DEF Unread
    <3>3. QED
      BY <1>1, <1>4, <2>1, <2>3, <2>4, <2>5, <2>6, <3>2, ReconnectedLeased
  <2>7. QED
    BY <2>3, <2>6
<1>8. CASE Abandons(origin)
  <2> DEFINE left == [StartedEntry EXCEPT !.conn = 0]
  <2>1. left \in ClientType /\ left.conn = 0 /\ left.bound
    BY <1>1, <1>2, AttachReplayAssumption DEF ClientType
  <2>2. PICK definite \in BOOLEAN : client' = AfterFailure(left, origin, definite)
    BY <1>8 DEF Abandons
  <2> HIDE DEF left
  <2>3. client'.conn = 0 /\ (client'.bound \/ client'.lease = 0)
    BY <2>1, <2>2, FailureTyped
  <2>4. attach' = attach
    BY <1>8 DEF Abandons
  <2>5. QED
    BY <1>1, <2>3, <2>4 DEF Leased, Once, Gone, Bound
<1>9. QED
  BY <1>1, <1>6, <1>7, <1>8

LEMMA NewReading ==
    ASSUME Types, Numbered, Reading, Connect \/ ResumeAndResend \/ (\E origin \in {"user", "queue"} : StartAttach(origin))
    PROVE  Reading'
<1>1. CASE Connect
  <2>1. Reconnects(<< >>) /\ UNCHANGED << scope, handler >>
    BY <1>1 DEF Connect, daemon
  <2>2. << >> \in Seq(Ids) /\ Len(<< >>) = 0
    OBVIOUS
  <2>3. client.opened + 1 \in Conns /\ inbox' = [inbox EXCEPT ![client.opened + 1] = << >>]
    BY <2>1, <2>2, ReconnectsDoes
  <2>4. \A d \in Conns : inbox'[d] = inbox[d] \/ Len(inbox'[d]) = 0
    BY <2>2, <2>3 DEF Types, InboxOK
  <2>5. ReadOnce'
    BY <2>1, <2>4 DEF Reading, ReadOnce, InHand, Unread, Waits
  <2>6. QED
    BY <2>1, <2>5 DEF Reading, OneLease, Asking, Granting, Waits
<1>2. CASE ResumeAndResend
  <2>1. /\ attach.id \in Ids /\ client.opened + 1 \in Conns /\ client.opened + 1 > client.opened
        /\ inbox' = [inbox EXCEPT ![client.opened + 1] = << attach.id >>]
        /\ UNCHANGED << scope, handler >>
    BY <1>2, ResumeTyped, NumbersTyped
  <2>2. QED
    BY <2>1, WrittenReading
<1>3. ASSUME NEW origin \in {"user", "queue"}, StartAttach(origin) PROVE Reading'
  <2> DEFINE id == client.last + 1
  <2>1. /\ id \in Ids /\ client.conn \in Conns
        /\ UNCHANGED << scope, handler >>
        /\ Writes(id, origin) \/ Reopens(id, origin) \/ Abandons(origin)
    BY <1>3, StartAttachDoes
  <2>2. id > client.last /\ client.opened + 1 > client.opened
    BY NumbersTyped
  <2> HIDE DEF id
  <2>3. CASE Writes(id, origin)
    BY <2>1, <2>2, <2>3, WrittenReading DEF Writes
  <2>4. CASE Reopens(id, origin)
    <3>1. Reconnects(<< id >>) /\ << id >> \in Seq(Ids)
      BY <2>1, <2>4 DEF Reopens
    <3>2. client.opened + 1 \in Conns /\ inbox' = [inbox EXCEPT ![client.opened + 1] = << id >>]
      BY <3>1, ReconnectsDoes
    <3>3. QED
      BY <2>1, <2>2, <3>2, WrittenReading
  <2>5. CASE Abandons(origin)
    BY <2>1, <2>5, SameReading DEF Abandons
  <2>6. QED
    BY <2>1, <2>3, <2>4, <2>5
<1>4. QED
  BY <1>1, <1>2, <1>3

LEMMA NextReading == Types /\ Numbered /\ Reading /\ [Next]_vars => Reading'
<1> SUFFICES ASSUME Types, Numbered, Reading, [Next]_vars PROVE Reading'
  OBVIOUS
<1>1. ASSUME NEW delivered \in BOOLEAN, (\E n \in 1 .. MaxRead : Publish(n, delivered)) \/ Takeover(delivered)
      PROVE  Reading'
  <2>1. UNCHANGED << scope, handler, inbox >>
    BY <1>1 DEF Publish, Takeover
  <2>2. QED
    BY <2>1, SameReading
<1>2. ASSUME NEW delivered \in BOOLEAN, NEW c \in Conns, CommitNew(c, delivered) PROVE Reading'
  <2>1. PICK selected \in Conns, sent \in Seq(MessagesOf(leases + 1)) : Commits(c, delivered, selected, sent)
    BY <1>2, CommitNewDoes
  <2>2. /\ handler[c].op = "attach" /\ Finished(scope, scope', handler[c].id, leases + 1)
        /\ handler' = [handler EXCEPT ![c] = Idle] /\ inbox' = inbox /\ leases + 1 \in Nat
    BY <1>2, <2>1, LeasesTyped DEF Commits, CommitNew
  <2>3. QED
    BY <2>2, AnsweredReading
<1>3. ASSUME NEW delivered \in BOOLEAN, NEW c \in Conns, CommitRebind(c, delivered) PROVE Reading'
  <2>1. handler' = [handler EXCEPT ![c] = Idle] /\ UNCHANGED << scope, inbox >>
    BY <1>3 DEF CommitRebind
  <2>2. QED
    BY <2>1, DoneReading
<1>4. ASSUME NEW c \in Conns, NEW refused \in SUBSET Conns, CommitFailed(c, refused) PROVE Reading'
  <2>1. /\ handler[c].op = "attach" /\ Finished(scope, scope', handler[c].id, 0)
        /\ handler' = [handler EXCEPT ![c] = Idle] /\ inbox' = inbox
    BY <1>4, CommitFailedTyped DEF CommitFailed, Failed
  <2>2. QED
    BY <2>1, AnsweredReading
<1>5. ASSUME NEW c \in Conns, CommitSuperseded(c) PROVE Reading'
  <2>1. handler' = [handler EXCEPT ![c] = Idle] /\ UNCHANGED << scope, inbox >>
    BY <1>5 DEF CommitSuperseded
  <2>2. QED
    BY <2>1, DoneReading
<1>6. ASSUME \/ GiveUp \/ Disconnect \/ Timeout
             \/ AttachAccepted \/ AttachRefused \/ ReplayBegin \/ ReplayChunk \/ ReplayEnd
             \/ Disorder \/ ShowOutput \/ LoseLease \/ Ignore
      PROVE  Reading'
  <2>1. UNCHANGED << scope, handler, inbox >>
    BY <1>6 DEF GiveUp, Disconnect, Timeout, AttachAccepted, AttachRefused, ReplayBegin, ReplayChunk, ReplayEnd,
                Disorder, ShowOutput, LoseLease, Ignore, Receives, daemon
  <2>2. QED
    BY <2>1, SameReading
<1>7. CASE UNCHANGED vars
  BY <1>7, SameReading DEF vars
<1>8. ASSUME NEW c \in Conns, BeginAttach(c) PROVE Reading'
  BY <1>8, BeginAttachReading
<1>9. ASSUME NEW c \in Conns, WriterEnds(c) \/ ReaderEnds(c) PROVE Reading'
  BY <1>9, EndsReading
<1>10. ASSUME Connect \/ ResumeAndResend \/ (\E origin \in {"user", "queue"} : StartAttach(origin)) PROVE Reading'
  BY <1>10, NewReading
<1>11. QED
  BY <1>1, <1>2, <1>3, <1>4, <1>5, <1>6, <1>7, <1>8, <1>9, <1>10 DEF Next, Daemon, Client

LEMMA NextLeased == Types /\ Numbered /\ Reading /\ Leased /\ [Next]_vars => Leased'
<1> SUFFICES ASSUME Types, Numbered, Reading, Leased, [Next]_vars PROVE Leased'
  OBVIOUS
<1>1. ASSUME NEW delivered \in BOOLEAN, (\E n \in 1 .. MaxRead : Publish(n, delivered)) \/ Takeover(delivered)
      PROVE  Leased'
  BY <1>1, PublishLeased
<1>2. ASSUME NEW delivered \in BOOLEAN, NEW c \in Conns, CommitNew(c, delivered) PROVE Leased'
  BY <1>2, CommitNewLeased
<1>3. ASSUME NEW delivered \in BOOLEAN, NEW c \in Conns, CommitRebind(c, delivered) PROVE Leased'
  BY <1>3, CommitRebindLeased
<1>4. ASSUME NEW c \in Conns, CommitSuperseded(c) \/ (\E refused \in SUBSET Conns : CommitFailed(c, refused))
      PROVE  Leased'
  BY <1>4, RefusedLeased
<1>5. ASSUME NEW c \in Conns, BeginAttach(c) PROVE Leased'
  BY <1>5, BeginAttachLeased
<1>6. ASSUME NEW c \in Conns, WriterEnds(c) \/ ReaderEnds(c) PROVE Leased'
  BY <1>6, EndsLeased
<1>7. ASSUME NEW origin \in {"user", "queue"}, StartAttach(origin) PROVE Leased'
  BY <1>7, StartAttachLeased
<1>8. ASSUME Connect \/ ResumeAndResend \/ GiveUp \/ Disconnect PROVE Leased'
  BY <1>8, ConnectLeased, ResumeLeased, LosesLeased
<1>9. ASSUME AttachRefused \/ Disorder \/ Timeout PROVE Leased'
  BY <1>9, FailureLeased
<1>10. ASSUME AttachAccepted \/ ReplayBegin \/ ReplayChunk \/ ReplayEnd \/ ShowOutput \/ LoseLease \/ Ignore
       PROVE  Leased'
  BY <1>10, HandledLeased
<1>11. CASE UNCHANGED vars
  <2>1. leases \in Nat /\ UNCHANGED << client, attach, leases, scope, handler, inbox, owner, wire >>
    BY <1>11, LeasesTyped DEF vars
  <2>2. \A l : (Rebinds(l)' <=> Rebinds(l)) /\ (Mine(l)' <=> Mine(l)) /\ (On(l)' <=> On(l))
    BY <2>1 DEF Rebinds, Unread, Mine, On
  <2>3. QED
    BY <2>1, <2>2, DaemonLeased
<1>12. QED
  BY <1>1, <1>2, <1>3, <1>4, <1>5, <1>6, <1>7, <1>8, <1>9, <1>10, <1>11 DEF Next, Daemon, Client
-----------------------------------------------------------------------------
(***************************************************************************)
(* What is on the screen.                                                  *)
(***************************************************************************)
Collected ==
    /\ attach.next # None => /\ attach.first \in Nat /\ attach.next \in Nat /\ attach.first <= attach.next
                             /\ attach.watermark # None
    /\ attach.next = None => attach.watermark = None

OnScreen ==
    /\ attach.id # 0 => screen = Blank
    /\ Held => /\ screen.from \in Nat /\ screen.from <= client.expected
               /\ screen = [from |-> screen.from, bytes |-> Run(screen.from, client.expected)]

Shown == Collected /\ OnScreen

Counts(p, i, j) == p \in Seq(Nat) /\ Len(p) = j - i /\ \A k \in 1 .. j - i : p[k] = i + k - 1

LEMMA RunTyped ==
    ASSUME NEW i \in Nat, NEW j \in Nat, i <= j PROVE Counts(Run(i, j), i, j)
<1>1. j - i \in Nat /\ \A k \in 1 .. j - i : i + k - 1 \in Nat
  OBVIOUS
<1>2. QED
  BY <1>1 DEF Run, Counts

LEMMA SequencesJoin ==
    ASSUME NEW a \in Nat, NEW b \in Nat, NEW c \in Nat, a <= b, b <= c,
           NEW p, Counts(p, a, b), NEW q, Counts(q, b, c)
    PROVE  p \o q = [k \in 1 .. c - a |-> a + k - 1]
<1> DEFINE s == p \o q
<1>1. p \in Seq(Nat) /\ q \in Seq(Nat)
  BY DEF Counts
<1>2. /\ s \in Seq(Nat) /\ Len(s) = Len(p) + Len(q)
      /\ \A k \in 1 .. Len(p) : s[k] = p[k]
      /\ \A k \in 1 .. Len(q) : s[Len(p) + k] = q[k]
  BY <1>1, Joined
<1> HIDE DEF s
<1>3. Len(p) = b - a /\ Len(q) = c - b /\ Len(s) = c - a
  BY <1>2 DEF Counts
<1>4. ASSUME NEW k \in 1 .. c - a PROVE s[k] = a + k - 1
  <2>1. CASE k <= b - a
    BY <1>2, <1>3, <2>1 DEF Counts
  <2>2. CASE k > b - a
    <3>1. k - (b - a) \in 1 .. c - b /\ k = Len(p) + (k - (b - a))
      BY <1>3, <2>2
    <3>2. s[k] = q[k - (b - a)]
      BY <1>2, <1>3, <3>1
    <3>3. q[k - (b - a)] = b + (k - (b - a)) - 1
      BY <3>1 DEF Counts
    <3>4. QED
      BY <3>2, <3>3
  <2>3. k <= b - a \/ k > b - a
    OBVIOUS
  <2>4. QED
    BY <2>1, <2>2, <2>3
<1>5. s = [k \in 1 .. Len(s) |-> s[k]]
  BY <1>2
<1>6. QED
  BY <1>3, <1>4, <1>5 DEF s

\* A run and the run that follows it are one run.
LEMMA RunJoins ==
    ASSUME NEW a \in Nat, NEW b \in Nat, NEW c \in Nat, a <= b, b <= c, NEW s, s = Run(a, b)
    PROVE  s \o Run(b, c) = Run(a, c)
<1>1. Counts(Run(a, b), a, b) /\ Counts(Run(b, c), b, c)
  BY RunTyped
<1>2. s \o Run(b, c) = [k \in 1 .. c - a |-> a + k - 1]
  BY <1>1, SequencesJoin
<1>3. QED
  BY <1>2 DEF Run

LEMMA RunAlone ==
    ASSUME NEW a \in Nat, NEW b \in Nat, a <= b
    PROVE  << >> \o Run(a, b) = Run(a, b)
<1>1. Run(a, b) \in Seq(Nat)
  BY RunTyped DEF Counts
<1>2. QED
  BY <1>1

LEMMA InitShown == Init => Shown
BY DEF Init, Shown, Collected, OnScreen, Held, Away

LEMMA AwayCollected == attach' = Away \/ (\E id, origin : attach' = Awaiting(id, origin)) => Collected'
<1>1. Away.next = None /\ Away.watermark = None
  BY DEF Away
<1>2. \A id, origin : Awaiting(id, origin).next = None /\ Awaiting(id, origin).watermark = None
  BY DEF Away, Awaiting
<1>3. QED
  BY <1>1, <1>2 DEF Collected

\* A message of a lease the client believes in finds it holding the lease.
LEMMA HoldsWhatItHears ==
    ASSUME Types, Numbered, Leased, wire # << >>, Concerns(wire[1])
    PROVE  Held /\ attach.id = 0
<1>1. wire \in Seq(Messages) /\ Len(wire) \in Nat \ {0}
  BY NumbersTyped
<1>2. client.conn # 0 /\ On(client.lease) /\ client.lease # 0
  BY <1>1 DEF Numbered, ConnectionOK, On, Concerns
<1>3. QED
  BY <1>2 DEF Leased, Gone, Stale, Held

\* Live output is shown behind what is on the screen, or the lease is dropped.
LEMMA ShowOutputDoes ==
    ASSUME Types, Numbered, Leased, Shown, ShowOutput
    PROVE  LET m == wire[1]
           IN  /\ Held /\ attach.id = 0 /\ attach' = attach
               /\ m.to \in 0 .. output /\ m.from < m.to /\ client.expected \in Nat /\ screen.from \in Nat
               /\ \/ /\ client.expected = m.from /\ client'.expected = m.to
                     /\ screen' = [from |-> screen.from, bytes |-> Run(screen.from, m.to)]
                  \/ client'.lease = 0 /\ screen' = screen
<1> DEFINE m == wire[1]
<1>1. Receives /\ attach' = attach
  BY DEF ShowOutput
<1>2. /\ wire # << >> /\ Head(wire) = m /\ m \in Messages /\ Len(wire) \in Nat \ {0}
      /\ 1 \in 1 .. Len(wire) /\ output \in Nat
  BY <1>1, ReceivesDoes
<1>3. m.kind = "output" /\ Concerns(m) /\ m.from < m.to
  BY <1>2 DEF ShowOutput, Numbered, WireSent, Proper
<1>4. /\ client \in ClientType /\ client.expected \in Nat /\ m.from \in Nat /\ m.to \in Nat
      /\ m.to \in 0 .. output
  BY <1>2 DEF Types, ClientOK, ClientType, Messages
<1>5. Held /\ attach.id = 0
  BY <1>2, <1>3, HoldsWhatItHears
<1>6. /\ screen.from \in Nat /\ screen.from <= client.expected
      /\ screen = [from |-> screen.from, bytes |-> Run(screen.from, client.expected)]
  BY <1>5 DEF Shown, OnScreen
<1>7. CASE client.expected = m.from
  <2>1. client'.expected = m.to
    BY <1>2, <1>4, <1>7 DEF ShowOutput, ClientType
  <2>2. screen' = [screen EXCEPT !.bytes = @ \o Run(m.from, m.to)]
    BY <1>2, <1>7 DEF ShowOutput
  <2>3. screen.bytes = Run(screen.from, m.from)
    BY <1>6, <1>7
  <2>a. m.from \in Nat /\ m.to \in Nat /\ m.from < m.to /\ client.expected \in Nat
    BY <1>3, <1>4
  <2> HIDE DEF m
  <2>4. screen.bytes \o Run(m.from, m.to) = Run(screen.from, m.to)
    <3>1. screen.from <= m.from /\ m.from <= m.to
      BY <2>a, <1>6, <1>7
    <3>2. screen.from \in Nat
      BY <1>6
    <3>3. PICK s, a, b, c : s = screen.bytes /\ a = screen.from /\ b = m.from /\ c = m.to
      OBVIOUS
    <3>4. a \in Nat /\ b \in Nat /\ c \in Nat /\ a <= b /\ b <= c /\ s = Run(a, b)
      BY <2>a, <2>3, <3>1, <3>2, <3>3
    <3>5. s \o Run(b, c) = Run(a, c)
      BY <3>4, RunJoins, ZenonT(40)
    <3>6. QED
      BY <3>3, <3>5
  <2>5. screen' = [from |-> screen.from, bytes |-> screen.bytes \o Run(m.from, m.to)]
    BY <1>6, <2>2
  <2>6. QED
    BY <1>1, <1>3, <1>4, <1>5, <1>6, <1>7, <2>1, <2>4, <2>5 DEF m
<1>8. CASE client.expected # m.from
  <2>1. client'.lease = 0 /\ screen' = screen
    BY <1>2, <1>4, <1>8 DEF ShowOutput, ClientType
  <2>2. QED
    BY <1>1, <1>3, <1>4, <1>5, <1>6, <2>1
<1>9. QED
  BY <1>7, <1>8

\* The replay is shown on a blank screen.
LEMMA ReplayEndDoes ==
    ASSUME Types, Numbered, Shown, ReplayEnd
    PROVE  /\ screen = Blank /\ attach' = Away /\ attach.first \in 0 .. wire[1].to
           /\ wire[1].to \in 0 .. output /\ client'.expected = wire[1].to
           /\ screen' = [from |-> attach.first, bytes |-> Run(attach.first, wire[1].to)]
<1>1. Receives /\ attach' = Away /\ attach.id # 0
  BY DEF ReplayEnd, Answers
<1>2. Head(wire) = wire[1] /\ wire[1] \in Messages /\ output \in Nat
  BY <1>1, ReceivesDoes
<1> DEFINE to == wire[1].to
<1>3. to \in Nat /\ to \in 0 .. output
  BY <1>2 DEF Messages
<1>4. attach.next = to
  BY <1>2 DEF ReplayEnd, InOrder
<1>5. attach.first \in Nat /\ attach.first <= to
  BY <1>3, <1>4, ConstantsTyped DEF Shown, Collected
<1>6. screen = Blank /\ screen.bytes = << >>
  BY <1>1 DEF Shown, OnScreen, Blank
<1>7. client'.expected = to
  BY <1>2 DEF ReplayEnd, Types, ClientOK, ClientType
<1>8. screen' = [from |-> attach.first, bytes |-> << >> \o Run(attach.first, to)]
  BY <1>2, <1>6 DEF ReplayEnd
<1> HIDE DEF to
<1>9. << >> \o Run(attach.first, to) = Run(attach.first, to)
  BY <1>3, <1>5, RunAlone
<1>10. QED
  BY <1>1, <1>3, <1>5, <1>6, <1>7, <1>8, <1>9 DEF to

\* A step that leaves the screen alone, or clears it, and starts to hold no lease.
LEMMA QuietShown ==
    ASSUME Shown, Collected', screen' = screen \/ screen' = Blank,
           attach'.id # 0 => attach.id # 0 \/ screen' = Blank,
           Held' => Held /\ client'.expected = client.expected /\ screen' = screen
    PROVE  Shown'
BY DEF Shown, OnScreen

LEMMA FailureHolds ==
    ASSUME Types, Leased, NEW entry \in ClientType, NEW origin \in {"user", "queue"}, NEW definite,
           origin = "user" => entry.lease = 0,
           client' = AfterFailure(entry, origin, definite)
    PROVE  ~ Held'
<1>1. \/ client'.lease = entry.lease /\ (client'.queued \/ origin # "queue")
      \/ client'.lease = 0
  BY FailureTyped
<1>2. QED
  BY <1>1 DEF Held

LEMMA FailureShown ==
    ASSUME Types, Leased, Shown, AttachRefused \/ Disorder \/ Timeout \/ GiveUp
    PROVE  Shown'
<1> DEFINE left == [client EXCEPT !.conn = 0]
<1>1. attach.id # 0 /\ attach' = Away /\ screen' = screen
  BY DEF AttachRefused, Disorder, Timeout, GiveUp, Fails
<1>2. left \in ClientType /\ left.lease = client.lease /\ client \in ClientType
  BY AttachReplayAssumption DEF Types, ClientOK, ClientType
<1>3. PICK definite \in BOOLEAN : \/ client' = AfterFailure(client, attach.origin, definite)
                                  \/ client' = AfterFailure(left, attach.origin, definite)
  BY DEF AttachRefused, Disorder, Timeout, GiveUp, Fails
<1> HIDE DEF left
<1>4. attach.origin \in {"user", "queue"} /\ (attach.origin = "user" => client.lease = 0)
  BY <1>1 DEF Types, AttachOK, AttachType, Leased, Bound
<1>5. ~ Held'
  BY <1>2, <1>3, <1>4, FailureHolds
<1>6. Collected' /\ attach'.id = 0
  BY <1>1, AwayCollected DEF Away
<1>7. QED
  BY <1>1, <1>5, <1>6, QuietShown

LEMMA ConnectionShown ==
    ASSUME Types, Numbered, Leased, Shown, Connect \/ Disconnect \/ ResumeAndResend
    PROVE  Shown'
<1>0. client \in ClientType
  BY DEF Types, ClientOK
<1>1. CASE Connect
  <2>1. client' = Reconnected(client) /\ Reconnects(<< >>) /\ attach' = attach /\ screen' = screen
    BY <1>1 DEF Connect
  <2>2. << >> \in Seq(Ids)
    OBVIOUS
  <2>3. client.opened + 1 \in Conns
    BY <2>1, <2>2, ReconnectsDoes
  <2>4. client'.lease = client.lease /\ (client'.queued <=> client.queued \/ client.bound)
    BY <1>0, <2>1, <2>3, ReconnectedTyped
  <2>5. ~ Held'
    BY <2>4 DEF Held, Leased, Bound
  <2>6. Collected'
    BY <2>1 DEF Shown, Collected
  <2>7. QED
    BY <2>1, <2>5, <2>6, QuietShown
<1>2. CASE Disconnect
  <2>1. /\ client'.lease = client.lease /\ client'.queued = client.queued
        /\ client'.expected = client.expected /\ attach' = attach /\ screen' = screen
    BY <1>0, <1>2 DEF Disconnect, ClientType
  <2>2. Collected' /\ (Held' <=> Held)
    BY <2>1 DEF Shown, Collected, Held
  <2>3. QED
    BY <2>1, <2>2, QuietShown
<1>3. CASE ResumeAndResend
  <2>1. /\ client.opened + 1 \in Conns
        /\ client' = [Reconnected(client) EXCEPT !.lease = 0, !.expected = 0]
        /\ attach' = Awaiting(attach.id, attach.origin)
    BY <1>3, ResumeTyped
  <2>2. screen' = Blank
    BY <1>3 DEF ResumeAndResend, Restarted
  <2>3. client'.lease = 0
    BY <1>0, <2>1, ReconnectedTyped DEF ClientType
  <2>4. Collected'
    BY <2>1, AwayCollected
  <2>5. QED
    BY <2>2, <2>3, <2>4, QuietShown DEF Held
<1>4. QED
  BY <1>1, <1>2, <1>3

LEMMA StartAttachShown ==
    ASSUME Types, Numbered, Leased, Shown, NEW origin \in {"user", "queue"}, StartAttach(origin)
    PROVE  Shown'
<1> DEFINE id == client.last + 1
<1>1. /\ id \in Ids /\ attach.id = 0 /\ screen' = Blank
      /\ IF origin = "queue" THEN client.queued /\ client.bound
         ELSE ~ (client.bound /\ client.lease # 0)
      /\ StartedEntry \in ClientType
      /\ Writes(id, origin) \/ Reopens(id, origin) \/ Abandons(origin)
  BY StartAttachDoes
<1>2. id # 0
  BY <1>1, ConstantsTyped
<1>3. StartedEntry.lease = client.lease
  BY DEF StartedEntry, Types, ClientOK, ClientType
<1> HIDE DEF id
<1>4. CASE Writes(id, origin) \/ Reopens(id, origin)
  <2>1. attach' = Awaiting(id, origin)
    BY <1>4 DEF Writes, Reopens
  <2>2. attach'.id # 0
    BY <1>2, <2>1 DEF Awaiting, Away
  <2>3. Collected'
    BY <2>1, AwayCollected
  <2>4. QED
    BY <1>1, <2>2, <2>3, QuietShown DEF Held
<1>5. CASE Abandons(origin)
  <2> DEFINE left == [StartedEntry EXCEPT !.conn = 0]
  <2>1. left \in ClientType /\ left.lease = client.lease
    BY <1>1, <1>3, AttachReplayAssumption DEF ClientType
  <2>2. PICK definite \in BOOLEAN : client' = AfterFailure(left, origin, definite)
    BY <1>5 DEF Abandons
  <2> HIDE DEF left
  <2>3. origin = "user" => left.lease = 0
    BY <1>1, <2>1 DEF Leased, Bound
  <2>4. ~ Held'
    BY <2>1, <2>2, <2>3, FailureHolds
  <2>5. attach' = attach
    BY <1>5 DEF Abandons
  <2>6. Collected'
    BY <2>5 DEF Shown, Collected
  <2>7. QED
    BY <1>1, <2>4, <2>5, <2>6, QuietShown
<1>6. QED
  BY <1>1, <1>4, <1>5

LEMMA CollectingShown ==
    ASSUME Types, Numbered, Leased, Shown, AttachAccepted \/ ReplayBegin \/ ReplayChunk
    PROVE  Shown'
<1>1. Receives /\ client' = client /\ screen' = screen /\ attach.id # 0
  BY DEF AttachAccepted, ReplayBegin, ReplayChunk, Answers
<1>2. /\ Head(wire) = wire[1] /\ wire[1] \in Messages /\ Len(wire) \in Nat \ {0} /\ 1 \in 1 .. Len(wire)
      /\ output \in Nat
  BY <1>1, ReceivesDoes
<1>3. attach \in AttachType /\ wire[1].from \in Nat /\ wire[1].to \in Nat
  BY <1>2 DEF Types, AttachOK, Messages
<1>4. attach'.id = attach.id
  BY <1>3 DEF AttachAccepted, ReplayBegin, ReplayChunk, AttachType
<1>5. Collected'
  <2>1. CASE AttachAccepted
    BY <1>3, <2>1 DEF AttachAccepted, AttachType, Shown, Collected
  <2>2. CASE ReplayBegin
    <3>1. attach'.next = wire[1].from /\ attach'.first = wire[1].from /\ attach'.watermark = wire[1].to
      BY <1>2, <1>3, <2>2 DEF ReplayBegin, AttachType
    <3>2. QED
      BY <1>3, <3>1, ConstantsTyped DEF Collected
  <2>3. CASE ReplayChunk
    <3>1. /\ attach'.next = wire[1].to /\ attach'.first = attach.first /\ attach'.watermark = attach.watermark
          /\ attach.next = wire[1].from /\ wire[1].kind = "chunk"
      BY <1>2, <1>3, <2>3 DEF ReplayChunk, AttachType, InOrder
    <3>2. wire[1].from <= wire[1].to
      <4>1. Proper(wire[1])
        BY <1>2 DEF Numbered, WireSent
      <4>2. QED
        BY <3>1, <4>1 DEF Proper, InTransaction
    <3>3. attach.first \in Nat /\ attach.first <= wire[1].from /\ attach.watermark # None
      BY <1>3, <3>1, ConstantsTyped DEF Shown, Collected
    <3>4. attach.first <= wire[1].to
      BY <1>3, <3>2, <3>3
    <3>5. QED
      BY <1>3, <3>1, <3>3, <3>4, ConstantsTyped DEF Collected
  <2>4. QED
    BY <2>1, <2>2, <2>3
<1>6. QED
  BY <1>1, <1>4, <1>5, QuietShown DEF Held

LEMMA FedShown ==
    ASSUME Types, Numbered, Leased, Shown, ShowOutput \/ ReplayEnd \/ LoseLease \/ Ignore
    PROVE  Shown'
<1>0. client \in ClientType
  BY DEF Types, ClientOK
<1>1. CASE ShowOutput
  <2>1. /\ attach.id = 0 /\ attach' = attach /\ wire[1].to \in 0 .. output
        /\ wire[1].from < wire[1].to /\ client.expected \in Nat /\ screen.from \in Nat
        /\ \/ /\ client.expected = wire[1].from /\ client'.expected = wire[1].to
              /\ screen' = [from |-> screen.from, bytes |-> Run(screen.from, wire[1].to)]
           \/ client'.lease = 0 /\ screen' = screen
    BY <1>1, ShowOutputDoes
  <2>2. Held
    BY <1>1, ShowOutputDoes
  <2>3. screen.from <= client.expected
    BY <2>2 DEF Shown, OnScreen
  <2>4. Collected'
    BY <2>1 DEF Shown, Collected
  <2>5. CASE client'.lease = 0 /\ screen' = screen
    BY <2>1, <2>4, <2>5, QuietShown DEF Held
  <2>6. CASE /\ client.expected = wire[1].from /\ client'.expected = wire[1].to
             /\ screen' = [from |-> screen.from, bytes |-> Run(screen.from, wire[1].to)]
    <3>1. screen'.from = screen.from /\ screen'.from <= client'.expected
      <4>1. wire[1].to \in Nat
        BY <2>1, NumbersTyped
      <4>2. QED
        BY <2>1, <2>3, <2>6, <4>1
    <3>2. screen' = [from |-> screen'.from, bytes |-> Run(screen'.from, client'.expected)]
      BY <2>6, <3>1
    <3>3. OnScreen'
      BY <2>1, <3>1, <3>2 DEF OnScreen, Run
    <3>4. QED
      BY <2>4, <3>3 DEF Shown
  <2>7. QED
    BY <2>1, <2>5, <2>6
<1>2. CASE ReplayEnd
  <2>1. /\ attach' = Away /\ attach.first \in 0 .. wire[1].to /\ client'.expected = wire[1].to
        /\ screen' = [from |-> attach.first, bytes |-> Run(attach.first, wire[1].to)]
    BY <1>2, ReplayEndDoes
  <2>2. Collected' /\ attach'.id = 0
    BY <2>1, AwayCollected DEF Away
  <2>3. screen'.from = attach.first /\ screen'.from \in Nat /\ screen'.from <= client'.expected
    BY <2>1
  <2>4. screen' = [from |-> screen'.from, bytes |-> Run(screen'.from, client'.expected)]
    BY <2>1, <2>3
  <2>5. OnScreen'
    BY <2>2, <2>3, <2>4 DEF OnScreen, Run
  <2>6. QED
    BY <2>2, <2>5 DEF Shown
<1>3. CASE LoseLease
  <2>1. client'.lease = 0 /\ attach' = attach /\ screen' = screen
    BY <1>0, <1>3 DEF LoseLease, Cleared, ClientType
  <2>2. Collected'
    BY <2>1 DEF Shown, Collected
  <2>3. QED
    BY <2>1, <2>2, QuietShown DEF Held
<1>4. CASE Ignore
  <2>1. UNCHANGED << client, attach, screen >>
    BY <1>4 DEF Ignore
  <2>2. QED
    BY <2>1 DEF Shown, Collected, OnScreen, Held
<1>5. QED
  BY <1>1, <1>2, <1>3, <1>4

LEMMA DaemonAside ==
    (Daemon \/ UNCHANGED vars) => UNCHANGED << client, attach, screen >>
<1>1. \A delivered, n : Publish(n, delivered) \/ Takeover(delivered) => UNCHANGED << client, attach, screen >>
  BY DEF Publish, Takeover
<1>2. \A c, delivered : CommitNew(c, delivered) \/ CommitRebind(c, delivered) => UNCHANGED << client, attach, screen >>
  BY DEF CommitNew, CommitRebind
<1>3. \A c, refused : CommitFailed(c, refused) => UNCHANGED << client, attach, screen >>
  BY DEF CommitFailed
<1>4. \A c : BeginAttach(c) \/ CommitSuperseded(c) \/ WriterEnds(c) \/ ReaderEnds(c)
              => UNCHANGED << client, attach, screen >>
  BY DEF BeginAttach, CommitSuperseded, WriterEnds, ReaderEnds, terminal
<1>5. UNCHANGED vars => UNCHANGED << client, attach, screen >>
  BY DEF vars
<1>6. QED
  BY <1>1, <1>2, <1>3, <1>4, <1>5 DEF Daemon

LEMMA NextShown == Types /\ Numbered /\ Leased /\ Shown /\ [Next]_vars => Shown'
<1> SUFFICES ASSUME Types, Numbered, Leased, Shown, [Next]_vars PROVE Shown'
  OBVIOUS
<1>1. CASE Daemon \/ UNCHANGED vars
  <2>1. UNCHANGED << client, attach, screen >>
    BY <1>1, DaemonAside
  <2>2. QED
    BY <2>1 DEF Shown, Collected, OnScreen, Held
<1>2. CASE Client
  <2>1. ASSUME NEW origin \in {"user", "queue"}, StartAttach(origin) PROVE Shown'
    BY <2>1, StartAttachShown
  <2>2. QED
    BY <1>2, <2>1, ConnectionShown, FailureShown, CollectingShown, FedShown DEF Client
<1>3. QED
  BY <1>1, <1>2 DEF Next
-----------------------------------------------------------------------------
(***************************************************************************)
(* The screen refines TerminalView.                                        *)
(***************************************************************************)
ScreenSafe == Types /\ Numbered /\ Reading /\ Leased /\ Shown

LEMMA InitScreenSafe == Init => ScreenSafe
BY InitTypes, InitNumbered, InitReading, InitLeased, InitShown DEF ScreenSafe

LEMMA NextScreenSafe == ScreenSafe /\ [Next]_vars => ScreenSafe'
<1> SUFFICES ASSUME ScreenSafe, [Next]_vars PROVE ScreenSafe'
  OBVIOUS
<1>1. Types /\ Numbered /\ Reading /\ Leased /\ Shown
  BY DEF ScreenSafe
<1>2. Types' /\ Numbered'
  BY <1>1, NextTypes, NextNumbered
<1>3. Reading' /\ Leased'
  BY <1>1, NextReading, NextLeased
<1>4. Shown'
  BY <1>1, NextShown
<1>5. QED
  BY <1>2, <1>3, <1>4 DEF ScreenSafe

\* Of the daemon's actions only a publish puts anything out.
LEMMA DaemonProduces ==
    ASSUME Types, Daemon
    PROVE  screen' = screen /\ (output' = output \/ output' \in output + 1 .. MaxOutput)
<1>1. screen' = screen
  BY DaemonAside
<1>2. ASSUME NEW delivered \in BOOLEAN, NEW n \in 1 .. MaxRead, Publish(n, delivered)
      PROVE  output' \in output + 1 .. MaxOutput
  <2>1. output' = output + n /\ output + n <= MaxOutput
    BY <1>2 DEF Publish
  <2>2. output \in Nat /\ MaxOutput \in Nat /\ n \in Nat /\ n >= 1
    BY AttachReplayAssumption DEF Types, HistoryOK
  <2>3. QED
    BY <2>1, <2>2
<1>3. \A delivered : Takeover(delivered) => output' = output
  BY DEF Takeover
<1>4. \A c, delivered : CommitNew(c, delivered) \/ CommitRebind(c, delivered) => output' = output
  BY DEF CommitNew, CommitRebind
<1>5. \A c, refused : CommitFailed(c, refused) => output' = output
  BY DEF CommitFailed
<1>6. \A c : BeginAttach(c) \/ CommitSuperseded(c) \/ WriterEnds(c) \/ ReaderEnds(c) => output' = output
  BY DEF BeginAttach, CommitSuperseded, WriterEnds, ReaderEnds
<1>7. QED
  BY <1>1, <1>2, <1>3, <1>4, <1>5, <1>6 DEF Daemon

\* The client puts nothing out.
LEMMA ClientReads == Client => output' = output
<1>1. \A origin : StartAttach(origin) => output' = output
  BY DEF StartAttach
<1>2. Connect \/ ResumeAndResend \/ GiveUp \/ Disconnect \/ Timeout => output' = output
  BY DEF Connect, ResumeAndResend, GiveUp, Disconnect, Timeout, daemon
<1>3. Receives => output' = output
  BY DEF Receives, daemon
<1>4. AttachAccepted \/ AttachRefused \/ ReplayBegin \/ ReplayChunk \/ ReplayEnd => Receives
  BY DEF AttachAccepted, AttachRefused, ReplayBegin, ReplayChunk, ReplayEnd
<1>5. Disorder \/ ShowOutput \/ LoseLease \/ Ignore => Receives
  BY DEF Disorder, ShowOutput, LoseLease, Ignore
<1>6. QED
  BY <1>1, <1>2, <1>3, <1>4, <1>5 DEF Client

\* A client that attaches starts from a blank screen.
LEMMA StartAttachClears == ASSUME NEW origin, StartAttach(origin) PROVE screen' = Blank
BY DEF StartAttach, Restarted

LEMMA ClientShows ==
    ASSUME ScreenSafe, Client, screen' # screen, screen' # Blank
    PROVE  \/ \E next \in 0 .. output : \E first \in 0 .. next :
                 screen = Blank /\ screen' = [from |-> first, bytes |-> Run(first, next)]
           \/ \E next \in 0 .. output :
                 /\ screen.from \in Nat
                 /\ screen' = [screen EXCEPT !.bytes = Run(screen.from, next)]
                 /\ screen.from + Len(screen.bytes) < next
<1>1. Types /\ Numbered /\ Reading /\ Leased /\ Shown
  BY DEF ScreenSafe
<1>2. ShowOutput \/ ReplayEnd
  <2>1. \A origin : ~ StartAttach(origin)
    BY StartAttachClears
  <2>2. ~ ResumeAndResend
    BY DEF ResumeAndResend, Restarted
  <2>3. ~ (Connect \/ GiveUp \/ Disconnect \/ Timeout)
    BY DEF Connect, GiveUp, Disconnect, Timeout
  <2>4. ~ (AttachAccepted \/ AttachRefused \/ ReplayBegin \/ ReplayChunk \/ Disorder \/ LoseLease \/ Ignore)
    BY DEF AttachAccepted, AttachRefused, ReplayBegin, ReplayChunk, Disorder, LoseLease, Ignore
  <2>5. QED
    BY <2>1, <2>2, <2>3, <2>4 DEF Client
<1>3. CASE ReplayEnd
  <2>1. /\ screen = Blank /\ attach.first \in 0 .. wire[1].to /\ wire[1].to \in 0 .. output
        /\ screen' = [from |-> attach.first, bytes |-> Run(attach.first, wire[1].to)]
    BY <1>1, <1>3, ReplayEndDoes
  <2>2. QED
    BY <2>1
<1>4. CASE ShowOutput
  <2> DEFINE m == wire[1]
  <2>1. /\ Held /\ m.to \in 0 .. output /\ m.from < m.to /\ client.expected \in Nat /\ screen.from \in Nat
        /\ client.expected = m.from /\ screen' = [from |-> screen.from, bytes |-> Run(screen.from, m.to)]
    BY <1>1, <1>4, ShowOutputDoes
  <2>2. /\ screen.from <= client.expected
        /\ screen = [from |-> screen.from, bytes |-> Run(screen.from, client.expected)]
    BY <1>1, <2>1 DEF Shown, OnScreen
  <2> HIDE DEF m
  <2>3. screen' = [screen EXCEPT !.bytes = Run(screen.from, m.to)]
    BY <2>1, <2>2
  <2>4. Len(screen.bytes) = client.expected - screen.from
    <3>1. screen.bytes = Run(screen.from, client.expected)
      BY <2>2
    <3>2. Counts(Run(screen.from, client.expected), screen.from, client.expected)
      BY <2>1, <2>2, RunTyped
    <3>3. QED
      BY <3>1, <3>2 DEF Counts
  <2>5. screen.from + Len(screen.bytes) < m.to
    <3>1. m.to \in Nat
      BY <1>1, <2>1, NumbersTyped
    <3>2. QED
      BY <2>1, <2>4, <3>1
  <2>6. QED
    BY <2>1, <2>3, <2>5
<1>5. QED
  BY <1>2, <1>3, <1>4

LEMMA StepShows == ScreenSafe /\ [Next]_vars => [Terminal!Next]_(Terminal!vars)
<1> SUFFICES ASSUME ScreenSafe, [Next]_vars PROVE Terminal!Next \/ UNCHANGED << output, screen >>
  BY DEF Terminal!vars
<1>1. CASE UNCHANGED vars
  BY <1>1 DEF vars
<1>2. CASE Daemon
  <2>1. screen' = screen /\ (output' = output \/ output' \in output + 1 .. MaxOutput)
    BY <1>2, DaemonProduces DEF ScreenSafe
  <2>2. QED
    BY <2>1 DEF Terminal!Next, Terminal!Produce
<1>3. CASE Client
  <2>1. output' = output
    BY <1>3, ClientReads
  <2>2. CASE screen' = screen
    BY <2>1, <2>2
  <2>3. CASE screen' = Blank
    BY <2>1, <2>3 DEF Terminal!Next, Terminal!Clear, Terminal!Blank, Blank
  <2>4. CASE \E next \in 0 .. output : \E first \in 0 .. next :
                 screen = Blank /\ screen' = [from |-> first, bytes |-> Run(first, next)]
    <3>1. PICK next \in 0 .. output : \E first \in 0 .. next :
                 screen = Blank /\ screen' = [from |-> first, bytes |-> Run(first, next)]
      BY <2>4
    <3>2. PICK first \in 0 .. next : screen = Blank /\ screen' = [from |-> first, bytes |-> Run(first, next)]
      BY <3>1
    <3>3. Terminal!Replay(first, next)
      BY <2>1, <3>2 DEF Terminal!Replay, Terminal!Blank, Terminal!Run, Blank, Run
    <3>4. QED
      BY <3>3 DEF Terminal!Next
  <2>5. CASE \E next \in 0 .. output :
                 /\ screen.from \in Nat
                 /\ screen' = [screen EXCEPT !.bytes = Run(screen.from, next)]
                 /\ screen.from + Len(screen.bytes) < next
    <3>1. PICK next \in 0 .. output : /\ screen.from \in Nat
                                      /\ screen' = [screen EXCEPT !.bytes = Run(screen.from, next)]
                                      /\ screen.from + Len(screen.bytes) < next
      BY <2>5
    <3>2. screen # Terminal!Blank
      BY <3>1, ConstantsTyped DEF Terminal!Blank
    <3>3. Terminal!Extend(next)
      BY <2>1, <3>1, <3>2 DEF Terminal!Extend, Terminal!Run, Run
    <3>4. QED
      BY <3>3 DEF Terminal!Next
  <2>6. QED
    BY <1>3, <2>2, <2>3, <2>4, <2>5, ClientShows
<1>4. QED
  BY <1>1, <1>2, <1>3 DEF Next

\* docs/DAEMON.md, "Attach replay ordering": the screen is blank, or it shows
\* one contiguous run of the output that live output extends at its end.  No
\* resend, second delivery, refused message or takeover makes handle_server_message
\* feed a byte twice or leave one out.
THEOREM ScreenIsOneRun == Spec => ImplementsTerminalView
<1>1. Init => Terminal!Init
  BY DEF Init, Terminal!Init, Terminal!Blank, Blank
<1>2. Init => ScreenSafe
  BY InitScreenSafe
<1>3. ScreenSafe /\ [Next]_vars => ScreenSafe'
  BY NextScreenSafe
<1>4. ScreenSafe /\ [Next]_vars => [Terminal!Next]_(Terminal!vars)
  BY StepShows
<1>5. QED
  BY <1>1, <1>2, <1>3, <1>4, PTL DEF Spec, ImplementsTerminalView, Terminal!Spec
-----------------------------------------------------------------------------
(***************************************************************************)
(* What is on its way to the client, as a sequence w of messages and the   *)
(* set p of leases whose transaction did not fit.                          *)
(***************************************************************************)
Source(m, l)   == m.lease = l /\ m.kind \in {"end", "output"}
Ends(m, id, l) == m.kind = "end" /\ m.id = id /\ m.lease = l

\* Transactions are not interleaved with anything.
InTurn(w) == \A k \in 2 .. Len(w) : w[k].kind \in InTransaction => Follows(w[k - 1], w[k])

\* A transaction stays below the watermark it began with, and ends at it.
Marked(w) == \A j, k \in 1 .. Len(w) :
                j < k /\ w[j].kind = "begin" /\ w[k].id = w[j].id
                  => /\ w[k].to <= w[j].to
                     /\ w[k].kind = "end" => w[k].to = w[j].to

\* A request is answered once ...
ResultFirst(w) == \A j, k \in 1 .. Len(w) : j < k /\ w[k].kind = "result" => w[j].id # w[k].id

\* ... and its transaction comes before the live output of its lease ...
EndFirst(w) == \A j, k \in 1 .. Len(w) : j < k /\ w[k].kind = "end" => ~ Source(w[j], w[k].lease)

\* ... to its end, if it fits the queue.
Ended(w, p) == \A j \in 1 .. Len(w) :
                  w[j].kind \in {"result", "begin", "chunk"} /\ w[j].lease # 0 /\ w[j].lease \notin p
                    => \E k \in j + 1 .. Len(w) : Ends(w[k], w[j].id, w[j].lease)

Streams(w, p) == InTurn(w) /\ Marked(w) /\ ResultFirst(w) /\ EndFirst(w) /\ Ended(w, p)

\* v is s behind w, or w without its first.
Joins(w, s, v) ==
    /\ Len(w) \in Nat /\ Len(s) \in Nat /\ Len(v) = Len(w) + Len(s)
    /\ \A k \in 1 .. Len(w) : v[k] = w[k]
    /\ \A k \in 1 .. Len(s) : v[Len(w) + k] = s[k]

Drops(w, v) ==
    /\ Len(w) \in Nat \ {0} /\ Len(v) = Len(w) - 1
    /\ \A k \in 1 .. Len(w) - 1 : v[k] = w[k + 1]

\* What is put behind w starts and answers something new.
Opening(w, s) ==
    /\ \A j \in 1 .. Len(w) : Proper(w[j])
    /\ \A k \in 1 .. Len(s) :
          /\ Proper(s[k])
          /\ k = 1 => s[k].kind \notin InTransaction
          /\ s[k].id # 0 => \A j \in 1 .. Len(w) : w[j].id # s[k].id
          /\ s[k].kind = "end" => \A j \in 1 .. Len(w) : w[j].lease # s[k].lease

LEMMA DropsShift ==
    ASSUME NEW w, NEW v, Drops(w, v), NEW k \in 1 .. Len(v)
    PROVE  k + 1 \in 1 .. Len(w) /\ v[k] = w[k + 1]
BY DEF Drops

LEMMA JoinsSplit ==
    ASSUME NEW w, NEW s, NEW v, Joins(w, s, v), NEW k \in 1 .. Len(v)
    PROVE  \/ k \in 1 .. Len(w) /\ v[k] = w[k]
           \/ /\ k - Len(w) \in 1 .. Len(s) /\ v[k] = s[k - Len(w)] /\ k > Len(w)
<1>1. Len(w) \in Nat /\ Len(s) \in Nat /\ Len(v) = Len(w) + Len(s)
  BY DEF Joins
<1>2. CASE k <= Len(w)
  BY <1>1, <1>2 DEF Joins
<1>3. CASE k > Len(w)
  <2>1. k - Len(w) \in 1 .. Len(s) /\ Len(w) + (k - Len(w)) = k
    BY <1>1, <1>3
  <2>2. v[Len(w) + (k - Len(w))] = s[k - Len(w)]
    BY <2>1 DEF Joins
  <2>3. QED
    BY <1>3, <2>1, <2>2
<1>4. QED
  BY <1>1, <1>2, <1>3

LEMMA StreamsDrop ==
    ASSUME NEW w, NEW v, NEW p, Drops(w, v), Streams(w, p)
    PROVE  Streams(v, p)
<1>0. Len(w) \in Nat /\ Len(v) \in Nat /\ Len(v) = Len(w) - 1
  BY DEF Drops
<1>1. InTurn(v)
  <2>1. SUFFICES ASSUME NEW k \in 2 .. Len(v), v[k].kind \in InTransaction PROVE Follows(v[k - 1], v[k])
    BY DEF InTurn
  <2>2. k \in 1 .. Len(v) /\ k - 1 \in 1 .. Len(v) /\ (k - 1) + 1 = k /\ k + 1 \in 2 .. Len(w) /\ (k + 1) - 1 = k
    BY <1>0
  <2>3. v[k] = w[k + 1] /\ v[k - 1] = w[k]
    BY <2>2, DropsShift
  <2>4. Follows(w[(k + 1) - 1], w[k + 1])
    BY <2>1, <2>2, <2>3 DEF Streams, InTurn
  <2>5. QED
    BY <2>2, <2>3, <2>4
<1>2. ASSUME NEW j \in 1 .. Len(v), NEW k \in 1 .. Len(v), j < k
      PROVE  /\ v[j].kind = "begin" /\ v[k].id = v[j].id
                 => v[k].to <= v[j].to /\ (v[k].kind = "end" => v[k].to = v[j].to)
             /\ v[k].kind = "result" => v[j].id # v[k].id
             /\ v[k].kind = "end" => ~ Source(v[j], v[k].lease)
  <2>1. /\ j + 1 \in 1 .. Len(w) /\ k + 1 \in 1 .. Len(w) /\ j + 1 < k + 1
        /\ v[j] = w[j + 1] /\ v[k] = w[k + 1]
    <3>1. j + 1 \in 1 .. Len(w) /\ v[j] = w[j + 1]
      BY DropsShift
    <3>2. k + 1 \in 1 .. Len(w) /\ v[k] = w[k + 1]
      BY DropsShift
    <3>3. QED
      BY <1>0, <1>2, <3>1, <3>2
  <2>2. QED
    BY <2>1 DEF Streams, Marked, ResultFirst, EndFirst
<1>3. Marked(v) /\ ResultFirst(v) /\ EndFirst(v)
  BY <1>2 DEF Marked, ResultFirst, EndFirst
<1>4. Ended(v, p)
  <2>1. SUFFICES ASSUME NEW j \in 1 .. Len(v), v[j].kind \in {"result", "begin", "chunk"}, v[j].lease # 0,
                        v[j].lease \notin p
                 PROVE  \E k \in j + 1 .. Len(v) : Ends(v[k], v[j].id, v[j].lease)
    BY DEF Ended
  <2>2. j + 1 \in 1 .. Len(w) /\ v[j] = w[j + 1]
    BY DropsShift
  <2>3. PICK k \in (j + 1) + 1 .. Len(w) : Ends(w[k], v[j].id, v[j].lease)
    BY <2>1, <2>2 DEF Streams, Ended
  <2>4. k - 1 \in j + 1 .. Len(v) /\ k - 1 \in 1 .. Len(v) /\ (k - 1) + 1 = k
    BY <1>0
  <2>5. v[k - 1] = w[k]
    BY <2>4, DropsShift
  <2>6. QED
    BY <2>3, <2>4, <2>5
<1>5. QED
  BY <1>1, <1>3, <1>4 DEF Streams

LEMMA StreamsJoin ==
    ASSUME NEW w, NEW s, NEW v, NEW p, NEW q, Joins(w, s, v), p \subseteq q,
           Streams(w, p), Streams(s, q), Opening(w, s)
    PROVE  Streams(v, q)
<1>0. Len(w) \in Nat /\ Len(s) \in Nat /\ Len(v) = Len(w) + Len(s)
  BY DEF Joins
<1>1. InTurn(v)
  <2>1. SUFFICES ASSUME NEW k \in 2 .. Len(v), v[k].kind \in InTransaction PROVE Follows(v[k - 1], v[k])
    BY DEF InTurn
  <2>2. k \in 1 .. Len(v) /\ k - 1 \in 1 .. Len(v) /\ k \in Nat
    BY <1>0
  <2>3. CASE k \in 1 .. Len(w) /\ v[k] = w[k]
    <3>1. k - 1 \in 1 .. Len(w) /\ k \in 2 .. Len(w)
      BY <1>0, <2>2, <2>3
    <3>2. v[k - 1] = w[k - 1]
      BY <3>1 DEF Joins
    <3>3. QED
      BY <2>1, <2>3, <3>1, <3>2 DEF Streams, InTurn
  <2>4. CASE k - Len(w) \in 1 .. Len(s) /\ v[k] = s[k - Len(w)] /\ k > Len(w)
    <3>1. k - Len(w) # 1
      BY <2>1, <2>4 DEF Opening
    <3>2. k - Len(w) \in 2 .. Len(s) /\ (k - Len(w)) - 1 \in 1 .. Len(s) /\ Len(w) + ((k - Len(w)) - 1) = k - 1
      BY <1>0, <2>2, <2>4, <3>1
    <3>3. v[Len(w) + ((k - Len(w)) - 1)] = s[(k - Len(w)) - 1]
      BY <3>2 DEF Joins
    <3>4. Follows(s[(k - Len(w)) - 1], s[k - Len(w)])
      BY <2>1, <2>4, <3>2 DEF Streams, InTurn
    <3>5. QED
      BY <2>4, <3>2, <3>3, <3>4
  <2>5. QED
    BY <2>2, <2>3, <2>4, JoinsSplit
<1>2. ASSUME NEW j \in 1 .. Len(v), NEW k \in 1 .. Len(v), j < k
      PROVE  /\ v[j].kind = "begin" /\ v[k].id = v[j].id
                 => v[k].to <= v[j].to /\ (v[k].kind = "end" => v[k].to = v[j].to)
             /\ v[k].kind = "result" => v[j].id # v[k].id
             /\ v[k].kind = "end" => ~ Source(v[j], v[k].lease)
  <2>1. CASE k \in 1 .. Len(w) /\ v[k] = w[k]
    <3>1. j \in 1 .. Len(w)
      BY <1>0, <1>2, <2>1
    <3>2. v[j] = w[j]
      BY <3>1 DEF Joins
    <3>3. QED
      BY <1>2, <2>1, <3>1, <3>2 DEF Streams, Marked, ResultFirst, EndFirst
  <2>2. CASE k - Len(w) \in 1 .. Len(s) /\ v[k] = s[k - Len(w)] /\ k > Len(w)
    <3>1. CASE j \in 1 .. Len(w) /\ v[j] = w[j]
      <4>1. v[k].id # 0 => v[j].id # v[k].id
        BY <2>2, <3>1 DEF Opening
      <4>2. v[j].kind = "begin" => v[j].id # 0
        BY <3>1 DEF Opening, Proper
      <4>3. v[k].kind = "result" => v[k].id # 0
        BY <2>2 DEF Opening, Proper
      <4>4. v[k].kind = "end" => v[j].lease # v[k].lease
        BY <2>2, <3>1 DEF Opening
      <4>5. QED
        BY <4>1, <4>2, <4>3, <4>4 DEF Source
    <3>2. CASE j - Len(w) \in 1 .. Len(s) /\ v[j] = s[j - Len(w)] /\ j > Len(w)
      <4>1. j - Len(w) < k - Len(w)
        BY <1>0, <1>2
      <4>2. QED
        BY <2>2, <3>2, <4>1, SMTT(30) DEF Streams, Marked, ResultFirst, EndFirst
    <3>3. QED
      BY <3>1, <3>2, JoinsSplit
  <2>3. QED
    BY <2>1, <2>2, JoinsSplit
<1>3. Marked(v) /\ ResultFirst(v) /\ EndFirst(v)
  BY <1>2 DEF Marked, ResultFirst, EndFirst
<1>4. Ended(v, q)
  <2>1. SUFFICES ASSUME NEW j \in 1 .. Len(v), v[j].kind \in {"result", "begin", "chunk"}, v[j].lease # 0,
                        v[j].lease \notin q
                 PROVE  \E k \in j + 1 .. Len(v) : Ends(v[k], v[j].id, v[j].lease)
    BY DEF Ended
  <2>2. CASE j \in 1 .. Len(w) /\ v[j] = w[j]
    <3>1. PICK k \in j + 1 .. Len(w) : Ends(w[k], v[j].id, v[j].lease)
      BY <2>1, <2>2 DEF Streams, Ended
    <3>2. k \in j + 1 .. Len(v) /\ k \in 1 .. Len(w)
      BY <1>0, <2>2
    <3>3. v[k] = w[k]
      BY <3>2 DEF Joins
    <3>4. QED
      BY <3>1, <3>2, <3>3
  <2>3. CASE j - Len(w) \in 1 .. Len(s) /\ v[j] = s[j - Len(w)] /\ j > Len(w)
    <3>1. PICK k \in (j - Len(w)) + 1 .. Len(s) : Ends(s[k], v[j].id, v[j].lease)
      BY <2>1, <2>3 DEF Streams, Ended
    <3>2. Len(w) + k \in j + 1 .. Len(v) /\ k \in 1 .. Len(s)
      BY <1>0, <2>3
    <3>3. v[Len(w) + k] = s[k]
      BY <3>2 DEF Joins
    <3>4. QED
      BY <3>1, <3>2, <3>3
  <2>4. QED
    BY <2>2, <2>3, JoinsSplit
<1>5. QED
  BY <1>1, <1>3, <1>4 DEF Streams

\* One message that is not of a transaction.
LEMMA StreamsOne ==
    ASSUME NEW m, m.kind \notin InTransaction, m.kind = "result" => m.lease = 0, NEW p
    PROVE  Streams(<< m >>, p)
<1> DEFINE s == << m >>
<1>1. Len(s) = 1 /\ s[1] = m
  OBVIOUS
<1> HIDE DEF s
<1>2. InTurn(s) /\ Marked(s) /\ ResultFirst(s) /\ EndFirst(s)
  BY <1>1 DEF InTurn, Marked, ResultFirst, EndFirst
<1>3. Ended(s, p)
  BY <1>1 DEF Ended, InTransaction
<1>4. QED
  BY <1>2, <1>3 DEF Streams, s

\* A transaction, as far as it was shipped.
LEMMA StreamsShipped ==
    ASSUME HistoryOK, NEW l \in Nat, NEW s \in Seq(MessagesOf(l)),
           NEW id \in Ids, NEW lease, NEW told \in BOOLEAN, Shipped(s, id, lease, told)
    PROVE  Streams(s, partial') /\ Opening(<< >>, s)
<1>0. /\ Len(s) \in Nat /\ output \in Nat /\ id # 0
      /\ \A k \in 1 .. Len(s) : s[k].to \in 0 .. output /\ s[k].kind \in Kinds
  <2>1. \A k \in 1 .. Len(s) : s[k] \in MessagesOf(l)
    OBVIOUS
  <2>2. QED
    BY <2>1, ConstantsTyped DEF HistoryOK, MessagesOf
<1>1. \A k \in 1 .. Len(s) :
          /\ s[k].lease = lease /\ Proper(s[k]) /\ s[k].kind # "output"
          /\ s[k].kind = "taken" => s[k] = TakenOver(lease) /\ told /\ k = Len(s)
          /\ s[k].kind # "taken" => s[k].id = id
          /\ s[k].kind = "result" <=> k = 1
          /\ s[k].kind \in {"begin", "end"} => s[k].to = output
          /\ s[k].kind \in InTransaction => k > 1 /\ Follows(s[k - 1], s[k])
  BY DEF Shipped
<1>2. InTurn(s)
  BY <1>0, <1>1 DEF InTurn
<1>3. Marked(s)
  BY <1>0, <1>1 DEF Marked
<1>4. ASSUME NEW j \in 1 .. Len(s), NEW k \in 1 .. Len(s), j < k PROVE s[k].kind # "result"
  BY <1>0, <1>1, <1>4
<1>5. ASSUME NEW j \in 1 .. Len(s), NEW k \in 1 .. Len(s), j < k, s[k].kind = "end", s[j].kind = "end" PROVE FALSE
  <2>1. j + 1 \in 1 .. Len(s) /\ j + 1 > 1 /\ (j + 1) - 1 = j
    BY <1>0, <1>5
  <2>2. s[j + 1].kind \notin InTransaction
    <3>1. ~ Follows(s[j], s[j + 1]) \/ s[j + 1].kind \notin InTransaction
      BY <1>5 DEF Follows, InTransaction
    <3>2. s[j + 1].kind \in InTransaction => Follows(s[(j + 1) - 1], s[j + 1])
      BY <1>1, <2>1
    <3>3. QED
      BY <2>1, <3>1, <3>2
  <2>3. s[j + 1].kind # "end"
    BY <2>2 DEF InTransaction
  <2>4. s[j + 1].kind = "taken" => j + 1 = Len(s)
    BY <1>1, <2>1
  <2>5. k # j + 1 /\ k > j + 1
    BY <1>0, <1>5, <2>3
  <2>6. s[j + 1].kind # "taken"
    BY <1>0, <2>4, <2>5
  <2>7. QED
    <3>1. CASE s[j + 1].kind \in {"result", "output"}
      BY <1>0, <1>1, <2>1, <3>1
    <3>2. CASE s[j + 1].kind \notin {"result", "output", "taken", "begin", "chunk", "end"}
      BY <1>0, <2>1, <3>2 DEF Kinds
    <3>3. QED
      BY <2>2, <2>6, <3>1, <3>2 DEF InTransaction
<1>6. ResultFirst(s) /\ EndFirst(s)
  BY <1>1, <1>4, <1>5 DEF ResultFirst, EndFirst, Source
<1>7. Ended(s, partial')
  <2>1. SUFFICES ASSUME NEW j \in 1 .. Len(s), s[j].kind \in {"result", "begin", "chunk"},
                        s[j].lease \notin partial'
                 PROVE  \E k \in j + 1 .. Len(s) : Ends(s[k], s[j].id, s[j].lease)
    BY DEF Ended
  <2> DEFINE e == Len(s) - (IF told THEN 1 ELSE 0)
  <2>2. /\ e \in 3 .. Len(s) /\ s[e].kind = "end" /\ (told => s[Len(s)] = TakenOver(lease))
    BY <1>1, <2>1 DEF Shipped
  <2>3. j <= e
    <3>1. CASE told
      <4>1. s[Len(s)].kind = "taken"
        BY <2>2, <3>1 DEF TakenOver, Message
      <4>2. j # Len(s)
        BY <2>1, <4>1
      <4>3. QED
        BY <1>0, <3>1, <4>2
    <3>2. CASE ~ told
      BY <1>0, <3>2
    <3>3. QED
      BY <3>1, <3>2
  <2> HIDE DEF e
  <2>4. j # e
    BY <2>1, <2>2
  <2>5. e \in j + 1 .. Len(s) /\ e \in 1 .. Len(s)
    BY <1>0, <2>2, <2>3, <2>4
  <2>6. Ends(s[e], s[j].id, s[j].lease)
    <3>1. s[e].id = id /\ s[e].lease = lease
      BY <1>1, <2>2, <2>5
    <3>2. s[j].id = id /\ s[j].lease = lease
      BY <1>1, <2>1
    <3>3. QED
      BY <2>2, <3>1, <3>2 DEF Ends
  <2>7. QED
    BY <2>5, <2>6
<1>8. Opening(<< >>, s)
  <2>1. \A k \in 1 .. Len(s) : k = 1 => s[k].kind \notin InTransaction
    BY <1>1 DEF InTransaction
  <2>2. Len(<< >>) = 0
    OBVIOUS
  <2>3. QED
    BY <1>1, <2>1, <2>2 DEF Opening
<1>9. QED
  BY <1>2, <1>3, <1>6, <1>7, <1>8 DEF Streams
-----------------------------------------------------------------------------
(***************************************************************************)
(* Where perform_attach is in the transaction of its request.              *)
(***************************************************************************)
Untold == attach.lease = 0 /\ attach.next = None /\ attach.watermark = None

\* The next message of the request is the one that is required ...
Front(w) == 1 \in 1 .. Len(w) /\ Answers(w[1]) /\ w[1].lease # 0 => InOrder(w[1])

\* ... and the others stay below the watermark ...
Limited(w) == attach.watermark # None /\ attach.id # 0
                => \A k \in 1 .. Len(w) : w[k].id = attach.id
                     => /\ w[k].to <= attach.watermark
                        /\ w[k].kind = "end" => w[k].to = attach.watermark

\* ... with no second answer ...
Accepted(w) == attach.lease # 0 => \A k \in 1 .. Len(w) : w[k].kind = "result" => w[k].id # attach.id

\* ... and the end, if it was sent.
Reached(w, p) == attach.lease # 0 /\ attach.lease \notin p
                   => \E k \in 1 .. Len(w) : Ends(w[k], attach.id, attach.lease)

Cursor(w, p) == Front(w) /\ Limited(w) /\ Accepted(w) /\ Reached(w, p)

\* What arrives of the request in hand is its first.
Answering(s) == \A k \in 1 .. Len(s) : s[k].kind \in Kinds /\ (s[k].id # 0 /\ s[k].id = attach.id => Untold)

LEMMA CursorJoin ==
    ASSUME NEW w, NEW s, NEW v, NEW p, NEW q, Joins(w, s, v), p \subseteq q,
           Cursor(w, p), Opening(w, s), Answering(s), attach.id = 0 => Untold
    PROVE  Cursor(v, q)
<1>0. Len(w) \in Nat /\ Len(s) \in Nat /\ Len(v) = Len(w) + Len(s)
  BY DEF Joins
<1>1. Front(v)
  <2>1. SUFFICES ASSUME 1 \in 1 .. Len(v), Answers(v[1]), v[1].lease # 0 PROVE InOrder(v[1])
    BY DEF Front
  <2>2. CASE 1 \in 1 .. Len(w) /\ v[1] = w[1]
    BY <2>1, <2>2 DEF Cursor, Front
  <2>3. CASE 1 - Len(w) \in 1 .. Len(s) /\ v[1] = s[1 - Len(w)] /\ 1 > Len(w)
    <3>1. Len(w) = 0 /\ 1 \in 1 .. Len(s) /\ v[1] = s[1]
      BY <1>0, <2>3
    <3>2. s[1].kind = "result"
      <4>1. s[1].kind \in Kinds /\ s[1].kind \notin InTransaction /\ Proper(s[1]) /\ s[1].id # 0
        BY <2>1, <3>1 DEF Answering, Opening, Answers
      <4>2. QED
        BY <4>1 DEF Kinds, InTransaction, Proper
    <3>3. Untold
      BY <2>1, <3>1 DEF Answering, Answers
    <3>4. QED
      BY <3>1, <3>2, <3>3 DEF InOrder, Untold
  <2>4. QED
    BY <2>1, <2>2, <2>3, JoinsSplit
<1>2. Limited(v)
  <2>1. SUFFICES ASSUME attach.watermark # None, attach.id # 0, NEW k \in 1 .. Len(v), v[k].id = attach.id
                 PROVE  v[k].to <= attach.watermark /\ (v[k].kind = "end" => v[k].to = attach.watermark)
    BY DEF Limited
  <2>2. CASE k \in 1 .. Len(w) /\ v[k] = w[k]
    BY <2>1, <2>2 DEF Cursor, Limited
  <2>3. CASE k - Len(w) \in 1 .. Len(s) /\ v[k] = s[k - Len(w)]
    BY <2>1, <2>3 DEF Answering, Untold
  <2>4. QED
    BY <2>2, <2>3, JoinsSplit
<1>3. Accepted(v)
  <2>1. SUFFICES ASSUME attach.lease # 0, NEW k \in 1 .. Len(v), v[k].kind = "result", v[k].id = attach.id
                 PROVE  FALSE
    BY DEF Accepted
  <2>2. CASE k \in 1 .. Len(w) /\ v[k] = w[k]
    BY <2>1, <2>2 DEF Cursor, Accepted
  <2>3. CASE k - Len(w) \in 1 .. Len(s) /\ v[k] = s[k - Len(w)]
    BY <2>1, <2>3 DEF Answering, Untold
  <2>4. QED
    BY <2>2, <2>3, JoinsSplit
<1>4. Reached(v, q)
  <2>1. SUFFICES ASSUME attach.lease # 0, attach.lease \notin q
                 PROVE  \E k \in 1 .. Len(v) : Ends(v[k], attach.id, attach.lease)
    BY DEF Reached
  <2>2. PICK k \in 1 .. Len(w) : Ends(w[k], attach.id, attach.lease)
    BY <2>1 DEF Cursor, Reached
  <2>3. k \in 1 .. Len(v) /\ v[k] = w[k]
    BY <1>0, <2>2 DEF Joins
  <2>4. QED
    BY <2>2, <2>3
<1>5. QED
  BY <1>1, <1>2, <1>3, <1>4 DEF Cursor

\* Outside of an attach there is nothing to keep.
LEMMA CursorIdle ==
    ASSUME NEW w, NEW p, attach'.id = 0, attach'.lease = 0
    PROVE  Cursor(w, p)'
BY DEF Cursor, Front, Limited, Accepted, Reached, Answers

LEMMA CursorEmpty ==
    ASSUME NEW w, NEW p, Len(w) = 0, attach'.lease = 0
    PROVE  Cursor(w, p)'
BY DEF Cursor, Front, Limited, Accepted, Reached
-----------------------------------------------------------------------------
(***************************************************************************)
(* Live output continues what came before it.                              *)
(***************************************************************************)
\* What precedes position n of w and is of lease l ends at byte from; if there
\* is nothing of it, that is where the screen of a client that holds it ends.
Continues(w, n, l, from) ==
    /\ \A i \in 1 .. n - 1 :
          Source(w[i], l) /\ (\A j \in i + 1 .. n - 1 : ~ Source(w[j], l)) => w[i].to = from
    /\ (\A i \in 1 .. n - 1 : ~ Source(w[i], l)) /\ Held /\ client.lease = l => client.expected = from

Linked(w) == \A k \in 1 .. Len(w) : w[k].kind = "output" => Continues(w, k, w[k].lease, w[k].from)

\* A lease the client believes in has no transaction to end.
Settles(w) == client.lease # 0 => \A k \in 1 .. Len(w) : ~ (w[k].kind = "end" /\ w[k].lease = client.lease)

Lines(w) == Linked(w) /\ Settles(w)

LEMMA ContinuesPrefix ==
    ASSUME NEW w, NEW s, NEW v, Joins(w, s, v), NEW n \in 1 .. Len(w) + 1, NEW l, NEW from,
           Continues(w, n, l, from)
    PROVE  Continues(v, n, l, from)
<1>1. \A i \in 1 .. n - 1 : i \in 1 .. Len(w) /\ v[i] = w[i]
  BY DEF Joins
<1>2. \A i \in 1 .. n - 1 : \A j \in i + 1 .. n - 1 : j \in 1 .. n - 1
  BY DEF Joins
<1>3. \A i \in 1 .. n - 1 : Source(v[i], l) <=> Source(w[i], l)
  BY <1>1
<1>4. ASSUME NEW i \in 1 .. n - 1, Source(v[i], l), \A j \in i + 1 .. n - 1 : ~ Source(v[j], l)
      PROVE  v[i].to = from
  <2>1. Source(w[i], l) /\ \A j \in i + 1 .. n - 1 : ~ Source(w[j], l)
    BY <1>2, <1>3, <1>4
  <2>2. QED
    BY <1>1, <2>1 DEF Continues
<1>5. QED
  BY <1>3, <1>4 DEF Continues

\* Nothing of the lease was added.
LEMMA ContinuesBeyond ==
    ASSUME NEW w, NEW s, NEW v, Joins(w, s, v), NEW l, NEW from, Continues(w, Len(w) + 1, l, from),
           \A k \in 1 .. Len(s) : ~ Source(s[k], l)
    PROVE  Continues(v, Len(v) + 1, l, from)
<1>0. Len(w) \in Nat /\ Len(s) \in Nat /\ Len(v) = Len(w) + Len(s) /\ Len(v) + 1 - 1 = Len(v) /\ Len(w) + 1 - 1 = Len(w)
  BY DEF Joins
<1>1. \A k \in 1 .. Len(v) : Source(v[k], l) => k \in 1 .. Len(w) /\ v[k] = w[k]
  BY JoinsSplit
<1>2. \A k \in 1 .. Len(w) : v[k] = w[k] /\ k \in 1 .. Len(v)
  BY <1>0 DEF Joins
<1>3. ASSUME NEW i \in 1 .. Len(v), Source(v[i], l), \A j \in i + 1 .. Len(v) : ~ Source(v[j], l)
      PROVE  v[i].to = from
  <2>1. i \in 1 .. Len(w) /\ v[i] = w[i]
    BY <1>1, <1>3
  <2>2. ASSUME NEW j \in i + 1 .. Len(w) PROVE ~ Source(w[j], l)
    <3>1. j \in 1 .. Len(w) /\ j \in i + 1 .. Len(v)
      BY <1>0, <2>1
    <3>2. QED
      BY <1>2, <1>3, <3>1
  <2>3. QED
    BY <1>0, <1>3, <2>1, <2>2 DEF Continues
<1>4. ASSUME \A i \in 1 .. Len(v) : ~ Source(v[i], l), Held, client.lease = l PROVE client.expected = from
  <2>1. \A i \in 1 .. Len(w) : ~ Source(w[i], l)
    BY <1>2, <1>4
  <2>2. QED
    BY <1>0, <1>4, <2>1 DEF Continues
<1>5. QED
  BY <1>0, <1>3, <1>4 DEF Continues

\* What was added of the lease ends there, or it is all there is of it.
LEMMA ContinuesAt ==
    ASSUME NEW w, NEW s, NEW v, Joins(w, s, v), NEW l, NEW from,
           \A k \in 1 .. Len(s) : Source(s[k], l) => s[k].to = from,
           \/ \E k \in 1 .. Len(s) : Source(s[k], l)
           \/ client.lease # l /\ \A k \in 1 .. Len(w) : ~ Source(w[k], l)
    PROVE  Continues(v, Len(v) + 1, l, from)
<1>0. Len(w) \in Nat /\ Len(s) \in Nat /\ Len(v) = Len(w) + Len(s) /\ Len(v) + 1 - 1 = Len(v)
  BY DEF Joins
<1>1. CASE \E k \in 1 .. Len(s) : Source(s[k], l)
  <2>1. PICK k \in 1 .. Len(s) : Source(s[k], l)
    BY <1>1
  <2>2. Len(w) + k \in 1 .. Len(v) /\ v[Len(w) + k] = s[k] /\ k \in Nat
    BY <1>0 DEF Joins
  <2>3. ASSUME NEW i \in 1 .. Len(v), Source(v[i], l), \A j \in i + 1 .. Len(v) : ~ Source(v[j], l)
        PROVE  v[i].to = from
    <3>1. i >= Len(w) + k
      <4>1. ASSUME i < Len(w) + k PROVE FALSE
        <5>1. Len(w) + k \in i + 1 .. Len(v)
          BY <1>0, <2>2, <4>1
        <5>2. QED
          BY <2>1, <2>2, <2>3, <5>1
      <4>2. QED
        BY <1>0, <4>1
    <3>2. i - Len(w) \in 1 .. Len(s) /\ v[i] = s[i - Len(w)]
      BY <1>0, <3>1, JoinsSplit
    <3>3. QED
      BY <2>3, <3>2
  <2>4. ~ \A i \in 1 .. Len(v) : ~ Source(v[i], l)
    BY <2>1, <2>2
  <2>5. QED
    BY <1>0, <2>3, <2>4 DEF Continues
<1>2. CASE ~ (\E k \in 1 .. Len(s) : Source(s[k], l)) /\ client.lease # l /\ \A k \in 1 .. Len(w) : ~ Source(w[k], l)
  <2>1. \A i \in 1 .. Len(v) : ~ Source(v[i], l)
    BY <1>2, JoinsSplit
  <2>2. QED
    BY <1>0, <1>2, <2>1 DEF Continues
<1>3. QED
  BY <1>1, <1>2

LEMMA LinesJoin ==
    ASSUME NEW w, NEW s, NEW v, Joins(w, s, v), Lines(w),
           \A k \in 1 .. Len(s) : s[k].kind = "output" =>
              k = 1 /\ Continues(w, Len(w) + 1, s[k].lease, s[k].from),
           \A k \in 1 .. Len(s) : s[k].kind = "end" => s[k].lease # client.lease
    PROVE  Lines(v)
<1>0. Len(w) \in Nat /\ Len(s) \in Nat /\ Len(v) = Len(w) + Len(s)
  BY DEF Joins
<1>1. ASSUME NEW k \in 1 .. Len(v), v[k].kind = "output" PROVE Continues(v, k, v[k].lease, v[k].from)
  <2>1. CASE k \in 1 .. Len(w) /\ v[k] = w[k]
    <3>1. Continues(w, k, v[k].lease, v[k].from)
      BY <1>1, <2>1 DEF Lines, Linked
    <3>2. k \in 1 .. Len(w) + 1
      BY <1>0, <2>1
    <3>3. QED
      BY <3>1, <3>2, ContinuesPrefix
  <2>2. CASE k - Len(w) \in 1 .. Len(s) /\ v[k] = s[k - Len(w)]
    <3>1. k - Len(w) = 1 /\ Continues(w, Len(w) + 1, v[k].lease, v[k].from)
      BY <1>1, <2>2
    <3>2. k = Len(w) + 1 /\ k \in 1 .. Len(w) + 1
      BY <1>0, <3>1
    <3>3. Continues(w, k, v[k].lease, v[k].from)
      BY <3>1, <3>2
    <3>4. QED
      BY <3>2, <3>3, ContinuesPrefix
  <2>3. QED
    BY <2>1, <2>2, JoinsSplit
<1>2. ASSUME client.lease # 0, NEW k \in 1 .. Len(v) PROVE ~ (v[k].kind = "end" /\ v[k].lease = client.lease)
  <2>1. CASE k \in 1 .. Len(w) /\ v[k] = w[k]
    BY <1>2, <2>1 DEF Lines, Settles
  <2>2. CASE k - Len(w) \in 1 .. Len(s) /\ v[k] = s[k - Len(w)]
    BY <2>2
  <2>3. QED
    BY <2>1, <2>2, JoinsSplit
<1>3. QED
  BY <1>1, <1>2 DEF Lines, Linked, Settles

\* What becomes of what the client expects of a lease, by what it heard.
Heard(m, l) ==
    Held' /\ client'.lease = l
      => \/ Source(m, l) /\ client'.expected = m.to
         \/ ~ Source(m, l) /\ Held /\ client.lease = l /\ client'.expected = client.expected

LEMMA ContinuesDrop ==
    ASSUME NEW w, NEW v, Drops(w, v), NEW n \in 1 .. Len(v) + 1, NEW l, NEW from,
           Continues(w, n + 1, l, from), Heard(w[1], l)
    PROVE  Continues(v, n, l, from)'
<1>0. Len(w) \in Nat \ {0} /\ Len(v) = Len(w) - 1 /\ n + 1 - 1 = n /\ n \in Nat /\ n >= 1
  BY DEF Drops
<1>1. \A i \in 1 .. n - 1 : i + 1 \in 1 .. n /\ v[i] = w[i + 1] /\ (Source(v[i], l) <=> Source(w[i + 1], l))
  BY <1>0, DropsShift
<1>2. ASSUME NEW i \in 1 .. n - 1, Source(v[i], l), \A j \in i + 1 .. n - 1 : ~ Source(v[j], l)
      PROVE  v[i].to = from
  <2>1. ASSUME NEW j \in (i + 1) + 1 .. n PROVE ~ Source(w[j], l)
    <3>1. j - 1 \in i + 1 .. n - 1 /\ j - 1 \in 1 .. n - 1 /\ (j - 1) + 1 = j
      BY <1>0
    <3>2. Source(v[j - 1], l) <=> Source(w[(j - 1) + 1], l)
      BY <1>1, <3>1
    <3>3. QED
      BY <1>2, <3>1, <3>2
  <2>2. i + 1 \in 1 .. n /\ Source(w[i + 1], l)
    BY <1>1, <1>2
  <2>3. w[i + 1].to = from
    BY <1>0, <2>1, <2>2 DEF Continues
  <2>4. QED
    BY <1>1, <2>3
<1>3. ASSUME \A i \in 1 .. n - 1 : ~ Source(v[i], l), Held', client'.lease = l PROVE client'.expected = from
  <2>1. ASSUME NEW j \in 2 .. n PROVE ~ Source(w[j], l)
    <3>1. j - 1 \in 1 .. n - 1 /\ (j - 1) + 1 = j
      BY <1>0
    <3>2. Source(v[j - 1], l) <=> Source(w[(j - 1) + 1], l)
      BY <1>1, <3>1
    <3>3. QED
      BY <1>3, <3>1, <3>2
  <2>2. CASE Source(w[1], l)
    <3>1. 1 \in 1 .. n /\ \A j \in 1 + 1 .. n : ~ Source(w[j], l)
      BY <1>0, <2>1
    <3>2. w[1].to = from
      BY <1>0, <2>2, <3>1 DEF Continues
    <3>3. QED
      BY <1>3, <2>2, <3>2 DEF Heard
  <2>3. CASE ~ Source(w[1], l)
    <3>1. \A j \in 1 .. n : j = 1 \/ j \in 2 .. n
      BY <1>0
    <3>2. \A j \in 1 .. n : ~ Source(w[j], l)
      BY <2>1, <2>3, <3>1
    <3>3. Held /\ client.lease = l /\ client'.expected = client.expected
      BY <1>3, <2>3 DEF Heard
    <3>4. QED
      BY <1>0, <3>2, <3>3 DEF Continues
  <2>4. QED
    BY <2>2, <2>3
<1>4. QED
  BY <1>2, <1>3 DEF Continues, Source

\* The client expects of the lease what it did, or nothing.
LEMMA ContinuesStill ==
    ASSUME NEW w, NEW n, NEW l, NEW from, Continues(w, n, l, from),
           Held' /\ client'.lease = l => Held /\ client.lease = l /\ client'.expected = client.expected
    PROVE  Continues(w, n, l, from)'
BY DEF Continues, Source

LEMMA LinesDrop ==
    ASSUME NEW w, NEW v, Drops(w, v), Lines(w), \A l : Heard(w[1], l), EndFirst(w),
           client'.lease \in {0, client.lease} \/ (w[1].kind = "end" /\ client'.lease = w[1].lease)
    PROVE  Lines(v)'
<1>0. Len(w) \in Nat \ {0} /\ Len(v) = Len(w) - 1
  BY DEF Drops
<1>1. ASSUME NEW k \in 1 .. Len(v), v[k].kind = "output" PROVE Continues(v, k, v[k].lease, v[k].from)'
  <2>1. k + 1 \in 1 .. Len(w) /\ v[k] = w[k + 1] /\ k \in 1 .. Len(v) + 1
    BY <1>0, DropsShift
  <2>2. Continues(w, k + 1, v[k].lease, v[k].from)
    BY <1>1, <2>1 DEF Lines, Linked
  <2>3. QED
    BY <2>1, <2>2, ContinuesDrop
<1>2. ASSUME client'.lease # 0, NEW k \in 1 .. Len(v) PROVE ~ (v[k].kind = "end" /\ v[k].lease = client'.lease)
  <2>1. k + 1 \in 1 .. Len(w) /\ v[k] = w[k + 1] /\ 1 \in 1 .. Len(w) /\ 1 < k + 1
    BY <1>0, DropsShift
  <2>2. CASE client'.lease = client.lease
    BY <1>2, <2>1, <2>2 DEF Lines, Settles
  <2>3. CASE w[1].kind = "end" /\ client'.lease = w[1].lease
    BY <2>1, <2>3 DEF EndFirst, Source
  <2>4. QED
    BY <1>2, <2>2, <2>3
<1>3. QED
  BY <1>1, <1>2 DEF Lines, Linked, Settles

LEMMA LinesStill ==
    ASSUME NEW w, Lines(w), client'.lease \in {0, client.lease},
           Held' => Held /\ client'.lease = client.lease /\ client'.expected = client.expected
    PROVE  Lines(w)'
<1>1. ASSUME NEW k \in 1 .. Len(w), w[k].kind = "output" PROVE Continues(w, k, w[k].lease, w[k].from)'
  BY <1>1, ContinuesStill DEF Lines, Linked
<1>2. Settles(w)'
  BY DEF Lines, Settles
<1>3. QED
  BY <1>1, <1>2 DEF Lines, Linked
-----------------------------------------------------------------------------
(***************************************************************************)
(* What is on its way to the client, step by step: the daemon puts         *)
(* something behind it.                                                    *)
(***************************************************************************)
\* A request of the client that its connection has not answered yet.
Awaited(id) == InHand(client.conn, id) \/ Unread(client.conn, id)
Unanswered == client.conn # 0 =>
                 \A id \in Ids : Awaited(id) => /\ \A k \in 1 .. Len(wire) : wire[k].id # id
                                                /\ attach.id = id => Untold
\* What was sent to a client that owns the pane ends where the output ends.
Newest == client.conn # 0 /\ owner.conn = client.conn /\ active[client.conn]
             => Continues(wire, Len(wire) + 1, owner.lease, output)
Carries(w, p) == Streams(w, p) /\ Cursor(w, p) /\ Lines(w)
Flow == Carries(wire, partial) /\ Unanswered /\ Newest

\* What may be put behind w.
Fits(w, s, q) ==
    /\ Streams(s, q) /\ Opening(w, s) /\ Answering(s)
    /\ \A k \in 1 .. Len(s) : s[k].kind = "output" =>
          k = 1 /\ Continues(w, Len(w) + 1, s[k].lease, s[k].from)
    /\ \A k \in 1 .. Len(s) : s[k].kind = "end" => s[k].lease # client.lease

LEMMA CarriesJoin ==
    ASSUME NEW w, NEW s, NEW v, NEW p, NEW q, Joins(w, s, v), p \subseteq q,
           Carries(w, p), Fits(w, s, q), attach.id = 0 => Untold
    PROVE  Carries(v, q)
<1>1. Streams(v, q)
  BY StreamsJoin DEF Carries, Fits
<1>2. Cursor(v, q)
  BY CursorJoin DEF Carries, Fits
<1>3. Lines(v)
  BY LinesJoin DEF Carries, Fits
<1>4. QED
  BY <1>1, <1>2, <1>3 DEF Carries

\* Less is required of what was sent when more leases are noted.
LEMMA CarriesMore ==
    ASSUME NEW w, NEW p, NEW q, Carries(w, p), p \subseteq q
    PROVE  Carries(w, q)
<1>1. Streams(w, q)
  BY DEF Carries, Streams, Ended
<1>2. Cursor(w, q)
  BY DEF Carries, Cursor, Reached
<1>3. QED
  BY <1>1, <1>2 DEF Carries

LEMMA CarriesStill ==
    ASSUME NEW w, NEW p, Carries(w, p), UNCHANGED << client, attach >>
    PROVE  Carries(w, p)'
<1>1. Streams(w, p)'
  BY DEF Carries, Streams, InTurn, Marked, ResultFirst, EndFirst, Ended, Follows, Position, Ends, Source
<1>2. Cursor(w, p)'
  BY DEF Carries, Cursor, Front, Limited, Accepted, Reached, Answers, InOrder, Ends
<1>3. Lines(w)'
  BY LinesStill DEF Carries, Held
<1>4. QED
  BY <1>1, <1>2, <1>3 DEF Carries

LEMMA UntoldAway == Types /\ Numbered /\ attach.id = 0 => Untold
  BY DEF Numbered, EntryOK, Away, Untold

\* One message behind w.
LEMMA AppendJoins ==
    ASSUME NEW S, NEW w \in Seq(S), NEW m \in S
    PROVE  Joins(w, << m >>, Append(w, m)) /\ Append(w, m) \in Seq(S)
<1>1. /\ Len(w) \in Nat /\ Len(<< m >>) = 1 /\ << m >>[1] = m
  OBVIOUS
<1>2. QED
  BY <1>1, Appended DEF Joins

LEMMA NothingJoins ==
    ASSUME NEW S, NEW w \in Seq(S)
    PROVE  Joins(w, << >>, w)
  BY DEF Joins

LEMMA SequenceJoins ==
    ASSUME NEW S, NEW w \in Seq(S), NEW s \in Seq(S)
    PROVE  Joins(w, s, w \o s)
  BY Joined DEF Joins

LEMMA SentProper ==
    ASSUME Types, Numbered
    PROVE  /\ wire \in Seq(Messages) /\ Len(wire) \in Nat
           /\ \A k \in 1 .. Len(wire) : Proper(wire[k]) /\ wire[k].kind \in Kinds /\ wire[k].id \in Ids \cup {0}
<1>1. wire \in Seq(Messages) /\ Len(wire) \in Nat /\ \A k \in 1 .. Len(wire) : wire[k] \in Messages
  BY NumbersTyped
<1>2. QED
  BY <1>1 DEF Numbered, WireSent, Messages

LEMMA NoticeFits ==
    ASSUME NEW w, \A k \in 1 .. Len(w) : Proper(w[k]), NEW l, l # 0, NEW p
    PROVE  Fits(w, << TakenOver(l) >>, p)
<1> DEFINE m == TakenOver(l)
<1>1. m.kind = "taken" /\ m.id = 0 /\ m.lease = l /\ Proper(m)
  BY DEF TakenOver, Message, Proper, InTransaction
<1> HIDE DEF m
<1>2. Streams(<< m >>, p)
  BY <1>1, StreamsOne DEF InTransaction
<1>3. Len(<< m >>) = 1 /\ << m >>[1] = m
  OBVIOUS
<1>4. Opening(w, << m >>)
  BY <1>1, <1>3 DEF Opening, InTransaction
<1>5. Answering(<< m >>)
  BY <1>1, <1>3 DEF Answering, Kinds
<1>6. QED
  BY <1>1, <1>2, <1>3, <1>4, <1>5 DEF Fits, m

LEMMA RefusalFits ==
    ASSUME NEW w, \A k \in 1 .. Len(w) : Proper(w[k]), NEW id \in Ids,
           \A k \in 1 .. Len(w) : w[k].id # id, attach.id = id => Untold, NEW p
    PROVE  Fits(w, << Result(id, Failed) >>, p)
<1> DEFINE m == Result(id, Failed)
<1>0. id # 0
  BY ConstantsTyped
<1>1. m.kind = "result" /\ m.id = id /\ m.lease = 0 /\ Proper(m)
  BY <1>0 DEF Result, Failed, Message, Proper, InTransaction
<1> HIDE DEF m
<1>2. Streams(<< m >>, p)
  BY <1>1, StreamsOne DEF InTransaction
<1>3. Len(<< m >>) = 1 /\ << m >>[1] = m
  OBVIOUS
<1>4. Opening(w, << m >>)
  BY <1>1, <1>3 DEF Opening, InTransaction
<1>5. Answering(<< m >>)
  BY <1>1, <1>3 DEF Answering, Kinds
<1>6. QED
  BY <1>1, <1>2, <1>3, <1>4, <1>5 DEF Fits, m

LEMMA FrameFits ==
    ASSUME NEW w, \A k \in 1 .. Len(w) : Proper(w[k]), NEW n \in Nat, n # 0, output \in Nat,
           owner.lease # 0, Continues(w, Len(w) + 1, owner.lease, output), NEW p
    PROVE  Fits(w, << LiveFrame(n) >>, p)
<1> DEFINE m == LiveFrame(n)
<1>1. m.kind = "output" /\ m.id = 0 /\ m.lease = owner.lease /\ Proper(m) /\ m.from = output
  BY DEF LiveFrame, Message, Proper, InTransaction
<1> HIDE DEF m
<1>2. Streams(<< m >>, p)
  BY <1>1, StreamsOne DEF InTransaction
<1>3. Len(<< m >>) = 1 /\ << m >>[1] = m
  OBVIOUS
<1>4. Opening(w, << m >>)
  BY <1>1, <1>3 DEF Opening, InTransaction
<1>5. Answering(<< m >>)
  BY <1>1, <1>3 DEF Answering, Kinds
<1>6. QED
  BY <1>1, <1>2, <1>3, <1>4, <1>5 DEF Fits, m

\* A transaction of a request that waits for it, of a lease nobody knows here.
LEMMA ShipmentFits ==
    ASSUME HistoryOK, NEW w, \A k \in 1 .. Len(w) : Proper(w[k]), NEW l \in Nat, NEW s \in Seq(MessagesOf(l)),
           NEW id \in Ids, NEW lease, NEW told \in BOOLEAN, Shipped(s, id, lease, told),
           \A k \in 1 .. Len(w) : w[k].id # id /\ w[k].lease # lease,
           attach.id = id => Untold, client.lease # lease
    PROVE  Fits(w, s, partial')
<1>1. Streams(s, partial') /\ Opening(<< >>, s)
  BY StreamsShipped
<1>2. \A k \in 1 .. Len(s) : s[k].kind \in Kinds
  <2>1. \A k \in 1 .. Len(s) : s[k] \in MessagesOf(l)
    OBVIOUS
  <2>2. QED
    BY <2>1 DEF MessagesOf
<1>3. \A k \in 1 .. Len(s) : /\ s[k].lease = lease /\ s[k].kind # "output" /\ Proper(s[k])
                             /\ s[k].kind # "taken" => s[k].id = id
  BY DEF Shipped
<1>4. \A k \in 1 .. Len(s) : s[k].id \in {0, id}
  BY <1>3 DEF Proper
<1>5. Opening(w, s)
  BY <1>1, <1>3, <1>4 DEF Opening
<1>6. Answering(s)
  BY <1>2, <1>4 DEF Answering
<1>7. QED
  BY <1>1, <1>3, <1>5, <1>6 DEF Fits

LEMMA NothingFits ==
    ASSUME NEW w, \A k \in 1 .. Len(w) : Proper(w[k]), NEW p
    PROVE  Fits(w, << >>, p)
<1>1. Len(<< >>) = 0
  OBVIOUS
<1>2. \A k \in 1 .. 0 : FALSE
  OBVIOUS
<1>3. Streams(<< >>, p)
  BY <1>1 DEF Streams, InTurn, Marked, ResultFirst, EndFirst, Ended
<1>4. QED
  BY <1>1, <1>2, <1>3 DEF Fits, Opening, Answering

\* A step of the daemon that puts s and then t behind the wire.
Puts(s, v, t) ==
    /\ Carries(wire, partial) /\ Unanswered /\ UNCHANGED << client, attach >>
    /\ Joins(wire, s, v) /\ Joins(v, t, wire')
    /\ Fits(wire, s, partial) /\ Fits(v, t, partial') /\ partial \subseteq partial'
    /\ client.conn # 0 => \A j \in Ids : Awaited(j)' =>
                            /\ Awaited(j)
                            /\ \A k \in 1 .. Len(s) : s[k].id # j
                            /\ \A k \in 1 .. Len(t) : t[k].id # j

LEMMA SentFlow ==
    ASSUME Types, Numbered, NEW s, NEW v, NEW t, Puts(s, v, t)
    PROVE  Carries(wire, partial)' /\ Unanswered'
<1> USE DEF Puts
<1> DEFINE u == wire'
<1>0. Joins(v, t, u)
  OBVIOUS
<1> HIDE DEF u
<1>1. attach.id = 0 => Untold
  BY UntoldAway
<1>2. Carries(v, partial)
  BY <1>1, CarriesJoin
<1>3. Carries(u, partial')
  BY <1>0, <1>1, <1>2, CarriesJoin
<1>4. Carries(wire, partial)'
  <2>1. PICK x, q : x = wire' /\ q = partial'
    OBVIOUS
  <2>2. Carries(x, q)
    BY <1>3, <2>1 DEF u
  <2>3. Carries(x, q)'
    BY <2>2, CarriesStill
  <2>4. QED
    BY <2>1, <2>3
<1>5. ASSUME client.conn # 0, NEW j \in Ids, Awaited(j)', NEW k \in 1 .. Len(u)
      PROVE  u[k].id # j
  <2>1. /\ Awaited(j) /\ \A i \in 1 .. Len(s) : s[i].id # j
        /\ \A i \in 1 .. Len(t) : t[i].id # j
    BY <1>5
  <2>2. \A i \in 1 .. Len(wire) : wire[i].id # j
    BY <1>5, <2>1 DEF Unanswered
  <2>3. \A i \in 1 .. Len(v) : v[i].id # j
    <3>1. TAKE i \in 1 .. Len(v)
    <3>2. \/ i \in 1 .. Len(wire) /\ v[i] = wire[i]
          \/ i - Len(wire) \in 1 .. Len(s) /\ v[i] = s[i - Len(wire)]
      BY JoinsSplit
    <3>3. QED
      BY <2>1, <2>2, <3>2
  <2>4. \/ k \in 1 .. Len(v) /\ u[k] = v[k]
        \/ k - Len(v) \in 1 .. Len(t) /\ u[k] = t[k - Len(v)]
    BY <1>0, <1>5, JoinsSplit
  <2>5. QED
    BY <2>1, <2>3, <2>4
<1>6. ASSUME client.conn # 0, NEW j \in Ids, Awaited(j)', attach.id = j
      PROVE  Untold
  BY <1>6 DEF Unanswered
<1>7. QED
  BY <1>4, <1>5, <1>6 DEF Unanswered, Untold, u

\* The owner's notice is on the wire of this client, or not.
LEMMA NoticeFlows ==
    ASSUME Types, Numbered, NEW delivered \in BOOLEAN, Reaches(delivered), NEW l,
           NEW S, wire \in Seq(S), TakenOver(l) \in S, delivered => l # 0, NEW v, v = ToOwner(delivered, TakenOver(l))
    PROVE  \E s : /\ Joins(wire, s, v) /\ v \in Seq(S) /\ Fits(wire, s, partial)
                  /\ \A k \in 1 .. Len(s) : s[k] = TakenOver(l) /\ s[k].id = 0 /\ s[k].kind = "taken"
                  /\ \A k \in 1 .. Len(v) : Proper(v[k])
                  /\ \A k \in 1 .. Len(v) : v[k] = TakenOver(l) \/ \E i \in 1 .. Len(wire) : v[k] = wire[i]
<1>0. \A k \in 1 .. Len(wire) : Proper(wire[k])
  BY SentProper
<1>1. CASE delivered /\ owner.conn = client.conn
  <2>1. v = Append(wire, TakenOver(l)) /\ l # 0
    BY <1>1 DEF ToOwner
  <2>2. Joins(wire, << TakenOver(l) >>, v) /\ v \in Seq(S)
    BY <2>1, AppendJoins
  <2>3. Fits(wire, << TakenOver(l) >>, partial)
    BY <1>0, <2>1, NoticeFits
  <2>4. TakenOver(l).id = 0 /\ TakenOver(l).kind = "taken" /\ Proper(TakenOver(l))
    BY <2>1 DEF TakenOver, Message, Proper, InTransaction
  <2>5. Len(<< TakenOver(l) >>) = 1 /\ << TakenOver(l) >>[1] = TakenOver(l)
    OBVIOUS
  <2>6. Len(wire) \in Nat /\ Len(v) = Len(wire) + 1 /\ v[Len(wire) + 1] = TakenOver(l)
        /\ \A k \in 1 .. Len(wire) : v[k] = wire[k]
    BY <2>1, Appended
  <2>7. \A k \in 1 .. Len(v) : (k \in 1 .. Len(wire) /\ v[k] = wire[k]) \/ v[k] = TakenOver(l)
    BY <2>6
  <2>8. QED
    BY <1>0, <2>2, <2>3, <2>4, <2>5, <2>7
<1>2. CASE ~ (delivered /\ owner.conn = client.conn)
  <2>1. v = wire
    BY <1>2 DEF ToOwner
  <2>2. Joins(wire, << >>, v) /\ v \in Seq(S) /\ Fits(wire, << >>, partial)
    BY <1>0, <2>1, NothingJoins, NothingFits
  <2>3. \A k \in 1 .. Len(<< >>) : FALSE
    OBVIOUS
  <2>4. QED
    BY <1>0, <2>1, <2>2, <2>3
<1>3. QED
  BY <1>1, <1>2

\* Nothing of the owner's lease was put behind the wire, and nothing put out.
LEMMA NewestStays ==
    ASSUME Newest, NEW s, Joins(wire, s, wire'), \A k \in 1 .. Len(s) : ~ Source(s[k], owner.lease),
           UNCHANGED << owner, output, client, attach >>,
           client.conn # 0 /\ active'[client.conn] => active[client.conn]
    PROVE  Newest'
<1>1. SUFFICES ASSUME client.conn # 0, owner.conn = client.conn, active'[client.conn]
               PROVE  Continues(wire, Len(wire) + 1, owner.lease, output)'
  BY DEF Newest
<1> DEFINE u == wire'
<1>2. Continues(wire, Len(wire) + 1, owner.lease, output) /\ Joins(wire, s, u)
  BY <1>1 DEF Newest
<1> HIDE DEF u
<1>3. Continues(u, Len(u) + 1, owner.lease, output)
  BY <1>2, ContinuesBeyond
<1>4. PICK x, n, l, o : x = u /\ n = Len(u) + 1 /\ l = owner.lease /\ o = output
  OBVIOUS
<1>5. Continues(x, n, l, o)
  BY <1>3, <1>4
<1>6. Continues(x, n, l, o)'
  BY <1>5, ContinuesStill DEF Held
<1>7. x = wire' /\ n = Len(wire') + 1 /\ l = owner'.lease /\ o = output'
  BY <1>4 DEF u
<1>8. QED
  BY <1>6, <1>7

\* What was put behind of the owner's lease ends where the output ends now.
LEMMA NewestReached ==
    ASSUME NEW v, NEW t, Joins(v, t, wire'), NEW l, NEW o, l = owner'.lease, o = output', UNCHANGED << client, attach >>,
           \A k \in 1 .. Len(t) : Source(t[k], l) => t[k].to = o,
           \/ \E k \in 1 .. Len(t) : Source(t[k], l)
           \/ client.lease # l /\ \A k \in 1 .. Len(v) : ~ Source(v[k], l)
    PROVE  Newest'
<1> DEFINE u == wire'
<1>2. Joins(v, t, u)
  OBVIOUS
<1> HIDE DEF u
<1>3. Continues(u, Len(u) + 1, l, o)
  BY <1>2, ContinuesAt
<1>4. PICK x, n : x = u /\ n = Len(u) + 1
  OBVIOUS
<1>5. Continues(x, n, l, o)
  BY <1>3, <1>4
<1>6. Continues(x, n, l, o)'
  BY <1>5, ContinuesStill DEF Held
<1>7. x = wire' /\ n = Len(wire') + 1
  BY <1>4 DEF u
<1>8. Continues(wire, Len(wire) + 1, owner.lease, output)'
  BY <1>6, <1>7
<1>9. QED
  BY <1>8 DEF Newest

\* Nothing is sent to the client, or a refusal of a request that waited.
LEMMA RefusalFlow ==
    ASSUME Types, Numbered, Flow, UNCHANGED << client, attach, owner, output, partial >>, NEW id \in Ids,
           client.conn # 0 => \A j \in Ids : Awaited(j)' => Awaited(j),
           client.conn # 0 /\ active'[client.conn] => active[client.conn],
           \/ wire' = wire
           \/ client.conn # 0 /\ Awaited(id) /\ ~ Awaited(id)' /\ wire' = Append(wire, Result(id, Failed))
    PROVE  Flow'
<1>0. wire \in Seq(Messages) /\ \A k \in 1 .. Len(wire) : Proper(wire[k])
  BY SentProper
<1>1. Joins(wire, << >>, wire) /\ Fits(wire, << >>, partial)
  BY <1>0, NothingJoins, NothingFits
<1>2. PICK t : /\ Joins(wire, t, wire') /\ Fits(wire, t, partial')
               /\ \A k \in 1 .. Len(t) : ~ Source(t[k], owner.lease)
               /\ client.conn # 0 => \A j \in Ids : Awaited(j)' => \A k \in 1 .. Len(t) : t[k].id # j
  <2>1. CASE wire' = wire
    <3>1. Joins(wire, << >>, wire') /\ Fits(wire, << >>, partial')
      BY <1>1, <2>1
    <3>2. \A k \in 1 .. Len(<< >>) : FALSE
      OBVIOUS
    <3>3. QED
      BY <3>1, <3>2
  <2>2. CASE client.conn # 0 /\ Awaited(id) /\ ~ Awaited(id)' /\ wire' = Append(wire, Result(id, Failed))
    <3>0. Failed = 0 /\ Failed \in 0 .. leases /\ 0 \in 0 .. output
      BY DEF Failed, Types, HistoryOK, DaemonOK
    <3>1. Result(id, Failed) \in Messages
      BY <3>0 DEF Result, Message, Messages, Kinds
    <3>2. Joins(wire, << Result(id, Failed) >>, wire')
      BY <1>0, <2>2, <3>1, AppendJoins
    <3>3. (\A k \in 1 .. Len(wire) : wire[k].id # id) /\ (attach.id = id => Untold)
      BY <2>2 DEF Flow, Unanswered
    <3>4. Fits(wire, << Result(id, Failed) >>, partial')
      BY <1>0, <3>3, RefusalFits
    <3>5. Len(<< Result(id, Failed) >>) = 1 /\ << Result(id, Failed) >>[1] = Result(id, Failed)
      OBVIOUS
    <3>6. Result(id, Failed).id = id /\ Result(id, Failed).kind = "result"
      BY DEF Result, Message
    <3>7. QED
      BY <2>2, <3>2, <3>4, <3>5, <3>6 DEF Source
  <2>3. QED
    BY <2>1, <2>2
<1>3. Newest'
  BY <1>2, NewestStays DEF Flow
<1>4. \A k \in 1 .. Len(<< >>) : FALSE
  OBVIOUS
<1>5. Carries(wire, partial)' /\ Unanswered'
  <2>1. Carries(wire, partial) /\ Unanswered /\ partial \subseteq partial'
    BY DEF Flow
  <2>2. client.conn # 0 => \A j \in Ids : Awaited(j)' => /\ Awaited(j)
                                                         /\ \A k \in 1 .. Len(<< >>) : << >>[k].id # j
                                                         /\ \A k \in 1 .. Len(t) : t[k].id # j
    BY <1>2, <1>4
  <2>3. Puts(<< >>, wire, t)
    BY <1>1, <1>2, <2>1, <2>2 DEF Puts
  <2>4. QED
    BY <2>3, SentFlow
<1>6. QED
  BY <1>3, <1>5 DEF Flow

LEMMA AwaitedSame ==
    ASSUME UNCHANGED << client, handler, scope, inbox >>, NEW j
    PROVE  Awaited(j)' <=> Awaited(j)
  BY DEF Awaited, InHand, Unread, Waits

LEMMA PublishFlow ==
    ASSUME Types, Numbered, Flow, NEW n \in 1 .. MaxRead, NEW delivered \in BOOLEAN, Publish(n, delivered)
    PROVE  Flow'
<1>1. /\ Reaches(delivered) /\ output' = output + n
      /\ wire' = ToOwner(delivered, LiveFrame(n)) /\ active' = Dropping(Cut(delivered))
      /\ UNCHANGED << owner, leases, scope, handler, inbox, client, attach, screen, partial >>
  BY DEF Publish
<1>2. wire \in Seq(Messages) /\ \A k \in 1 .. Len(wire) : Proper(wire[k])
  BY SentProper
<1>3. Joins(wire, << >>, wire) /\ Fits(wire, << >>, partial)
  BY <1>2, NothingJoins, NothingFits
<1>4. \A k \in 1 .. Len(<< >>) : FALSE
  OBVIOUS
<1>5. \A j \in Ids : Awaited(j)' => Awaited(j)
  BY <1>1, AwaitedSame
<1>6. CASE delivered /\ owner.conn = client.conn
  <2> DEFINE m == LiveFrame(n)
  <2>1. wire' = Append(wire, m)
    BY <1>1, <1>6 DEF ToOwner
  <2>2. owner.conn # 0 /\ active[client.conn] /\ owner.lease # 0
    BY <1>1, <1>6 DEF Reaches, Numbered, OwnerOK
  <2>3. Continues(wire, Len(wire) + 1, owner.lease, output)
    BY <1>6, <2>2 DEF Flow, Newest
  <2>4. n \in Nat /\ n # 0 /\ output \in Nat
    BY DEF Types, HistoryOK
  <2>5. Fits(wire, << m >>, partial')
    BY <1>1, <1>2, <2>2, <2>3, <2>4, FrameFits
  <2>6. m.id = 0 /\ m.kind = "output" /\ m.lease = owner.lease /\ m.to = output'
    BY <1>1 DEF LiveFrame, Message
  <2>7. m \in Messages'
    <3>1. Types'
      BY PublishTyped
    <3>2. wire' \in Seq(Messages') /\ Len(wire) \in Nat /\ Len(wire') = Len(wire) + 1 /\ wire'[Len(wire) + 1] = m
      BY <1>2, <2>1, <3>1 DEF Types, WireOK
    <3>3. QED
      BY <3>2
  <2>8. wire \in Seq(Messages')
    BY <1>1, <1>2, <2>4, PublishTyped, NumbersTyped, MessagesGrow
  <2>9. Joins(wire, << m >>, wire')
    BY <2>1, <2>7, <2>8, AppendJoins
  <2>10. Len(<< m >>) = 1 /\ << m >>[1] = m
    OBVIOUS
  <2> HIDE DEF m
  <2>11. Newest'
    <3>1. PICK l, o : l = owner'.lease /\ o = output'
      OBVIOUS
    <3>2. /\ \A k \in 1 .. Len(<< m >>) : Source(<< m >>[k], l) => << m >>[k].to = o
          /\ \E k \in 1 .. Len(<< m >>) : Source(<< m >>[k], l)
      BY <1>1, <2>6, <2>10, <3>1 DEF Source
    <3>3. QED
      BY <1>1, <2>9, <3>1, <3>2, NewestReached
  <2>12. \A j \in Ids : Awaited(j)' => /\ Awaited(j)
                                       /\ \A k \in 1 .. Len(<< >>) : << >>[k].id # j
                                       /\ \A k \in 1 .. Len(<< m >>) : << m >>[k].id # j
    <3>1. \A k \in 1 .. Len(<< m >>) : << m >>[k].id = 0
      BY <2>6, <2>10
    <3>2. 0 \notin Ids
      BY ConstantsTyped
    <3>3. QED
      BY <1>4, <1>5, <3>1, <3>2
  <2>13. partial \subseteq partial' /\ UNCHANGED << client, attach >>
    BY <1>1
  <2>14. Carries(wire, partial)' /\ Unanswered'
    <3>1. Puts(<< >>, wire, << m >>)
      BY <1>3, <2>5, <2>9, <2>12, <2>13 DEF Flow, Puts
    <3>2. QED
      BY <3>1, SentFlow
  <2>15. QED
    BY <2>11, <2>14 DEF Flow
<1>7. CASE ~ (delivered /\ owner.conn = client.conn)
  <2>1. wire' = wire
    BY <1>1, <1>7 DEF ToOwner
  <2>2. client.conn # 0 /\ owner.conn = client.conn => ~ active'[client.conn]
    BY <1>1, <1>7, NumbersTyped, DroppedTyped DEF Cut
  <2>3. Newest'
    BY <1>1, <2>2 DEF Newest
  <2>4. \A j \in Ids : Awaited(j)' => /\ Awaited(j)
                                      /\ \A k \in 1 .. Len(<< >>) : << >>[k].id # j
                                      /\ \A k \in 1 .. Len(<< >>) : << >>[k].id # j
    BY <1>4, <1>5
  <2>5. partial' = partial /\ UNCHANGED << client, attach >> /\ Joins(wire, << >>, wire') /\ Fits(wire, << >>, partial')
    BY <1>1, <1>3, <2>1
  <2>6. Carries(wire, partial)' /\ Unanswered'
    <3>1. Puts(<< >>, wire, << >>)
      BY <1>3, <2>4, <2>5 DEF Flow, Puts
    <3>2. QED
      BY <3>1, SentFlow
  <2>7. QED
    BY <2>3, <2>6 DEF Flow
<1>8. QED
  BY <1>6, <1>7

LEMMA TakeoverFlow ==
    ASSUME Types, Numbered, Flow, NEW delivered \in BOOLEAN, Takeover(delivered)
    PROVE  Flow'
<1>1. /\ Reaches(delivered) /\ owner'.conn = 0
      /\ wire' = ToOwner(delivered, TakenOver(owner.lease))
      /\ UNCHANGED << output, scope, handler, inbox, client, attach, partial >>
  BY DEF Takeover
<1>2. wire \in Seq(Messages) /\ \A k \in 1 .. Len(wire) : Proper(wire[k])
  BY SentProper
<1>3. TakenOver(owner.lease) \in Messages /\ (delivered => owner.lease # 0)
  BY <1>1, NumbersTyped DEF TakenOver, Message, Messages, Kinds, Types, HistoryOK, DaemonOK, Reaches, Numbered, OwnerOK
<1>4. PICK l, v : l = owner.lease /\ v = wire'
  OBVIOUS
<1>5. PICK s : /\ Joins(wire, s, v) /\ v \in Seq(Messages) /\ Fits(wire, s, partial)
               /\ \A k \in 1 .. Len(s) : s[k] = TakenOver(l) /\ s[k].id = 0 /\ s[k].kind = "taken"
               /\ \A k \in 1 .. Len(v) : Proper(v[k])
  <2>1. v = ToOwner(delivered, TakenOver(l)) /\ TakenOver(l) \in Messages /\ (delivered => l # 0)
    BY <1>1, <1>3, <1>4
  <2>2. QED
    BY <1>1, <1>2, <2>1, NoticeFlows
<1>6. Newest'
  BY <1>1 DEF Newest
<1>7. \A k \in 1 .. Len(<< >>) : FALSE
  OBVIOUS
<1>8. Joins(v, << >>, wire') /\ Fits(v, << >>, partial')
  <2>1. Joins(v, << >>, v) /\ Fits(v, << >>, partial)
    BY <1>5, NothingJoins, NothingFits
  <2>2. QED
    BY <1>1, <1>4, <2>1
<1>9. \A j \in Ids : Awaited(j)' => /\ Awaited(j)
                                    /\ \A k \in 1 .. Len(s) : s[k].id # j
                                    /\ \A k \in 1 .. Len(<< >>) : << >>[k].id # j
  BY <1>1, <1>5, <1>7, AwaitedSame, ConstantsTyped
<1>10. partial \subseteq partial' /\ UNCHANGED << client, attach >>
  BY <1>1
<1>11. Carries(wire, partial)' /\ Unanswered'
  <2>1. Puts(s, v, << >>)
    BY <1>5, <1>8, <1>9, <1>10 DEF Flow, Puts
  <2>2. QED
    BY <2>1, SentFlow
<1>12. QED
  BY <1>6, <1>11 DEF Flow

LEMMA BeginAttachFlow ==
    ASSUME Types, Numbered, Reading, Flow, NEW c \in Conns, BeginAttach(c)
    PROVE  Flow'
<1>0. PICK id : id = inbox[c][1]
  OBVIOUS
<1>1. /\ id \in Ids /\ inbox[c] # << >> /\ handler[c] = Idle
      /\ inbox' = [inbox EXCEPT ![c] = Tail(@)]
      /\ Began(scope, scope', id, c)
      /\ Opens(c, id) \/ Finds(c, id) \/ Passes(c, id)
  BY <1>0, BeginAttachDoes
<1>2. UNCHANGED << output, start, owner, leases, active, client, attach, screen, partial >>
  BY DEF BeginAttach
<1>3. /\ inbox[c] \in Seq(Ids) /\ Len(inbox[c]) \in Nat \ {0} /\ Len(Tail(inbox[c])) = Len(inbox[c]) - 1
      /\ \A k \in 1 .. Len(inbox[c]) - 1 : Tail(inbox[c])[k] = inbox[c][k + 1]
  BY <1>1, HandlerTyped, Taken
<1>4. inbox'[c] = Tail(inbox[c]) /\ \A d \in Conns : d # c => inbox'[d] = inbox[d]
  BY <1>1 DEF Types, InboxOK
<1>5. ASSUME NEW d \in Conns, NEW j, Unread(d, j)' PROVE Unread(d, j)
  <2>1. CASE d # c
    BY <1>4, <1>5, <2>1 DEF Unread
  <2>2. CASE d = c
    <3>1. PICK k \in 1 .. Len(Tail(inbox[c])) : Tail(inbox[c])[k] = j
      BY <1>4, <1>5, <2>2 DEF Unread
    <3>2. k + 1 \in 1 .. Len(inbox[c]) /\ inbox[c][k + 1] = j
      BY <1>3, <3>1
    <3>3. QED
      BY <2>2, <3>2 DEF Unread
  <2>3. QED
    BY <2>1, <2>2
<1>6. Unread(c, id)
  BY <1>0, <1>3 DEF Unread
<1>7. ~ Unread(c, id)'
  <2>1. SUFFICES ASSUME NEW k \in 1 .. Len(Tail(inbox[c])), Tail(inbox[c])[k] = id PROVE FALSE
    BY <1>4 DEF Unread
  <2>2. k \in 1 .. Len(inbox[c]) - 1 /\ k + 1 \in 1 .. Len(inbox[c]) /\ 1 \in 1 .. Len(inbox[c]) /\ k + 1 # 1
    BY <1>3, <2>1
  <2>3. inbox[c][k + 1] = inbox[c][1]
    BY <1>0, <1>3, <2>1, <2>2
  <2>4. QED
    BY <2>2, <2>3 DEF Reading, ReadOnce
<1>8. ~ InHand(c, id)
  BY <1>1, <1>6 DEF Reading, ReadOnce
<1>9. \A d \in Conns : handler'[d] = handler[d] \/ (d = c /\ handler'[d].id = id)
  BY <1>1 DEF Opens, Finds, Passes, Types, HandlerOK
<1>10. ASSUME client.conn # 0, NEW j \in Ids, Awaited(j)' PROVE Awaited(j)
  <2>1. client'.conn = client.conn /\ client.conn \in Conns
    BY <1>2, <1>10, NumbersTyped
  <2> DEFINE d == client.conn
  <2>2. Unread(d, j)' \/ InHand(d, j)'
    BY <1>2, <1>10 DEF Awaited, Unread, InHand, Waits
  <2>3. d \in Conns
    BY <2>1
  <2>4. CASE Unread(d, j)'
    <3>1. PICK e \in Conns : e = d
      BY <2>3
    <3>2. Unread(e, j)'
      BY <1>2, <2>4, <3>1 DEF Unread
    <3>3. Unread(e, j)
      BY <1>5, <3>2
    <3>4. QED
      BY <3>1, <3>3 DEF Awaited
  <2>5. CASE InHand(d, j)'
    <3>1. CASE handler'[d].op # "idle" /\ handler'[d].id = j
      BY <1>6, <1>9, <2>3, <3>1 DEF Awaited, InHand
    <3>2. CASE d \in WaitingOn(scope'.records[j])
      <4>1. PICK e : e = d
        OBVIOUS
      <4>2. Waits(e, j)'
        BY <3>2, <4>1 DEF Waits
      <4>3. Waits(e, j) \/ (e = c /\ j = id)
        BY <1>1, <4>2, BeganWaits
      <4>4. QED
        BY <1>6, <4>1, <4>3 DEF Awaited, InHand
    <3>3. QED
      BY <1>2, <2>5, <3>1, <3>2 DEF InHand, Waits
  <2>6. QED
    BY <2>2, <2>4, <2>5
<1>11. \/ wire' = wire
       \/ client.conn # 0 /\ Awaited(id) /\ ~ Awaited(id)' /\ wire' = Append(wire, Result(id, Failed))
  <2>1. CASE Opens(c, id) \/ Finds(c, id)
    BY <2>1 DEF Opens, Finds
  <2>2. CASE Passes(c, id) /\ wire' # wire
    <3>1. /\ c = client.conn /\ handler' = handler /\ scope' = scope
          /\ wire' = Append(wire, Result(id, Failed))
      BY <2>2 DEF Passes
    <3>2. client.conn # 0
      BY <3>1, ConstantsTyped
    <3>3. Awaited(id)
      BY <1>6, <3>1 DEF Awaited
    <3>4. ~ Awaited(id)'
      BY <1>2, <1>7, <1>8, <3>1 DEF Awaited, InHand, Waits, Unread
    <3>5. QED
      BY <3>1, <3>2, <3>3, <3>4
  <2>3. QED
    BY <1>1, <2>1, <2>2
<1>12. QED
  BY <1>1, <1>2, <1>10, <1>11, RefusalFlow

\* A request that was opened is answered: its connections wait no longer.
LEMMA AnsweredAwaits ==
    ASSUME Types, Reading, NEW c \in Conns, handler[c].op = "attach", NEW id \in Ids, handler[c].id = id,
           NEW r, Finished(scope, scope', id, r), handler' = [handler EXCEPT ![c] = Idle],
           UNCHANGED << inbox, client >>, client.conn # 0
    PROVE  /\ \A j \in Ids : Awaited(j)' => Awaited(j)
           /\ client.conn = c \/ Waits(client.conn, id) => Awaited(id) /\ ~ Awaited(id)'
<1> DEFINE d == client.conn
<1>1. d \in Conns /\ client'.conn = d
  BY NumbersTyped
<1>2. \A e \in Conns : handler'[e] = handler[e] \/ handler'[e].op = "idle"
  BY DEF Idle, Types, HandlerOK
<1>3. handler'[c].op = "idle"
  BY DEF Idle, Types, HandlerOK
<1>4. \A j \in Ids : d \in WaitingOn(scope'.records[j]) => Waits(d, j) /\ (j = id => scope.records[id].state = "absent")
  <2>1. PICK e : e = d
    OBVIOUS
  <2>2. \A j \in Ids : Waits(e, j)' => Waits(e, j) /\ (j = id => scope.records[id].state = "absent")
    BY FinishedWaits
  <2>3. QED
    BY <2>1, <2>2 DEF Waits
<1>5. scope.records[id].state = "pending"
  BY DEF Reading, Asking
<1>6. \A j \in Ids : Awaited(j)' <=> \/ handler'[d].op # "idle" /\ handler'[d].id = j
                                     \/ d \in WaitingOn(scope'.records[j])
                                     \/ Unread(d, j)
  BY <1>1 DEF Awaited, InHand, Waits, Unread
<1>7. \A j \in Ids : Awaited(j) <=> \/ handler[d].op # "idle" /\ handler[d].id = j
                                    \/ Waits(d, j)
                                    \/ Unread(d, j)
  BY DEF Awaited, InHand
<1>8. \A j \in Ids : Awaited(j)' => Awaited(j)
  BY <1>1, <1>2, <1>4, <1>6, <1>7
<1>9. ASSUME d = c \/ Waits(d, id) PROVE Awaited(id) /\ ~ Awaited(id)'
  <2>1. InHand(d, id)
    BY <1>9 DEF InHand
  <2>2. ~ Unread(d, id)
    BY <1>1, <2>1 DEF Reading, ReadOnce
  <2>3. ~ d \in WaitingOn(scope'.records[id])
    BY <1>4, <1>5
  <2>4. ~ (handler'[d].op # "idle" /\ handler'[d].id = id)
    <3>1. CASE d = c
      BY <1>3, <3>1
    <3>2. CASE d # c /\ Waits(d, id)
      <4>1. handler'[d] = handler[d]
        BY <1>1, <3>2
      <4>2. handler[d].op = "attach" /\ handler[d].id = id => d = c
        BY <1>1 DEF Reading, Asking
      <4>3. handler[d].op = "reattach" => handler[d].id # id
        BY <1>1, <3>2 DEF Reading, Asking
      <4>4. handler[d].op \in {"idle", "attach", "reattach"}
        BY <1>1, HandlerTyped
      <4>5. QED
        BY <3>2, <4>1, <4>2, <4>3, <4>4
    <3>3. QED
      BY <1>9, <3>1, <3>2
  <2>5. Awaited(id)
    BY <2>1 DEF Awaited
  <2>6. QED
    BY <1>6, <2>2, <2>3, <2>4, <2>5
<1>10. QED
  BY <1>8, <1>9

\* A reader thread is done with a retry.
LEMMA RetriedAwaits ==
    ASSUME Types, Reading, NEW c \in Conns, handler[c].op = "reattach", NEW id \in Ids, handler[c].id = id,
           handler' = [handler EXCEPT ![c] = Idle], UNCHANGED << scope, inbox, client >>, client.conn # 0
    PROVE  /\ \A j \in Ids : Awaited(j)' => Awaited(j)
           /\ client.conn = c => Awaited(id) /\ ~ Awaited(id)'
<1> DEFINE d == client.conn
<1>1. d \in Conns /\ client'.conn = d
  BY NumbersTyped
<1>2. \A e \in Conns : handler'[e] = handler[e] \/ handler'[e].op = "idle"
  BY DEF Idle, Types, HandlerOK
<1>3. handler'[c].op = "idle"
  BY DEF Idle, Types, HandlerOK
<1>4. \A j \in Ids : Awaited(j)' <=> \/ handler'[d].op # "idle" /\ handler'[d].id = j
                                     \/ Waits(d, j)
                                     \/ Unread(d, j)
  BY <1>1 DEF Awaited, InHand, Waits, Unread
<1>5. \A j \in Ids : Awaited(j) <=> \/ handler[d].op # "idle" /\ handler[d].id = j
                                    \/ Waits(d, j)
                                    \/ Unread(d, j)
  BY DEF Awaited, InHand
<1>6. \A j \in Ids : Awaited(j)' => Awaited(j)
  BY <1>1, <1>2, <1>4, <1>5
<1>7. ASSUME d = c PROVE Awaited(id) /\ ~ Awaited(id)'
  <2>1. InHand(c, id)
    BY DEF InHand
  <2>2. ~ Unread(c, id)
    BY <2>1 DEF Reading, ReadOnce
  <2>3. ~ Waits(c, id)
    BY DEF Reading, Asking
  <2>4. QED
    BY <1>3, <1>4, <1>5, <1>7, <2>2, <2>3
<1>8. QED
  BY <1>6, <1>7

LEMMA CommitFailedFlow ==
    ASSUME Types, Numbered, Reading, Flow, NEW c \in Conns, NEW refused \in SUBSET Conns, CommitFailed(c, refused)
    PROVE  Flow'
<1>1. PICK id : id = handler[c].id
  OBVIOUS
<1>2. /\ id \in Ids /\ Finished(scope, scope', id, Failed)
      /\ \A d \in Conns : active'[d] => active[d]
      /\ \/ wire' = wire
         \/ /\ Waits(client.conn, id) /\ active[client.conn]
            /\ wire' = Append(wire, Result(id, Failed))
  BY <1>1, CommitFailedTyped
<1>3. /\ handler[c].op = "attach" /\ handler' = [handler EXCEPT ![c] = Idle]
      /\ UNCHANGED << output, owner, inbox, client, attach, partial >>
  BY DEF CommitFailed
<1>4. client.conn # 0 => /\ \A j \in Ids : Awaited(j)' => Awaited(j)
                         /\ Waits(client.conn, id) => Awaited(id) /\ ~ Awaited(id)'
  BY <1>1, <1>2, <1>3, AnsweredAwaits
<1>5. client.conn = 0 => wire' = wire
  <2>1. client.conn = 0 => ~ Waits(client.conn, id)
    <3>1. scope.records[id] \in RecordType /\ 0 \notin Conns
      BY <1>2, HandlerTyped, ConstantsTyped
    <3>2. WaitingOn(scope.records[id]) \subseteq Conns
      BY <3>1 DEF WaitingOn, RecordType
    <3>3. QED
      BY <3>1, <3>2 DEF Waits
  <2>2. QED
    BY <1>2, <2>1
<1>6. client.conn # 0 /\ active'[client.conn] => active[client.conn]
  BY <1>2, NumbersTyped
<1>7. QED
  BY <1>2, <1>3, <1>4, <1>5, <1>6, RefusalFlow

LEMMA CommitSupersededFlow ==
    ASSUME Types, Numbered, Reading, Flow, NEW c \in Conns, CommitSuperseded(c)
    PROVE  Flow'
<1>1. PICK id : id = handler[c].id
  OBVIOUS
<1>2. /\ handler[c].op = "reattach" /\ id \in Ids /\ handler' = [handler EXCEPT ![c] = Idle]
      /\ \/ wire' = wire
         \/ c = client.conn /\ active[c] /\ wire' = Append(wire, Result(id, Failed))
  BY <1>1, CommitSupersededTyped
<1>3. UNCHANGED << output, owner, scope, inbox, active, client, attach, partial >>
  BY DEF CommitSuperseded, terminal
<1>4. client.conn # 0 => /\ \A j \in Ids : Awaited(j)' => Awaited(j)
                         /\ client.conn = c => Awaited(id) /\ ~ Awaited(id)'
  BY <1>1, <1>2, <1>3, RetriedAwaits
<1>5. c # 0
  BY ConstantsTyped
<1>6. QED
  BY <1>2, <1>3, <1>4, <1>5, RefusalFlow

LEMMA EndsFlow ==
    ASSUME Types, Numbered, Flow, NEW c \in Conns, WriterEnds(c) \/ ReaderEnds(c)
    PROVE  Flow'
<1>1. /\ Quit(scope, scope')
      /\ \A d \in Conns : active'[d] <=> active[d] /\ d # c
      /\ UNCHANGED << output, start, owner, leases, handler, wire, client, attach, screen, partial >>
      /\ inbox' = inbox \/ inbox' = [inbox EXCEPT ![c] = << >>]
  BY EndsTyped
<1>2. client.conn # 0 => \A j \in Ids : Awaited(j)' => Awaited(j)
  <2>1. SUFFICES ASSUME client.conn # 0, NEW j \in Ids, Awaited(j)' PROVE Awaited(j)
    OBVIOUS
  <2>2. PICK d \in Conns : d = client.conn
    BY <2>1, NumbersTyped
  <2>3. Waits(d, j)' => Waits(d, j)
    BY <1>1, QuitWaits
  <2>4. Unread(d, j)' => Unread(d, j)
    BY <1>1 DEF Unread, Types, InboxOK
  <2>5. Waits(d, j)' \/ Unread(d, j)' \/ (handler[d].op # "idle" /\ handler[d].id = j)
    BY <1>1, <2>1, <2>2 DEF Awaited, InHand, Waits, Unread
  <2>6. QED
    BY <2>2, <2>3, <2>4, <2>5 DEF Awaited, InHand
<1>3. client.conn # 0 /\ active'[client.conn] => active[client.conn]
  BY <1>1, NumbersTyped
<1>4. ASSUME NEW id \in Ids PROVE Flow'
  BY <1>1, <1>2, <1>3, <1>4, RefusalFlow
<1>5. CASE Ids = {}
  <2>1. Unanswered'
    BY <1>5 DEF Unanswered
  <2>2. Newest'
    BY <1>1, <1>3, NewestStays, SentProper, NothingJoins DEF Flow
  <2>3. Carries(wire, partial)'
    <3>1. PICK w, p : w = wire /\ p = partial
      OBVIOUS
    <3>2. Carries(w, p) /\ UNCHANGED << client, attach >>
      BY <1>1, <3>1 DEF Flow
    <3>3. Carries(w, p)'
      BY <3>2, CarriesStill
    <3>4. w = wire' /\ p = partial'
      BY <1>1, <3>1
    <3>5. QED
      BY <3>3, <3>4
  <2>4. QED
    BY <2>1, <2>2, <2>3 DEF Flow
<1>6. QED
  BY <1>4, <1>5

\* A transaction, or nothing of it, behind the notice to the owner.
Ships(notified, l, old, sent, id, lease, told, shipped) ==
    /\ UNCHANGED << output, client, attach >> /\ partial \subseteq partial'
    /\ Reaches(notified) /\ (notified => old # 0)
    /\ TakenOver(old) \in MessagesOf(l) /\ wire \in Seq(MessagesOf(l)) /\ sent \in Seq(MessagesOf(l))
    /\ wire' = ToOwner(notified, TakenOver(old)) \o sent
    /\ ~ shipped => sent = << >>
    /\ shipped => /\ Shipped(sent, id, lease, told) /\ client.conn # 0
                  /\ Awaited(id) /\ ~ Awaited(id)'
                  /\ client.lease # lease /\ ~ On(lease)
                  /\ notified /\ owner.conn = client.conn => old # lease
    /\ client.conn # 0 => \A j \in Ids : Awaited(j)' => Awaited(j)
    /\ client.conn # 0 /\ owner'.conn = client.conn /\ active'[client.conn] => shipped /\ owner'.lease = lease

LEMMA ShipFlow ==
    ASSUME Types, Numbered, Flow,
           NEW notified \in BOOLEAN, NEW l \in Nat, NEW old, NEW sent,
           NEW id \in Ids, NEW lease, NEW told \in BOOLEAN, NEW shipped \in BOOLEAN,
           Ships(notified, l, old, sent, id, lease, told, shipped)
    PROVE  Flow'
<1>1. PICK v : v = ToOwner(notified, TakenOver(old))
  OBVIOUS
<1>a. /\ Reaches(notified) /\ (notified => old # 0)
      /\ TakenOver(old) \in MessagesOf(l) /\ wire \in Seq(MessagesOf(l))
  BY DEF Ships
<1>2. PICK s : /\ Joins(wire, s, v) /\ v \in Seq(MessagesOf(l)) /\ Fits(wire, s, partial)
               /\ \A k \in 1 .. Len(s) : s[k] = TakenOver(old) /\ s[k].id = 0 /\ s[k].kind = "taken"
               /\ \A k \in 1 .. Len(v) : Proper(v[k])
               /\ \A k \in 1 .. Len(v) : v[k] = TakenOver(old) \/ \E i \in 1 .. Len(wire) : v[k] = wire[i]
  BY <1>1, <1>a, NoticeFlows
<1> USE DEF Ships
<1>3. Joins(v, sent, wire')
  <2>1. wire' = v \o sent
    BY <1>1
  <2>2. Joins(v, sent, v \o sent)
    BY <1>2, SequenceJoins
  <2>3. QED
    BY <2>1, <2>2
<1>4. Len(s) = 0 \/ (notified /\ owner.conn = client.conn)
  <2>1. CASE ~ (notified /\ owner.conn = client.conn)
    <3>1. v = wire /\ Len(wire) \in Nat
      BY <1>1, <2>1, SentProper DEF ToOwner
    <3>2. QED
      BY <1>2, <3>1 DEF Joins
  <2>2. QED
    BY <2>1
<1>5. \A k \in 1 .. Len(v) : \/ notified /\ owner.conn = client.conn /\ v[k] = TakenOver(old)
                             \/ \E i \in 1 .. Len(wire) : v[k] = wire[i]
  <2>1. CASE ~ (notified /\ owner.conn = client.conn)
    <3>1. v = wire
      BY <1>1, <2>1 DEF ToOwner
    <3>2. QED
      BY <3>1
  <2>2. QED
    BY <1>2, <2>1
<1>6. TakenOver(old).id = 0 /\ TakenOver(old).lease = old /\ 0 \notin Ids
  BY ConstantsTyped DEF TakenOver, Message
<1>7. shipped => \A k \in 1 .. Len(v) : v[k].id # id /\ v[k].lease # lease
  <2>1. SUFFICES ASSUME shipped, NEW k \in 1 .. Len(v) PROVE v[k].id # id /\ v[k].lease # lease
    OBVIOUS
  <2>2. \A i \in 1 .. Len(wire) : wire[i].id # id /\ wire[i].lease # lease
    BY <2>1 DEF Flow, Unanswered, On
  <2>3. QED
    BY <1>5, <1>6, <2>1, <2>2
<1>8. shipped => (attach.id = id => Untold)
  BY DEF Flow, Unanswered
<1>9. Fits(v, sent, partial')
  <2>1. CASE shipped
    BY <1>2, <1>7, <1>8, <2>1, ShipmentFits DEF Types
  <2>2. CASE ~ shipped
    BY <1>2, <2>2, NothingFits
  <2>3. QED
    BY <2>1, <2>2
<1>10. shipped => \A k \in 1 .. Len(sent) : sent[k].id \in {0, id}
  BY DEF Shipped, Proper
<1>11. ~ shipped => \A k \in 1 .. Len(sent) : FALSE
  OBVIOUS
<1>12. client.conn # 0 => \A j \in Ids : Awaited(j)' => /\ Awaited(j)
                                                        /\ \A k \in 1 .. Len(s) : s[k].id # j
                                                        /\ \A k \in 1 .. Len(sent) : sent[k].id # j
  <2>1. SUFFICES ASSUME client.conn # 0, NEW j \in Ids, Awaited(j)'
                 PROVE  /\ Awaited(j)
                        /\ \A k \in 1 .. Len(s) : s[k].id # j
                        /\ \A k \in 1 .. Len(sent) : sent[k].id # j
    OBVIOUS
  <2>2. Awaited(j) /\ j # 0
    BY <1>6, <2>1
  <2>3. shipped => j # id
    BY <2>1
  <2>4. \A k \in 1 .. Len(sent) : sent[k].id # j
    BY <1>10, <1>11, <2>2, <2>3
  <2>5. QED
    BY <1>2, <2>2, <2>4
<1>13. Carries(wire, partial)' /\ Unanswered'
  <2>1. /\ Carries(wire, partial) /\ Unanswered /\ UNCHANGED << client, attach >>
        /\ partial \subseteq partial'
    BY DEF Flow
  <2> HIDE DEF Ships
  <2>2. QED
    <3>1. Puts(s, v, sent)
      BY <1>2, <1>3, <1>9, <1>12, <2>1 DEF Puts
    <3>2. QED
      BY <3>1, SentFlow
<1>14. Newest'
  <2>1. CASE client.conn # 0 /\ owner'.conn = client.conn /\ active'[client.conn]
    <3>1. shipped /\ owner'.lease = lease
      BY <2>1
    <3>2. PICK m, o : m = owner'.lease /\ o = output'
      OBVIOUS
    <3>3. m = lease /\ o = output
      BY <3>1, <3>2
    <3>4. \A k \in 1 .. Len(sent) : Source(sent[k], m) => sent[k].to = o
      BY <3>1, <3>3 DEF Shipped, Source
    <3>5. client.lease # m /\ \A k \in 1 .. Len(v) : ~ Source(v[k], m)
      BY <1>7, <3>1, <3>3 DEF Source
    <3>6. UNCHANGED << client, attach >>
      OBVIOUS
    <3>7. QED
      BY <1>3, <3>2, <3>4, <3>5, <3>6, NewestReached
  <2>2. CASE ~ (client.conn # 0 /\ owner'.conn = client.conn /\ active'[client.conn])
    BY <2>2 DEF Newest
  <2>3. QED
    BY <2>1, <2>2
<1>15. QED
  BY <1>13, <1>14 DEF Flow

LEMMA CommitNewFlow ==
    ASSUME Types, Numbered, Reading, Leased, Flow, NEW c \in Conns, NEW notified \in BOOLEAN, CommitNew(c, notified)
    PROVE  Flow'
<1>1. UNCHANGED << output, start, inbox, client, attach, screen >>
  BY DEF CommitNew
<1>2. PICK selected \in Conns, sent \in Seq(MessagesOf(leases + 1)) : Commits(c, notified, selected, sent)
  BY CommitNewDoes
<1>3. PICK id, l, old : id = handler[c].id /\ l = leases + 1 /\ old = owner.lease
  OBVIOUS
<1>4. /\ handler[c].op = "attach" /\ id \in Ids /\ leases' = l /\ Reaches(notified)
      /\ owner' = [lease |-> l, conn |-> selected]
      /\ selected = c \/ Waits(selected, id)
      /\ Finished(scope, scope', id, l)
      /\ handler' = [handler EXCEPT ![c] = Idle]
      /\ wire' = ToOwner(notified, TakenOver(old)) \o sent
  BY <1>2, <1>3 DEF Commits
<1>5. \/ /\ sent = << >> /\ partial' = partial
         /\ ~ ((client.conn = c \/ Waits(client.conn, id)) /\ active'[client.conn])
      \/ ~ Waits(client.conn, id) /\ client.conn = c /\ sent = << >> /\ partial' = partial
         /\ selected # c
      \/ /\ client.conn = c \/ Waits(client.conn, id)
         /\ client.conn \in Conns /\ active'[client.conn]
         /\ Dispatched(sent, id, l, client.conn # selected)
  BY <1>2, <1>3 DEF Commits
<1>6. leases \in Nat /\ l \in Nat /\ l # 0 /\ l \in 1 .. l /\ old \in 0 .. leases /\ wire \in Seq(Messages)
  BY <1>3, LeasesTyped, NumbersTyped
<1>7. Messages \subseteq MessagesOf(l) /\ sent \in Seq(MessagesOf(l))
  BY <1>2, <1>3, <1>6 DEF Messages, MessagesOf
<1>8. wire \in Seq(MessagesOf(l))
  BY <1>6, <1>7
<1>9. 0 \in 0 .. output
  BY DEF Types, HistoryOK
<1>10. TakenOver(old) \in MessagesOf(l)
  BY <1>3, <1>6, <1>9 DEF TakenOver, Message, MessagesOf, Kinds
<1>11. notified => old # 0
  BY <1>3, <1>4 DEF Reaches, Numbered, OwnerOK
<1>12. client.conn # 0 => /\ \A j \in Ids : Awaited(j)' => Awaited(j)
                          /\ client.conn = c \/ Waits(client.conn, id) => Awaited(id) /\ ~ Awaited(id)'
  BY <1>1, <1>3, <1>4, AnsweredAwaits
<1>13. client.lease # l /\ ~ On(l) /\ old # l
  BY <1>3, <1>6, LeasesTyped
<1>14. PICK shipped \in BOOLEAN :
          shipped <=> /\ client.conn = c \/ Waits(client.conn, id)
                      /\ client.conn \in Conns
                      /\ Dispatched(sent, id, l, client.conn # selected)
  OBVIOUS
<1>15. PICK told \in BOOLEAN : told <=> client.conn # selected
  OBVIOUS
<1>16. shipped => /\ Shipped(sent, id, l, told) /\ partial \subseteq partial'
                  /\ client.conn # 0 /\ Awaited(id) /\ ~ Awaited(id)'
  <2>1. SUFFICES ASSUME shipped PROVE /\ Shipped(sent, id, l, told) /\ partial \subseteq partial'
                                      /\ client.conn # 0 /\ Awaited(id) /\ ~ Awaited(id)'
    OBVIOUS
  <2>2. Dispatched(sent, id, l, told)
    <3>1. told = (client.conn # selected)
      BY <1>15
    <3>2. QED
      BY <1>14, <2>1, <3>1
  <2>3. HistoryOK
    BY DEF Types
  <2>4. Shipped(sent, id, l, told) /\ partial \subseteq partial'
    BY <1>4, <1>6, <2>2, <2>3, DispatchShips
  <2>5. client.conn # 0
    BY <1>14, <2>1, ConstantsTyped
  <2>6. QED
    BY <1>12, <1>14, <2>1, <2>4, <2>5
<1>17. ~ shipped => sent = << >> /\ partial' = partial
  BY <1>5, <1>14
<1>18. partial \subseteq partial'
  BY <1>16, <1>17
<1>19. client.conn # 0 /\ owner'.conn = client.conn /\ active'[client.conn] => shipped /\ owner'.lease = l
  <2>1. SUFFICES ASSUME client.conn # 0, owner'.conn = client.conn, active'[client.conn] PROVE shipped /\ owner'.lease = l
    OBVIOUS
  <2>2. selected = client.conn /\ owner'.lease = l
    BY <1>4, <2>1
  <2>3. QED
    BY <1>4, <1>5, <1>14, <2>1, <2>2
<1>20. shipped => /\ client.lease # l /\ ~ On(l)
                  /\ notified /\ owner.conn = client.conn => old # l
  BY <1>13
<1>21. UNCHANGED << output, client, attach >>
  BY <1>1
<1>22. Ships(notified, l, old, sent, id, l, told, shipped)
  BY <1>4, <1>7, <1>8, <1>10, <1>11, <1>12, <1>16, <1>17, <1>18, <1>19, <1>20, <1>21 DEF Ships
<1>23. QED
  BY <1>4, <1>6, <1>22, ShipFlow

LEMMA CommitRebindFlow ==
    ASSUME Types, Numbered, Reading, Leased, Flow, NEW c \in Conns, NEW notified \in BOOLEAN, CommitRebind(c, notified)
    PROVE  Flow'
<1>1. UNCHANGED << output, leases, scope, inbox, client, attach >>
  BY DEF CommitRebind
<1>2. PICK sent \in Seq(Messages) : Rebound(c, notified, sent)
  BY CommitRebindDoes
<1>3. PICK id, l, n : id = handler[c].id /\ l = handler[c].lease /\ n = leases
  OBVIOUS
<1>4. /\ handler[c].op = "reattach" /\ id \in Ids /\ l \in 1 .. n
      /\ (notified => owner.conn # c) /\ Reaches(notified)
      /\ owner' = [lease |-> l, conn |-> c]
      /\ handler' = [handler EXCEPT ![c] = Idle]
      /\ wire' = ToOwner(notified, TakenOver(l)) \o sent
      /\ \/ c # client.conn /\ sent = << >> /\ partial' = partial
         \/ c = client.conn /\ Dispatched(sent, id, l, FALSE)
  BY <1>2, <1>3 DEF Rebound
<1>5. n \in Nat /\ l # 0 /\ wire \in Seq(Messages) /\ Messages = MessagesOf(n) /\ c # 0
  BY <1>3, <1>4, LeasesTyped, NumbersTyped, ConstantsTyped DEF Messages, MessagesOf
<1>6. wire \in Seq(MessagesOf(n)) /\ sent \in Seq(MessagesOf(n))
  BY <1>5
<1>7. 0 \in 0 .. output
  BY DEF Types, HistoryOK
<1>8. TakenOver(l) \in MessagesOf(n)
  BY <1>4, <1>5, <1>7 DEF TakenOver, Message, MessagesOf, Kinds
<1>9. client.conn # 0 => /\ \A j \in Ids : Awaited(j)' => Awaited(j)
                         /\ client.conn = c => Awaited(id) /\ ~ Awaited(id)'
  BY <1>1, <1>3, <1>4, RetriedAwaits
<1>10. c = client.conn => client.lease # l /\ ~ On(l)
  <2>1. SUFFICES ASSUME c = client.conn PROVE ~ Seen(l)
    BY DEF Seen
  <2>2. Rebinds(l) /\ l \in 1 .. leases
    BY <1>3, <1>4, <2>1 DEF Rebinds
  <2>3. QED
    BY <1>5, <2>1, <2>2 DEF Leased, Once
<1>11. PICK shipped \in BOOLEAN : shipped <=> c = client.conn
  OBVIOUS
<1>12. shipped => /\ Shipped(sent, id, l, FALSE) /\ partial \subseteq partial'
                  /\ client.conn # 0 /\ Awaited(id) /\ ~ Awaited(id)'
  <2>1. SUFFICES ASSUME shipped PROVE /\ Shipped(sent, id, l, FALSE) /\ partial \subseteq partial'
                                      /\ client.conn # 0 /\ Awaited(id) /\ ~ Awaited(id)'
    OBVIOUS
  <2>2. HistoryOK /\ Dispatched(sent, id, l, FALSE) /\ c = client.conn
    BY <1>4, <1>11, <2>1 DEF Types
  <2>3. Shipped(sent, id, l, FALSE) /\ partial \subseteq partial'
    BY <1>4, <1>5, <2>2, DispatchShips
  <2>4. QED
    BY <1>5, <1>9, <2>2, <2>3
<1>13. ~ shipped => sent = << >> /\ partial' = partial
  BY <1>4, <1>11
<1>14. partial \subseteq partial'
  BY <1>12, <1>13
<1>15. shipped => /\ client.lease # l /\ ~ On(l)
                  /\ notified /\ owner.conn = client.conn => l # l
  BY <1>4, <1>10, <1>11
<1>16. client.conn # 0 /\ owner'.conn = client.conn /\ active'[client.conn] => shipped /\ owner'.lease = l
  BY <1>4, <1>11
<1>17. /\ UNCHANGED << output, client, attach >>
       /\ notified => l # 0
       /\ client.conn # 0 => \A j \in Ids : Awaited(j)' => Awaited(j)
  BY <1>1, <1>5, <1>9
<1>18. PICK told \in BOOLEAN : told = FALSE
  OBVIOUS
<1>19. shipped => Shipped(sent, id, l, told)
  BY <1>12, <1>18
<1>20. Ships(notified, n, l, sent, id, l, told, shipped)
  BY <1>4, <1>6, <1>8, <1>12, <1>13, <1>14, <1>15, <1>16, <1>17, <1>19 DEF Ships
<1>21. QED
  BY <1>4, <1>5, <1>20, ShipFlow
-----------------------------------------------------------------------------
(***************************************************************************)
(* ... and the client takes the first of it.                               *)
(***************************************************************************)
\* Nothing was begun of a transaction whose lease is not known.
Ordered == attach.lease = 0 => attach.next = None

LEMMA ReceivesDrops ==
    ASSUME Types, Numbered, Receives
    PROVE  /\ Drops(wire, wire') /\ 1 \in 1 .. Len(wire) /\ Head(wire) = wire[1]
           /\ Proper(wire[1]) /\ wire[1].kind \in Kinds /\ wire[1].id \in Ids \cup {0}
           /\ \A k \in 1 .. Len(wire) : Proper(wire[k]) /\ wire[k].kind \in Kinds
           /\ UNCHANGED << output, owner, scope, handler, inbox, active, partial >>
<1>1. /\ wire # << >> /\ Head(wire) = wire[1]
      /\ Len(wire) \in Nat \ {0} /\ Len(wire') = Len(wire) - 1
      /\ \A k \in 1 .. Len(wire) - 1 : wire'[k] = wire[k + 1]
      /\ UNCHANGED << output, start, owner, leases, scope, handler, inbox, active, partial >>
  BY ReceivesDoes
<1>2. QED
  BY <1>1, SentProper DEF Drops

\* The message after one of another request is not within its transaction.
LEMMA CursorPasses ==
    ASSUME NEW w, NEW v, NEW p, Drops(w, v), Cursor(w, p), InTurn(w), UNCHANGED attach,
           \A k \in 1 .. Len(w) : Proper(w[k]) /\ w[k].kind \in Kinds,
           attach.id = 0 => attach.lease = 0, ~ Answers(w[1])
    PROVE  Cursor(v, p)'
<1>1. CASE attach.id = 0
  BY <1>1, CursorIdle
<1>2. CASE attach.id # 0
  <2>1. w[1].id # attach.id
    BY <1>2 DEF Answers
  <2>2. \A k \in 1 .. Len(v) : k + 1 \in 1 .. Len(w) /\ v[k] = w[k + 1]
    BY DropsShift
  <2>3. ASSUME 1 \in 1 .. Len(v), v[1].id = attach.id, v[1].lease # 0 PROVE InOrder(v[1])
    <3>1. v[1] = w[2] /\ 2 \in 1 .. Len(w) /\ 2 \in 2 .. Len(w) /\ 2 - 1 = 1
      BY <2>2, <2>3 DEF Drops
    <3>2. w[2].kind \in InTransaction => Follows(w[1], w[2])
      BY <3>1 DEF InTurn
    <3>3. w[2].kind \notin InTransaction
      BY <2>1, <2>3, <3>1, <3>2 DEF Follows
    <3>4. w[2].kind = "result"
      BY <1>2, <2>3, <3>1, <3>3 DEF Kinds, InTransaction, Proper
    <3>5. attach.lease = 0
      BY <2>3, <3>1, <3>4 DEF Cursor, Accepted
    <3>6. QED
      BY <3>1, <3>4, <3>5 DEF InOrder
  <2>4. Front(v)'
    BY <2>3 DEF Front, Answers, InOrder
  <2>5. Limited(v)' /\ Accepted(v)'
    BY <2>2 DEF Cursor, Limited, Accepted
  <2>6. Reached(v, p)'
    <3>1. SUFFICES ASSUME attach.lease # 0, attach.lease \notin p
                   PROVE  \E k \in 1 .. Len(v) : Ends(v[k], attach.id, attach.lease)
      BY DEF Reached, Ends
    <3>2. PICK k \in 1 .. Len(w) : Ends(w[k], attach.id, attach.lease)
      BY <3>1 DEF Cursor, Reached
    <3>3. k # 1
      BY <2>1, <3>2 DEF Ends
    <3>4. k - 1 \in 1 .. Len(v) /\ v[k - 1] = w[k]
      BY <3>3 DEF Drops
    <3>5. QED
      BY <3>2, <3>4
  <2>7. QED
    BY <2>4, <2>5, <2>6 DEF Cursor
<1>3. QED
  BY <1>1, <1>2

\* perform_attach hears that its attach was accepted.
LEMMA CursorAccepted ==
    ASSUME NEW w, NEW v, NEW p, Drops(w, v), Streams(w, p),
           \A k \in 1 .. Len(w) : Proper(w[k]) /\ w[k].kind \in Kinds,
           attach.id # 0, w[1].id = attach.id, w[1].kind = "result", w[1].lease # 0,
           attach.next = None, attach.watermark = None,
           attach'.id = attach.id, attach'.lease = w[1].lease, attach'.next = None, attach'.watermark = None
    PROVE  Cursor(v, p)'
<1>1. \A k \in 1 .. Len(v) : k + 1 \in 1 .. Len(w) /\ v[k] = w[k + 1]
  BY DropsShift
<1>2. \A k \in 1 .. Len(w) : k > 1 /\ w[k].kind = "result" => w[k].id # attach.id
  BY DEF Streams, ResultFirst, Drops
<1>3. \A k \in 1 .. Len(v) : v[k].kind = "result" => v[k].id # attach.id
  BY <1>1, <1>2
<1>4. ASSUME 1 \in 1 .. Len(v), v[1].id = attach.id PROVE v[1].kind = "begin" /\ v[1].lease = w[1].lease
  <2>1. v[1] = w[2] /\ 2 \in 1 .. Len(w) /\ 2 \in 2 .. Len(w) /\ 2 - 1 = 1
    BY <1>1, <1>4 DEF Drops
  <2>2. w[2].kind \in InTransaction => Follows(w[1], w[2])
    BY <2>1 DEF Streams, InTurn
  <2>3. w[2].kind \in InTransaction
    BY <1>3, <1>4, <2>1 DEF Kinds, InTransaction, Proper
  <2>4. QED
    BY <2>1, <2>2, <2>3 DEF Follows, InTransaction
<1>5. Front(v)'
  BY <1>4 DEF Front, Answers, InOrder
<1>6. Limited(v)' /\ Accepted(v)'
  BY <1>3 DEF Limited, Accepted
<1>7. Reached(v, p)'
  <2>1. SUFFICES ASSUME w[1].lease \notin p PROVE \E k \in 1 .. Len(v) : Ends(v[k], w[1].id, w[1].lease)
    BY DEF Reached, Ends
  <2>2. 1 \in 1 .. Len(w)
    BY DEF Drops
  <2>3. PICK k \in 2 .. Len(w) : Ends(w[k], w[1].id, w[1].lease)
    BY <2>1, <2>2 DEF Streams, Ended
  <2>4. k - 1 \in 1 .. Len(v) /\ v[k - 1] = w[k]
    BY DEF Drops
  <2>5. QED
    BY <2>3, <2>4
<1>8. QED
  BY <1>5, <1>6, <1>7 DEF Cursor

\* ... and one more message of its transaction, which the next one follows.
LEMMA CursorFollows ==
    ASSUME NEW w, NEW v, NEW p, Drops(w, v), Streams(w, p), Cursor(w, p),
           \A k \in 1 .. Len(w) : Proper(w[k]) /\ w[k].kind \in Kinds,
           attach.id # 0, w[1].id = attach.id, w[1].kind \in {"begin", "chunk"}, w[1].lease = attach.lease,
           attach'.id = attach.id, attach'.lease = attach.lease, attach'.next = Position(w[1]),
           attach'.watermark # None,
           \/ w[1].kind = "begin" /\ attach'.watermark = w[1].to
           \/ attach'.watermark = attach.watermark
    PROVE  Cursor(v, p)'
<1>1. \A k \in 1 .. Len(v) : k + 1 \in 1 .. Len(w) /\ v[k] = w[k + 1]
  BY DropsShift
<1>2. attach.lease # 0 /\ 1 \in 1 .. Len(w)
  BY DEF Proper, Drops
<1>3. \A k \in 1 .. Len(v) : v[k].kind = "result" => v[k].id # attach.id
  BY <1>1, <1>2 DEF Cursor, Accepted
<1>4. \A k \in 1 .. Len(v) : v[k].id = attach.id => /\ v[k].to <= attach'.watermark
                                                    /\ v[k].kind = "end" => v[k].to = attach'.watermark
  <2>1. CASE w[1].kind = "begin" /\ attach'.watermark = w[1].to
    <3>1. \A k \in 1 .. Len(w) : k > 1 /\ w[k].id = w[1].id => /\ w[k].to <= w[1].to
                                                               /\ w[k].kind = "end" => w[k].to = w[1].to
      BY <1>2, <2>1 DEF Streams, Marked
    <3>2. QED
      BY <1>1, <2>1, <3>1
  <2>2. CASE attach'.watermark = attach.watermark
    BY <1>1, <2>2 DEF Cursor, Limited
  <2>3. QED
    BY <2>1, <2>2
<1>5. ASSUME 1 \in 1 .. Len(v), v[1].id = attach.id
      PROVE  /\ v[1].kind \in {"chunk", "end"} /\ v[1].lease = attach.lease
             /\ v[1].from = Position(w[1]) /\ (v[1].kind = "end" => v[1].from = v[1].to)
  <2>1. v[1] = w[2] /\ 2 \in 1 .. Len(w) /\ 2 \in 2 .. Len(w) /\ 2 - 1 = 1
    BY <1>1, <1>5 DEF Drops
  <2>2. w[2].kind \in InTransaction => Follows(w[1], w[2])
    BY <2>1 DEF Streams, InTurn
  <2>3. w[2].kind \in InTransaction
    BY <1>3, <1>5, <2>1 DEF Kinds, InTransaction, Proper
  <2>4. QED
    BY <2>1, <2>2, <2>3 DEF Follows, InTransaction
<1>6. Front(v)'
  BY <1>4, <1>5 DEF Front, Answers, InOrder
<1>7. Limited(v)' /\ Accepted(v)'
  BY <1>3, <1>4 DEF Limited, Accepted
<1>8. Reached(v, p)'
  <2>1. SUFFICES ASSUME attach.lease \notin p PROVE \E k \in 1 .. Len(v) : Ends(v[k], attach.id, attach.lease)
    BY DEF Reached, Ends
  <2>2. PICK k \in 1 .. Len(w) : Ends(w[k], attach.id, attach.lease)
    BY <1>2, <2>1 DEF Cursor, Reached
  <2>3. k # 1
    BY <2>2 DEF Ends
  <2>4. k - 1 \in 1 .. Len(v) /\ v[k - 1] = w[k]
    BY <2>3 DEF Drops
  <2>5. QED
    BY <2>2, <2>4
<1>9. QED
  BY <1>6, <1>7, <1>8 DEF Cursor

\* One message was taken, on the same connection.
Takes(l) ==
    /\ Receives /\ client'.conn = client.conn
    /\ Heard(wire[1], l)
    /\ client'.lease \in {0, client.lease} \/ (wire[1].kind = "end" /\ client'.lease = wire[1].lease)
    /\ \A j \in Ids : attach'.id = j /\ Awaited(j) => Untold'

LEMMA TakenFlow ==
    ASSUME Types, Numbered, Flow, \A l : Takes(l), NEW v, NEW p, v = wire', p = partial, Cursor(v, p)'
    PROVE  Flow'
<1>1. /\ Receives /\ client'.conn = client.conn
      /\ client'.lease \in {0, client.lease} \/ (wire[1].kind = "end" /\ client'.lease = wire[1].lease)
      /\ \A j \in Ids : attach'.id = j /\ Awaited(j) => Untold'
  BY DEF Takes
<1>2. \A l : Heard(wire[1], l)
  BY DEF Takes
<1>3. Drops(wire, v) /\ UNCHANGED << output, owner, scope, handler, inbox, active, partial >>
  BY <1>1, ReceivesDrops
<1>4. PICK w : w = wire
  OBVIOUS
<1>5. Drops(w, v) /\ Streams(w, p) /\ Lines(w) /\ EndFirst(w) /\ \A l : Heard(w[1], l)
  BY <1>2, <1>3, <1>4 DEF Flow, Carries, Streams
<1>6. client'.lease \in {0, client.lease} \/ (w[1].kind = "end" /\ client'.lease = w[1].lease)
  BY <1>1, <1>4
<1>7. Streams(v, p)
  BY <1>5, StreamsDrop
<1>8. Lines(v)'
  BY <1>5, <1>6, LinesDrop
<1>9. v = wire' /\ p = partial'
  BY <1>3
<1>10. Carries(wire, partial)'
  <2>1. Streams(wire', partial')
    BY <1>7, <1>9
  <2>2. Cursor(wire, partial)' /\ Lines(wire)'
    BY <1>8, <1>9
  <2>3. Streams(wire, partial)'
    BY <2>1
  <2>4. QED
    BY <2>2, <2>3 DEF Carries
<1>11. Newest'
  <2>1. SUFFICES ASSUME client.conn # 0, owner.conn = client.conn, active[client.conn]
                 PROVE  Continues(wire, Len(wire) + 1, owner.lease, output)'
    BY <1>1, <1>3 DEF Newest
  <2>2. PICK n, l, o : n = Len(v) + 1 /\ l = owner.lease /\ o = output
    OBVIOUS
  <2>3. Len(v) \in Nat /\ n \in 1 .. Len(v) + 1 /\ n + 1 = Len(w) + 1
    BY <1>5, <2>2 DEF Drops
  <2>4. Continues(w, n + 1, l, o)
    BY <1>4, <2>1, <2>2, <2>3 DEF Flow, Newest
  <2>5. Continues(v, n, l, o)'
    BY <1>5, <2>3, <2>4, ContinuesDrop
  <2>6. n = Len(wire') + 1 /\ l = owner'.lease /\ o = output'
    BY <1>3, <1>9, <2>2
  <2>7. QED
    BY <1>9, <2>5, <2>6
<1>12. Unanswered'
  <2>1. SUFFICES ASSUME client.conn # 0, NEW j \in Ids, Awaited(j)'
                 PROVE  (\A k \in 1 .. Len(v) : v[k].id # j) /\ (attach'.id = j => Untold')
    BY <1>1, <1>9 DEF Unanswered, Untold
  <2>2. Awaited(j)
    BY <1>1, <1>3, <2>1 DEF Awaited, InHand, Unread, Waits
  <2>3. \A k \in 1 .. Len(w) : w[k].id # j
    BY <1>4, <2>1, <2>2 DEF Flow, Unanswered
  <2>4. \A k \in 1 .. Len(v) : k + 1 \in 1 .. Len(w) /\ v[k] = w[k + 1]
    BY <1>5, DropsShift
  <2>5. QED
    BY <1>1, <2>2, <2>3, <2>4
<1>13. QED
  BY <1>10, <1>11, <1>12 DEF Flow

LEMMA AwayUntold == attach' = Away => attach'.id = 0 /\ attach'.lease = 0 /\ attach'.next = None /\ attach'.watermark = None
  BY DEF Away

\* A request on the wire waits no longer.
LEMMA SentAnswered ==
    ASSUME Types, Numbered, Flow, Receives, NEW j \in Ids, Awaited(j)
    PROVE  wire[1].id # j
<1>1. wire # << >> /\ 1 \in 1 .. Len(wire)
  BY ReceivesDrops DEF Receives
<1>2. client.conn # 0
  BY <1>1 DEF Numbered, ConnectionOK
<1>3. QED
  BY <1>1, <1>2 DEF Flow, Unanswered

LEMMA FailureTakenFlow ==
    ASSUME Types, Numbered, Leased, Flow, AttachRefused \/ Disorder
    PROVE  Flow'
<1>1. PICK definite : Receives /\ Fails(definite)
  BY DEF AttachRefused, Disorder
<1>2. attach.id # 0 /\ attach' = Away /\ client' = AfterFailure(client, attach.origin, definite)
  BY <1>1 DEF Fails
<1>3. client \in ClientType /\ attach.origin \in {"user", "queue"}
  BY DEF Types, ClientOK, AttachOK, AttachType
<1>4. attach.origin = "user" => client.lease = 0
  BY <1>2 DEF Leased, Bound
<1>5. ~ Held'
  BY <1>2, <1>3, <1>4, FailureHolds
<1>6. client'.conn = client.conn /\ client'.lease \in {0, client.lease}
  BY <1>2, <1>3, FailureTyped
<1>7. Untold' /\ attach'.id = 0 /\ attach'.lease = 0
  BY <1>2, AwayUntold DEF Untold
<1>8. \A l : Takes(l)
  BY <1>1, <1>5, <1>6, <1>7 DEF Takes, Heard
<1>9. PICK v, p : v = wire' /\ p = partial
  OBVIOUS
<1>10. Cursor(v, p)'
  BY <1>7, CursorIdle
<1>11. QED
  BY <1>8, <1>9, <1>10, TakenFlow

LEMMA ReplayEndFlow ==
    ASSUME Types, Numbered, Flow, ReplayEnd
    PROVE  Flow'
<1>1. Receives
  BY DEF ReplayEnd
<1>2. /\ Head(wire) = wire[1] /\ wire[1].kind = "end"
      /\ client' = [client EXCEPT !.lease = wire[1].lease, !.expected = wire[1].to, !.queued = FALSE]
      /\ attach' = Away
  BY <1>1, ReceivesDrops DEF ReplayEnd
<1>3. /\ client'.conn = client.conn /\ client'.lease = wire[1].lease /\ client'.expected = wire[1].to
  BY <1>2 DEF Types, ClientOK, ClientType
<1>4. Untold' /\ attach'.id = 0 /\ attach'.lease = 0
  BY <1>2, AwayUntold DEF Untold
<1>5. \A l : Takes(l)
  BY <1>1, <1>2, <1>3, <1>4 DEF Takes, Heard, Source
<1>6. PICK v, p : v = wire' /\ p = partial
  OBVIOUS
<1>7. Cursor(v, p)'
  BY <1>4, CursorIdle
<1>8. QED
  BY <1>5, <1>6, <1>7, TakenFlow

\* A message within the attach: nothing is believed yet.
LEMMA CollectedFlow ==
    ASSUME Types, Numbered, Shown, Ordered, Flow, AttachAccepted \/ ReplayBegin \/ ReplayChunk
    PROVE  Flow'
<1>1. Receives /\ client' = client
  BY DEF AttachAccepted, ReplayBegin, ReplayChunk
<1>2. /\ Head(wire) = wire[1] /\ Drops(wire, wire') /\ UNCHANGED partial /\ Proper(wire[1])
      /\ \A k \in 1 .. Len(wire) : Proper(wire[k]) /\ wire[k].kind \in Kinds
  BY <1>1, ReceivesDrops
<1>3. attach.id # 0 /\ wire[1].id = attach.id /\ attach'.id = attach.id /\ attach \in AttachType
  BY <1>2 DEF AttachAccepted, ReplayBegin, ReplayChunk, Answers, Types, AttachOK, AttachType
<1>4. \A j \in Ids : ~ (attach'.id = j /\ Awaited(j))
  BY <1>1, <1>3, SentAnswered
<1>5. \A l : Takes(l)
  BY <1>1, <1>3, <1>4 DEF Takes, Heard, Held
<1>6. PICK w, v, p : w = wire /\ v = wire' /\ p = partial
  OBVIOUS
<1>7. /\ Drops(w, v) /\ Streams(w, p) /\ Cursor(w, p)
      /\ \A k \in 1 .. Len(w) : Proper(w[k]) /\ w[k].kind \in Kinds
      /\ w[1].id = attach.id /\ Proper(w[1]) /\ Head(wire) = w[1]
  BY <1>2, <1>3, <1>6 DEF Flow, Carries
<1>8. Cursor(v, p)'
  <2>1. CASE AttachAccepted
    <3>1. /\ w[1].kind = "result" /\ w[1].lease # 0 /\ attach.lease = 0
          /\ attach' = [attach EXCEPT !.lease = w[1].lease]
      BY <1>7, <2>1 DEF AttachAccepted, InOrder, Failed
    <3>2. attach.next = None /\ attach.watermark = None
      BY <3>1 DEF Ordered, Shown, Collected
    <3>3. attach'.lease = w[1].lease /\ attach'.next = None /\ attach'.watermark = None
      BY <1>3, <3>1, <3>2 DEF AttachType
    <3>4. QED
      BY <1>3, <1>7, <3>1, <3>2, <3>3, CursorAccepted
  <2>2. CASE ReplayBegin
    <3>1. /\ w[1].kind = "begin" /\ attach.lease = w[1].lease
          /\ attach' = [attach EXCEPT !.next = w[1].from, !.first = w[1].from, !.watermark = w[1].to]
      BY <1>7, <2>2 DEF ReplayBegin, InOrder
    <3>2. w[1].from = Position(w[1])
      BY <3>1 DEF Position
    <3>3. attach'.lease = attach.lease /\ attach'.next = Position(w[1]) /\ attach'.watermark = w[1].to
      BY <1>3, <3>1, <3>2 DEF AttachType
    <3>4. w[1].to # None
      <4>1. wire[1] \in Messages /\ 1 \in 1 .. Len(wire) /\ output \in Nat /\ None \notin Nat
        BY <1>1, ReceivesDoes, ConstantsTyped
      <4>2. QED
        BY <1>6, <4>1 DEF Messages
    <3>5. QED
      BY <1>3, <1>7, <3>1, <3>3, <3>4, CursorFollows
  <2>3. CASE ReplayChunk
    <3>1. /\ w[1].kind = "chunk" /\ attach.lease = w[1].lease /\ attach.next = w[1].from
          /\ attach' = [attach EXCEPT !.next = w[1].to]
      BY <1>7, <2>3 DEF ReplayChunk, InOrder
    <3>2. w[1].to = Position(w[1])
      BY <3>1 DEF Position
    <3>3. attach'.lease = attach.lease /\ attach'.next = Position(w[1]) /\ attach'.watermark = attach.watermark
      BY <1>3, <3>1, <3>2 DEF AttachType
    <3>4. attach.watermark # None
      <4>1. wire[1] \in Messages /\ 1 \in 1 .. Len(wire) /\ output \in Nat /\ None \notin Nat
        BY <1>1, ReceivesDoes, ConstantsTyped
      <4>2. attach.next # None
        BY <1>6, <3>1, <4>1 DEF Messages
      <4>3. QED
        BY <4>2 DEF Shown, Collected
    <3>5. QED
      BY <1>3, <1>7, <3>1, <3>3, <3>4, CursorFollows
  <2>4. QED
    BY <2>1, <2>2, <2>3
<1>9. QED
  BY <1>5, <1>6, <1>8, TakenFlow

\* A message that is none of the attach's.
LEMMA HandledFlow ==
    ASSUME Types, Numbered, Leased, Shown, Flow, ShowOutput \/ LoseLease \/ Ignore
    PROVE  Flow'
<1>1. Receives /\ attach' = attach
  BY DEF ShowOutput, LoseLease, Ignore
<1>2. /\ Head(wire) = wire[1] /\ wire # << >> /\ Drops(wire, wire') /\ UNCHANGED partial /\ Proper(wire[1])
      /\ \A k \in 1 .. Len(wire) : Proper(wire[k]) /\ wire[k].kind \in Kinds
  BY <1>1, ReceivesDrops DEF Receives
<1>3. ~ Answers(wire[1])
  <2>1. CASE Ignore
    BY <1>2, <2>1 DEF Ignore
  <2>2. CASE ShowOutput \/ LoseLease
    <3>1. wire[1].kind \in {"output", "taken"}
      BY <1>2, <2>2 DEF ShowOutput, LoseLease
    <3>2. wire[1].id = 0
      BY <1>2, <3>1 DEF Proper
    <3>3. QED
      BY <3>2 DEF Answers
  <2>3. QED
    BY <2>1, <2>2
<1>4. client \in ClientType
  BY DEF Types, ClientOK
<1>5. \A l : Heard(wire[1], l) /\ client'.conn = client.conn /\ client'.lease \in {0, client.lease}
  <2>1. CASE ShowOutput
    <3>1. Concerns(wire[1]) /\ wire[1].kind = "output"
      BY <1>2, <2>1 DEF ShowOutput
    <3>2. \/ client' = [client EXCEPT !.expected = wire[1].to]
          \/ client' = [client EXCEPT !.lease = 0, !.expected = 0]
      BY <1>2, <2>1 DEF ShowOutput
    <3>3. CASE client' = [client EXCEPT !.expected = wire[1].to]
      <4>1. client'.lease = client.lease /\ client'.conn = client.conn /\ client'.expected = wire[1].to
        BY <1>4, <3>3 DEF ClientType
      <4>2. wire[1].lease = client.lease
        BY <3>1 DEF Concerns
      <4>3. QED
        BY <3>1, <4>1, <4>2 DEF Heard, Source
    <3>4. CASE client' = [client EXCEPT !.lease = 0, !.expected = 0]
      <4>1. client'.lease = 0 /\ client'.conn = client.conn
        BY <1>4, <3>4 DEF ClientType
      <4>2. QED
        BY <4>1 DEF Heard, Held
    <3>5. QED
      BY <3>2, <3>3, <3>4
  <2>2. CASE LoseLease
    <3>1. client' = Cleared(client)
      BY <2>2 DEF LoseLease
    <3>2. client'.lease = 0 /\ client'.conn = client.conn
      BY <1>4, <3>1 DEF ClientType, Cleared
    <3>3. QED
      BY <3>2 DEF Heard, Held
  <2>3. CASE Ignore
    <3>1. client' = client /\ ~ Concerns(wire[1])
      BY <1>2, <2>3 DEF Ignore
    <3>2. Held' => Held
      BY <1>1, <3>1 DEF Held
    <3>3. ASSUME NEW l, Held, client.lease = l PROVE ~ Source(wire[1], l)
      BY <3>1, <3>3 DEF Held, Source, Concerns, Leased, Bound
    <3>4. QED
      BY <3>1, <3>2, <3>3 DEF Heard
  <2>4. QED
    BY <2>1, <2>2, <2>3
<1>6. \A j \in Ids : attach'.id = j /\ Awaited(j) => Untold'
  <2>1. client.conn # 0
    BY <1>2 DEF Numbered, ConnectionOK
  <2>2. QED
    BY <1>1, <2>1 DEF Flow, Unanswered, Untold
<1>7. \A l : Takes(l)
  BY <1>1, <1>5, <1>6 DEF Takes
<1>8. PICK w, v, p : w = wire /\ v = wire' /\ p = partial
  OBVIOUS
<1>9. /\ Drops(w, v) /\ InTurn(w) /\ Cursor(w, p) /\ ~ Answers(w[1])
      /\ \A k \in 1 .. Len(w) : Proper(w[k]) /\ w[k].kind \in Kinds
  BY <1>2, <1>3, <1>8 DEF Flow, Carries, Streams
<1>10. attach.id = 0 => attach.lease = 0
  BY DEF Numbered, EntryOK, Away
<1>11. Cursor(v, p)'
  BY <1>1, <1>9, <1>10, CursorPasses
<1>12. QED
  BY <1>7, <1>8, <1>11, TakenFlow

\* A connection that is new, or lost: nothing is on its way.
LEMMA EmptyFlow ==
    ASSUME wire' = << >>, attach'.lease = 0, Untold',
           client'.conn = 0 \/ owner'.conn # client'.conn
    PROVE  Flow'
<1>1. PICK v, p : v = << >> /\ p = partial'
  OBVIOUS
<1>2. Len(v) = 0 /\ \A k \in 1 .. Len(v) : FALSE
  BY <1>1
<1>3. PICK w, q : w = wire' /\ q = partial' /\ w = v /\ q = p
  BY <1>1
<1>4. Streams(w, q)
  BY <1>2, <1>3 DEF Streams, InTurn, Marked, ResultFirst, EndFirst, Ended
<1>5. Cursor(w, q)'
  BY <1>2, <1>3, CursorEmpty
<1>6. Lines(w)'
  BY <1>2, <1>3 DEF Lines, Linked, Settles
<1>7. Carries(wire, partial)'
  <2>1. Streams(wire', partial')
    BY <1>3, <1>4
  <2>2. Streams(wire, partial)'
    BY <2>1
  <2>3. Cursor(wire, partial)' /\ Lines(wire)'
    BY <1>3, <1>5, <1>6
  <2>4. QED
    BY <2>2, <2>3 DEF Carries
<1>8. Unanswered'
  BY <1>1, <1>2 DEF Unanswered
<1>9. Newest'
  BY DEF Newest
<1>10. QED
  BY <1>7, <1>8, <1>9 DEF Flow

\* Nothing is read, and nothing new is believed.
LEMMA StillFlow ==
    ASSUME Types, Flow, UNCHANGED << output, owner, active, wire, partial >>, client'.conn = client.conn,
           client'.lease \in {0, client.lease},
           Held' => Held /\ client'.lease = client.lease /\ client'.expected = client.expected,
           NEW w, NEW p, w = wire, p = partial, Cursor(w, p)', Unanswered'
    PROVE  Flow'
<1>1. Streams(w, p) /\ Lines(w)
  BY DEF Flow, Carries
<1>2. Lines(w)'
  BY <1>1, LinesStill
<1>3. w = wire' /\ p = partial'
  OBVIOUS
<1>4. Carries(wire, partial)'
  <2>1. Streams(wire', partial')
    BY <1>1, <1>3
  <2>2. Streams(wire, partial)'
    BY <2>1
  <2>3. Cursor(wire, partial)' /\ Lines(wire)'
    BY <1>2, <1>3
  <2>4. QED
    BY <2>2, <2>3 DEF Carries
<1>5. Newest'
  <2>1. SUFFICES ASSUME client.conn # 0, owner.conn = client.conn, active[client.conn]
                 PROVE  Continues(wire, Len(wire) + 1, owner.lease, output)'
    BY DEF Newest
  <2>2. PICK n, l, o : n = Len(w) + 1 /\ l = owner.lease /\ o = output
    OBVIOUS
  <2>3. Continues(w, n, l, o)
    BY <2>1, <2>2 DEF Flow, Newest
  <2>4. Continues(w, n, l, o)'
    BY <2>3, ContinuesStill
  <2>5. n = Len(wire') + 1 /\ l = owner'.lease /\ o = output'
    BY <1>3, <2>2
  <2>6. QED
    BY <1>3, <2>4, <2>5
<1>6. QED
  BY <1>4, <1>5 DEF Flow

LEMMA TimeoutFlow ==
    ASSUME Types, Numbered, Leased, Flow, Timeout
    PROVE  Flow'
<1>1. PICK definite : Fails(definite)
  BY DEF Timeout
<1>2. attach.id # 0 /\ attach' = Away /\ client' = AfterFailure(client, attach.origin, definite)
  BY <1>1 DEF Fails
<1>3. client \in ClientType /\ attach.origin \in {"user", "queue"}
  BY DEF Types, ClientOK, AttachOK, AttachType
<1>4. attach.origin = "user" => client.lease = 0
  BY <1>2 DEF Leased, Bound
<1>5. ~ Held'
  BY <1>2, <1>3, <1>4, FailureHolds
<1>6. client'.conn = client.conn /\ client'.lease \in {0, client.lease}
  BY <1>2, <1>3, FailureTyped
<1>7. Untold' /\ attach'.id = 0 /\ attach'.lease = 0
  BY <1>2, AwayUntold DEF Untold
<1>8. UNCHANGED << output, owner, active, wire, partial, scope, handler, inbox >>
  BY DEF Timeout, daemon
<1>9. Unanswered'
  BY <1>6, <1>7, <1>8 DEF Flow, Unanswered, Awaited, InHand, Unread, Waits
<1>10. PICK w, p : w = wire /\ p = partial
  OBVIOUS
<1>11. Cursor(w, p)'
  BY <1>7, CursorIdle
<1>12. QED
  BY <1>5, <1>6, <1>8, <1>9, <1>10, <1>11, StillFlow

LEMMA AwaitingUntold ==
    ASSUME NEW id, NEW origin, attach' = Awaiting(id, origin)
    PROVE  Untold' /\ attach'.lease = 0 /\ attach'.id = id
  BY DEF Awaiting, Away, Untold

LEMMA ConnectFlow == Types /\ Numbered /\ Connect => Flow'
<1>1. SUFFICES ASSUME Types, Numbered, Connect PROVE Flow'
  OBVIOUS
<1>2. /\ client.conn = 0 /\ Reconnects(<< >>) /\ client' = Reconnected(client)
      /\ UNCHANGED << owner, attach >>
  BY <1>1 DEF Connect, daemon
<1>3. client.opened + 1 \in Conns /\ wire' = << >> /\ client \in ClientType
  <2>0. << >> \in Seq(Ids)
    OBVIOUS
  <2>1. PICK none : none = << >> /\ none \in Seq(Ids)
    BY <2>0
  <2>2. Reconnects(none)
    BY <1>2, <2>1
  <2>3. client.opened + 1 \in Conns /\ wire' = << >>
    BY <1>1, <2>1, <2>2, ReconnectsDoes
  <2>4. QED
    BY <1>1, <2>3 DEF Types, ClientOK
<1>4. client'.conn = client.opened + 1
  BY <1>2, <1>3, ReconnectedTyped, <1>1
<1>5. owner.conn <= client.opened /\ owner.conn \in Nat /\ client.opened \in Nat
  BY <1>1, NumbersTyped DEF Numbered, OwnerOK
<1>6. attach' = Away
  BY <1>1, <1>2 DEF Numbered, ConnectionOK, EntryOK
<1>7. Untold' /\ attach'.lease = 0
  BY <1>6, AwayUntold DEF Untold
<1>8. QED
  BY <1>2, <1>3, <1>4, <1>5, <1>7, EmptyFlow

LEMMA ResumeFlow == Types /\ Numbered /\ ResumeAndResend => Flow'
<1>1. SUFFICES ASSUME Types, Numbered, ResumeAndResend PROVE Flow'
  OBVIOUS
<1>2. /\ client.opened + 1 \in Conns /\ client.opened \in Nat /\ wire' = << >>
      /\ client' = [Reconnected(client) EXCEPT !.lease = 0, !.expected = 0]
      /\ attach' = Awaiting(attach.id, attach.origin) /\ UNCHANGED owner
  BY <1>1, ResumeTyped
<1>3. client \in ClientType
  BY <1>1 DEF Types, ClientOK
<1>4. Reconnected(client) \in ClientType /\ Reconnected(client).conn = client.opened + 1
  BY <1>1, <1>2, <1>3, ReconnectedTyped
<1>5. client'.conn = client.opened + 1
  BY <1>2, <1>4 DEF ClientType
<1>6. owner.conn <= client.opened /\ owner.conn \in Nat
  BY <1>1, NumbersTyped DEF Numbered, OwnerOK
<1>7. Untold' /\ attach'.lease = 0
  BY <1>2, AwaitingUntold
<1>8. QED
  BY <1>2, <1>5, <1>6, <1>7, EmptyFlow

LEMMA LosesFlow == Types /\ Numbered /\ (GiveUp \/ Disconnect) => Flow'
<1>1. SUFFICES ASSUME Types, Numbered, GiveUp \/ Disconnect PROVE Flow'
  OBVIOUS
<1>2. wire' = << >> /\ client'.conn = 0
  BY <1>1, LosesTyped
<1>3. attach' = Away
  BY <1>1 DEF GiveUp, Disconnect, Numbered, EntryOK
<1>4. Untold' /\ attach'.lease = 0
  BY <1>3, AwayUntold DEF Untold
<1>5. QED
  BY <1>2, <1>4, EmptyFlow

LEMMA StartAttachFlow ==
    ASSUME Types, Numbered, Leased, Flow, NEW origin \in {"user", "queue"}, StartAttach(origin)
    PROVE  Flow'
<1>1. PICK id : id = client.last + 1
  OBVIOUS
<1>2. /\ id \in Ids /\ client.conn # 0 /\ client.conn \in Conns /\ attach.id = 0
      /\ UNCHANGED << output, start, owner, leases, scope, handler, partial >>
      /\ StartedEntry \in ClientType
      /\ Writes(id, origin) \/ Reopens(id, origin) \/ Abandons(origin)
  BY <1>1, StartAttachDoes
<1>3. client \in ClientType /\ client.last \in Nat /\ client.opened \in Nat /\ id > client.last
  BY <1>1, NumbersTyped DEF Types, ClientOK
<1>4. StartedEntry.conn = client.conn /\ StartedEntry.opened = client.opened /\ StartedEntry.lease = client.lease
  BY <1>3 DEF StartedEntry, ClientType
<1>5. CASE Writes(id, origin)
  <2>1. /\ inbox' = [inbox EXCEPT ![client.conn] = Append(@, id)]
        /\ client' = StartedEntry /\ attach' = Awaiting(id, origin)
        /\ UNCHANGED << active, wire >>
    BY <1>5 DEF Writes
  <2>2. Untold' /\ attach'.lease = 0 /\ attach'.id = id
    BY <2>1, AwaitingUntold
  <2>3. client'.conn = client.conn /\ client'.lease = client.lease
    BY <1>4, <2>1
  <2>4. id # 0
    BY <1>2, ConstantsTyped
  <2>5. ~ Held'
    BY <2>2, <2>4 DEF Held
  <2>6. \A k \in 1 .. Len(wire) : wire[k].id # id
    <3>1. TAKE k \in 1 .. Len(wire)
    <3>2. wire[k].id <= client.last /\ wire[k].id \in Nat /\ id \in Nat
      BY <1>2, NumbersTyped, IdsTyped DEF Numbered, WireSent
    <3>3. QED
      BY <1>3, <3>2
  <2>7. PICK w, p : w = wire /\ p = partial
    OBVIOUS
  <2>8. Cursor(w, p)'
    <3>1. Front(w)'
      BY <2>2, <2>6, <2>7 DEF Front, Answers
    <3>2. Limited(w)' /\ Accepted(w)' /\ Reached(w, p)'
      BY <2>2 DEF Limited, Accepted, Reached, Untold
    <3>3. QED
      BY <3>1, <3>2 DEF Cursor
  <2>9. \A j \in Ids : Awaited(j)' => Awaited(j) \/ j = id
    <3>1. inbox[client.conn] \in Seq(Ids) /\ inbox'[client.conn] = Append(inbox[client.conn], id)
      BY <1>2, <2>1, HandlerTyped DEF Types, InboxOK
    <3>2. /\ Len(inbox'[client.conn]) = Len(inbox[client.conn]) + 1 /\ Len(inbox[client.conn]) \in Nat
          /\ inbox'[client.conn][Len(inbox[client.conn]) + 1] = id
          /\ \A k \in 1 .. Len(inbox[client.conn]) : inbox'[client.conn][k] = inbox[client.conn][k]
      BY <1>2, <3>1, Appended
    <3>3. \A k \in 1 .. Len(inbox'[client.conn]) :
             k \in 1 .. Len(inbox[client.conn]) \/ inbox'[client.conn][k] = id
      BY <3>2
    <3>4. QED
      BY <1>2, <2>3, <3>2, <3>3 DEF Awaited, InHand, Unread, Waits
  <2>10. Unanswered'
    <3>1. SUFFICES ASSUME NEW j \in Ids, Awaited(j)'
                   PROVE  (\A k \in 1 .. Len(wire) : wire[k].id # j) /\ (attach'.id = j => Untold')
      BY <2>1 DEF Unanswered, Untold
    <3>2. Awaited(j) \/ j = id
      BY <2>9, <3>1
    <3>3. QED
      BY <1>2, <2>2, <2>6, <3>2 DEF Flow, Unanswered
  <2>11. QED
    BY <1>2, <2>1, <2>3, <2>5, <2>7, <2>8, <2>10, StillFlow
<1>6. CASE Reopens(id, origin)
  <2>1. Reconnects(<< id >>) /\ client' = Reconnected(StartedEntry) /\ attach' = Awaiting(id, origin)
    BY <1>6 DEF Reopens
  <2>2. << id >> \in Seq(Ids)
    BY <1>2
  <2>3. client.opened + 1 \in Conns /\ wire' = << >>
    BY <2>1, <2>2, ReconnectsDoes
  <2>4. client'.conn = client.opened + 1
    BY <1>2, <1>4, <2>1, <2>3, ReconnectedTyped
  <2>5. owner'.conn <= client.opened /\ owner'.conn \in Nat
    BY <1>2, NumbersTyped DEF Numbered, OwnerOK
  <2>6. Untold' /\ attach'.lease = 0
    BY <2>1, AwaitingUntold
  <2>7. QED
    BY <1>3, <2>3, <2>4, <2>5, <2>6, EmptyFlow
<1>7. CASE Abandons(origin)
  <2>1. PICK definite : /\ client' = AfterFailure([StartedEntry EXCEPT !.conn = 0], origin, definite)
                        /\ wire' = << >> /\ attach' = attach
    BY <1>7 DEF Abandons
  <2>2. PICK entry, started : started = StartedEntry /\ entry = [started EXCEPT !.conn = 0]
    OBVIOUS
  <2>3. client'.conn = 0
    <3>1. started \in ClientType
      BY <1>2, <2>2
    <3>2. entry \in ClientType /\ entry.conn = 0
      BY <2>2, <3>1, AttachReplayAssumption DEF ClientType
    <3>3. client' = AfterFailure(entry, origin, definite)
      BY <2>1, <2>2
    <3>4. AfterFailure(entry, origin, definite).conn = entry.conn
      BY <3>2, FailureTyped
    <3>5. QED
      BY <3>2, <3>3, <3>4
  <2>4. attach' = Away
    BY <1>2, <2>1 DEF Numbered, EntryOK
  <2>5. Untold' /\ attach'.lease = 0
    BY <2>4, AwayUntold DEF Untold
  <2>6. QED
    BY <2>1, <2>3, <2>5, EmptyFlow
<1>8. QED
  BY <1>2, <1>5, <1>6, <1>7

LEMMA NextOrdered ==
    ASSUME Types, Numbered, Ordered, [Next]_vars
    PROVE  Ordered'
<1>1. CASE UNCHANGED attach
  BY <1>1 DEF Ordered
<1>2. CASE attach' = Away \/ \E id, origin : attach' = Awaiting(id, origin)
  BY <1>2, AwayUntold, AwaitingUntold DEF Ordered, Untold
<1>3. attach \in AttachType
  BY DEF Types, AttachOK
<1>4. CASE AttachAccepted
  <2>1. attach' = [attach EXCEPT !.lease = Head(wire).lease] /\ Head(wire).lease # 0
    BY <1>4 DEF AttachAccepted, Failed
  <2>2. attach'.lease # 0
    BY <1>3, <2>1 DEF AttachType
  <2>3. QED
    BY <2>2 DEF Ordered
<1>5. CASE ReplayBegin \/ ReplayChunk
  <2>1. Receives /\ Head(wire).kind \in {"begin", "chunk"} /\ attach.lease = Head(wire).lease
    BY <1>5 DEF ReplayBegin, ReplayChunk, InOrder
  <2>2. Head(wire).lease # 0
    BY <2>1, ReceivesDrops DEF Proper
  <2>3. attach'.lease = attach.lease
    BY <1>3, <1>5 DEF ReplayBegin, ReplayChunk, AttachType
  <2>4. QED
    BY <2>1, <2>2, <2>3 DEF Ordered
<1>6. CASE Daemon \/ UNCHANGED vars
  BY <1>1, <1>6, DaemonAside
<1>7. CASE Client
  <2>1. CASE Connect \/ Disconnect \/ ShowOutput \/ LoseLease \/ Ignore
    BY <1>1, <2>1 DEF Connect, Disconnect, ShowOutput, LoseLease, Ignore
  <2>2. CASE GiveUp \/ Timeout \/ AttachRefused \/ Disorder \/ ReplayEnd
    BY <1>2, <2>2 DEF GiveUp, Timeout, AttachRefused, Disorder, ReplayEnd, Fails
  <2>3. CASE ResumeAndResend
    BY <1>2, <2>3, ResumeTyped
  <2>4. CASE \E origin \in {"user", "queue"} : StartAttach(origin)
    <3>1. PICK origin \in {"user", "queue"} : StartAttach(origin)
      BY <2>4
    <3>2. Writes(client.last + 1, origin) \/ Reopens(client.last + 1, origin) \/ Abandons(origin)
      BY <3>1, StartAttachDoes
    <3>3. QED
      BY <1>1, <1>2, <3>2 DEF Writes, Reopens, Abandons
  <2>5. QED
    BY <1>4, <1>5, <1>7, <2>1, <2>2, <2>3, <2>4 DEF Client
<1>8. QED
  BY <1>6, <1>7 DEF Next
-----------------------------------------------------------------------------
(***************************************************************************)
(* What the client reads is in order, and all there is.                    *)
(***************************************************************************)
ReadSafe == ScreenSafe /\ Ordered /\ Flow

LEMMA InitReadSafe == Init => ReadSafe
<1>1. SUFFICES ASSUME Init PROVE ReadSafe
  OBVIOUS
<1>2. ScreenSafe
  BY <1>1, InitScreenSafe
<1>3. Ordered
  BY <1>1 DEF Init, Away, Ordered
<1>4. /\ wire = << >> /\ client.conn = 0 /\ attach.id = 0 /\ attach.lease = 0
      /\ attach.watermark = None
  BY <1>1 DEF Init, Away
<1>5. PICK w, p : w = wire /\ p = partial
  OBVIOUS
<1>6. Len(w) = 0 /\ \A k \in 1 .. Len(w) : FALSE
  BY <1>4, <1>5
<1>7. Streams(w, p)
  BY <1>6 DEF Streams, InTurn, Marked, ResultFirst, EndFirst, Ended
<1>8. Cursor(w, p)
  BY <1>4, <1>6 DEF Cursor, Front, Limited, Accepted, Reached
<1>9. Lines(w)
  BY <1>6 DEF Lines, Linked, Settles
<1>10. Unanswered /\ Newest
  BY <1>4 DEF Unanswered, Newest
<1>11. QED
  BY <1>2, <1>3, <1>5, <1>7, <1>8, <1>9, <1>10 DEF ReadSafe, Flow, Carries

LEMMA SameFlow ==
    ASSUME Types, Flow, UNCHANGED vars
    PROVE  Flow'
<1>1. UNCHANGED << output, owner, active, wire, partial, scope, handler, inbox, client, attach >>
  BY DEF vars
<1>2. PICK w, p : w = wire /\ p = partial
  OBVIOUS
<1>3. Carries(w, p)'
  BY <1>1, <1>2, CarriesStill DEF Flow
<1>4. Unanswered'
  BY <1>1 DEF Flow, Unanswered, Awaited, InHand, Unread, Waits, Untold
<1>5. Cursor(w, p)'
  BY <1>3 DEF Carries
<1>6. QED
  BY <1>1, <1>2, <1>4, <1>5, StillFlow DEF Held

LEMMA NextFlow == ScreenSafe /\ Ordered /\ Flow /\ [Next]_vars => Flow'
<1>1. SUFFICES ASSUME ScreenSafe, Ordered, Flow, [Next]_vars PROVE Flow'
  OBVIOUS
<1>2. Types /\ Numbered /\ Reading /\ Leased /\ Shown /\ Ordered /\ Flow
  BY <1>1 DEF ScreenSafe
<1>3. CASE Daemon
  <2>1. ASSUME NEW delivered \in BOOLEAN,
               (\E n \in 1 .. MaxRead : Publish(n, delivered)) \/ Takeover(delivered)
        PROVE  Flow'
    BY <1>2, <2>1, PublishFlow, TakeoverFlow
  <2>2. ASSUME NEW delivered \in BOOLEAN, NEW c \in Conns, CommitNew(c, delivered) \/ CommitRebind(c, delivered)
        PROVE  Flow'
    BY <1>2, <2>2, CommitNewFlow, CommitRebindFlow
  <2>3. ASSUME NEW c \in Conns, BeginAttach(c) \/ CommitSuperseded(c) \/ WriterEnds(c) \/ ReaderEnds(c)
        PROVE  Flow'
    BY <1>2, <2>3, BeginAttachFlow, CommitSupersededFlow, EndsFlow
  <2>4. ASSUME NEW c \in Conns, NEW refused \in SUBSET Conns, CommitFailed(c, refused)
        PROVE  Flow'
    BY <1>2, <2>4, CommitFailedFlow
  <2>5. QED
    BY <1>3, <2>1, <2>2, <2>3, <2>4 DEF Daemon
<1>4. CASE Client
  <2>1. CASE Connect \/ ResumeAndResend \/ GiveUp \/ Disconnect \/ Timeout
    BY <1>2, <2>1, ConnectFlow, ResumeFlow, LosesFlow, TimeoutFlow
  <2>2. CASE \E origin \in {"user", "queue"} : StartAttach(origin)
    BY <1>2, <2>2, StartAttachFlow
  <2>3. CASE AttachRefused \/ Disorder \/ ReplayEnd
    BY <1>2, <2>3, FailureTakenFlow, ReplayEndFlow
  <2>4. CASE AttachAccepted \/ ReplayBegin \/ ReplayChunk
    BY <1>2, <2>4, CollectedFlow
  <2>5. CASE ShowOutput \/ LoseLease \/ Ignore
    BY <1>2, <2>5, HandledFlow
  <2>6. QED
    BY <1>4, <2>1, <2>2, <2>3, <2>4, <2>5 DEF Client
<1>5. CASE UNCHANGED vars
  BY <1>2, <1>5, SameFlow
<1>6. QED
  BY <1>1, <1>3, <1>4, <1>5 DEF Next

LEMMA NextReadSafe == ReadSafe /\ [Next]_vars => ReadSafe'
<1>1. SUFFICES ASSUME ReadSafe, [Next]_vars PROVE ReadSafe'
  OBVIOUS
<1>2. ScreenSafe /\ Ordered /\ Flow /\ Types /\ Numbered
  BY <1>1 DEF ReadSafe, ScreenSafe
<1>3. ScreenSafe'
  BY <1>1, <1>2, NextScreenSafe
<1>4. Ordered'
  BY <1>1, <1>2, NextOrdered
<1>5. Flow'
  BY <1>1, <1>2, NextFlow
<1>6. QED
  BY <1>3, <1>4, <1>5 DEF ReadSafe

\* Live output the client is about to show continues what it has shown: what
\* precedes it of its lease was shown, and nothing of it was put in between.
LEMMA NoGapRead == ReadSafe => NoGap
<1>1. SUFFICES ASSUME ReadSafe, wire # << >>, client.bound, client.lease # 0, Live(Head(wire))
               PROVE  Head(wire).from = client.expected
  BY DEF NoGap
<1>2. Types /\ Numbered /\ Leased /\ Lines(wire)
  BY <1>1 DEF ReadSafe, ScreenSafe, Flow, Carries
<1>3. wire \in Seq(Messages)
  BY <1>2, NumbersTyped
<1>4. Head(wire) = wire[1] /\ 1 \in 1 .. Len(wire)
  BY <1>1, <1>3, Taken
<1>5. wire[1].kind = "output" /\ wire[1].lease = client.lease
  BY <1>1, <1>4 DEF Live
<1>6. Held
  BY <1>1, <1>2, <1>5, HoldsWhatItHears DEF Concerns
<1>7. Continues(wire, 1, client.lease, wire[1].from)
  BY <1>2, <1>4, <1>5 DEF Lines, Linked
<1>8. \A i \in 1 .. 1 - 1 : FALSE
  OBVIOUS
<1>9. client.expected = wire[1].from
  BY <1>6, <1>7, <1>8 DEF Continues
<1>10. QED
  BY <1>4, <1>9

\* What perform_attach reads of its request is in order; it meets live output
\* of the lease before the end of the replay only if the end was not sent.
LEMMA NoDisorderRead == ReadSafe => NoDisorder
<1>1. SUFFICES ASSUME ReadSafe, wire # << >>, OutOfOrder(Head(wire))
               PROVE  Head(wire).kind = "output" /\ Head(wire).lease \in partial
  BY DEF NoDisorder
<1>2. Types /\ Numbered /\ Streams(wire, partial) /\ Cursor(wire, partial)
  BY <1>1 DEF ReadSafe, ScreenSafe, Flow, Carries
<1>3. wire \in Seq(Messages) /\ \A k \in 1 .. Len(wire) : Proper(wire[k])
  BY <1>2, SentProper
<1>4. Head(wire) = wire[1] /\ 1 \in 1 .. Len(wire) /\ Len(wire) \in Nat
  BY <1>1, <1>3, Taken
<1>5. ~ (Answers(wire[1]) /\ ~ InOrder(wire[1]) /\ (wire[1].kind = "result" => wire[1].lease # Failed))
  <2>1. SUFFICES ASSUME Answers(wire[1]), wire[1].kind = "result" => wire[1].lease # Failed PROVE InOrder(wire[1])
    OBVIOUS
  <2>2. wire[1].lease # 0
    BY <1>3, <1>4, <2>1 DEF Proper, Failed
  <2>3. QED
    BY <1>2, <1>4, <2>1, <2>2 DEF Cursor, Front
<1>6. attach.id # 0 /\ wire[1].kind = "output" /\ attach.lease = wire[1].lease
  BY <1>1, <1>4, <1>5 DEF OutOfOrder
<1>7. attach.lease # 0
  BY <1>3, <1>4, <1>6 DEF Proper
<1>8. ASSUME attach.lease \notin partial PROVE FALSE
  <2>1. PICK k \in 1 .. Len(wire) : Ends(wire[k], attach.id, attach.lease)
    BY <1>2, <1>7, <1>8 DEF Cursor, Reached
  <2>2. k # 1 /\ 1 < k /\ wire[k].kind = "end" /\ wire[k].lease = attach.lease
    BY <1>4, <1>6, <2>1 DEF Ends
  <2>3. ~ Source(wire[1], attach.lease)
    BY <1>2, <1>4, <2>2 DEF Streams, EndFirst
  <2>4. QED
    BY <1>6, <2>3 DEF Source
<1>9. QED
  BY <1>4, <1>6, <1>8

\* A client that owns the pane and has read all there is expects the next byte
\* of the output, which is where its screen ends.
LEMMA CaughtUpRead == ReadSafe => CaughtUp
<1>1. SUFFICES ASSUME ReadSafe, Settled, client.lease # 0, wire = << >>,
                      owner = [lease |-> client.lease, conn |-> client.conn]
               PROVE  client.expected = output /\ screen.from + Len(screen.bytes) = output
  BY DEF CaughtUp
<1>2. Types /\ OnScreen /\ Newest
  BY <1>1 DEF ReadSafe, ScreenSafe, Flow, Shown
<1>3. Held /\ client.conn # 0 /\ active[client.conn] /\ owner.conn = client.conn /\ owner.lease = client.lease
  BY <1>1 DEF Settled, Held
<1>4. Continues(wire, Len(wire) + 1, client.lease, output)
  BY <1>2, <1>3 DEF Newest
<1>5. Len(wire) + 1 - 1 = 0 /\ \A i \in 1 .. 0 : FALSE
  BY <1>1
<1>6. client.expected = output
  BY <1>3, <1>4, <1>5 DEF Continues
<1>7. /\ screen.from \in Nat /\ screen.from <= client.expected /\ client.expected \in Nat
      /\ screen.bytes = Run(screen.from, client.expected)
  BY <1>2, <1>3, <1>6 DEF OnScreen, Types, HistoryOK
<1>8. Counts(screen.bytes, screen.from, client.expected)
  BY <1>7, RunTyped
<1>9. Len(screen.bytes) = client.expected - screen.from
  BY <1>8 DEF Counts
<1>10. QED
  BY <1>6, <1>7, <1>9

\* What is on the wire continues, lease by lease, what the client has read
\* (publish_pty_output and deliver_attach_transaction queue in the order of the
\* bytes they number).
THEOREM ReadSafety == Spec => []ReadSafe
<1>1. QED
  BY InitReadSafe, NextReadSafe, PTL DEF Spec

\* docs/DAEMON.md, "Attach replay ordering": live output of the lease a client
\* holds starts at the byte it expects, and its replay is in order.
\* handle_server_message never has a gap to report; perform_attach meets a
\* protocol_order_error only where the daemon noted a transaction it could not
\* queue.
THEOREM ReadsInOrder == Spec => []Contiguous
<1>1. ReadSafe => Contiguous
  BY NoGapRead, NoDisorderRead DEF Contiguous
<1>2. QED
  BY <1>1, ReadSafety, PTL

\* A client that owns the pane and has handled what was sent has seen all of
\* the output: publish drops a connection before it leaves a byte out.
THEOREM ReadsAllOfIt == Spec => []CaughtUp
<1>1. QED
  BY CaughtUpRead, ReadSafety, PTL
-----------------------------------------------------------------------------
(***************************************************************************)
(* A client that holds a lease, or is about to, owns the pane or is told   *)
(* that it does not: the daemon notifies an owner or drops it.             *)
(***************************************************************************)
IsEnd(m, l) == m.kind = "end" /\ m.lease = l
EndOn(w, l) == \E k \in 1 .. Len(w) : IsEnd(w[k], l)
\* The notice is behind the end of the transaction.
Told(w, l) == \E k \in 1 .. Len(w) : /\ w[k] = TakenOver(l)
                                     /\ \A j \in 1 .. Len(w) : IsEnd(w[j], l) => j < k
Standing ==
    client.conn # 0 /\ active[client.conn] =>
       \A l \in 1 .. leases :
          l \notin partial /\ ((Held /\ client.lease = l) \/ EndOn(wire, l)) => Mine(l) \/ Told(wire, l)

LEMMA ToldJoin ==
    ASSUME NEW w, NEW s, NEW v, Joins(w, s, v), NEW l, Told(w, l), ~ EndOn(s, l)
    PROVE  Told(v, l)
<1>1. PICK k \in 1 .. Len(w) : w[k] = TakenOver(l) /\ \A j \in 1 .. Len(w) : IsEnd(w[j], l) => j < k
  BY DEF Told
<1>2. k \in 1 .. Len(v) /\ v[k] = TakenOver(l)
  BY <1>1 DEF Joins
<1>3. ASSUME NEW j \in 1 .. Len(v), IsEnd(v[j], l) PROVE j < k
  <2>1. \/ j \in 1 .. Len(w) /\ v[j] = w[j]
        \/ j - Len(w) \in 1 .. Len(s) /\ v[j] = s[j - Len(w)]
    BY JoinsSplit
  <2>2. QED
    BY <1>1, <1>3, <2>1 DEF EndOn
<1>4. QED
  BY <1>2, <1>3 DEF Told

LEMMA ToldBehind ==
    ASSUME NEW w, NEW s, NEW v, Joins(w, s, v), NEW l, Told(s, l)
    PROVE  Told(v, l)
<1>1. PICK k \in 1 .. Len(s) : s[k] = TakenOver(l) /\ \A j \in 1 .. Len(s) : IsEnd(s[j], l) => j < k
  BY DEF Told
<1>2. Len(w) \in Nat /\ Len(s) \in Nat
  BY DEF Joins
<1>3. Len(w) + k \in 1 .. Len(v) /\ v[Len(w) + k] = TakenOver(l)
  BY <1>1, <1>2 DEF Joins
<1>4. ASSUME NEW j \in 1 .. Len(v), IsEnd(v[j], l) PROVE j < Len(w) + k
  <2>1. \/ j \in 1 .. Len(w)
        \/ j - Len(w) \in 1 .. Len(s) /\ v[j] = s[j - Len(w)]
    BY JoinsSplit
  <2>2. CASE j \in 1 .. Len(w)
    BY <1>2, <2>2
  <2>3. CASE j - Len(w) \in 1 .. Len(s) /\ v[j] = s[j - Len(w)]
    <3>1. j - Len(w) < k
      BY <1>1, <1>4, <2>3
    <3>2. QED
      BY <1>2, <3>1
  <2>4. QED
    BY <2>1, <2>2, <2>3
<1>5. QED
  BY <1>3, <1>4 DEF Told

LEMMA EndJoin ==
    ASSUME NEW w, NEW s, NEW v, Joins(w, s, v), NEW l, EndOn(v, l)
    PROVE  EndOn(w, l) \/ EndOn(s, l)
<1>1. PICK k \in 1 .. Len(v) : IsEnd(v[k], l)
  BY DEF EndOn
<1>2. \/ k \in 1 .. Len(w) /\ v[k] = w[k]
      \/ k - Len(w) \in 1 .. Len(s) /\ v[k] = s[k - Len(w)]
  BY JoinsSplit
<1>3. QED
  BY <1>1, <1>2 DEF EndOn

LEMMA ToldDrop ==
    ASSUME NEW w, NEW v, Drops(w, v), NEW l
    PROVE  /\ EndOn(v, l) => EndOn(w, l)
           /\ Told(w, l) /\ (w[1] # TakenOver(l) \/ EndOn(v, l)) => Told(v, l)
<1>1. \A k \in 1 .. Len(v) : k + 1 \in 1 .. Len(w) /\ v[k] = w[k + 1]
  BY DropsShift
<1>2. EndOn(v, l) => EndOn(w, l)
  BY <1>1 DEF EndOn
<1>3. ASSUME Told(w, l), w[1] # TakenOver(l) \/ EndOn(v, l) PROVE Told(v, l)
  <2>1. PICK k \in 1 .. Len(w) : w[k] = TakenOver(l) /\ \A j \in 1 .. Len(w) : IsEnd(w[j], l) => j < k
    BY <1>3 DEF Told
  <2>2. k # 1
    <3>1. CASE EndOn(v, l)
      <4>1. PICK j \in 1 .. Len(v) : IsEnd(v[j], l)
        BY <3>1 DEF EndOn
      <4>2. j + 1 < k
        BY <1>1, <2>1, <4>1
      <4>3. QED
        BY <4>2
    <3>2. QED
      BY <1>3, <2>1, <3>1
  <2>3. k - 1 \in 1 .. Len(v) /\ v[k - 1] = w[k]
    BY <2>2 DEF Drops
  <2>4. \A j \in 1 .. Len(v) : IsEnd(v[j], l) => j < k - 1
    BY <1>1, <2>1
  <2>5. QED
    BY <2>1, <2>3, <2>4 DEF Told
<1>4. QED
  BY <1>2, <1>3

\* What a step of the daemon puts behind the wire, s and then t: where it ends a
\* transaction the client owns the pane, or the notice is there too; and an owner
\* that is not the owner any more finds the notice in s.
Notifies(s, v, t) ==
    /\ UNCHANGED << client, attach >> /\ partial \subseteq partial'
    /\ Joins(wire, s, v) /\ Joins(v, t, wire')
    /\ \A l : ~ EndOn(s, l)
    /\ client.conn # 0 /\ active'[client.conn] =>
          /\ active[client.conn]
          /\ \A l \in 1 .. leases' : l \notin partial' /\ EndOn(t, l) => Mine(l)' \/ Told(t, l)
          /\ \A l \in 1 .. leases : Mine(l) => Mine(l)' \/ Told(s, l)

LEMMA DaemonStanding ==
    ASSUME Types, Standing, leases <= leases', leases' \in Nat, NEW s, NEW v, NEW t, Notifies(s, v, t)
    PROVE  Standing'
<1> USE DEF Notifies
<1>1. SUFFICES ASSUME client.conn # 0, active'[client.conn], NEW l \in 1 .. leases', l \notin partial',
                      (Held /\ client.lease = l) \/ EndOn(wire', l)
               PROVE  Mine(l)' \/ Told(wire', l)
  BY DEF Standing, Held, Told, EndOn
<1>2. PICK u : u = wire'
  OBVIOUS
<1>3. /\ Joins(wire, s, v) /\ Joins(v, t, u) /\ ~ EndOn(s, l) /\ partial \subseteq partial'
      /\ EndOn(t, l) => Mine(l)' \/ Told(t, l)
      /\ active[client.conn]
      /\ \A i \in 1 .. leases : Mine(i) => Mine(i)' \/ Told(s, i)
  BY <1>1, <1>2
<1>4. CASE EndOn(t, l)
  <2>1. Told(t, l) => Told(u, l)
    BY <1>3, ToldBehind
  <2>2. QED
    BY <1>2, <1>3, <1>4, <2>1
<1>5. CASE ~ EndOn(t, l)
  <2> HIDE DEF Notifies
  <2>1. EndOn(u, l) => EndOn(v, l)
    BY <1>3, <1>5, EndJoin
  <2>2. EndOn(v, l) => EndOn(wire, l)
    BY <1>3, EndJoin
  <2>3. (Held /\ client.lease = l) \/ EndOn(wire, l)
    BY <1>1, <1>2, <2>1, <2>2
  <2>4. l \in 1 .. leases
    <3>1. EndOn(wire, l) => On(l)
      BY DEF EndOn, On, IsEnd
    <3>2. l \in 0 .. leases
      BY <2>3, <3>1, LeasesTyped
    <3>3. QED
      BY <1>1, <3>2, LeasesTyped
  <2>5. l \notin partial
    BY <1>1, <1>3
  <2>6. Mine(l) \/ Told(wire, l)
    BY <1>1, <1>3, <2>3, <2>4, <2>5 DEF Standing
  <2>7. Told(wire, l) => Told(v, l)
    BY <1>3, ToldJoin
  <2>8. Told(s, l) => Told(v, l)
    BY <1>3, ToldBehind
  <2>9. Told(v, l) => Told(u, l)
    BY <1>3, <1>5, ToldJoin
  <2>10. Mine(l) => Mine(l)' \/ Told(s, l)
    BY <1>3, <2>4
  <2>11. QED
    BY <1>2, <2>6, <2>7, <2>8, <2>9, <2>10
<1>6. QED
  BY <1>4, <1>5

LEMMA NothingEnds == \A l : ~ EndOn(<< >>, l) /\ ~ Told(<< >>, l)
<1>1. \A k \in 1 .. Len(<< >>) : FALSE
  OBVIOUS
<1>2. QED
  BY <1>1 DEF EndOn, Told

LEMMA OneEnds == ASSUME NEW m, m.kind # "end" PROVE \A l : ~ EndOn(<< m >>, l)
<1>1. \A k \in 1 .. Len(<< m >>) : << m >>[k] = m
  OBVIOUS
<1>2. QED
  BY <1>1 DEF EndOn, IsEnd

LEMMA OneTold == ASSUME NEW l PROVE Told(<< TakenOver(l) >>, l)
<1>1. TakenOver(l).kind = "taken"
  BY DEF TakenOver, Message
<1>2. Len(<< TakenOver(l) >>) = 1 /\ << TakenOver(l) >>[1] = TakenOver(l)
  OBVIOUS
<1>3. QED
  BY <1>1, <1>2 DEF Told, IsEnd

\* The owner's message is on the wire of this client, or it is not.
LEMMA ToOwnerJoins ==
    ASSUME NEW S, wire \in Seq(S), NEW m \in S, NEW delivered \in BOOLEAN, NEW v, v = ToOwner(delivered, m)
    PROVE  /\ v \in Seq(S)
           /\ delivered /\ owner.conn = client.conn => Joins(wire, << m >>, v)
           /\ ~ (delivered /\ owner.conn = client.conn) => Joins(wire, << >>, v)
<1>1. CASE delivered /\ owner.conn = client.conn
  <2>1. v = Append(wire, m)
    BY <1>1 DEF ToOwner
  <2>2. QED
    BY <1>1, <2>1, AppendJoins
<1>2. CASE ~ (delivered /\ owner.conn = client.conn)
  <2>1. v = wire
    BY <1>2 DEF ToOwner
  <2>2. QED
    BY <1>2, <2>1, NothingJoins
<1>3. QED
  BY <1>1, <1>2

\* Nothing is put behind the wire, or one message that ends nothing; the owner
\* is the same.
LEMMA SameOwnerStanding ==
    ASSUME Types, Standing, UNCHANGED << owner, leases, client, attach, partial >>,
           client.conn # 0 /\ active'[client.conn] => active[client.conn],
           NEW t, Joins(wire, t, wire'), \A l : ~ EndOn(t, l)
    PROVE  Standing'
<1>1. wire \in Seq(Messages) /\ leases \in Nat
  BY NumbersTyped
<1>2. Joins(wire, << >>, wire) /\ \A l : ~ EndOn(<< >>, l)
  BY <1>1, NothingJoins, NothingEnds
<1>3. \A l : Mine(l)' <=> Mine(l)
  BY DEF Mine
<1>4. Notifies(<< >>, wire, t)
  BY <1>2, <1>3 DEF Notifies
<1>5. QED
  BY <1>1, <1>4, DaemonStanding

LEMMA PublishStanding ==
    ASSUME Types, Standing, NEW n \in 1 .. MaxRead, NEW delivered \in BOOLEAN, Publish(n, delivered)
    PROVE  Standing'
<1>1. /\ wire' = ToOwner(delivered, LiveFrame(n)) /\ active' = Dropping(Cut(delivered))
      /\ UNCHANGED << owner, leases, client, attach, partial >>
  BY DEF Publish
<1>2. PICK m, v : m = LiveFrame(n) /\ v = wire'
  OBVIOUS
<1>3. m.kind = "output" /\ wire \in Seq(Messages)
  BY <1>2, NumbersTyped DEF LiveFrame, Message
<1>4. PICK S : wire \in Seq(S) /\ m \in S
  <2>1. wire \in Seq(Messages \cup {m})
    BY <1>3
  <2>2. QED
    BY <2>1
<1>5. Joins(wire, << m >>, v) \/ Joins(wire, << >>, v)
  BY <1>1, <1>2, <1>4, ToOwnerJoins
<1>6. \A l : ~ EndOn(<< m >>, l) /\ ~ EndOn(<< >>, l)
  BY <1>3, OneEnds, NothingEnds
<1>7. client.conn # 0 /\ active'[client.conn] => active[client.conn]
  BY <1>1, NumbersTyped, DroppedTyped
<1>8. PICK t : Joins(wire, t, wire') /\ \A l : ~ EndOn(t, l)
  BY <1>2, <1>5, <1>6
<1>9. QED
  BY <1>1, <1>7, <1>8, SameOwnerStanding

LEMMA RefusedStanding ==
    ASSUME Types, Standing, UNCHANGED << owner, leases, client, attach, partial >>,
           client.conn # 0 /\ active'[client.conn] => active[client.conn],
           NEW id \in Ids, wire' = wire \/ wire' = Append(wire, Result(id, Failed))
    PROVE  Standing'
<1>1. PICK m : m = Result(id, Failed)
  OBVIOUS
<1>2. m.kind = "result" /\ wire \in Seq(Messages)
  BY <1>1, NumbersTyped DEF Result, Message
<1>3. PICK S : wire \in Seq(S) /\ m \in S
  <2>1. wire \in Seq(Messages \cup {m})
    BY <1>2
  <2>2. QED
    BY <2>1
<1>4. Joins(wire, << >>, wire) /\ Joins(wire, << m >>, Append(wire, m))
  BY <1>3, AppendJoins, NothingJoins
<1>5. Joins(wire, << >>, wire') \/ Joins(wire, << m >>, wire')
  BY <1>1, <1>4
<1>6. \A l : ~ EndOn(<< m >>, l) /\ ~ EndOn(<< >>, l)
  BY <1>2, OneEnds, NothingEnds
<1>7. PICK t : Joins(wire, t, wire') /\ \A l : ~ EndOn(t, l)
  BY <1>5, <1>6
<1>8. QED
  BY <1>7, SameOwnerStanding

LEMMA AnswersStanding ==
    ASSUME Types, Standing, NEW c \in Conns,
           \/ BeginAttach(c) \/ CommitSuperseded(c) \/ WriterEnds(c) \/ ReaderEnds(c)
           \/ \E refused \in SUBSET Conns : CommitFailed(c, refused)
    PROVE  Standing'
<1>1. CASE BeginAttach(c)
  <2>1. PICK id : id = inbox[c][1]
    OBVIOUS
  <2>2. id \in Ids /\ (Opens(c, id) \/ Finds(c, id) \/ Passes(c, id))
    BY <1>1, <2>1, BeginAttachDoes
  <2>3. wire' = wire \/ wire' = Append(wire, Result(id, Failed))
    BY <2>2 DEF Opens, Finds, Passes
  <2>4. UNCHANGED << owner, leases, active, client, attach, partial >>
    BY <1>1 DEF BeginAttach
  <2>5. QED
    BY <2>2, <2>3, <2>4, RefusedStanding
<1>2. CASE CommitSuperseded(c)
  <2>1. PICK id : id = handler[c].id
    OBVIOUS
  <2>2. id \in Ids /\ (wire' = wire \/ wire' = Append(wire, Result(id, Failed)))
    BY <1>2, <2>1, CommitSupersededTyped
  <2>3. UNCHANGED << owner, leases, active, client, attach, partial >>
    BY <1>2 DEF CommitSuperseded, terminal
  <2>4. QED
    BY <2>2, <2>3, RefusedStanding
<1>3. CASE \E refused \in SUBSET Conns : CommitFailed(c, refused)
  <2>1. PICK refused \in SUBSET Conns : CommitFailed(c, refused)
    BY <1>3
  <2>2. PICK id : id = handler[c].id
    OBVIOUS
  <2>3. /\ id \in Ids /\ (wire' = wire \/ wire' = Append(wire, Result(id, Failed)))
        /\ \A d \in Conns : active'[d] => active[d]
    BY <2>1, <2>2, CommitFailedTyped
  <2>4. UNCHANGED << owner, leases, client, attach, partial >>
    BY <2>1 DEF CommitFailed
  <2>5. client.conn # 0 /\ active'[client.conn] => active[client.conn]
    BY <2>3, NumbersTyped
  <2>6. QED
    BY <2>3, <2>4, <2>5, RefusedStanding
<1>4. CASE WriterEnds(c) \/ ReaderEnds(c)
  <2>1. /\ \A d \in Conns : active'[d] <=> active[d] /\ d # c
        /\ UNCHANGED << owner, leases, wire, client, attach, partial >>
    BY <1>4, EndsTyped
  <2>2. client.conn # 0 /\ active'[client.conn] => active[client.conn]
    BY <2>1, NumbersTyped
  <2>3. Joins(wire, << >>, wire) /\ \A l : ~ EndOn(<< >>, l)
    BY NumbersTyped, NothingJoins, NothingEnds
  <2>4. Joins(wire, << >>, wire')
    BY <2>1, <2>3
  <2>5. QED
    BY <2>1, <2>2, <2>3, <2>4, SameOwnerStanding
<1>5. QED
  BY <1>1, <1>2, <1>3, <1>4

\* The notice to the owner reaches it, or its connection is dropped.
LEMMA NoticeTold ==
    ASSUME Types, NEW S, wire \in Seq(S), NEW old, TakenOver(old) \in S, NEW delivered \in BOOLEAN,
           NEW v, v = ToOwner(delivered, TakenOver(old))
    PROVE  \E s : /\ Joins(wire, s, v) /\ v \in Seq(S) /\ (\A l : ~ EndOn(s, l))
                  /\ delivered /\ owner.conn = client.conn => Told(s, old)
<1>1. PICK m : m = TakenOver(old)
  OBVIOUS
<1>2. /\ v \in Seq(S)
      /\ delivered /\ owner.conn = client.conn => Joins(wire, << m >>, v)
      /\ ~ (delivered /\ owner.conn = client.conn) => Joins(wire, << >>, v)
  BY <1>1, ToOwnerJoins
<1>3. m.kind = "taken"
  BY <1>1 DEF TakenOver, Message
<1>4. (\A l : ~ EndOn(<< m >>, l) /\ ~ EndOn(<< >>, l)) /\ Told(<< m >>, old)
  BY <1>1, <1>3, OneEnds, OneTold, NothingEnds
<1>5. QED
  BY <1>2, <1>4

LEMMA CutDrops ==
    ASSUME Types, active' = Dropping(Cut(FALSE)), client.conn # 0, owner.conn = client.conn
    PROVE  ~ active'[client.conn]
<1>1. client.conn \in Conns
  BY NumbersTyped
<1>2. active'[client.conn] <=> active[client.conn] /\ client.conn \notin Cut(FALSE)
  BY <1>1, DroppedTyped
<1>3. client.conn \in Cut(FALSE)
  BY DEF Cut
<1>4. QED
  BY <1>2, <1>3

LEMMA TakeoverStanding ==
    ASSUME Types, Numbered, Standing, NEW delivered \in BOOLEAN, Takeover(delivered)
    PROVE  Standing'
<1>1. /\ wire' = ToOwner(delivered, TakenOver(owner.lease)) /\ active' = Dropping(Cut(delivered))
      /\ leases' = leases + 1
      /\ UNCHANGED << client, attach, partial >>
  BY DEF Takeover
<1>2. PICK old, v : old = owner.lease /\ v = wire'
  OBVIOUS
<1>3. wire \in Seq(Messages) /\ TakenOver(old) \in Messages /\ leases \in Nat
  BY <1>2, NumbersTyped DEF TakenOver, Message, Messages, Kinds, Types, HistoryOK, DaemonOK
<1>4. PICK s : /\ Joins(wire, s, v) /\ v \in Seq(Messages) /\ (\A l : ~ EndOn(s, l))
               /\ delivered /\ owner.conn = client.conn => Told(s, old)
  <2>1. v = ToOwner(delivered, TakenOver(old))
    BY <1>1, <1>2
  <2>2. QED
    BY <1>3, <2>1, NoticeTold
<1>5. client.conn # 0 /\ active'[client.conn] => active[client.conn]
  BY <1>1, NumbersTyped, DroppedTyped
<1>6. ASSUME client.conn # 0, active'[client.conn], NEW l, Mine(l) PROVE Told(s, l)
  <2>1. l = old /\ owner.conn = client.conn
    BY <1>2, <1>6 DEF Mine
  <2>2. delivered
    <3>1. delivered = FALSE => ~ active'[client.conn]
      BY <1>1, <1>6, <2>1, CutDrops
    <3>2. QED
      BY <1>6, <3>1
  <2>3. QED
    BY <1>4, <2>1, <2>2
<1>7. Joins(v, << >>, wire') /\ \A l : ~ EndOn(<< >>, l)
  <2>1. Joins(v, << >>, v)
    BY <1>4, NothingJoins
  <2>2. QED
    BY <1>2, <2>1, NothingEnds
<1>8. Notifies(s, v, << >>)
  BY <1>1, <1>4, <1>5, <1>6, <1>7 DEF Notifies
<1>9. leases <= leases' /\ leases' \in Nat
  BY <1>1, <1>3
<1>10. QED
  BY <1>8, <1>9, DaemonStanding

\* The end of a transaction that was not refused has the notice behind it.
LEMMA ShippedTold ==
    ASSUME NEW l \in Nat, NEW sent \in Seq(MessagesOf(l)), NEW id, NEW lease, Shipped(sent, id, lease, TRUE),
           lease \notin partial'
    PROVE  Told(sent, lease)
<1>1. Len(sent) \in Nat
  OBVIOUS
<1>2. /\ Len(sent) - 1 \in 3 .. Len(sent) /\ sent[Len(sent)] = TakenOver(lease)
      /\ \A k \in 1 .. Len(sent) : sent[k].kind = "end" => k = Len(sent) - 1
  BY DEF Shipped
<1>3. Len(sent) \in 1 .. Len(sent)
  BY <1>1, <1>2
<1>4. \A k \in 1 .. Len(sent) : IsEnd(sent[k], lease) => k < Len(sent)
  BY <1>1, <1>2 DEF IsEnd
<1>5. QED
  BY <1>2, <1>3, <1>4 DEF Told

LEMMA CommitNewStanding ==
    ASSUME Types, Numbered, Standing, NEW c \in Conns, NEW notified \in BOOLEAN, CommitNew(c, notified)
    PROVE  Standing'
<1>1. UNCHANGED << output, start, inbox, client, attach, screen >>
  BY DEF CommitNew
<1>2. PICK selected \in Conns, sent \in Seq(MessagesOf(leases + 1)) : Commits(c, notified, selected, sent)
  BY CommitNewDoes
<1>3. PICK id, n, old : id = handler[c].id /\ n = leases + 1 /\ old = owner.lease
  OBVIOUS
<1>4. /\ id \in Ids /\ leases' = n
      /\ owner' = [lease |-> n, conn |-> selected]
      /\ active' = Dropping(Cut(notified))
      /\ wire' = ToOwner(notified, TakenOver(old)) \o sent
      /\ \/ sent = << >> /\ partial' = partial
         \/ Dispatched(sent, id, n, client.conn # selected)
  BY <1>2, <1>3 DEF Commits
<1>5. leases \in Nat /\ n \in Nat /\ n \in 1 .. n /\ old \in 0 .. leases /\ wire \in Seq(Messages)
  BY <1>3, LeasesTyped, NumbersTyped
<1>6. Messages \subseteq MessagesOf(n) /\ sent \in Seq(MessagesOf(n))
  BY <1>2, <1>3, <1>5 DEF Messages, MessagesOf
<1>7. wire \in Seq(MessagesOf(n))
  BY <1>5, <1>6
<1>8. TakenOver(old) \in MessagesOf(n)
  <2>1. 0 \in 0 .. output
    BY DEF Types, HistoryOK
  <2>2. QED
    BY <1>3, <1>5, <2>1 DEF TakenOver, Message, MessagesOf, Kinds
<1>9. PICK v : v = ToOwner(notified, TakenOver(old))
  OBVIOUS
<1>10. PICK s : /\ Joins(wire, s, v) /\ v \in Seq(MessagesOf(n)) /\ (\A l : ~ EndOn(s, l))
                /\ notified /\ owner.conn = client.conn => Told(s, old)
  BY <1>7, <1>8, <1>9, NoticeTold
<1>11. Joins(v, sent, wire')
  <2>1. wire' = v \o sent /\ Joins(v, sent, v \o sent)
    BY <1>4, <1>6, <1>9, <1>10, SequenceJoins
  <2>2. QED
    BY <2>1
<1>12. client.conn # 0 /\ active'[client.conn] => active[client.conn]
  BY <1>4, NumbersTyped, DroppedTyped
<1>13. ASSUME client.conn # 0, active'[client.conn], NEW l, Mine(l) PROVE Told(s, l)
  <2>1. l = old /\ owner.conn = client.conn
    BY <1>3, <1>13 DEF Mine
  <2>2. notified = FALSE => ~ active'[client.conn]
    BY <1>4, <1>13, <2>1, CutDrops
  <2>3. QED
    BY <1>10, <1>13, <2>1, <2>2
<1>14. partial \subseteq partial' /\ \A l : l \notin partial' /\ EndOn(sent, l) => Mine(l)' \/ Told(sent, l)
  <2>1. CASE sent = << >> /\ partial' = partial
    BY <2>1, NothingEnds
  <2>2. CASE Dispatched(sent, id, n, client.conn # selected)
    <3>1. PICK told \in BOOLEAN : told = (client.conn # selected)
      OBVIOUS
    <3>2. Dispatched(sent, id, n, told)
      BY <2>2, <3>1
    <3>3. Shipped(sent, id, n, told) /\ partial \subseteq partial'
      BY <1>4, <1>5, <3>2, DispatchShips DEF Types
    <3>4. ASSUME NEW l, l \notin partial', EndOn(sent, l) PROVE Mine(l)' \/ Told(sent, l)
      <4>1. l = n
        BY <3>3, <3>4 DEF EndOn, IsEnd, Shipped
      <4>2. CASE told = TRUE
        <5>1. Shipped(sent, id, n, TRUE) /\ n \notin partial'
          BY <3>3, <3>4, <4>1, <4>2
        <5>2. QED
          BY <1>5, <1>6, <4>1, <5>1, ShippedTold
      <4>3. CASE told = FALSE
        <5>1. client.conn = selected
          BY <3>1, <4>3
        <5>2. QED
          BY <1>1, <1>4, <4>1, <5>1 DEF Mine
      <4>4. QED
        BY <4>2, <4>3
    <3>5. QED
      BY <3>3, <3>4
  <2>3. QED
    BY <1>4, <2>1, <2>2
<1>15. Notifies(s, v, sent)
  BY <1>1, <1>10, <1>11, <1>12, <1>13, <1>14 DEF Notifies
<1>16. leases <= leases' /\ leases' \in Nat
  BY <1>3, <1>4, <1>5
<1>17. QED
  BY <1>15, <1>16, DaemonStanding

LEMMA CommitRebindStanding ==
    ASSUME Types, Numbered, Standing, NEW c \in Conns, NEW notified \in BOOLEAN, CommitRebind(c, notified)
    PROVE  Standing'
<1>1. UNCHANGED << output, leases, scope, inbox, client, attach >>
  BY DEF CommitRebind
<1>2. PICK sent \in Seq(Messages) : Rebound(c, notified, sent)
  BY CommitRebindDoes
<1>3. PICK id, old, n : id = handler[c].id /\ old = handler[c].lease /\ n = leases
  OBVIOUS
<1>4. /\ id \in Ids /\ old \in 1 .. n /\ owner.lease = old
      /\ owner' = [lease |-> old, conn |-> c]
      /\ wire' = ToOwner(notified, TakenOver(old)) \o sent
      /\ \A d \in Conns : active'[d] => active[d]
      /\ \/ c # client.conn /\ sent = << >> /\ partial' = partial
         \/ c = client.conn /\ Dispatched(sent, id, old, FALSE)
  BY <1>2, <1>3 DEF Rebound
<1>5. n \in Nat /\ wire \in Seq(Messages) /\ Messages = MessagesOf(n)
  BY <1>3, LeasesTyped, NumbersTyped DEF Messages, MessagesOf
<1>6. wire \in Seq(MessagesOf(n)) /\ sent \in Seq(MessagesOf(n))
  BY <1>5
<1>7. TakenOver(old) \in MessagesOf(n)
  <2>1. 0 \in 0 .. output
    BY DEF Types, HistoryOK
  <2>2. QED
    BY <1>4, <1>5, <2>1 DEF TakenOver, Message, MessagesOf, Kinds
<1>8. PICK v : v = ToOwner(notified, TakenOver(old))
  OBVIOUS
<1>9. PICK s : /\ Joins(wire, s, v) /\ v \in Seq(MessagesOf(n)) /\ (\A l : ~ EndOn(s, l))
               /\ notified /\ owner.conn = client.conn => Told(s, old)
  BY <1>6, <1>7, <1>8, NoticeTold
<1>10. Joins(v, sent, wire')
  <2>1. wire' = v \o sent /\ Joins(v, sent, v \o sent)
    BY <1>4, <1>6, <1>8, <1>9, SequenceJoins
  <2>2. QED
    BY <2>1
<1>11. client.conn # 0 /\ active'[client.conn] => active[client.conn]
  BY <1>4, NumbersTyped
<1>12. ASSUME client.conn # 0, active'[client.conn], NEW l, Mine(l) PROVE Mine(l)' \/ Told(s, l)
  <2>1. l = old /\ owner.conn = client.conn
    BY <1>4, <1>12 DEF Mine
  <2>2. CASE c = client.conn
    BY <1>1, <1>4, <2>1, <2>2 DEF Mine
  <2>3. CASE c # client.conn
    <3>1. active' = Dropping(Cut(notified))
      BY <2>1, <2>3 DEF CommitRebind
    <3>2. notified = FALSE => ~ active'[client.conn]
      BY <1>12, <2>1, <3>1, CutDrops
    <3>3. QED
      BY <1>9, <1>12, <2>1, <3>2
  <2>4. QED
    BY <2>2, <2>3
<1>13. partial \subseteq partial' /\ \A l : l \notin partial' /\ EndOn(sent, l) => Mine(l)' \/ Told(sent, l)
  <2>1. CASE sent = << >> /\ partial' = partial
    BY <2>1, NothingEnds
  <2>2. CASE c = client.conn /\ Dispatched(sent, id, old, FALSE)
    <3>1. Shipped(sent, id, old, FALSE) /\ partial \subseteq partial'
      BY <1>4, <1>5, <2>2, DispatchShips DEF Types
    <3>2. ASSUME NEW l, EndOn(sent, l) PROVE Mine(l)'
      <4>1. l = old
        BY <3>1, <3>2 DEF EndOn, IsEnd, Shipped
      <4>2. QED
        BY <1>1, <1>4, <2>2, <4>1 DEF Mine
    <3>3. QED
      BY <3>1, <3>2
  <2>3. QED
    BY <1>4, <2>1, <2>2
<1>14. Notifies(s, v, sent)
  BY <1>1, <1>9, <1>10, <1>11, <1>12, <1>13 DEF Notifies
<1>15. leases <= leases' /\ leases' \in Nat
  BY <1>1, <1>3, <1>5
<1>16. QED
  BY <1>14, <1>15, DaemonStanding

\* One message was taken: the client holds what it held, or what it heard the
\* end of.
LEMMA TakenStanding ==
    ASSUME Types, Numbered, Standing, Receives, client'.conn = client.conn,
           Held' => \/ Held /\ client'.lease = client.lease /\ wire[1] # TakenOver(client.lease)
                    \/ IsEnd(wire[1], client'.lease)
    PROVE  Standing'
<1>1. /\ Drops(wire, wire') /\ 1 \in 1 .. Len(wire)
      /\ UNCHANGED << owner, active, partial >>
  BY ReceivesDrops
<1>2. UNCHANGED leases
  BY DEF Receives, daemon
<1>3. PICK w, v : w = wire /\ v = wire'
  OBVIOUS
<1>4. SUFFICES ASSUME client.conn # 0, active[client.conn], NEW l \in 1 .. leases, l \notin partial,
                      (Held' /\ client'.lease = l) \/ EndOn(v, l)
               PROVE  Mine(l) \/ Told(v, l)
  BY <1>1, <1>2, <1>3 DEF Standing, Mine, Told, EndOn
<1>5. /\ EndOn(v, l) => EndOn(w, l)
      /\ Told(w, l) /\ (w[1] # TakenOver(l) \/ EndOn(v, l)) => Told(v, l)
  BY <1>1, <1>3, ToldDrop
<1>6. CASE EndOn(v, l)
  <2>1. Mine(l) \/ Told(w, l)
    BY <1>3, <1>4, <1>5, <1>6 DEF Standing
  <2>2. QED
    BY <1>5, <1>6, <2>1
<1>7. CASE Held' /\ client'.lease = l
  <2>1. CASE Held /\ client.lease = l /\ wire[1] # TakenOver(l)
    <3>1. Mine(l) \/ Told(w, l)
      BY <1>3, <1>4, <2>1 DEF Standing
    <3>2. QED
      BY <1>3, <1>5, <2>1, <3>1
  <2>2. CASE IsEnd(wire[1], l)
    <3>1. EndOn(w, l)
      BY <1>1, <1>3, <2>2 DEF EndOn
    <3>2. Mine(l) \/ Told(w, l)
      BY <1>3, <1>4, <3>1 DEF Standing
    <3>3. TakenOver(l).kind = "taken"
      BY DEF TakenOver, Message
    <3>4. w[1] # TakenOver(l)
      BY <1>3, <2>2, <3>3 DEF IsEnd
    <3>5. QED
      BY <1>5, <3>2, <3>4
  <2>3. QED
    BY <1>7, <2>1, <2>2
<1>8. QED
  BY <1>4, <1>6, <1>7

\* The client waits for a replay, or holds nothing.
LEMMA LettingStanding ==
    ASSUME Standing, UNCHANGED << owner, leases, active, partial, wire >>, client'.conn = client.conn, ~ Held'
    PROVE  Standing'
  BY DEF Standing, Mine, Told, EndOn

LEMMA EmptyStanding ==
    ASSUME wire' = << >>, ~ Held' \/ client'.conn = 0
    PROVE  Standing'
<1>1. PICK v : v = << >> /\ v = wire'
  OBVIOUS
<1>2. \A l : ~ EndOn(v, l)
  BY <1>1, NothingEnds
<1>3. \A l : ~ EndOn(wire', l)
  BY <1>1, <1>2
<1>4. QED
  BY <1>3 DEF Standing, EndOn

LEMMA FailureStanding ==
    ASSUME Types, Numbered, Leased, Standing, AttachRefused \/ Disorder \/ Timeout
    PROVE  Standing'
<1>1. PICK definite : Fails(definite)
  BY DEF AttachRefused, Disorder, Timeout
<1>2. attach.id # 0 /\ client' = AfterFailure(client, attach.origin, definite)
  BY <1>1 DEF Fails
<1>3. client \in ClientType /\ attach.origin \in {"user", "queue"}
  BY DEF Types, ClientOK, AttachOK, AttachType
<1>4. attach.origin = "user" => client.lease = 0
  BY <1>2 DEF Leased, Bound
<1>5. ~ Held'
  BY <1>2, <1>3, <1>4, FailureHolds
<1>6. client'.conn = client.conn
  BY <1>2, <1>3, FailureTyped
<1>7. CASE AttachRefused \/ Disorder
  <2>1. Receives
    BY <1>7 DEF AttachRefused, Disorder
  <2>2. QED
    BY <1>5, <1>6, <2>1, TakenStanding
<1>8. CASE Timeout
  <2>1. UNCHANGED << owner, leases, active, partial, wire >>
    BY <1>8 DEF Timeout, daemon
  <2>2. QED
    BY <1>5, <1>6, <2>1, LettingStanding
<1>9. QED
  BY <1>7, <1>8

LEMMA HandledStanding ==
    ASSUME Types, Numbered, Leased, Standing,
           AttachAccepted \/ ReplayBegin \/ ReplayChunk \/ ReplayEnd \/ ShowOutput \/ LoseLease \/ Ignore
    PROVE  Standing'
<1>1. Receives
  BY DEF AttachAccepted, ReplayBegin, ReplayChunk, ReplayEnd, ShowOutput, LoseLease, Ignore
<1>2. Head(wire) = wire[1] /\ wire # << >> /\ Proper(wire[1])
  BY <1>1, ReceivesDrops DEF Receives
<1>3. client \in ClientType /\ attach \in AttachType
  BY DEF Types, ClientOK, AttachOK
<1>4. /\ client'.conn = client.conn
      /\ Held' => \/ Held /\ client'.lease = client.lease /\ wire[1] # TakenOver(client.lease)
                  \/ IsEnd(wire[1], client'.lease)
  <2>1. CASE AttachAccepted \/ ReplayBegin \/ ReplayChunk
    <3>1. client' = client /\ attach.id # 0 /\ attach'.id = attach.id
      BY <1>3, <2>1 DEF AttachAccepted, ReplayBegin, ReplayChunk, Answers, AttachType
    <3>2. QED
      BY <3>1 DEF Held
  <2>2. CASE ReplayEnd
    <3>1. /\ wire[1].kind = "end"
          /\ client' = [client EXCEPT !.lease = wire[1].lease, !.expected = wire[1].to, !.queued = FALSE]
      BY <1>2, <2>2 DEF ReplayEnd
    <3>2. client'.conn = client.conn /\ client'.lease = wire[1].lease
      BY <1>3, <3>1 DEF ClientType
    <3>3. QED
      BY <3>1, <3>2 DEF IsEnd
  <2>3. CASE ShowOutput
    <3>1. Held /\ wire[1].kind = "output"
      BY <1>2, <2>3, HoldsWhatItHears DEF ShowOutput
    <3>2. \/ client' = [client EXCEPT !.expected = wire[1].to]
          \/ client' = [client EXCEPT !.lease = 0, !.expected = 0]
      BY <1>2, <2>3 DEF ShowOutput
    <3>3. client'.conn = client.conn /\ (client'.lease = client.lease \/ client'.lease = 0)
      BY <1>3, <3>2 DEF ClientType
    <3>4. wire[1] # TakenOver(client.lease)
      BY <3>1 DEF TakenOver, Message
    <3>5. QED
      BY <3>1, <3>3, <3>4 DEF Held
  <2>4. CASE LoseLease
    <3>1. client' = Cleared(client)
      BY <2>4 DEF LoseLease
    <3>2. client'.lease = 0 /\ client'.conn = client.conn
      BY <1>3, <3>1 DEF ClientType, Cleared
    <3>3. QED
      BY <3>2 DEF Held
  <2>5. CASE Ignore
    <3>1. client' = client /\ attach' = attach /\ ~ Concerns(wire[1])
      BY <1>2, <2>5 DEF Ignore
    <3>2. Held' => Held
      BY <3>1 DEF Held
    <3>3. ASSUME Held PROVE wire[1] # TakenOver(client.lease)
      <4>1. wire[1].lease # client.lease
        BY <3>1, <3>3 DEF Held, Concerns, Leased, Bound
      <4>2. TakenOver(client.lease).lease = client.lease
        BY DEF TakenOver, Message
      <4>3. QED
        BY <4>1, <4>2
    <3>4. QED
      BY <3>1, <3>2, <3>3
  <2>6. QED
    BY <2>1, <2>2, <2>3, <2>4, <2>5
<1>5. QED
  BY <1>1, <1>4, TakenStanding

LEMMA ConnectStanding ==
    ASSUME Types, Numbered, Leased, Connect \/ ResumeAndResend \/ GiveUp \/ Disconnect
    PROVE  Standing'
<1>1. CASE Connect
  <2>1. Reconnects(<< >>) /\ client' = Reconnected(client)
    BY <1>1 DEF Connect
  <2>2. client \in ClientType
    BY DEF Types, ClientOK
  <2>3. client.opened + 1 \in Conns /\ wire' = << >>
    <3>1. << >> \in Seq(Ids)
      OBVIOUS
    <3>2. PICK none : none = << >> /\ none \in Seq(Ids)
      BY <3>1
    <3>3. Reconnects(none)
      BY <2>1, <3>2
    <3>4. QED
      BY <3>2, <3>3, ReconnectsDoes
  <2>4. client'.lease = client.lease /\ (client'.queued <=> client.queued \/ client.bound)
    BY <2>1, <2>2, <2>3, ReconnectedTyped
  <2>5. ~ Held'
    BY <2>4 DEF Held, Leased, Bound
  <2>6. QED
    BY <2>3, <2>5, EmptyStanding
<1>2. CASE ResumeAndResend
  <2>1. wire' = << >> /\ attach' = Awaiting(attach.id, attach.origin) /\ attach.id \in Ids
    BY <1>2, ResumeTyped
  <2>2. attach'.id # 0
    BY <2>1, AwaitingUntold, ConstantsTyped
  <2>3. QED
    BY <2>1, <2>2, EmptyStanding DEF Held
<1>3. CASE GiveUp \/ Disconnect
  <2>1. wire' = << >> /\ client'.conn = 0
    BY <1>3, LosesTyped
  <2>2. QED
    BY <2>1, EmptyStanding
<1>4. QED
  BY <1>1, <1>2, <1>3

LEMMA StartAttachStanding ==
    ASSUME Types, Numbered, Standing, NEW origin \in {"user", "queue"}, StartAttach(origin)
    PROVE  Standing'
<1>1. PICK id : id = client.last + 1
  OBVIOUS
<1>2. /\ id \in Ids /\ UNCHANGED << owner, leases, partial >>
      /\ StartedEntry \in ClientType
      /\ Writes(id, origin) \/ Reopens(id, origin) \/ Abandons(origin)
  BY <1>1, StartAttachDoes
<1>3. id # 0 /\ client \in ClientType
  BY <1>2, ConstantsTyped DEF Types, ClientOK
<1>4. CASE Writes(id, origin)
  <2>1. client' = StartedEntry /\ attach' = Awaiting(id, origin) /\ UNCHANGED << active, wire >>
    BY <1>4 DEF Writes
  <2>2. client'.conn = client.conn
    BY <1>3, <2>1 DEF StartedEntry, ClientType
  <2>3. ~ Held'
    BY <1>3, <2>1, AwaitingUntold DEF Held
  <2>4. QED
    BY <1>2, <2>1, <2>2, <2>3, LettingStanding
<1>5. CASE Reopens(id, origin)
  <2>1. Reconnects(<< id >>) /\ attach' = Awaiting(id, origin) /\ << id >> \in Seq(Ids)
    BY <1>2, <1>5 DEF Reopens
  <2>2. wire' = << >>
    BY <2>1, ReconnectsDoes
  <2>3. ~ Held'
    BY <1>3, <2>1, AwaitingUntold DEF Held
  <2>4. QED
    BY <2>2, <2>3, EmptyStanding
<1>6. CASE Abandons(origin)
  <2>1. PICK definite : /\ client' = AfterFailure([StartedEntry EXCEPT !.conn = 0], origin, definite)
                        /\ wire' = << >>
    BY <1>6 DEF Abandons
  <2>2. PICK entry, started : started = StartedEntry /\ entry = [started EXCEPT !.conn = 0]
    OBVIOUS
  <2>3. client'.conn = 0
    <3>1. started \in ClientType
      BY <1>2, <2>2
    <3>2. entry \in ClientType /\ entry.conn = 0
      BY <2>2, <3>1, AttachReplayAssumption DEF ClientType
    <3>3. client' = AfterFailure(entry, origin, definite)
      BY <2>1, <2>2
    <3>4. AfterFailure(entry, origin, definite).conn = entry.conn
      BY <3>2, FailureTyped
    <3>5. QED
      BY <3>2, <3>3, <3>4
  <2>4. QED
    BY <2>1, <2>3, EmptyStanding
<1>7. QED
  BY <1>2, <1>4, <1>5, <1>6

BeliefSafe == ScreenSafe /\ Standing

LEMMA InitBeliefSafe == Init => BeliefSafe
<1>1. Init => Standing
  BY DEF Init, Standing
<1>2. QED
  BY <1>1, InitScreenSafe DEF BeliefSafe

LEMMA NextBeliefSafe == BeliefSafe /\ [Next]_vars => BeliefSafe'
<1>1. SUFFICES ASSUME BeliefSafe, [Next]_vars PROVE BeliefSafe'
  OBVIOUS
<1>2. ScreenSafe /\ Standing /\ Types /\ Numbered /\ Leased
  BY <1>1 DEF BeliefSafe, ScreenSafe
<1>3. ScreenSafe'
  BY <1>1, <1>2, NextScreenSafe
<1>4. Standing'
  <2>1. CASE Daemon
    <3>1. ASSUME NEW delivered \in BOOLEAN,
                 (\E n \in 1 .. MaxRead : Publish(n, delivered)) \/ Takeover(delivered)
          PROVE  Standing'
      BY <1>2, <3>1, PublishStanding, TakeoverStanding
    <3>2. ASSUME NEW delivered \in BOOLEAN, NEW c \in Conns, CommitNew(c, delivered) \/ CommitRebind(c, delivered)
          PROVE  Standing'
      BY <1>2, <3>2, CommitNewStanding, CommitRebindStanding
    <3>3. ASSUME NEW c \in Conns,
                 \/ BeginAttach(c) \/ CommitSuperseded(c) \/ WriterEnds(c) \/ ReaderEnds(c)
                 \/ \E refused \in SUBSET Conns : CommitFailed(c, refused)
          PROVE  Standing'
      BY <1>2, <3>3, AnswersStanding
    <3>4. QED
      BY <2>1, <3>1, <3>2, <3>3 DEF Daemon
  <2>2. CASE Client
    <3>1. CASE Connect \/ ResumeAndResend \/ GiveUp \/ Disconnect
      BY <1>2, <3>1, ConnectStanding
    <3>2. CASE \E origin \in {"user", "queue"} : StartAttach(origin)
      BY <1>2, <3>2, StartAttachStanding
    <3>3. CASE AttachRefused \/ Disorder \/ Timeout
      BY <1>2, <3>3, FailureStanding
    <3>4. CASE AttachAccepted \/ ReplayBegin \/ ReplayChunk \/ ReplayEnd \/ ShowOutput \/ LoseLease \/ Ignore
      BY <1>2, <3>4, HandledStanding
    <3>5. QED
      BY <2>2, <3>1, <3>2, <3>3, <3>4 DEF Client
  <2>3. CASE UNCHANGED vars
    BY <1>2, <2>3 DEF vars, Standing, Held, Mine, Told, EndOn
  <2>4. QED
    BY <1>1, <2>1, <2>2, <2>3 DEF Next
<1>5. QED
  BY <1>3, <1>4 DEF BeliefSafe

\* A client that believes it is attached is, or will read that it is not, on a
\* connection that is up: the daemon drops an owner it cannot notify.  The
\* exception is a transaction with no room left for the notice behind it.
THEOREM BelievesTheTruth == Spec => []BeliefTrue
<1>1. BeliefSafe => BeliefTrue
  <2>1. SUFFICES ASSUME BeliefSafe, Settled, client.lease # 0, client.lease \notin partial
                 PROVE  \/ owner = [lease |-> client.lease, conn |-> client.conn]
                        \/ \E k \in 1 .. Len(wire) : wire[k] = TakenOver(client.lease)
    BY DEF BeliefTrue
  <2>2. Types /\ Standing
    BY <2>1 DEF BeliefSafe, ScreenSafe
  <2>3. Held /\ client.conn # 0 /\ active[client.conn]
    BY <2>1 DEF Settled, Held
  <2>4. client.lease \in 1 .. leases
    BY <2>1, <2>2, LeasesTyped
  <2>5. Mine(client.lease) \/ Told(wire, client.lease)
    BY <2>1, <2>2, <2>3, <2>4 DEF Standing
  <2>6. Mine(client.lease) => owner = [lease |-> client.lease, conn |-> client.conn]
    BY <2>2 DEF Mine, Types, DaemonOK
  <2>7. QED
    BY <2>5, <2>6 DEF Told
<1>2. QED
  BY <1>1, InitBeliefSafe, NextBeliefSafe, PTL DEF Spec
=============================================================================
