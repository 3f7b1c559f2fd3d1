------------------------ MODULE ClientRuntimeProofs ------------------------
(***************************************************************************)
(* What ClientRuntime guarantees, for any number of calls, client scopes,  *)
(* lost connections and restarted daemons: every variable keeps its type,  *)
(* no request is executed twice, an answer is taken by the call it is for, *)
(* no stop is reported unconfirmed that was answered, and the callers see  *)
(* what CallService allows.                                                *)
(*                                                                         *)
(* The invariant is an account of the calls.  A call is Known in a scope   *)
(* under an ID where a record, a frame on its way, a message received or   *)
(* kept, or the client itself names it.  It says that a call is known in   *)
(* one scope under one ID (Single), that its ID is of no other call there  *)
(* (Unique), and that the next ID is new (Fresh); strays, which were       *)
(* written to a scope other than their ID's, are excepted from the latter  *)
(* two.  Each step keeps the client's scope and makes at most one call     *)
(* known (Stays), greets a daemon (ConnectsKeeps), or starts over in a     *)
(* scope nothing is known of (StartsOver).                                 *)
(***************************************************************************)
EXTENDS ClientRuntime, TLAPS

(***************************************************************************)
(* Types.                                                                  *)
(***************************************************************************)
Kinds      == {"attach", "reattach", "status", "stop"}
CallIds    == 1 .. LastCall
HelloType  == [scope : Scopes \cup {0}, daemon : Nat, resumed : BOOLEAN]
RecordType == [id : CallIds, number : Calls, state : {"waited", "unheard", "done"}]
StopType   == [id : CallIds, number : Calls]

IdentityOK  == /\ scope \in 0 .. issued /\ instance \in 0 .. daemon /\ daemon \in Nat \ {0}
               /\ nextId \in 1 .. made + 1 /\ made \in 0 .. LastCall /\ breaks \in Nat
RequestsOK  == /\ submitting \in Request /\ call \in Request /\ call.kind # "stop"
               /\ stops \in SUBSET StopType /\ deferred \in SUBSET Message
ConnectorOK == connector \in [state : {"none", "running", "done"}, resume : Scopes \cup {0},
                              hello : HelloType]
WiresOK     == /\ conn \in {"none", "open"} /\ toReattach \in {"no", "due", "later"}
               /\ inbox \in Seq(Message) /\ outbox \in Seq(Message)
               /\ link \in [scope : 0 .. issued, up : BOOLEAN]
DaemonOK    == /\ issued \in 0 .. LastScope /\ alive \in SUBSET (1 .. issued)
               /\ highest \in [Scopes -> Nat]
               /\ records \in [Scopes -> SUBSET RecordType]
               /\ late \in SUBSET [scope : Scopes, frame : Message]
HistoryOK   == /\ executed \in [Calls -> Nat] /\ result \in [Calls -> Nat]
               /\ heard \in SUBSET Calls /\ strays \in SUBSET Calls
               /\ alarms \in SUBSET [number : Calls, heard : BOOLEAN]
               /\ written \in [Scopes -> [top : Nat, back : BOOLEAN]]

\* A client without a connection waits for nothing, one that connects has none,
\* and one that has never connected knows nothing.
ConnectionOK ==
    /\ conn = "none" => call = NoCall /\ stops = {}
    /\ conn = "open" => connector = NoConnector /\ link.scope = scope /\ scope # 0
    /\ connector.state = "none" => connector = NoConnector
    /\ connector # NoConnector => connector.resume = scope
    /\ scope = 0 => deferred = {}
    /\ link.up => link.scope # 0

Types == /\ IdentityOK /\ RequestsOK /\ ConnectorOK /\ WiresOK /\ DaemonOK /\ HistoryOK
         /\ ConnectionOK

\* The connector has greeted a daemon: it brings the client's own scope, as the
\* daemon knew it, or one that the client has not had.
GreetedOK ==
    /\ scope \in alive => instance = daemon
    /\ connector.state = "done" =>
         /\ link.scope = connector.hello.scope /\ link.scope # 0
         /\ connector.hello.daemon \in 1 .. daemon
         /\ IF connector.hello.resumed
            THEN link.scope = scope /\ connector.hello.daemon = instance
            ELSE link.scope # scope /\ (link.scope \in alive => connector.hello.daemon = daemon)

(***************************************************************************)
(* Where a call is heard of: by its ID and number, in a scope.             *)
(***************************************************************************)
IsOf(m, i, n) == m.id = i /\ m.number = n
Has(queue, i, n) == \E k \in 1 .. Len(queue) : IsOf(queue[k], i, n)

\* At the daemon, or on the way.
Kept(s, i, n) ==
    \/ \E r \in records[s] : IsOf(r, i, n)
    \/ \E l \in late : l.scope = s /\ IsOf(l.frame, i, n)
    \/ link.scope = s /\ Has(outbox, i, n)
    \/ link.scope = s /\ Has(inbox, i, n)

\* At the client.
Own(i, n) ==
    \/ IsOf(call, i, n)
    \/ \E t \in stops : IsOf(t, i, n)
    \/ \E m \in deferred : IsOf(m, i, n)

Known(s, i, n) == n \in Calls /\ (Kept(s, i, n) \/ (scope = s /\ Own(i, n)))

\* A scope that was not issued, or that the client was not told of, has no calls.
Blank(s) == \A i \in CallIds, n \in Calls : ~ Kept(s, i, n)
UnusedOK ==
    /\ \A s \in Scopes : s > issued => Blank(s)
    /\ connector.state = "done" /\ ~ connector.hello.resumed => Blank(connector.hello.scope)

\* A call is made once, in one scope, under one ID ...
Single ==
    \A s, t \in Scopes, i, j \in CallIds, n \in Calls :
        Known(s, i, n) /\ Known(t, j, n) => s = t /\ i = j /\ n <= made

\* ... and has it alone, unless it was written to a scope other than its own.
Unique ==
    \A s \in Scopes, i \in CallIds, n, m \in Calls :
        Known(s, i, n) /\ Known(s, i, m) /\ n \notin strays /\ m \notin strays => n = m

Fresh == \A i \in CallIds, n \in Calls :
            scope # 0 /\ Known(scope, i, n) /\ n \notin strays => i < nextId

\* The request that is not written is unheard of, and so is its ID.
UnsentOK ==
    submitting # NoCall =>
        /\ submitting.number <= made
        /\ executed[submitting.number] = 0 /\ submitting.number \notin heard
        /\ \A s \in Scopes, i \in CallIds : ~ Known(s, i, submitting.number)
        /\ submitting.number \notin strays =>
             /\ submitting.id < nextId
             /\ \A n \in Calls : scope # 0 /\ Known(scope, submitting.id, n) => n \in strays

\* The daemon executed what it knows, once.
ExecutedOK ==
    \A n \in Calls :
        /\ executed[n] <= 1
        /\ executed[n] = 1 => n <= made
        /\ executed[n] = 1 => \A s \in Scopes, i \in CallIds : Known(s, i, n) => i <= highest[s]

\* A stop that was answered has an answer to it kept.
HeardOK ==
    /\ \A n \in heard : n <= made
    /\ \A t \in stops : t.number # call.number
    /\ strays = {} => \A t \in stops : t.number \in heard => WithId(deferred, t.id) # {}
-----------------------------------------------------------------------------
LEMMA InitTypes == Init => Types
<1>1. SUFFICES ASSUME Init PROVE Types
  OBVIOUS
<1>2. IdentityOK /\ RequestsOK
  BY <1>1, ClientRuntimeAssumption DEF Init, IdentityOK, RequestsOK, FirstId, Request, NoCall
<1>3. ConnectorOK /\ WiresOK
  BY <1>1, ClientRuntimeAssumption DEF Init, ConnectorOK, WiresOK, NoConnector, NoHello, HelloType
<1>4. DaemonOK
  BY <1>1, ClientRuntimeAssumption DEF Init, DaemonOK, Scopes
<1>5. HistoryOK
  BY <1>1, ClientRuntimeAssumption DEF Init, HistoryOK, Scopes
<1>6. ConnectionOK
  BY <1>1 DEF Init, ConnectionOK, NoConnector
<1>7. QED
  BY <1>2, <1>3, <1>4, <1>5, <1>6 DEF Types
LEMMA ConstantsTyped ==
    /\ LastCall \in Nat /\ LastScope \in Nat \ {0}
    /\ Calls = 1 .. LastCall /\ CallIds = 1 .. LastCall /\ Scopes = 1 .. LastScope
    /\ NoCall \in Request /\ NoCall.id = 0 /\ NoCall.number = 0 /\ NoCall.kind = "none"
    /\ NoHello \in HelloType
    /\ NoConnector = [state |-> "none", resume |-> 0, hello |-> NoHello]
    /\ FirstId = 1
BY ClientRuntimeAssumption
   DEF Calls, CallIds, Scopes, NoCall, Request, NoConnector, NoHello, HelloType, FirstId

LEMMA RequestTyped ==
    ASSUME NEW q \in Request, q # NoCall
    PROVE  /\ q.id \in CallIds /\ q.number \in Calls /\ q.kind \in Kinds /\ q.counted \in BOOLEAN
           /\ Frame(q) \in Message
BY ConstantsTyped DEF Request, Frame, Message, Kinds

LEMMA MessageTyped ==
    ASSUME NEW m \in Message
    PROVE  m.id \in CallIds /\ m.number \in Calls /\ m.kind \in Kinds
BY ConstantsTyped DEF Message, Kinds

LEMMA NewCallTyped ==
    ASSUME Types, Allocates, NEW kind \in Kinds, NEW counted \in BOOLEAN
    PROVE  /\ NewCall(kind, counted) \in Request \ {NoCall}
           /\ NewCall(kind, counted) = [kind |-> kind, number |-> made + 1, id |-> nextId,
                                        counted |-> counted]
           /\ made' = made + 1 /\ made' \in Calls /\ nextId' = nextId + 1 /\ nextId \in CallIds
<1>1. made \in Nat /\ made < LastCall /\ nextId \in 1 .. made + 1 /\ made' = made + 1 /\ nextId' = nextId + 1
  BY DEF Types, IdentityOK, Allocates
<1>2. made + 1 \in Calls /\ nextId \in CallIds
  BY <1>1, ConstantsTyped
<1>3. NewCall(kind, counted) \in Request
  BY <1>2, ConstantsTyped DEF NewCall, Request, Kinds
<1>4. NewCall(kind, counted).number # 0
  BY <1>2, ConstantsTyped DEF NewCall
<1>5. QED
  BY <1>1, <1>2, <1>3, <1>4, ConstantsTyped DEF NewCall

LEMMA PutTyped ==
    ASSUME Types, NEW q \in Request, q # NoCall, Put(q)
    PROVE  outbox' \in Seq(Message)
<1>1. outbox \in Seq(Message) /\ Frame(q) \in Message
  BY RequestTyped DEF Types, WiresOK
<1>2. Append(outbox, Frame(q)) \in Seq(Message)
  BY <1>1
<1>3. QED
  BY <1>1, <1>2 DEF Put

LEMMA WroteTyped ==
    ASSUME Types, NEW q \in Request, q # NoCall, scope # 0, Wrote(q)
    PROVE  written' \in [Scopes -> [top : Nat, back : BOOLEAN]]
<1>1. written \in [Scopes -> [top : Nat, back : BOOLEAN]] /\ scope \in Scopes
  BY ConstantsTyped DEF Types, HistoryOK, IdentityOK, DaemonOK
<1>2. q.id \in Nat
  BY RequestTyped, ConstantsTyped
<1>3. [top  |-> IF q.id > written[scope].top THEN q.id ELSE written[scope].top,
       back |-> written[scope].back \/ q.id < written[scope].top] \in [top : Nat, back : BOOLEAN]
  <2>1. written[scope] \in [top : Nat, back : BOOLEAN]
    BY <1>1
  <2>2. (IF q.id > written[scope].top THEN q.id ELSE written[scope].top) \in Nat
    BY <1>2, <2>1
  <2>3. (written[scope].back \/ q.id < written[scope].top) \in BOOLEAN
    BY Zenon
  <2>4. QED
    BY <2>2, <2>3
<1>4. QED
  BY <1>1, <1>3 DEF Wrote

LEMMA HelloTyped ==
    ASSUME Types, NEW resume \in Scopes \cup {0}, resume \in alive \/ issued < LastScope
    PROVE  /\ HelloTo(resume) \in HelloType
           /\ HelloTo(resume).daemon = daemon
           /\ (HelloTo(resume).resumed <=> resume \in alive)
           /\ resume \in alive => HelloTo(resume).scope = resume /\ resume \in 1 .. issued
           /\ resume \notin alive => HelloTo(resume).scope = issued + 1
           /\ HelloTo(resume).scope \in Scopes
<1>1. /\ daemon \in Nat /\ issued \in 0 .. LastScope /\ alive \subseteq 1 .. issued /\ issued \in Nat
  BY ConstantsTyped DEF Types, IdentityOK, DaemonOK
<1>2. CASE resume \in alive
  <2>1. HelloTo(resume) = [scope |-> resume, daemon |-> daemon, resumed |-> TRUE]
    BY <1>2 DEF HelloTo
  <2>2. resume \in 1 .. issued /\ resume \in Scopes
    BY <1>1, <1>2, ConstantsTyped
  <2>3. QED
    BY <1>1, <1>2, <2>1, <2>2 DEF HelloType
<1>3. CASE resume \notin alive
  <2>1. HelloTo(resume) = [scope |-> issued + 1, daemon |-> daemon, resumed |-> FALSE]
    BY <1>3 DEF HelloTo
  <2>2. issued + 1 \in Scopes
    BY <1>1, <1>3, ConstantsTyped
  <2>3. QED
    BY <1>1, <1>3, <2>1, <2>2 DEF HelloType
<1>4. QED
  BY <1>2, <1>3

\* A scope is resumed or issued, and all that was awaited there is awaited no more.
LEMMA AcceptsMeans ==
    ASSUME Types, NEW resume \in Scopes \cup {0}, Accepts(resume)
    PROVE  /\ resume \in alive \/ issued < LastScope
           /\ link' = [scope |-> HelloTo(resume).scope, up |-> TRUE]
           /\ resume \in alive => UNCHANGED << alive, issued >>
           /\ resume \notin alive => issued' = issued + 1 /\ alive' = alive \cup {issued + 1}
           /\ issued' \in 0 .. LastScope /\ issued \in Nat /\ issued <= issued' /\ alive' \subseteq 1 .. issued'
           /\ HelloTo(resume).scope \in 1 .. issued' /\ HelloTo(resume).scope \in alive'
           /\ records' \in [Scopes -> SUBSET RecordType]
           /\ \A s \in Scopes : \A i, n :
                 (\E r \in records'[s] : r.id = i /\ r.number = n) => \E r \in records[s] : r.id = i /\ r.number = n
           /\ UNCHANGED << daemon, highest, late >>
<1>1. /\ resume \in alive \/ issued < LastScope
      /\ link' = [scope |-> HelloTo(resume).scope, up |-> TRUE]
      /\ resume \in alive => UNCHANGED << alive, issued >>
      /\ resume \notin alive => issued' = issued + 1 /\ alive' = alive \cup {issued + 1}
      /\ UNCHANGED << daemon, highest, late >>
  BY DEF Accepts
<1>2. issued \in 0 .. LastScope /\ alive \subseteq 1 .. issued /\ LastScope \in Nat
  BY ConstantsTyped DEF Types, DaemonOK
<1>3. issued' \in 0 .. LastScope /\ issued \in Nat /\ issued <= issued' /\ alive' \subseteq 1 .. issued'
  <2>1. CASE resume \in alive
    <3>1. issued' = issued /\ alive' = alive
      BY <1>1, <2>1
    <3>2. QED
      BY <1>2, <3>1
  <2>2. CASE resume \notin alive
    <3>1. issued' = issued + 1 /\ alive' = alive \cup {issued + 1} /\ issued < LastScope
      BY <1>1, <2>2
    <3>2. QED
      BY <1>2, <3>1
  <2>3. QED
    BY <2>1, <2>2
<1>4. HelloTo(resume).scope \in 1 .. issued' /\ HelloTo(resume).scope \in alive'
  <2>1. CASE resume \in alive
    BY <1>1, <1>2, <2>1, HelloTyped
  <2>2. CASE resume \notin alive
    BY <1>1, <1>2, <2>2, HelloTyped
  <2>3. QED
    BY <2>1, <2>2
<1>5. records' = [s \in Scopes |->
          {[r EXCEPT !.state = IF @ = "done" THEN "done" ELSE "unheard"] : r \in records[s]}]
  BY DEF Accepts
<1>6. \A s \in Scopes : records[s] \subseteq RecordType
  BY DEF Types, DaemonOK
<1>7. \A r \in RecordType :
         LET u == [r EXCEPT !.state = IF @ = "done" THEN "done" ELSE "unheard"]
         IN  u \in RecordType /\ u.id = r.id /\ u.number = r.number
  BY DEF RecordType
<1>8. /\ \A s \in Scopes : records'[s] \subseteq RecordType
      /\ \A s \in Scopes : \A i, n :
            (\E r \in records'[s] : r.id = i /\ r.number = n) => \E r \in records[s] : r.id = i /\ r.number = n
  <2>1. ASSUME NEW s \in Scopes, NEW u \in records'[s]
        PROVE  u \in RecordType /\ \E r \in records[s] : u.id = r.id /\ u.number = r.number
    <3>1. PICK r \in records[s] : u = [r EXCEPT !.state = IF @ = "done" THEN "done" ELSE "unheard"]
      BY <1>5, <2>1
    <3>2. r \in RecordType
      BY <1>6
    <3>3. QED
      BY <1>7, <3>1, <3>2
  <2>2. QED
    BY <2>1
<1>9. records' \in [Scopes -> SUBSET RecordType]
  BY <1>5, <1>8
<1>10. QED
  BY <1>1, <1>3, <1>4, <1>8, <1>9

\* A frame is answered or not, recorded or not, and executed only under a new ID.
LEMMA HandleMeans ==
    ASSUME Types, NEW s, NEW f \in Message, NEW there, Handle(s, f, there)
    PROVE  /\ s \in Scopes /\ s \in alive
           /\ UNCHANGED inbox \/ (there /\ inbox' = Append(inbox, f))
           /\ records' \in [Scopes -> SUBSET RecordType]
           /\ \A t \in Scopes : \A r \in records'[t] :
                 \/ t = s /\ IsOf(r, f.id, f.number)
                 \/ \E u \in records[t] : IsOf(r, u.id, u.number)
           /\ highest' \in [Scopes -> Nat]
           /\ \A t \in Scopes : highest[t] <= highest'[t]
           /\ executed' \in [Calls -> Nat]
           /\ \/ UNCHANGED executed
              \/ /\ f.id > highest[s] /\ highest'[s] = f.id
                 /\ executed' = [executed EXCEPT ![f.number] = @ + 1]
<1>1. /\ s \in alive /\ s \in Scopes
      /\ records \in [Scopes -> SUBSET RecordType] /\ highest \in [Scopes -> Nat]
      /\ executed \in [Calls -> Nat]
      /\ f.id \in CallIds /\ f.number \in Calls /\ f.id \in Nat
  <2>1. s \in alive
    BY DEF Handle
  <2>2. s \in Scopes
    BY <2>1, ConstantsTyped DEF Types, DaemonOK
  <2>3. f.id \in CallIds /\ f.number \in Calls /\ f.id \in Nat
    BY MessageTyped, ConstantsTyped
  <2>4. QED
    BY <2>1, <2>2, <2>3 DEF Types, DaemonOK, HistoryOK
<1>2. UNCHANGED inbox \/ (there /\ inbox' = Append(inbox, f))
  BY DEF Handle, Answers
<1>3. ASSUME NEW r \in records[s], r.id = f.id,
             records' = [records EXCEPT ![s] =
                    IF there /\ r.number = f.number /\ r.state # "done"
                    THEN (@ \ {r}) \cup {[r EXCEPT !.state = "waited"]} ELSE @],
             UNCHANGED << highest, executed >>
      PROVE  /\ records' \in [Scopes -> SUBSET RecordType]
             /\ \A t \in Scopes : \A u \in records'[t] : \E v \in records[t] : IsOf(u, v.id, v.number)
  <2>1. r \in RecordType
    BY <1>1
  <2>2. [r EXCEPT !.state = "waited"] \in RecordType /\ IsOf([r EXCEPT !.state = "waited"], r.id, r.number)
    BY <2>1 DEF RecordType, IsOf
  <2>3. \A t \in Scopes : \A u \in records'[t] : u \in records[t] \/ (t = s /\ u = [r EXCEPT !.state = "waited"])
    BY <1>1, <1>3
  <2>4. records' \in [Scopes -> SUBSET RecordType]
    BY <1>1, <1>3, <2>2
  <2>5. QED
    BY <1>3, <2>2, <2>3, <2>4 DEF IsOf
<1>4. ASSUME f.id > highest[s], highest' = [highest EXCEPT ![s] = f.id],
             executed' = [executed EXCEPT ![f.number] = @ + 1],
             records' = [records EXCEPT ![s] = @ \cup
                {[id |-> f.id, number |-> f.number,
                  state |-> IF f.kind # "stop" THEN "done"
                            ELSE IF there THEN "waited" ELSE "unheard"]}]
      PROVE  /\ records' \in [Scopes -> SUBSET RecordType]
             /\ \A t \in Scopes : \A r \in records'[t] :
                   (t = s /\ IsOf(r, f.id, f.number)) \/ \E u \in records[t] : IsOf(r, u.id, u.number)
             /\ highest' \in [Scopes -> Nat] /\ highest'[s] = f.id
             /\ \A t \in Scopes : highest[t] <= highest'[t]
             /\ executed' \in [Calls -> Nat]
  <2> DEFINE new == [id |-> f.id, number |-> f.number,
                     state |-> IF f.kind # "stop" THEN "done" ELSE IF there THEN "waited" ELSE "unheard"]
  <2>1. new \in RecordType /\ IsOf(new, f.id, f.number)
    BY <1>1 DEF RecordType, IsOf
  <2>2. records' = [records EXCEPT ![s] = @ \cup {new}]
    BY <1>4
  <2> HIDE DEF new
  <2>3. records' \in [Scopes -> SUBSET RecordType]
    BY <1>1, <2>1, <2>2
  <2>4. \A t \in Scopes : \A r \in records'[t] : r \in records[t] \/ (t = s /\ r = new)
    BY <1>1, <2>2
  <2>5. /\ highest' \in [Scopes -> Nat] /\ highest'[s] = f.id
        /\ \A t \in Scopes : highest[t] <= highest'[t]
        /\ executed' \in [Calls -> Nat]
    BY <1>1, <1>4
  <2>6. QED
    BY <2>1, <2>3, <2>4, <2>5 DEF IsOf
<1>5. CASE \E r \in records[s] :
             /\ r.id = f.id
             /\ Answers(s, f, there /\ (r.number # f.number \/ r.state = "done"))
             /\ records' = [records EXCEPT ![s] =
                    IF there /\ r.number = f.number /\ r.state # "done"
                    THEN (@ \ {r}) \cup {[r EXCEPT !.state = "waited"]} ELSE @]
             /\ UNCHANGED << highest, executed >>
  <2>1. /\ records' \in [Scopes -> SUBSET RecordType] /\ UNCHANGED << highest, executed >>
        /\ \A t \in Scopes : \A u \in records'[t] : \E v \in records[t] : IsOf(u, v.id, v.number)
    BY <1>3, <1>5
  <2>2. QED
    BY <1>1, <1>2, <2>1
<1>6. CASE UNCHANGED << highest, records, executed >>
  <2>1. \A t \in Scopes : \A r \in records'[t] : r \in records[t] /\ IsOf(r, r.id, r.number)
    BY <1>6 DEF IsOf
  <2>2. QED
    BY <1>1, <1>2, <1>6, <2>1
<1>7. CASE /\ f.id > highest[s]
           /\ highest' = [highest EXCEPT ![s] = f.id]
           /\ executed' = [executed EXCEPT ![f.number] = @ + 1]
           /\ records' = [records EXCEPT ![s] = @ \cup
                {[id |-> f.id, number |-> f.number,
                  state |-> IF f.kind # "stop" THEN "done"
                            ELSE IF there THEN "waited" ELSE "unheard"]}]
  BY <1>1, <1>2, <1>4, <1>7
<1>8. QED
  BY <1>5, <1>6, <1>7 DEF Handle

\* A record is replaced by its completed form.
LEMMA CompletesMeans ==
    ASSUME Types, NEW s \in Scopes, NEW r \in records[s], StopCompletes(s, r)
    PROVE  /\ r \in RecordType
           /\ records' \in [Scopes -> SUBSET RecordType]
           /\ \A t \in Scopes : \A u \in records'[t] : \E v \in records[t] : IsOf(u, v.id, v.number)
           /\ [id |-> r.id, number |-> r.number, kind |-> "stop"] \in Message
           /\ \/ UNCHANGED inbox
              \/ /\ link.scope = s
                 /\ inbox' = Append(inbox, [id |-> r.id, number |-> r.number, kind |-> "stop"])
<1>1. records \in [Scopes -> SUBSET RecordType] /\ r \in RecordType
  BY DEF Types, DaemonOK
<1>2. records' = [records EXCEPT ![s] = (@ \ {r}) \cup {[r EXCEPT !.state = "done"]}]
  BY DEF StopCompletes
<1>3. [r EXCEPT !.state = "done"] \in RecordType /\ IsOf([r EXCEPT !.state = "done"], r.id, r.number)
  BY <1>1 DEF RecordType, IsOf
<1>4. \A t \in Scopes : \A u \in records'[t] : u \in records[t] \/ (t = s /\ u = [r EXCEPT !.state = "done"])
  BY <1>1, <1>2
<1>5. records' \in [Scopes -> SUBSET RecordType]
  BY <1>1, <1>2, <1>3
<1>6. [id |-> r.id, number |-> r.number, kind |-> "stop"] \in Message
  BY <1>1, ConstantsTyped DEF RecordType, Message
<1>7. \/ UNCHANGED inbox
      \/ link.scope = s /\ inbox' = Append(inbox, [id |-> r.id, number |-> r.number, kind |-> "stop"])
  BY DEF StopCompletes, Answers
<1>8. QED
  BY <1>1, <1>3, <1>4, <1>5, <1>6, <1>7 DEF IsOf

(***************************************************************************)
(* A connection that was resumed is of the client's own scope, and one     *)
(* that was not is of a scope the client starts over in.                   *)
(***************************************************************************)
SameScope == /\ UNCHANGED << scope, instance, nextId, strays >>
             /\ scope # 0 /\ deferred' \subseteq deferred /\ conn' = "open"

NewScope(q) == /\ scope' # scope /\ scope' \in Scopes /\ instance' \in 1 .. daemon
               /\ nextId' = IF scope = 0 THEN nextId ELSE 1
               /\ deferred' = {} /\ conn' = "open"
               /\ strays' = IF scope # 0 /\ submitting \notin {NoCall, q}
                            THEN strays \cup {submitting.number} ELSE strays

LEMMA AdoptMeans ==
    ASSUME Types, GreetedOK, Adopt
    PROVE  /\ conn = "none" /\ connector.state = "done" /\ call = NoCall /\ stops = {}
           /\ scope' = link.scope /\ instance' = connector.hello.daemon
           /\ \/ connector.hello.resumed /\ SameScope /\ deferred' = deferred
              \/ ~ connector.hello.resumed /\ NewScope(NoCall)
           /\ submitting' \in {submitting, [submitting EXCEPT !.counted = FALSE]}
           /\ connector' = NoConnector
           /\ UNCHANGED << call, stops, inbox, outbox, link, server, made, breaks,
                           executed, result, heard, alarms, written >>
<1>1. /\ conn = "none" /\ connector.state = "done" /\ call = NoCall
      /\ Install(connector.hello, connector.resume, deferred)
      /\ connector' = NoConnector
      /\ UNCHANGED << call, stops, inbox, outbox, link, server, made, breaks,
                      executed, result, heard, alarms, written >>
  BY DEF Adopt
<1>2. /\ stops = {} /\ connector.resume = scope /\ link.scope = connector.hello.scope
      /\ link.scope # 0 /\ connector.hello.daemon \in 1 .. daemon /\ (scope = 0 => deferred = {})
      /\ link.scope \in Scopes
  BY <1>1, ConstantsTyped DEF Types, ConnectionOK, GreetedOK, WiresOK, DaemonOK
<1>3. /\ scope' = link.scope /\ instance' = connector.hello.daemon /\ conn' = "open"
      /\ nextId' = IF Replaced(connector.hello, scope) THEN 1 ELSE nextId
      /\ deferred' = IF Replaced(connector.hello, scope) THEN {} ELSE deferred
  BY <1>1, <1>2, ConstantsTyped DEF Install, KeptMessages
<1>4. /\ submitting' = IF Replaced(connector.hello, scope)
                       THEN [submitting EXCEPT !.counted = FALSE] ELSE submitting
      /\ strays' = IF submitting # NoCall /\ Replaced(connector.hello, scope)
                   THEN strays \cup {submitting.number} ELSE strays
  BY <1>2 DEF Adopt
<1>5. CASE connector.hello.resumed
  <2>1. link.scope = scope /\ connector.hello.daemon = instance
    BY <1>1, <1>5 DEF GreetedOK
  <2>2. ~ Replaced(connector.hello, scope)
    BY <1>2, <1>5, <2>1 DEF Replaced, ResumedSame
  <2>3. SameScope /\ deferred' = deferred
    BY <1>2, <1>3, <1>4, <2>1, <2>2 DEF SameScope
  <2>4. QED
    BY <1>1, <1>2, <1>3, <1>4, <1>5, <2>3
<1>6. CASE ~ connector.hello.resumed
  <2>1. link.scope # scope
    BY <1>1, <1>6 DEF GreetedOK
  <2>2. Replaced(connector.hello, scope) <=> scope # 0
    BY <1>6 DEF Replaced, ResumedSame
  <2>3. NewScope(NoCall)
    BY <1>2, <1>3, <1>4, <2>1, <2>2 DEF NewScope
  <2>4. QED
    BY <1>1, <1>2, <1>3, <1>4, <1>6, <2>3
<1>7. QED
  BY <1>5, <1>6

\* resume_and_resend: the connection is gone, or resumed and q written again, or
\* of another scope and q given up.
ResumeFails == /\ conn' = "none" /\ deferred' \subseteq deferred
               /\ stops' = {} /\ call' = NoCall /\ inbox' = << >> /\ outbox' = << >>
               /\ UNCHANGED << identity, link, server, strays >>

Resends(q) == /\ SameScope /\ scope \in alive
              /\ link' = [scope |-> scope, up |-> TRUE]
              /\ inbox' = << >> /\ outbox' = << Frame(q) >>
              /\ IF q.kind = "stop"
                 THEN stops' = {[id |-> q.id, number |-> q.number]} /\ call' = NoCall
                 ELSE stops' = {} /\ call' = q

GivesUp(q) == /\ NewScope(q) /\ scope' = issued + 1 /\ instance' = daemon
              /\ link' = [scope |-> scope', up |-> TRUE]
              /\ inbox' = << >> /\ outbox' = << >>
              /\ stops' = {} /\ call' = NoCall

LEMMA ResumeMeans ==
    ASSUME Types, GreetedOK, NEW q, NEW ended, Resume(q, ended)
    PROVE  /\ \/ ResumeFails
              \/ Accepts(scope) /\ Resends(q)
              \/ Accepts(scope) /\ scope \notin alive /\ GivesUp(q)
           /\ connector = NoConnector
           /\ toReattach' \in {toReattach, "later", "due"}
           /\ submitting' = IF q = submitting THEN NoCall ELSE submitting
           /\ UNCHANGED << connector, made, breaks, executed, result, heard, alarms, written >>
<1>1. /\ connector = NoConnector
      /\ submitting' = IF q = submitting THEN NoCall ELSE submitting
      /\ UNCHANGED << connector, made, breaks, executed, result, heard, alarms, written >>
  BY DEF Resume
<1>2. /\ scope \in Scopes \cup {0} /\ (scope = 0 => deferred = {}) /\ (scope \in alive => scope # 0)
      /\ daemon \in Nat \ {0} /\ (scope \in alive => instance = daemon)
      /\ issued \in Nat /\ scope \in 0 .. issued
  BY ConstantsTyped DEF Types, IdentityOK, DaemonOK, ConnectionOK, GreetedOK
<1>3. CASE /\ conn' = "none"
           /\ deferred' = IF ended THEN KeptAtDisconnect \ WithId(deferred, q.id) ELSE KeptAtDisconnect
           /\ stops' = {} /\ call' = NoCall
           /\ inbox' = << >> /\ outbox' = << >>
           /\ UNCHANGED << identity, link, server, strays >>
           /\ toReattach' = IF q.kind = "reattach" THEN "later" ELSE toReattach
  <2>1. deferred' \subseteq deferred
    BY <1>3 DEF KeptAtDisconnect
  <2>2. ResumeFails
    BY <1>3, <2>1 DEF ResumeFails
  <2>3. QED
    BY <1>1, <1>3, <2>2
<1>4. CASE /\ Accepts(scope)
           /\ inbox' = << >>
           /\ LET hello == HelloTo(scope)
              IN  /\ Install(hello, scope, KeptAtDisconnect)
                  /\ strays' = IF submitting \notin {NoCall, q} /\ Replaced(hello, scope)
                               THEN strays \cup {submitting.number} ELSE strays
                  /\ \/ /\ MayResend(hello)
                        /\ outbox' = << Frame(q) >>
                        /\ toReattach' \in {toReattach, Enqueued}
                        /\ IF q.kind = "stop"
                           THEN stops' = {[id |-> q.id, number |-> q.number]} /\ call' = NoCall
                           ELSE stops' = {} /\ call' = q
                     \/ /\ ~ MayResend(hello)
                        /\ outbox' = << >>
                        /\ toReattach' \in IF q.kind = "reattach" THEN {"later"}
                                          ELSE {toReattach, Enqueued}
                        /\ stops' = {} /\ call' = NoCall
  <2> DEFINE hello == HelloTo(scope)
  <2>1. /\ scope \in alive \/ issued < LastScope
        /\ link' = [scope |-> hello.scope, up |-> TRUE] /\ hello.scope \in Scopes
        /\ hello.daemon = daemon /\ (hello.resumed <=> scope \in alive)
        /\ scope \in alive => hello.scope = scope
        /\ scope \notin alive => hello.scope = issued + 1
    BY <1>2, <1>4, AcceptsMeans, HelloTyped
  <2>2. /\ scope' = hello.scope /\ instance' = daemon /\ conn' = "open"
        /\ nextId' = IF Replaced(hello, scope) THEN 1 ELSE nextId
        /\ deferred' = IF Replaced(hello, scope) THEN {} ELSE KeptAtDisconnect
        /\ strays' = IF submitting \notin {NoCall, q} /\ Replaced(hello, scope)
                     THEN strays \cup {submitting.number} ELSE strays
    BY <1>4, <2>1, ConstantsTyped DEF Install, KeptMessages
  <2>3. /\ \/ /\ MayResend(hello) /\ outbox' = << Frame(q) >>
              /\ IF q.kind = "stop"
                 THEN stops' = {[id |-> q.id, number |-> q.number]} /\ call' = NoCall
                 ELSE stops' = {} /\ call' = q
           \/ ~ MayResend(hello) /\ outbox' = << >> /\ stops' = {} /\ call' = NoCall
        /\ inbox' = << >> /\ Accepts(scope)
        /\ toReattach' \in {toReattach, "later", "due"}
    BY <1>4 DEF Enqueued
  <2>4. KeptAtDisconnect \subseteq deferred
    BY DEF KeptAtDisconnect
  <2>5. MayResend(hello) <=> scope \in alive
    BY <1>2, <2>1 DEF MayResend, ResumedSame
  <2>6. Replaced(hello, scope) <=> scope \notin alive /\ scope # 0
    BY <1>2, <2>1 DEF Replaced, ResumedSame
  <2> HIDE DEF hello
  <2>7. CASE scope \in alive
    <3>1. SameScope
      BY <1>2, <2>1, <2>2, <2>4, <2>6, <2>7 DEF SameScope
    <3>2. Resends(q)
      BY <2>1, <2>3, <2>5, <2>7, <3>1 DEF Resends
    <3>3. QED
      BY <1>1, <2>3, <3>2
  <2>8. CASE scope \notin alive
    <3>1. deferred' = {}
      BY <1>2, <2>2, <2>4, <2>6, <2>8
    <3>2. NewScope(q)
      <4>1. scope' = issued + 1 /\ scope' # scope
        BY <1>2, <2>1, <2>2, <2>8
      <4>2. nextId' = IF scope = 0 THEN nextId ELSE 1
        BY <2>2, <2>6, <2>8
      <4>3. strays' = IF scope # 0 /\ submitting \notin {NoCall, q}
                      THEN strays \cup {submitting.number} ELSE strays
        BY <2>2, <2>6, <2>8
      <4>4. QED
        BY <1>2, <2>1, <2>2, <3>1, <4>1, <4>2, <4>3 DEF NewScope
    <3>3. GivesUp(q)
      BY <2>1, <2>2, <2>3, <2>5, <2>8, <3>2 DEF GivesUp
    <3>4. QED
      BY <1>1, <2>3, <2>8, <3>3
  <2>9. QED
    BY <2>7, <2>8
<1>5. QED
  BY <1>3, <1>4 DEF Resume

\* What Resume does, with the parts of the state it leaves alone.
Resumes == SubmitResumes \/ CallResumes

LEMMA ResumesMeans ==
    ASSUME Types, GreetedOK, Resumes
    PROVE  \E q \in Request \ {NoCall} :
              /\ q.kind # "stop" \/ q = submitting
              /\ q = call \/ (q = submitting /\ call = NoCall)
              /\ \/ ResumeFails
                 \/ Accepts(scope) /\ Resends(q)
                 \/ Accepts(scope) /\ scope \notin alive /\ GivesUp(q)
              /\ connector = NoConnector
              /\ toReattach' \in {toReattach, "later", "due"}
              /\ submitting' = IF q = submitting THEN NoCall ELSE submitting
              /\ UNCHANGED << connector, made, breaks, executed, result, heard, alarms, written >>
<1>1. submitting \in Request /\ call \in Request /\ call.kind # "stop"
  BY DEF Types, RequestsOK
<1>2. CASE SubmitResumes
  <2>1. submitting # NoCall /\ call = NoCall /\ Resume(submitting, submitting.kind # "stop")
    BY <1>2 DEF SubmitResumes
  <2>2. QED
    BY <1>1, <2>1, ResumeMeans
<1>3. CASE CallResumes
  <2>1. call # NoCall /\ Resume(call, TRUE)
    BY <1>3 DEF CallResumes
  <2>2. QED
    BY <1>1, <2>1, ResumeMeans
<1>4. QED
  BY <1>2, <1>3 DEF Resumes

\* The actions by what they touch.
Quiet == \/ StartConnector \/ ConnectorFails \/ BackoffExpires \/ TimesOut
         \/ SubmitFails \/ DrainLost \/ \E s \in stops : ReapExpired(s)
Begins == BeginAttach \/ BeginReattach \/ BeginStatus \/ BeginStop
Hears == TakeDeferred \/ Receive \/ Drain \/ \E s \in stops : Reap(s)
Serves == Serve \/ (\E l \in late : ServeLate(l)) \/ Break \/ Restart
          \/ \E s \in Scopes : \E r \in records[s] : StopCompletes(s, r)

LEMMA NextCases ==
    [Next]_vars <=> \/ Quiet \/ Begins \/ Submit \/ Hears \/ Serves
                    \/ ConnectorConnects \/ Adopt \/ Resumes \/ UNCHANGED vars
BY DEF Next, Quiet, Begins, Hears, Serves, Resumes

\* Something ends or is given up, or the connector starts.
LEMMA QuietMeans ==
    ASSUME Quiet
    PROVE  /\ UNCHANGED << scope, instance, nextId, inbox, outbox, link, server, made, breaks,
                           executed, result, heard, strays, written >>
           /\ call' \in {call, NoCall} /\ submitting' \in {submitting, NoCall}
           /\ stops' \subseteq stops /\ deferred' \subseteq deferred
           /\ UNCHANGED deferred \/ stops' = {} \/ conn = "none"
           /\ \/ UNCHANGED connector
              \/ connector' = NoConnector
              \/ conn' = "none" /\ connector' = [state |-> "running", resume |-> scope, hello |-> NoHello]
           /\ toReattach' \in {toReattach, "due", "later"}
           /\ conn' = conn \/ (conn' = "none" /\ call' = NoCall /\ stops' = {})
           /\ \/ UNCHANGED alarms
              \/ \E t \in stops : /\ WithId(deferred, t.id) = {}
                                  /\ alarms' = alarms \cup {[number |-> t.number, heard |-> t.number \in heard]}
<1>1. CASE StartConnector
  BY <1>1 DEF StartConnector, identity, requests, history
<1>2. CASE ConnectorFails
  BY <1>2 DEF ConnectorFails, identity, requests, history
<1>3. CASE BackoffExpires
  BY <1>3 DEF BackoffExpires, identity, requests, wires, history
<1>4. CASE TimesOut
  <2>1. deferred' = deferred
    BY <1>4 DEF TimesOut, Finished
  <2>2. toReattach' \in {toReattach, "due", "later"}
    BY <1>4 DEF TimesOut
  <2>3. QED
    BY <1>4, <2>1, <2>2 DEF TimesOut, identity, wires, history
<1>5. CASE SubmitFails
  <2>1. deferred' \subseteq deferred
    BY <1>5 DEF SubmitFails, Finished
  <2>2. QED
    BY <1>5, <2>1 DEF SubmitFails, identity, wires, history
<1>6. CASE DrainLost
  <2>1. deferred' \subseteq deferred
    BY <1>6 DEF DrainLost, KeptAtDisconnect
  <2>2. QED
    BY <1>6, <2>1 DEF DrainLost, Idle, identity, history
<1>7. CASE \E t \in stops : ReapExpired(t)
  <2>1. PICK t \in stops : ReapExpired(t)
    BY <1>7
  <2>2. stops' \subseteq stops
    BY <2>1 DEF ReapExpired
  <2>3. QED
    BY <2>1, <2>2 DEF ReapExpired, identity, wires
<1>8. QED
  BY <1>1, <1>2, <1>3, <1>4, <1>5, <1>6, <1>7 DEF Quiet

\* A call is made: written at once, or given its ID first.
LEMMA BeginsMeans ==
    ASSUME Types, Begins
    PROVE  \E q \in Request \ {NoCall} :
              /\ q.number = made + 1 /\ q.id = nextId
              /\ made' = made + 1 /\ made' \in Calls /\ nextId' = nextId + 1 /\ nextId \in CallIds
              /\ \/ /\ submitting = NoCall /\ submitting' = q
                    /\ UNCHANGED << call, outbox, written >>
                 \/ /\ q.kind # "stop" /\ conn = "open" /\ call = NoCall /\ call' = q
                    /\ Put(q) /\ Wrote(q) /\ UNCHANGED submitting
              /\ toReattach' \in {toReattach, "no"}
              /\ UNCHANGED << scope, instance, stops, deferred, conn, connector, inbox, link, server,
                              breaks, executed, result, heard, alarms, strays >>
<1>1. ASSUME NEW kind \in {"attach", "reattach"}, BeginConnected(kind), call = NoCall,
             toReattach' \in {toReattach, "no"}
      PROVE  \E q \in Request \ {NoCall} :
              /\ q.number = made + 1 /\ q.id = nextId
              /\ made' = made + 1 /\ made' \in Calls /\ nextId' = nextId + 1 /\ nextId \in CallIds
              /\ q.kind # "stop" /\ conn = "open" /\ call = NoCall /\ call' = q
              /\ Put(q) /\ Wrote(q) /\ UNCHANGED submitting
              /\ UNCHANGED << scope, instance, stops, deferred, conn, connector, inbox, link, server,
                              breaks, executed, result, heard, alarms, strays >>
  <2>1. Allocates /\ kind \in Kinds /\ call' = NewCall(kind, TRUE)
    BY <1>1 DEF BeginConnected, Kinds
  <2>2. /\ call' \in Request \ {NoCall} /\ call'.number = made + 1 /\ call'.id = nextId
        /\ call'.kind = kind
        /\ made' = made + 1 /\ made' \in Calls /\ nextId' = nextId + 1 /\ nextId \in CallIds
    <3>1. TRUE \in BOOLEAN
      OBVIOUS
    <3>2. /\ call' \in Request \ {NoCall}
          /\ call' = [kind |-> kind, number |-> made + 1, id |-> nextId, counted |-> TRUE]
          /\ made' = made + 1 /\ made' \in Calls /\ nextId' = nextId + 1 /\ nextId \in CallIds
      BY <2>1, <3>1, NewCallTyped, Zenon
    <3>3. QED
      BY <3>2
  <2>3. QED
    BY <1>1, <2>2 DEF BeginConnected
<1>2. ASSUME NEW kind \in {"status", "stop"}, NEW counted \in BOOLEAN, Allocates, Idle,
             submitting' = NewCall(kind, counted)
      PROVE  \E q \in Request \ {NoCall} :
              /\ q.number = made + 1 /\ q.id = nextId
              /\ made' = made + 1 /\ made' \in Calls /\ nextId' = nextId + 1 /\ nextId \in CallIds
              /\ submitting = NoCall /\ submitting' = q
  <2>1. kind \in Kinds
    BY DEF Kinds
  <2>2. QED
    BY <1>2, <2>1, NewCallTyped DEF Idle
<1>3. CASE BeginAttach
  BY <1>1, <1>3 DEF BeginAttach, Idle
<1>4. CASE BeginReattach
  BY <1>1, <1>4 DEF BeginReattach
<1>5. CASE BeginStatus
  BY <1>2, <1>5 DEF BeginStatus, wires, history
<1>6. CASE BeginStop
  BY <1>2, <1>6 DEF BeginStop, wires, history
<1>7. QED
  BY <1>3, <1>4, <1>5, <1>6 DEF Begins

\* A message comes to the client or leaves what was kept: it answers the call, or
\* is put aside, or is taken for a stop.
Answered(m) == /\ call # NoCall /\ m.id = call.id
               /\ result' = [result EXCEPT ![call.number] = m.number]
               /\ call' = NoCall /\ deferred' = Finished(call.id)
               /\ UNCHANGED stops

KeepsFor(m) == /\ deferred' = deferred \cup {m}
               /\ UNCHANGED << result, call, stops >>

Reaped(t, m) == /\ m.id = t.id
                /\ result' = [result EXCEPT ![t.number] = m.number]
                /\ deferred' = deferred \ {m} /\ stops' = stops \ {t}
                /\ UNCHANGED call

HeardOf(m) == /\ conn = "open" /\ inbox # << >> /\ m = Head(inbox) /\ inbox' = Tail(inbox)
              /\ heard' = heard \cup {m.number}

LEMMA HearsMeans ==
    ASSUME Hears
    PROVE  /\ \/ \E m \in deferred : UNCHANGED << inbox, heard >> /\ Answered(m)
              \/ \E m : HeardOf(m) /\ WithId(deferred, call.id) = {} /\ Answered(m)
              \/ \E m : HeardOf(m) /\ KeepsFor(m)
              \/ \E t \in stops, m \in deferred : UNCHANGED << inbox, heard >> /\ Reaped(t, m)
           /\ toReattach' \in {toReattach, "no", "due", "later"}
           /\ UNCHANGED << identity, submitting, conn, connector, outbox, link, server, made, breaks,
                           executed, alarms, strays, written >>
<1>1. CASE TakeDeferred
  <2>1. PICK m \in WithId(deferred, call.id) : Takes(call, m)
    BY <1>1 DEF TakeDeferred
  <2>2. m \in deferred /\ m.id = call.id
    BY DEF WithId
  <2>3. UNCHANGED << inbox, heard >> /\ Answered(m)
    BY <1>1, <2>1, <2>2 DEF TakeDeferred, Takes, Answered, wires
  <2>4. QED
    BY <1>1, <2>1, <2>2, <2>3 DEF TakeDeferred, Takes, wires
<1>2. CASE Receive
  <2> DEFINE m == Head(inbox)
  <2>1. HeardOf(m) /\ WithId(deferred, call.id) = {}
    BY <1>2 DEF Receive, HeardOf
  <2>2. (toReattach' \in {toReattach, "no", "due", "later"} /\ Answered(m))
        \/ (UNCHANGED toReattach /\ KeepsFor(m))
    BY <1>2 DEF Receive, Takes, Answered, KeepsFor
  <2> HIDE DEF m
  <2>3. QED
    BY <1>2, <2>1, <2>2 DEF Receive
<1>3. CASE Drain
  <2> DEFINE m == Head(inbox)
  <2>1. HeardOf(m) /\ KeepsFor(m)
    BY <1>3 DEF Drain, HeardOf, KeepsFor
  <2> HIDE DEF m
  <2>2. QED
    BY <1>3, <2>1 DEF Drain
<1>4. CASE \E t \in stops : Reap(t)
  <2>1. PICK t \in stops : Reap(t)
    BY <1>4
  <2>2. PICK m \in WithId(deferred, t.id) :
           /\ result' = [result EXCEPT ![t.number] = m.number]
           /\ deferred' = deferred \ {m}
    BY <2>1 DEF Reap
  <2>3. m \in deferred /\ Reaped(t, m) /\ UNCHANGED << inbox, heard >>
    BY <2>1, <2>2 DEF Reap, Reaped, WithId, wires
  <2>4. QED
    BY <2>1, <2>3 DEF Reap, wires
<1>5. QED
  BY <1>1, <1>2, <1>3, <1>4 DEF Hears

LEMMA EmptyHas == \A i, n : ~ Has(<< >>, i, n)
BY DEF Has

LEMMA AppendTyped ==
    ASSUME NEW queue \in Seq(Message), NEW m \in Message PROVE Append(queue, m) \in Seq(Message)
OBVIOUS

LEMMA AppendHas ==
    ASSUME NEW queue \in Seq(Message), NEW m \in Message, NEW i, NEW n, Has(Append(queue, m), i, n)
    PROVE  Has(queue, i, n) \/ IsOf(m, i, n)
<1>1. PICK k \in 1 .. Len(Append(queue, m)) : IsOf(Append(queue, m)[k], i, n)
  BY DEF Has
<1>2. Len(queue) \in Nat /\ Len(Append(queue, m)) = Len(queue) + 1
  OBVIOUS
<1>3. CASE k = Len(queue) + 1
  BY <1>1, <1>2, <1>3
<1>4. CASE k # Len(queue) + 1
  BY <1>1, <1>2, <1>4 DEF Has
<1>5. QED
  BY <1>3, <1>4

LEMMA TailHas ==
    ASSUME NEW queue \in Seq(Message), queue # << >>
    PROVE  /\ Head(queue) \in Message /\ Tail(queue) \in Seq(Message)
           /\ Has(queue, Head(queue).id, Head(queue).number)
           /\ \A i, n : Has(Tail(queue), i, n) => Has(queue, i, n)
<1>1. Len(queue) \in Nat \ {0} /\ Head(queue) = queue[1] /\ Len(Tail(queue)) = Len(queue) - 1
  OBVIOUS
<1>2. Head(queue) \in Message /\ Tail(queue) \in Seq(Message)
  OBVIOUS
<1>3. Has(queue, Head(queue).id, Head(queue).number)
  BY <1>1 DEF Has, IsOf
<1>4. ASSUME NEW i, NEW n, Has(Tail(queue), i, n) PROVE Has(queue, i, n)
  <2>1. PICK k \in 1 .. Len(Tail(queue)) : IsOf(Tail(queue)[k], i, n)
    BY <1>4 DEF Has
  <2>2. Tail(queue)[k] = queue[k + 1] /\ k + 1 \in 1 .. Len(queue)
    BY <1>1, <2>1
  <2>3. QED
    BY <2>1, <2>2 DEF Has
<1>5. QED
  BY <1>2, <1>3, <1>4

\* At the daemon nothing comes up that was not known there.
Copies == \A s \in Scopes, i \in CallIds, n \in Calls : Kept(s, i, n)' => Kept(s, i, n)

\* It may execute a frame it knows under an ID it has not seen.
Executes == \E s \in Scopes, f \in Message :
               /\ Kept(s, f.id, f.number)
               /\ f.id > highest[s] /\ highest'[s] = f.id
               /\ executed' = [executed EXCEPT ![f.number] = @ + 1]

DaemonServes ==
    /\ UNCHANGED << identity, requests, toReattach, conn, connector, issued, made, result, heard,
                    alarms, strays, written >>
    /\ link' \in [scope : {link.scope}, up : BOOLEAN] /\ (link'.up => link.up)
    /\ alive' \subseteq alive /\ (daemon' = daemon \/ (daemon' = daemon + 1 /\ alive' = {}))
    /\ breaks' \in {breaks, breaks + 1}
    /\ inbox' \in Seq(Message) /\ outbox' \in Seq(Message)
    /\ highest' \in [Scopes -> Nat] /\ records' \in [Scopes -> SUBSET RecordType]
    /\ late' \in SUBSET [scope : Scopes, frame : Message]
    /\ executed' \in [Calls -> Nat]
    /\ \A s \in Scopes : highest[s] <= highest'[s]
    /\ Copies
    /\ UNCHANGED executed \/ Executes

LEMMA ServesMeans ==
    ASSUME Types, Serves
    PROVE  DaemonServes
<1>1. /\ link \in [scope : 0 .. issued, up : BOOLEAN] /\ (link.up => link.scope # 0)
      /\ inbox \in Seq(Message) /\ outbox \in Seq(Message) /\ daemon \in Nat /\ issued \in 0 .. LastScope
      /\ highest \in [Scopes -> Nat] /\ records \in [Scopes -> SUBSET RecordType]
      /\ late \in SUBSET [scope : Scopes, frame : Message]
      /\ executed \in [Calls -> Nat]
  BY DEF Types, WiresOK, DaemonOK, HistoryOK, ConnectionOK, IdentityOK
<1>2. link = [scope |-> link.scope, up |-> link.up] /\ link.up \in BOOLEAN
      /\ link \in [scope : {link.scope}, up : BOOLEAN]
  BY <1>1
<1>3. \A s \in Scopes : highest[s] <= highest[s]
  BY <1>1
<1>4. ASSUME NEW s, NEW f \in Message, NEW there, Handle(s, f, there), Kept(s, f.id, f.number),
             there => link.scope = s, late' \subseteq late, link' = link,
             \A i, n : Has(outbox', i, n) => Has(outbox, i, n)
      PROVE  /\ inbox' \in Seq(Message)
             /\ highest' \in [Scopes -> Nat] /\ records' \in [Scopes -> SUBSET RecordType]
             /\ executed' \in [Calls -> Nat]
             /\ \A t \in Scopes : highest[t] <= highest'[t]
             /\ Copies
             /\ UNCHANGED executed \/ Executes
  <2>1. /\ s \in Scopes
        /\ UNCHANGED inbox \/ (there /\ inbox' = Append(inbox, f))
        /\ records' \in [Scopes -> SUBSET RecordType]
        /\ \A t \in Scopes : \A r \in records'[t] :
              \/ t = s /\ IsOf(r, f.id, f.number)
              \/ \E u \in records[t] : IsOf(r, u.id, u.number)
        /\ highest' \in [Scopes -> Nat]
        /\ \A t \in Scopes : highest[t] <= highest'[t]
        /\ executed' \in [Calls -> Nat]
        /\ \/ UNCHANGED executed
           \/ /\ f.id > highest[s] /\ highest'[s] = f.id
              /\ executed' = [executed EXCEPT ![f.number] = @ + 1]
    BY <1>4, HandleMeans
  <2>2. inbox' \in Seq(Message)
    <3>1. CASE UNCHANGED inbox
      BY <1>1, <3>1
    <3>2. CASE inbox' = Append(inbox, f)
      BY <1>1, <3>2, AppendTyped
    <3>3. QED
      BY <2>1, <3>1, <3>2
  <2>3. Copies
    <3>1. SUFFICES ASSUME NEW t \in Scopes, NEW i \in CallIds, NEW n \in Calls, Kept(t, i, n)'
                   PROVE  Kept(t, i, n)
      BY DEF Copies
    <3>2. CASE \E r \in records'[t] : IsOf(r, i, n)
      <4>1. PICK r \in records'[t] : IsOf(r, i, n)
        BY <3>2
      <4>2. (t = s /\ IsOf(r, f.id, f.number)) \/ \E u \in records[t] : IsOf(r, u.id, u.number)
        BY <2>1
      <4>3. (t = s /\ f.id = i /\ f.number = n) \/ \E u \in records[t] : IsOf(u, i, n)
        BY <4>1, <4>2 DEF IsOf
      <4>4. QED
        BY <1>4, <4>3 DEF Kept
    <3>3. CASE \E l \in late' : l.scope = t /\ IsOf(l.frame, i, n)
      BY <1>4, <3>3 DEF Kept
    <3>4. CASE link.scope = t /\ Has(outbox', i, n)
      BY <1>4, <3>4 DEF Kept
    <3>5. CASE link.scope = t /\ Has(inbox', i, n)
      <4>1. CASE UNCHANGED inbox
        BY <3>5, <4>1 DEF Kept
      <4>2. CASE there /\ inbox' = Append(inbox, f)
        <5>1. Has(inbox, i, n) \/ (f.id = i /\ f.number = n)
          BY <1>1, <3>5, <4>2, AppendHas DEF IsOf
        <5>2. QED
          BY <1>4, <3>5, <4>2, <5>1 DEF Kept
      <4>3. QED
        BY <2>1, <4>1, <4>2
    <3>6. QED
      BY <1>4, <3>1, <3>2, <3>3, <3>4, <3>5 DEF Kept
  <2>4. UNCHANGED executed \/ Executes
    BY <1>4, <2>1 DEF Executes
  <2>5. QED
    BY <2>1, <2>2, <2>3, <2>4
<1>5. CASE Serve
  <2>1. /\ link.up /\ outbox # << >> /\ Handle(link.scope, Head(outbox), TRUE) /\ outbox' = Tail(outbox)
        /\ UNCHANGED << identity, requests, toReattach, conn, connector, link, daemon, alive, issued,
                        late, made, breaks, result, heard, alarms, strays, written >>
    BY <1>5 DEF Serve
  <2>2. /\ Head(outbox) \in Message /\ outbox' \in Seq(Message)
        /\ Has(outbox, Head(outbox).id, Head(outbox).number)
        /\ \A i, n : Has(outbox', i, n) => Has(outbox, i, n)
    BY <1>1, <2>1, TailHas
  <2>3. Kept(link.scope, Head(outbox).id, Head(outbox).number)
    BY <2>2 DEF Kept
  <2>4. /\ inbox' \in Seq(Message)
        /\ highest' \in [Scopes -> Nat] /\ records' \in [Scopes -> SUBSET RecordType]
        /\ executed' \in [Calls -> Nat]
        /\ \A t \in Scopes : highest[t] <= highest'[t]
        /\ Copies
        /\ UNCHANGED executed \/ Executes
    BY <1>4, <2>1, <2>2, <2>3
  <2>5. QED
    BY <1>1, <1>2, <2>1, <2>2, <2>4 DEF DaemonServes
<1>6. CASE \E l \in late : ServeLate(l)
  <2>1. PICK l \in late : ServeLate(l)
    BY <1>6
  <2>2. /\ Handle(l.scope, l.frame, FALSE) /\ late' = late \ {l}
        /\ UNCHANGED << identity, requests, toReattach, conn, connector, outbox, link, daemon, alive,
                        issued, made, breaks, result, heard, alarms, strays, written >>
    BY <2>1 DEF ServeLate
  <2>3. l.frame \in Message
    BY <1>1
  <2>4. Kept(l.scope, l.frame.id, l.frame.number)
    BY <2>1 DEF Kept, IsOf
  <2>5. /\ inbox' \in Seq(Message)
        /\ highest' \in [Scopes -> Nat] /\ records' \in [Scopes -> SUBSET RecordType]
        /\ executed' \in [Calls -> Nat]
        /\ \A t \in Scopes : highest[t] <= highest'[t]
        /\ Copies
        /\ UNCHANGED executed \/ Executes
    BY <1>4, <2>2, <2>3, <2>4
  <2>6. QED
    BY <1>1, <1>2, <2>2, <2>5 DEF DaemonServes
<1>7. CASE Break
  <2>1. /\ link.up /\ breaks' = breaks + 1 /\ link' = [link EXCEPT !.up = FALSE]
        /\ late' = late \cup {[scope |-> link.scope, frame |-> f] : f \in ToSet(outbox)}
        /\ outbox' = << >>
        /\ UNCHANGED << identity, requests, toReattach, conn, connector, inbox, daemon, alive, issued,
                        highest, records, made, history >>
    BY <1>7 DEF Break
  <2>2. link.scope \in Scopes /\ link' \in [scope : {link.scope}, up : BOOLEAN] /\ ~ link'.up
    <3>1. link.scope \in 0 .. issued /\ link.scope # 0 /\ issued \in 0 .. LastScope
      BY <1>1, <2>1
    <3>2. link.scope \in Scopes
      BY <3>1, ConstantsTyped
    <3>3. QED
      BY <1>1, <2>1, <3>2
  <2>3. \A f \in ToSet(outbox) : f \in Message /\ Has(outbox, f.id, f.number)
    <3>1. SUFFICES ASSUME NEW f \in ToSet(outbox) PROVE f \in Message /\ Has(outbox, f.id, f.number)
      OBVIOUS
    <3>2. PICK k \in DOMAIN outbox : f = outbox[k]
      BY DEF ToSet
    <3>3. k \in 1 .. Len(outbox) /\ outbox[k] \in Message
      BY <1>1, <3>2
    <3>4. QED
      BY <3>2, <3>3 DEF Has, IsOf
  <2>4. late' \in SUBSET [scope : Scopes, frame : Message]
    BY <1>1, <2>1, <2>2, <2>3
  <2>5. Copies
    <3>1. SUFFICES ASSUME NEW t \in Scopes, NEW i \in CallIds, NEW n \in Calls, Kept(t, i, n)'
                   PROVE  Kept(t, i, n)
      BY DEF Copies
    <3>2. CASE \E l \in late' : l.scope = t /\ IsOf(l.frame, i, n)
      <4>1. PICK l \in late' : l.scope = t /\ IsOf(l.frame, i, n)
        BY <3>2
      <4>2. CASE l \in late
        BY <4>1, <4>2 DEF Kept
      <4>3. CASE \E f \in ToSet(outbox) : l = [scope |-> link.scope, frame |-> f]
        <5>1. PICK f \in ToSet(outbox) : l = [scope |-> link.scope, frame |-> f]
          BY <4>3
        <5>2. link.scope = t /\ f.id = i /\ f.number = n
          BY <4>1, <5>1 DEF IsOf
        <5>3. QED
          BY <2>3, <5>2 DEF Kept
      <4>4. QED
        BY <2>1, <4>1, <4>2, <4>3
    <3>3. ~ Has(outbox', i, n)
      BY <2>1, EmptyHas
    <3>4. QED
      BY <2>1, <2>2, <3>1, <3>2, <3>3 DEF Kept
  <2>6. outbox' \in Seq(Message)
    BY <2>1
  <2>7. QED
    BY <1>1, <1>3, <2>1, <2>2, <2>4, <2>5, <2>6 DEF DaemonServes, history
<1>8. CASE Restart
  <2>1. /\ breaks' = breaks + 1 /\ daemon' = daemon + 1 /\ alive' = {} /\ late' = {}
        /\ link' = [link EXCEPT !.up = FALSE] /\ outbox' = << >>
        /\ UNCHANGED << identity, requests, toReattach, conn, connector, inbox, issued, highest,
                        records, made, history >>
    BY <1>8 DEF Restart
  <2>2. link' \in [scope : {link.scope}, up : BOOLEAN] /\ ~ link'.up
    BY <1>1, <2>1
  <2>3. Copies
    BY <2>1, <2>2, EmptyHas DEF Copies, Kept
  <2>4. outbox' \in Seq(Message)
    BY <2>1
  <2>5. QED
    BY <1>1, <1>3, <2>1, <2>2, <2>3, <2>4 DEF DaemonServes, history
<1>9. CASE \E s \in Scopes : \E r \in records[s] : StopCompletes(s, r)
  <2>0. PICK s \in Scopes : \E r \in records[s] : StopCompletes(s, r)
    BY <1>9
  <2>1. PICK r \in records[s] : StopCompletes(s, r)
    BY <2>0
  <2> DEFINE m == [id |-> r.id, number |-> r.number, kind |-> "stop"]
  <2>2. /\ records' \in [Scopes -> SUBSET RecordType]
        /\ \A t \in Scopes : \A u \in records'[t] : \E v \in records[t] : IsOf(u, v.id, v.number)
        /\ m \in Message
        /\ UNCHANGED inbox \/ (link.scope = s /\ inbox' = Append(inbox, m))
    BY <2>1, CompletesMeans
  <2>3. UNCHANGED << identity, requests, toReattach, conn, connector, outbox, link, daemon, alive,
                     issued, highest, late, made, breaks, history >>
    BY <2>1 DEF StopCompletes
  <2>4. inbox' \in Seq(Message)
    BY <1>1, <2>2, AppendTyped
  <2>5. m.id = r.id /\ m.number = r.number
    OBVIOUS
  <2> HIDE DEF m
  <2>6. Copies
    <3>1. SUFFICES ASSUME NEW t \in Scopes, NEW i \in CallIds, NEW n \in Calls, Kept(t, i, n)'
                   PROVE  Kept(t, i, n)
      BY DEF Copies
    <3>2. CASE \E u \in records'[t] : IsOf(u, i, n)
      BY <2>2, <3>2 DEF Kept, IsOf
    <3>3. CASE link.scope = t /\ Has(inbox', i, n)
      <4>1. CASE UNCHANGED inbox
        BY <3>3, <4>1 DEF Kept
      <4>2. CASE link.scope = s /\ inbox' = Append(inbox, m)
        <5>1. Has(inbox, i, n) \/ IsOf(r, i, n)
          BY <1>1, <2>2, <2>5, <3>3, <4>2, AppendHas DEF IsOf
        <5>2. QED
          BY <3>3, <4>2, <5>1 DEF Kept
      <4>3. QED
        BY <2>2, <4>1, <4>2
    <3>4. QED
      BY <2>3, <3>1, <3>2, <3>3 DEF Kept
  <2>7. QED
    BY <1>1, <1>2, <1>3, <2>2, <2>3, <2>4, <2>6 DEF DaemonServes, history
<1>10. QED
  BY <1>5, <1>6, <1>7, <1>8, <1>9 DEF Serves

\* ConnectorConnects: the daemon's end of a new connection, on which nothing was
\* sent.
LEMMA ConnectsMeans ==
    ASSUME Types, ConnectorConnects
    PROVE  /\ Accepts(scope) /\ conn = "none" /\ HelloTo(scope) \in HelloType
           /\ connector' = [state |-> "done", resume |-> scope, hello |-> HelloTo(scope)]
           /\ inbox' = << >> /\ outbox' = << >>
           /\ UNCHANGED << identity, requests, toReattach, conn, made, breaks, history >>
<1>1. /\ connector.state = "running" /\ Accepts(connector.resume)
      /\ connector' = [connector EXCEPT !.state = "done", !.hello = HelloTo(connector.resume)]
      /\ inbox' = << >> /\ outbox' = << >>
      /\ UNCHANGED << identity, requests, toReattach, conn, made, breaks, history >>
  BY DEF ConnectorConnects
<1>2. connector # NoConnector
  BY <1>1, ConstantsTyped
<1>3. connector.resume = scope /\ conn = "none"
  BY <1>2 DEF Types, ConnectionOK, WiresOK
<1>4. connector' = [state |-> "done", resume |-> scope, hello |-> HelloTo(scope)]
  BY <1>1, <1>3 DEF Types, ConnectorOK
<1>5. scope \in Scopes \cup {0}
  BY ConstantsTyped DEF Types, IdentityOK, DaemonOK
<1>6. HelloTo(scope) \in HelloType
  BY <1>1, <1>3, <1>5, AcceptsMeans, HelloTyped
<1>7. QED
  BY <1>1, <1>3, <1>4, <1>6

(***************************************************************************)
(* The types are kept.                                                     *)
(***************************************************************************)
LEMMA NextIdentity == Types /\ GreetedOK /\ [Next]_vars => IdentityOK'
<1>1. SUFFICES ASSUME Types, GreetedOK, [Next]_vars PROVE IdentityOK'
  OBVIOUS
<1>2. IdentityOK /\ issued \in Nat /\ made \in Nat /\ nextId \in Nat
  BY <1>1, ConstantsTyped DEF Types, IdentityOK, DaemonOK
<1>3. CASE Quiet
  BY <1>2, <1>3, QuietMeans DEF IdentityOK, server
<1>4. CASE Begins
  <2>1. /\ made' = made + 1 /\ made' \in 0 .. LastCall /\ nextId' = nextId + 1
        /\ UNCHANGED << scope, instance, server, breaks >>
    BY <1>1, <1>4, BeginsMeans, ConstantsTyped
  <2>2. QED
    BY <1>2, <2>1 DEF IdentityOK, server
<1>5. CASE Submit
  BY <1>2, <1>5 DEF Submit, IdentityOK, identity, server
<1>6. CASE Hears
  BY <1>2, <1>6, HearsMeans DEF IdentityOK, identity, server
<1>7. CASE Serves
  BY <1>1, <1>2, <1>7, ServesMeans DEF IdentityOK, DaemonServes, identity
<1>8. CASE ConnectorConnects
  <2>1. issued' \in Nat /\ issued <= issued' /\ UNCHANGED daemon
    <3>1. scope \in Scopes \cup {0}
      BY <1>1, ConstantsTyped DEF Types, IdentityOK, DaemonOK
    <3>2. QED
      BY <1>1, <1>8, <3>1, ConnectsMeans, AcceptsMeans
  <2>2. QED
    BY <1>1, <1>2, <1>8, <2>1, ConnectsMeans DEF IdentityOK, identity
<1>9. CASE Adopt
  <2>1. /\ scope' = link.scope /\ instance' = connector.hello.daemon
        /\ nextId' \in {1, nextId} /\ UNCHANGED << server, made, breaks >>
    BY <1>1, <1>9, AdoptMeans DEF SameScope, NewScope
  <2>2. link.scope \in 0 .. issued /\ connector.hello.daemon \in 0 .. daemon
    BY <1>1, <1>9, AdoptMeans DEF Types, WiresOK, GreetedOK, IdentityOK
  <2>3. QED
    BY <1>2, <2>1, <2>2 DEF IdentityOK, server
<1>10. CASE Resumes
  <2>1. UNCHANGED << made, breaks >>
    BY <1>1, <1>10, ResumesMeans
  <2>2. CASE ResumeFails
    BY <1>2, <2>1, <2>2 DEF ResumeFails, IdentityOK, identity, server
  <2>3. ASSUME Accepts(scope), SameScope \/ \E q : GivesUp(q) PROVE IdentityOK'
    <3>1. scope \in Scopes \cup {0}
      BY <1>1, ConstantsTyped DEF Types, IdentityOK, DaemonOK
    <3>2. issued' \in Nat /\ issued <= issued' /\ UNCHANGED daemon
      BY <1>1, <2>3, <3>1, AcceptsMeans
    <3>3. CASE SameScope
      BY <1>2, <2>1, <3>2, <3>3 DEF SameScope, IdentityOK
    <3>4. CASE \E q : GivesUp(q)
      <4>1. scope' = issued + 1 /\ instance' = daemon /\ nextId' \in {1, nextId}
            /\ link' = [scope |-> scope', up |-> TRUE]
        BY <3>4 DEF GivesUp, NewScope
      <4>2. scope' \in 1 .. issued'
        BY <1>1, <2>3, <3>1, <4>1, AcceptsMeans
      <4>3. QED
        BY <1>2, <2>1, <3>2, <4>1, <4>2 DEF IdentityOK
    <3>5. QED
      BY <2>3, <3>3, <3>4
  <2>4. QED
    BY <1>1, <1>10, <2>2, <2>3, ResumesMeans DEF Resends
<1>11. CASE UNCHANGED vars
  BY <1>2, <1>11 DEF IdentityOK, vars, identity, server
<1>12. QED
  BY <1>1, <1>3, <1>4, <1>5, <1>6, <1>7, <1>8, <1>9, <1>10, <1>11, NextCases

LEMMA NextRequests == Types /\ GreetedOK /\ [Next]_vars => RequestsOK'
<1>1. SUFFICES ASSUME Types, GreetedOK, [Next]_vars PROVE RequestsOK'
  OBVIOUS
<1>2. RequestsOK /\ NoCall \in Request /\ NoCall.kind # "stop"
  BY <1>1, ConstantsTyped DEF Types
<1>3. \A q \in Request \ {NoCall} : [id |-> q.id, number |-> q.number] \in StopType
  BY RequestTyped DEF StopType
<1>4. CASE Quiet
  BY <1>2, <1>4, QuietMeans DEF RequestsOK
<1>5. CASE Begins
  BY <1>1, <1>2, <1>5, BeginsMeans DEF RequestsOK
<1>6. CASE Submit
  <2>1. submitting \in Request \ {NoCall}
    BY <1>2, <1>6 DEF Submit, RequestsOK
  <2>2. /\ submitting' = NoCall /\ UNCHANGED deferred
        /\ \/ stops' = stops \cup {[id |-> submitting.id, number |-> submitting.number]} /\ UNCHANGED call
           \/ submitting.kind # "stop" /\ call' = submitting /\ UNCHANGED stops
    BY <1>6 DEF Submit, Submitted
  <2>3. QED
    BY <1>2, <1>3, <2>1, <2>2 DEF RequestsOK
<1>7. CASE Hears
  <2>1. inbox # << >> => Head(inbox) \in Message
    BY <1>1, TailHas DEF Types, WiresOK
  <2>2. deferred' \subseteq deferred \/ (inbox # << >> /\ deferred' = deferred \cup {Head(inbox)})
    BY <1>7, HearsMeans DEF Answered, Finished, KeepsFor, HeardOf, Reaped
  <2>3. deferred' \subseteq Message
    BY <1>2, <2>1, <2>2 DEF RequestsOK
  <2>4. call' \in {call, NoCall} /\ stops' \subseteq stops /\ submitting' = submitting
    BY <1>7, HearsMeans DEF Answered, KeepsFor, Reaped
  <2>5. QED
    BY <1>2, <2>3, <2>4 DEF RequestsOK
<1>8. CASE Serves
  BY <1>1, <1>2, <1>8, ServesMeans DEF DaemonServes, RequestsOK, requests
<1>9. CASE ConnectorConnects
  BY <1>1, <1>2, <1>9, ConnectsMeans DEF RequestsOK, requests
<1>10. CASE Adopt
  <2>1. [submitting EXCEPT !.counted = FALSE] \in Request
    <3>1. submitting \in Request
      BY <1>2 DEF RequestsOK
    <3>2. CASE submitting = NoCall
      <4> DEFINE R == [kind : {"none"}, number : {0}, id : {0}, counted : {FALSE}]
      <4>1. [NoCall EXCEPT !.counted = FALSE] \in R
        BY DEF NoCall
      <4>2. \A r \in R : r = [kind |-> r.kind, number |-> r.number, id |-> r.id, counted |-> r.counted]
        OBVIOUS
      <4>3. \A r \in R : r.kind = "none" /\ r.number = 0 /\ r.id = 0 /\ r.counted = FALSE
        OBVIOUS
      <4>4. \A r \in R : r = NoCall
        BY <4>2, <4>3 DEF NoCall
      <4>5. QED
        BY <1>2, <3>2, <4>1, <4>4
    <3>3. CASE submitting # NoCall
      BY <3>1, <3>3 DEF Request
    <3>4. QED
      BY <3>2, <3>3
  <2>2. submitting' \in Request /\ UNCHANGED << call, stops >> /\ deferred' \subseteq deferred
    BY <1>1, <1>2, <1>10, <2>1, AdoptMeans DEF RequestsOK, SameScope, NewScope
  <2>3. QED
    BY <1>2, <2>2 DEF RequestsOK
<1>11. CASE Resumes
  <2>1. PICK q \in Request \ {NoCall} :
           /\ q.kind # "stop" \/ q = submitting
           /\ \/ ResumeFails
              \/ Accepts(scope) /\ Resends(q)
              \/ Accepts(scope) /\ scope \notin alive /\ GivesUp(q)
           /\ submitting' = IF q = submitting THEN NoCall ELSE submitting
    BY <1>1, <1>11, ResumesMeans
  <2>2. deferred' \subseteq deferred
    BY <2>1 DEF ResumeFails, Resends, GivesUp, SameScope, NewScope
  <2>3. /\ stops' = {} \/ stops' = {[id |-> q.id, number |-> q.number]}
        /\ call' = NoCall \/ (q.kind # "stop" /\ call' = q)
    BY <2>1 DEF ResumeFails, Resends, GivesUp
  <2>4. QED
    BY <1>2, <1>3, <2>1, <2>2, <2>3 DEF RequestsOK
<1>12. CASE UNCHANGED vars
  BY <1>2, <1>12 DEF RequestsOK, vars, requests
<1>13. QED
  BY <1>1, <1>4, <1>5, <1>6, <1>7, <1>8, <1>9, <1>10, <1>11, <1>12, NextCases

LEMMA NextConnector == Types /\ GreetedOK /\ [Next]_vars => ConnectorOK'
<1>1. SUFFICES ASSUME Types, GreetedOK, [Next]_vars PROVE ConnectorOK'
  OBVIOUS
<1> DEFINE C == [state : {"none", "running", "done"}, resume : Scopes \cup {0}, hello : HelloType]
<1>2. connector \in C /\ NoConnector \in C /\ scope \in Scopes \cup {0}
  BY <1>1, ConstantsTyped DEF Types, ConnectorOK, IdentityOK, DaemonOK
<1>3. [state |-> "running", resume |-> scope, hello |-> NoHello] \in C
  BY <1>2, ConstantsTyped
<1>4. connector' \in {connector, NoConnector, [state |-> "running", resume |-> scope, hello |-> NoHello]}
      \/ (ConnectorConnects /\ connector' = [state |-> "done", resume |-> scope, hello |-> HelloTo(scope)])
  <2>1. CASE Quiet
    BY <2>1, QuietMeans
  <2>2. CASE Begins
    BY <1>1, <2>2, BeginsMeans
  <2>3. CASE Submit
    BY <2>3 DEF Submit
  <2>4. CASE Hears
    BY <2>4, HearsMeans
  <2>5. CASE Serves
    BY <1>1, <2>5, ServesMeans DEF DaemonServes
  <2>6. CASE ConnectorConnects
    BY <1>1, <2>6, ConnectsMeans
  <2>7. CASE Adopt
    BY <1>1, <2>7, AdoptMeans
  <2>8. CASE Resumes
    BY <1>1, <2>8, ResumesMeans
  <2>9. CASE UNCHANGED vars
    BY <2>9 DEF vars, wires
  <2>10. QED
    BY <1>1, <2>1, <2>2, <2>3, <2>4, <2>5, <2>6, <2>7, <2>8, <2>9, NextCases
<1>5. ASSUME ConnectorConnects PROVE [state |-> "done", resume |-> scope, hello |-> HelloTo(scope)] \in C
  BY <1>1, <1>2, <1>5, ConnectsMeans
<1>6. QED
  BY <1>2, <1>3, <1>4, <1>5 DEF ConnectorOK

LEMMA NextWires == Types /\ GreetedOK /\ [Next]_vars => WiresOK'
<1>1. SUFFICES ASSUME Types, GreetedOK, [Next]_vars PROVE WiresOK'
  OBVIOUS
<1>2. WiresOK /\ << >> \in Seq(Message)
  BY <1>1 DEF Types
<1>3. CASE Quiet
  BY <1>2, <1>3, QuietMeans DEF WiresOK, server
<1>4. CASE Begins
  <2>1. PICK q \in Request \ {NoCall} :
           /\ UNCHANGED outbox \/ Put(q)
           /\ toReattach' \in {toReattach, "no"}
           /\ UNCHANGED << conn, inbox, link, server >>
    BY <1>1, <1>4, BeginsMeans
  <2>2. CASE UNCHANGED outbox
    BY <1>2, <2>1, <2>2 DEF WiresOK, server
  <2>3. CASE Put(q)
    <3>1. outbox' \in Seq(Message)
      BY <1>1, <2>3, PutTyped
    <3>2. QED
      BY <1>2, <2>1, <3>1 DEF WiresOK, server
  <2>4. QED
    BY <2>1, <2>2, <2>3
<1>5. CASE Submit
  <2>1. submitting \in Request /\ submitting # NoCall /\ Put(submitting)
        /\ UNCHANGED << toReattach, conn, inbox, link, server >>
    BY <1>1, <1>5 DEF Submit, Types, RequestsOK
  <2>2. outbox' \in Seq(Message)
    BY <1>1, <2>1, PutTyped
  <2>3. QED
    BY <1>2, <2>1, <2>2 DEF WiresOK, server
<1>6. CASE Hears
  <2>1. inbox # << >> => Tail(inbox) \in Seq(Message)
    BY <1>2, TailHas DEF WiresOK
  <2>2. UNCHANGED inbox \/ (inbox # << >> /\ inbox' = Tail(inbox))
    BY <1>6, HearsMeans DEF HeardOf
  <2>3. inbox' \in Seq(Message)
    BY <1>2, <2>1, <2>2 DEF WiresOK
  <2>4. QED
    BY <1>2, <1>6, <2>3, HearsMeans DEF WiresOK, server
<1>7. CASE Serves
  <2>1. /\ inbox' \in Seq(Message) /\ outbox' \in Seq(Message) /\ UNCHANGED << conn, toReattach, issued >>
        /\ link' \in [scope : {link.scope}, up : BOOLEAN]
    BY <1>1, <1>7, ServesMeans DEF DaemonServes
  <2>2. link.scope \in 0 .. issued
    BY <1>2 DEF WiresOK
  <2>3. link' \in [scope : 0 .. issued, up : BOOLEAN]
    BY <2>1, <2>2
  <2>4. QED
    BY <1>2, <2>1, <2>3 DEF WiresOK
<1>8. ASSUME Accepts(scope)
      PROVE  link' \in [scope : 0 .. issued', up : BOOLEAN]
  <2>1. scope \in Scopes \cup {0}
    BY <1>1, ConstantsTyped DEF Types, IdentityOK, DaemonOK
  <2>2. link' = [scope |-> HelloTo(scope).scope, up |-> TRUE] /\ HelloTo(scope).scope \in 1 .. issued'
    BY <1>1, <1>8, <2>1, AcceptsMeans
  <2>3. HelloTo(scope).scope \in 0 .. issued'
    BY <2>2
  <2>4. QED
    BY <2>2, <2>3
<1>9. CASE ConnectorConnects
  BY <1>1, <1>2, <1>8, <1>9, ConnectsMeans DEF WiresOK
<1>10. CASE Adopt
  <2>1. conn' = "open" /\ UNCHANGED << inbox, outbox, link, server >>
    BY <1>1, <1>10, AdoptMeans DEF SameScope, NewScope
  <2>2. toReattach' \in {"no", "due", "later"}
    BY <1>2, <1>10 DEF Adopt, WiresOK
  <2>3. QED
    BY <1>2, <2>1, <2>2 DEF WiresOK, server
<1>11. CASE Resumes
  <2>1. PICK q \in Request \ {NoCall} :
           /\ \/ ResumeFails
              \/ Accepts(scope) /\ Resends(q)
              \/ Accepts(scope) /\ scope \notin alive /\ GivesUp(q)
           /\ toReattach' \in {toReattach, "later", "due"}
    BY <1>1, <1>11, ResumesMeans
  <2>2. << Frame(q) >> \in Seq(Message)
    BY RequestTyped
  <2>3. CASE ResumeFails
    BY <1>2, <2>1, <2>3 DEF ResumeFails, WiresOK, server
  <2>4. CASE Accepts(scope) /\ Resends(q)
    <3>1. conn' = "open" /\ inbox' = << >> /\ outbox' = << Frame(q) >>
      BY <2>4 DEF Resends, SameScope
    <3>2. QED
      BY <1>2, <1>8, <2>1, <2>2, <2>4, <3>1 DEF WiresOK
  <2>5. CASE Accepts(scope) /\ GivesUp(q)
    <3>1. conn' = "open" /\ inbox' = << >> /\ outbox' = << >>
      BY <2>5 DEF GivesUp, NewScope
    <3>2. QED
      BY <1>2, <1>8, <2>1, <2>5, <3>1 DEF WiresOK
  <2>6. QED
    BY <2>1, <2>3, <2>4, <2>5
<1>12. CASE UNCHANGED vars
  BY <1>2, <1>12 DEF WiresOK, vars, wires, server
<1>13. QED
  BY <1>1, <1>3, <1>4, <1>5, <1>6, <1>7, <1>9, <1>10, <1>11, <1>12, NextCases

LEMMA NextDaemon == Types /\ GreetedOK /\ [Next]_vars => DaemonOK'
<1>1. SUFFICES ASSUME Types, GreetedOK, [Next]_vars PROVE DaemonOK'
  OBVIOUS
<1>2. DaemonOK /\ scope \in Scopes \cup {0}
  BY <1>1, ConstantsTyped DEF Types, IdentityOK, DaemonOK
<1>3. UNCHANGED server => DaemonOK'
  BY <1>2 DEF DaemonOK, server
<1>4. Accepts(scope) => DaemonOK'
  BY <1>1, <1>2, AcceptsMeans DEF DaemonOK
<1>5. Quiet \/ Hears \/ Submit => UNCHANGED server
  BY QuietMeans, HearsMeans DEF Submit
<1>6. Begins => UNCHANGED server
  BY <1>1, BeginsMeans
<1>7. Adopt => UNCHANGED server
  BY <1>1, AdoptMeans
<1>8. ConnectorConnects => Accepts(scope)
  BY <1>1, ConnectsMeans
<1>9. Resumes => UNCHANGED server \/ Accepts(scope)
  BY <1>1, ResumesMeans DEF ResumeFails
<1>10. UNCHANGED vars => UNCHANGED server
  BY DEF vars
<1>11. CASE Serves
  <2>1. /\ UNCHANGED issued /\ alive' \subseteq alive
        /\ highest' \in [Scopes -> Nat] /\ records' \in [Scopes -> SUBSET RecordType]
        /\ late' \in SUBSET [scope : Scopes, frame : Message]
    BY <1>1, <1>11, ServesMeans DEF DaemonServes
  <2>2. QED
    BY <1>2, <2>1 DEF DaemonOK
<1>12. QED
  BY <1>1, <1>3, <1>4, <1>5, <1>6, <1>7, <1>8, <1>9, <1>10, <1>11, NextCases

LEMMA NextHistory == Types /\ GreetedOK /\ [Next]_vars => HistoryOK'
<1>1. SUFFICES ASSUME Types, GreetedOK, [Next]_vars PROVE HistoryOK'
  OBVIOUS
<1>2. /\ HistoryOK /\ submitting \in Request /\ call \in Request /\ stops \in SUBSET StopType
      /\ deferred \in SUBSET Message /\ inbox \in Seq(Message)
  BY <1>1 DEF Types, RequestsOK, WiresOK
<1>3. \A t \in stops : t.number \in Calls
  BY <1>2 DEF StopType
<1>4. CASE Quiet
  <2>1. alarms' \in SUBSET [number : Calls, heard : BOOLEAN]
    <3>1. CASE UNCHANGED alarms
      BY <1>2, <3>1 DEF HistoryOK
    <3>2. CASE \E t \in stops : alarms' = alarms \cup {[number |-> t.number, heard |-> t.number \in heard]}
      <4>1. PICK t \in stops : alarms' = alarms \cup {[number |-> t.number, heard |-> t.number \in heard]}
        BY <3>2
      <4>2. t.number \in Calls /\ (t.number \in heard) \in BOOLEAN
        BY <1>3
      <4>3. [number |-> t.number, heard |-> t.number \in heard] \in [number : Calls, heard : BOOLEAN]
        BY <4>2
      <4>4. QED
        BY <1>2, <4>1, <4>3 DEF HistoryOK
    <3>3. QED
      BY <1>4, <3>1, <3>2, QuietMeans
  <2>2. QED
    BY <1>2, <1>4, <2>1, QuietMeans DEF HistoryOK
<1>5. CASE Begins
  <2>1. PICK q \in Request \ {NoCall} :
           /\ UNCHANGED written \/ (conn = "open" /\ Wrote(q))
           /\ UNCHANGED << executed, result, heard, alarms, strays >>
    BY <1>1, <1>5, BeginsMeans
  <2>2. conn = "open" => scope # 0
    BY <1>1 DEF Types, ConnectionOK
  <2>3. CASE UNCHANGED written
    BY <1>2, <2>1, <2>3 DEF HistoryOK
  <2>4. CASE conn = "open" /\ Wrote(q)
    <3>1. written' \in [Scopes -> [top : Nat, back : BOOLEAN]]
      BY <1>1, <2>2, <2>4, WroteTyped
    <3>2. QED
      BY <1>2, <2>1, <3>1 DEF HistoryOK
  <2>5. QED
    BY <2>1, <2>3, <2>4
<1>6. CASE Submit
  <2>1. /\ submitting # NoCall /\ conn = "open" /\ Wrote(submitting)
        /\ UNCHANGED << executed, result, heard, alarms, strays >>
    BY <1>6 DEF Submit
  <2>2. scope # 0
    BY <1>1, <2>1 DEF Types, ConnectionOK
  <2>3. written' \in [Scopes -> [top : Nat, back : BOOLEAN]]
    BY <1>1, <1>2, <2>1, <2>2, WroteTyped
  <2>4. QED
    BY <1>2, <2>1, <2>3 DEF HistoryOK
<1>7. CASE Hears
  <2>1. inbox # << >> => Head(inbox) \in Message
    BY <1>2, TailHas
  <2>2. UNCHANGED heard \/ (inbox # << >> /\ heard' = heard \cup {Head(inbox).number})
    BY <1>7, HearsMeans DEF HeardOf
  <2>3. heard' \in SUBSET Calls
    BY <1>2, <2>1, <2>2, MessageTyped DEF HistoryOK
  <2>4. UNCHANGED result
        \/ \E m \in deferred \cup {Head(inbox)}, n \in Calls \cup {0} :
              (m \in deferred \/ inbox # << >>) /\ result' = [result EXCEPT ![n] = m.number]
    <3>1. call.number \in Calls \cup {0}
      BY <1>2, ConstantsTyped DEF Request
    <3>2. QED
      BY <1>3, <1>7, <3>1, HearsMeans DEF HeardOf, Answered, KeepsFor, Reaped
  <2>5. result' \in [Calls -> Nat]
    <3>1. CASE UNCHANGED result
      BY <1>2, <3>1 DEF HistoryOK
    <3>2. ASSUME NEW m \in Message, NEW n, result' = [result EXCEPT ![n] = m.number]
          PROVE  result' \in [Calls -> Nat]
      <4>1. m.number \in Nat
        BY MessageTyped, ConstantsTyped
      <4>2. QED
        BY <1>2, <3>2, <4>1 DEF HistoryOK
    <3>3. \A m \in deferred \cup {Head(inbox)} : (m \in deferred \/ inbox # << >>) => m \in Message
      BY <1>2, <2>1
    <3>4. QED
      BY <2>4, <3>1, <3>2, <3>3
  <2>6. QED
    BY <1>2, <1>7, <2>3, <2>5, HearsMeans DEF HistoryOK
<1>8. CASE Serves
  BY <1>1, <1>2, <1>8, ServesMeans DEF DaemonServes, HistoryOK
<1>9. CASE ConnectorConnects
  BY <1>1, <1>2, <1>9, ConnectsMeans DEF HistoryOK, history
<1>10. ASSUME strays' = strays \/ (submitting # NoCall /\ strays' = strays \cup {submitting.number}),
              UNCHANGED << executed, result, heard, alarms, written >>
       PROVE  HistoryOK'
  <2>1. submitting # NoCall => submitting.number \in Calls
    BY <1>2, RequestTyped
  <2>2. QED
    BY <1>2, <1>10, <2>1 DEF HistoryOK
<1>11. CASE Adopt
  BY <1>1, <1>10, <1>11, AdoptMeans DEF SameScope, NewScope
<1>12. CASE Resumes
  BY <1>1, <1>10, <1>12, ResumesMeans DEF ResumeFails, Resends, GivesUp, SameScope, NewScope
<1>13. CASE UNCHANGED vars
  BY <1>2, <1>13 DEF HistoryOK, vars, history
<1>14. QED
  BY <1>1, <1>4, <1>5, <1>6, <1>7, <1>8, <1>9, <1>11, <1>12, <1>13, NextCases

LEMMA NextConnection == Types /\ GreetedOK /\ [Next]_vars => ConnectionOK' /\ GreetedOK'
<1>1. SUFFICES ASSUME Types, GreetedOK, [Next]_vars PROVE ConnectionOK' /\ GreetedOK'
  OBVIOUS
<1>2. /\ ConnectionOK /\ scope \in Scopes \cup {0} /\ 0 \notin Scopes /\ conn \in {"none", "open"}
      /\ scope \in 0 .. issued /\ issued \in Nat /\ daemon \in Nat \ {0} /\ connector \in [state : {"none", "running", "done"}, resume : Scopes \cup {0}, hello : HelloType]
      /\ alive \subseteq 1 .. issued
  BY <1>1, ConstantsTyped DEF Types, IdentityOK, DaemonOK, WiresOK, ConnectorOK
<1>3. NoConnector.state = "none"
  BY ConstantsTyped
<1>4. CASE Quiet
  <2>1. /\ UNCHANGED << scope, instance, link, daemon, alive >>
        /\ call' \in {call, NoCall} /\ stops' \subseteq stops /\ deferred' \subseteq deferred
        /\ conn' = conn \/ (conn' = "none" /\ call' = NoCall /\ stops' = {})
        /\ \/ UNCHANGED connector
           \/ connector' = NoConnector
           \/ conn' = "none" /\ connector' = [state |-> "running", resume |-> scope, hello |-> NoHello]
    BY <1>4, QuietMeans DEF server
  <2>2. ConnectionOK'
    BY <1>2, <2>1 DEF ConnectionOK
  <2>3. GreetedOK'
    BY <1>1, <1>3, <2>1 DEF GreetedOK
  <2>4. QED
    BY <2>2, <2>3
<1>5. CASE Begins
  <2>1. /\ UNCHANGED << scope, instance, stops, deferred, conn, connector, link, daemon, alive >>
        /\ UNCHANGED call \/ conn = "open"
    BY <1>1, <1>5, BeginsMeans DEF server
  <2>2. QED
    BY <1>1, <1>2, <2>1 DEF ConnectionOK, GreetedOK
<1>6. CASE Submit
  <2>1. /\ UNCHANGED << scope, instance, deferred, conn, connector, link, daemon, alive >>
        /\ conn = "open"
    BY <1>6 DEF Submit, identity, server
  <2>2. QED
    BY <1>1, <1>2, <2>1 DEF ConnectionOK, GreetedOK
<1>7. CASE Hears
  <2>1. /\ UNCHANGED << scope, instance, conn, connector, link, daemon, alive >>
        /\ call' \in {call, NoCall} /\ stops' \subseteq stops
    BY <1>7, HearsMeans DEF identity, server, Answered, KeepsFor, Reaped
  <2>2. deferred' \subseteq deferred \/ conn = "open"
    BY <1>7, HearsMeans DEF Answered, Finished, KeepsFor, HeardOf, Reaped
  <2>3. QED
    BY <1>1, <1>2, <2>1, <2>2 DEF ConnectionOK, GreetedOK
<1>8. CASE Serves
  <2>1. /\ UNCHANGED << scope, instance, call, stops, deferred, conn, connector >>
        /\ link'.scope = link.scope /\ (link'.up => link.up)
        /\ alive' \subseteq alive /\ (daemon' = daemon \/ (daemon' = daemon + 1 /\ alive' = {}))
    BY <1>1, <1>8, ServesMeans DEF DaemonServes, identity, requests
  <2>2. ConnectionOK'
    BY <1>2, <2>1 DEF ConnectionOK
  <2>3. GreetedOK'
    <3>1. CASE daemon' = daemon
      BY <1>1, <2>1, <3>1 DEF GreetedOK
    <3>2. CASE daemon' = daemon + 1 /\ alive' = {}
      <4>1. 1 .. daemon \subseteq 1 .. daemon'
        BY <1>2, <3>2
      <4>2. scope \notin alive' /\ link'.scope \notin alive'
        BY <3>2
      <4>3. QED
        BY <1>1, <2>1, <4>1, <4>2 DEF GreetedOK
    <3>3. QED
      BY <2>1, <3>1, <3>2
  <2>4. QED
    BY <2>2, <2>3
<1>9. ASSUME Accepts(scope)
      PROVE  /\ UNCHANGED daemon /\ link'.scope # 0
             /\ link' = [scope |-> HelloTo(scope).scope, up |-> TRUE]
             /\ HelloTo(scope).daemon = daemon /\ (HelloTo(scope).resumed <=> scope \in alive)
             /\ scope \in alive => HelloTo(scope).scope = scope /\ alive' = alive /\ scope # 0
             /\ scope \notin alive => /\ HelloTo(scope).scope = issued + 1 /\ alive' = alive \cup {issued + 1}
                                      /\ scope # issued + 1
  <2>1. scope # issued + 1 /\ (scope \in alive => scope # 0)
    BY <1>2
  <2>2. QED
    BY <1>1, <1>2, <1>9, <2>1, AcceptsMeans, HelloTyped
<1>10. CASE ConnectorConnects
  <2>1. /\ Accepts(scope) /\ conn = "none" /\ UNCHANGED << scope, instance, call, stops, deferred, conn >>
        /\ connector' = [state |-> "done", resume |-> scope, hello |-> HelloTo(scope)]
    BY <1>1, <1>10, ConnectsMeans DEF identity, requests
  <2>2. ConnectionOK'
    BY <1>2, <1>9, <2>1 DEF ConnectionOK
  <2>3. /\ connector'.hello = HelloTo(scope) /\ link'.scope = HelloTo(scope).scope
        /\ link'.scope # 0
    BY <1>9, <2>1
  <2>4. GreetedOK'
    BY <1>1, <1>2, <1>9, <2>1, <2>3 DEF GreetedOK
  <2>5. QED
    BY <2>2, <2>4
<1>11. CASE Adopt
  <2>1. /\ conn = "none" /\ connector.state = "done" /\ call' = NoCall /\ stops' = {}
        /\ scope' = link.scope /\ instance' = connector.hello.daemon /\ conn' = "open"
        /\ deferred' \subseteq deferred /\ connector' = NoConnector
        /\ UNCHANGED << link, daemon, alive >>
    BY <1>1, <1>11, AdoptMeans DEF SameScope, NewScope, server
  <2>2. link.scope # 0
    BY <1>1, <2>1 DEF GreetedOK
  <2>3. ConnectionOK'
    BY <1>2, <2>1, <2>2 DEF ConnectionOK
  <2>4. GreetedOK'
    BY <1>1, <1>3, <2>1 DEF GreetedOK
  <2>5. QED
    BY <2>3, <2>4
<1>12. CASE Resumes
  <2>1. PICK q \in Request \ {NoCall} :
           /\ \/ ResumeFails
              \/ Accepts(scope) /\ Resends(q)
              \/ Accepts(scope) /\ scope \notin alive /\ GivesUp(q)
           /\ connector = NoConnector /\ UNCHANGED connector
    BY <1>1, <1>12, ResumesMeans
  <2>2. CASE ResumeFails
    <3>1. /\ UNCHANGED << scope, instance, link, daemon, alive >> /\ deferred' \subseteq deferred
          /\ conn' = "none" /\ call' = NoCall /\ stops' = {}
      BY <2>2 DEF ResumeFails, identity, server
    <3>2. QED
      BY <1>1, <1>2, <1>3, <2>1, <3>1 DEF ConnectionOK, GreetedOK
  <2>3. CASE Accepts(scope) /\ Resends(q)
    <3>1. /\ UNCHANGED << scope, instance >> /\ scope # 0 /\ conn' = "open"
          /\ link' = [scope |-> scope, up |-> TRUE] /\ scope \in alive
      BY <2>3 DEF Resends, SameScope
    <3>2. QED
      BY <1>1, <1>2, <1>3, <1>9, <2>1, <2>3, <3>1 DEF ConnectionOK, GreetedOK
  <2>4. CASE Accepts(scope) /\ GivesUp(q)
    <3>1. /\ scope' = issued + 1 /\ instance' = daemon /\ conn' = "open" /\ deferred' = {}
          /\ link' = [scope |-> scope', up |-> TRUE]
      BY <2>4 DEF GivesUp, NewScope
    <3>2. ConnectionOK'
      BY <1>2, <1>3, <2>1, <3>1 DEF ConnectionOK
    <3>3. GreetedOK'
      BY <1>3, <1>9, <2>1, <2>4, <3>1 DEF GreetedOK
    <3>4. QED
      BY <3>2, <3>3
  <2>5. QED
    BY <2>1, <2>2, <2>3, <2>4
<1>13. CASE UNCHANGED vars
  BY <1>1, <1>2, <1>13 DEF ConnectionOK, GreetedOK, vars, identity, requests, wires, server
<1>14. QED
  BY <1>1, <1>4, <1>5, <1>6, <1>7, <1>8, <1>10, <1>11, <1>12, <1>13, NextCases

TypeInv == Types /\ GreetedOK

LEMMA InitTypeInv == Init => TypeInv
<1>1. Init => GreetedOK
  BY ConstantsTyped DEF Init, GreetedOK
<1>2. QED
  BY <1>1, InitTypes DEF TypeInv

LEMMA NextTypeInv == TypeInv /\ [Next]_vars => TypeInv'
BY NextIdentity, NextRequests, NextConnector, NextWires, NextDaemon, NextHistory, NextConnection
   DEF TypeInv, Types

LEMMA TypeParts == Types => TypeOK
<1>1. SUFFICES ASSUME Types PROVE TypeOK
  OBVIOUS
<1>2. /\ scope \in Scopes \cup {0} /\ nextId \in 1 .. LastCall + 1 /\ alive \subseteq Scopes
  BY <1>1, ConstantsTyped DEF Types, IdentityOK, DaemonOK
<1>3. \A s \in Scopes : records[s] \subseteq RecordType
  BY <1>1 DEF Types, DaemonOK
<1>4. QED
  BY <1>1, <1>2, <1>3 DEF Types, TypeOK, IdentityOK, RequestsOK, ConnectorOK, WiresOK, DaemonOK,
                          StopType, RecordType, CallIds

\* Every variable keeps its type.  In particular next_request_id stays in the
\* range of a request ID, never zero, whatever scope it starts over in.
THEOREM TypeCorrect == Spec => []TypeOK
<1>1. Spec => []TypeInv
  BY InitTypeInv, NextTypeInv, PTL DEF Spec
<1>2. TypeInv => TypeOK
  BY TypeParts DEF TypeInv
<1>3. QED
  BY <1>1, <1>2, PTL


(***************************************************************************)
(* What a step may bring up: nothing but what was known, and one call that *)
(* was not.                                                                *)
(***************************************************************************)
News(q) == \A s \in Scopes, i \in CallIds, n \in Calls :
              Known(s, i, n)' => Known(s, i, n) \/ (s = scope' /\ IsOf(q, i, n))

LEMMA KeptSame ==
    ASSUME UNCHANGED << records, late, link, inbox, outbox >>
    PROVE  \A s, i, n : Kept(s, i, n)' <=> Kept(s, i, n)
BY DEF Kept, Has, IsOf

LEMMA OwnFewer ==
    ASSUME call' \in {call, NoCall}, stops' \subseteq stops, deferred' \subseteq deferred
    PROVE  \A i \in CallIds, n \in Calls : Own(i, n)' => Own(i, n)
<1>1. NoCall.id = 0 /\ 0 \notin CallIds
  BY ConstantsTyped
<1>2. QED
  BY <1>1 DEF Own, IsOf

LEMMA QuietNews == Quiet => News(NoCall)
<1>1. SUFFICES ASSUME Quiet PROVE News(NoCall)
  OBVIOUS
<1>2. /\ UNCHANGED << scope, inbox, outbox, link, server >>
      /\ call' \in {call, NoCall} /\ stops' \subseteq stops /\ deferred' \subseteq deferred
  BY <1>1, QuietMeans
<1>3. UNCHANGED << records, late, link, inbox, outbox >>
  BY <1>2 DEF server
<1>4. /\ \A s, i, n : Kept(s, i, n)' <=> Kept(s, i, n)
      /\ \A i \in CallIds, n \in Calls : Own(i, n)' => Own(i, n)
  BY <1>2, <1>3, KeptSame, OwnFewer
<1>5. QED
  BY <1>2, <1>4 DEF News, Known

\* A request that is written, and waited for or not.
LEMMA PutNews ==
    ASSUME Types, NEW q \in Request, q # NoCall, Put(q), conn = "open",
           UNCHANGED << scope, records, late, link, inbox, deferred >>,
           \/ UNCHANGED stops /\ call' = q
           \/ UNCHANGED call /\ stops' = stops \cup {[id |-> q.id, number |-> q.number]}
    PROVE  News(q)
<1>1. link.scope = scope /\ outbox \in Seq(Message) /\ Frame(q) \in Message
  BY RequestTyped DEF Types, ConnectionOK, WiresOK
<1>2. ASSUME NEW i \in CallIds, NEW n \in Calls, Has(outbox, i, n)'
      PROVE  Has(outbox, i, n) \/ IsOf(q, i, n)
  <2>1. CASE link.up
    <3>1. outbox' = Append(outbox, Frame(q))
      BY <2>1 DEF Put
    <3>2. Has(Append(outbox, Frame(q)), i, n)
      BY <1>2, <3>1 DEF Has
    <3>3. Has(outbox, i, n) \/ IsOf(Frame(q), i, n)
      BY <1>1, <3>2, AppendHas
    <3>4. QED
      BY <3>3 DEF Frame, IsOf
  <2>2. CASE ~ link.up
    <3>1. outbox' = outbox
      BY <2>2 DEF Put
    <3>2. QED
      BY <1>2, <3>1 DEF Has
  <2>3. QED
    BY <2>1, <2>2
<1>3. ASSUME NEW s \in Scopes, NEW i \in CallIds, NEW n \in Calls, Kept(s, i, n)'
      PROVE  Kept(s, i, n) \/ (s = scope' /\ IsOf(q, i, n))
  <2>1. Has(inbox, i, n)' <=> Has(inbox, i, n)
    BY DEF Has
  <2>2. QED
    BY <1>1, <1>2, <1>3, <2>1 DEF Kept
<1>4. ASSUME NEW i \in CallIds, NEW n \in Calls, Own(i, n)'
      PROVE  Own(i, n) \/ IsOf(q, i, n)
  BY <1>4 DEF Own, IsOf
<1>5. QED
  BY <1>3, <1>4 DEF News, Known

LEMMA HearsNews == Types /\ Hears => News(NoCall)
<1>1. SUFFICES ASSUME Types, Hears PROVE News(NoCall)
  OBVIOUS
<1>2. UNCHANGED << scope, outbox, link, records, late, conn >>
  BY <1>1, HearsMeans DEF identity, server
<1>3. \A i, n : Has(outbox, i, n)' <=> Has(outbox, i, n)
  BY <1>2 DEF Has
<1>4. /\ NoCall.id = 0 /\ 0 \notin CallIds
      /\ inbox \in Seq(Message)
      /\ conn = "open" => link.scope = scope
  BY <1>1, ConstantsTyped DEF Types, WiresOK, ConnectionOK
<1>5. CASE UNCHANGED inbox /\ deferred' \subseteq deferred /\ call' \in {call, NoCall} /\ stops' \subseteq stops
  <2>1. /\ \A s, i, n : Kept(s, i, n)' <=> Kept(s, i, n)
        /\ \A i \in CallIds, n \in Calls : Own(i, n)' => Own(i, n)
    BY <1>2, <1>5, KeptSame, OwnFewer
  <2>2. QED
    BY <1>2, <2>1 DEF News, Known
<1>6. ASSUME NEW m, HeardOf(m), deferred' \subseteq deferred \cup {m}, call' \in {call, NoCall}, UNCHANGED stops
      PROVE  News(NoCall)
  <2>1. /\ conn = "open" /\ inbox # << >> /\ m = Head(inbox) /\ inbox' = Tail(inbox)
    BY <1>6 DEF HeardOf
  <2>2. /\ Has(inbox, m.id, m.number)
        /\ \A i, n : Has(Tail(inbox), i, n) => Has(inbox, i, n)
    BY <1>4, <2>1, TailHas
  <2>3. \A i, n : Has(inbox, i, n)' => Has(inbox, i, n)
    BY <2>1, <2>2 DEF Has
  <2>4. \A s \in Scopes, i \in CallIds, n \in Calls : Kept(s, i, n)' => Kept(s, i, n)
    BY <1>2, <1>3, <2>3 DEF Kept
  <2>5. \A i \in CallIds, n \in Calls : Own(i, n)' => Own(i, n) \/ IsOf(m, i, n)
    BY <1>4, <1>6 DEF Own, IsOf
  <2>6. \A i, n : IsOf(m, i, n) => Kept(scope, i, n)
    BY <1>4, <2>1, <2>2 DEF Kept, IsOf
  <2>7. QED
    BY <1>2, <2>4, <2>5, <2>6 DEF News, Known
<1>7. \/ \E m \in deferred : UNCHANGED << inbox, heard >> /\ Answered(m)
      \/ \E m : HeardOf(m) /\ WithId(deferred, call.id) = {} /\ Answered(m)
      \/ \E m : HeardOf(m) /\ KeepsFor(m)
      \/ \E t \in stops, m \in deferred : UNCHANGED << inbox, heard >> /\ Reaped(t, m)
  BY <1>1, HearsMeans
<1>8. \A m : Answered(m) => deferred' \subseteq deferred /\ call' \in {call, NoCall} /\ UNCHANGED stops
  BY DEF Answered, Finished
<1>9. CASE \E m \in deferred : UNCHANGED << inbox, heard >> /\ Answered(m)
  BY <1>5, <1>8, <1>9
<1>10. CASE \E m : HeardOf(m) /\ Answered(m)
  BY <1>6, <1>8, <1>10
<1>11. CASE \E m : HeardOf(m) /\ KeepsFor(m)
  <2>1. \A m : KeepsFor(m) => deferred' \subseteq deferred \cup {m} /\ call' \in {call, NoCall} /\ UNCHANGED stops
    BY DEF KeepsFor
  <2>2. QED
    BY <1>6, <1>11, <2>1
<1>12. CASE \E t \in stops, m \in deferred : UNCHANGED << inbox, heard >> /\ Reaped(t, m)
  <2>1. \A t, m : Reaped(t, m) => deferred' \subseteq deferred /\ call' \in {call, NoCall} /\ stops' \subseteq stops
    BY DEF Reaped
  <2>2. QED
    BY <1>5, <1>12, <2>1
<1>13. QED
  BY <1>7, <1>9, <1>10, <1>11, <1>12

LEMMA ServesNews == Types /\ Serves => News(NoCall)
<1>1. SUFFICES ASSUME Types, Serves PROVE News(NoCall)
  OBVIOUS
<1>2. UNCHANGED << scope, call, stops, deferred >> /\ Copies
  BY <1>1, ServesMeans DEF DaemonServes, identity, requests
<1>3. \A i, n : Own(i, n)' <=> Own(i, n)
  BY <1>2 DEF Own, IsOf
<1>4. QED
  BY <1>2, <1>3 DEF News, Known, Copies

\* A daemon that accepts a client, whose wires are empty then.
LEMMA AcceptsKeeps ==
    ASSUME Types, NEW resume \in Scopes \cup {0}, Accepts(resume), inbox' = << >>
    PROVE  /\ outbox' = << >> => Copies
           /\ \A q : outbox' = << Frame(q) >> =>
                \A s \in Scopes, i \in CallIds, n \in Calls :
                   Kept(s, i, n)' => Kept(s, i, n) \/ (s = link'.scope /\ IsOf(q, i, n))
<1>1. /\ UNCHANGED late
      /\ \A s \in Scopes : \A i, n :
            (\E r \in records'[s] : IsOf(r, i, n)) => \E r \in records[s] : IsOf(r, i, n)
  BY AcceptsMeans DEF IsOf
<1>2. \A i, n : ~ Has(inbox, i, n)'
  BY EmptyHas DEF Has
<1>3. ASSUME outbox' = << >> PROVE Copies
  <2>1. \A i, n : ~ Has(outbox, i, n)'
    BY <1>3, EmptyHas DEF Has
  <2>2. QED
    BY <1>1, <1>2, <2>1 DEF Copies, Kept
<1>4. ASSUME NEW q, outbox' = << Frame(q) >>, NEW s \in Scopes, NEW i \in CallIds, NEW n \in Calls, Kept(s, i, n)'
      PROVE  Kept(s, i, n) \/ (s = link'.scope /\ IsOf(q, i, n))
  <2>1. Has(outbox, i, n)' => IsOf(q, i, n)
    <3>1. ASSUME NEW k \in 1 .. Len(outbox'), IsOf(outbox'[k], i, n) PROVE IsOf(q, i, n)
      <4>1. outbox'[k] = Frame(q)
        BY <1>4, <3>1
      <4>2. QED
        BY <3>1, <4>1 DEF IsOf, Frame
    <3>2. QED
      BY <3>1 DEF Has
  <2>2. QED
    BY <1>1, <1>2, <1>4, <2>1 DEF Kept
<1>5. QED
  BY <1>3, <1>4

(***************************************************************************)
(* What the accounting keeps, in a step of the client's scope and in one   *)
(* that replaces it.                                                       *)
(***************************************************************************)
\* q is unheard of, and has its ID alone.
Unheard(q) ==
    q.number \in Calls =>
        /\ q.number <= made' /\ executed[q.number] = 0
        /\ \A s \in Scopes, i \in CallIds : ~ Known(s, i, q.number)
        /\ q.number \notin strays =>
             /\ q.id < nextId'
             /\ \A n \in Calls : scope # 0 /\ Known(scope, q.id, n) => n \in strays

SameBooks == scope' = scope /\ strays' = strays /\ made' \in Nat /\ made <= made'
             /\ nextId' \in Nat /\ nextId <= nextId'

LEMMA NewsSingle ==
    ASSUME Types, Single, NEW q, News(q), Unheard(q), made' \in Nat, made <= made'
    PROVE  Single'
<1>1. SUFFICES ASSUME NEW s \in Scopes, NEW t \in Scopes, NEW i \in CallIds, NEW j \in CallIds, NEW n \in Calls,
                      Known(s, i, n)', Known(t, j, n)'
               PROVE  s = t /\ i = j /\ n <= made'
  BY DEF Single
<1>2. /\ Known(s, i, n) \/ (s = scope' /\ IsOf(q, i, n))
      /\ Known(t, j, n) \/ (t = scope' /\ IsOf(q, j, n))
  BY <1>1 DEF News
<1>3. n \in Nat /\ made \in Nat
  BY ConstantsTyped DEF Types, IdentityOK
<1>4. CASE q.number = n
  <2>1. /\ n <= made'
        /\ \A u \in Scopes, k \in CallIds : ~ Known(u, k, n)
    BY <1>4 DEF Unheard
  <2>2. QED
    BY <1>2, <2>1 DEF IsOf
<1>5. CASE q.number # n
  <2>1. Known(s, i, n) /\ Known(t, j, n)
    BY <1>2, <1>5 DEF IsOf
  <2>2. s = t /\ i = j /\ n <= made
    BY <2>1 DEF Single
  <2>3. QED
    BY <1>3, <2>2
<1>6. QED
  BY <1>4, <1>5

LEMMA NewsUnique ==
    ASSUME Types, Unique, NEW q, News(q), Unheard(q), SameBooks
    PROVE  Unique' /\ (Fresh => Fresh')
<1>1. scope' = scope /\ strays' = strays /\ nextId' \in Nat /\ nextId <= nextId' /\ nextId \in Nat
  BY DEF SameBooks, Types, IdentityOK
<1>2. ASSUME NEW s \in Scopes, NEW i \in CallIds, NEW n \in Calls, NEW m \in Calls,
             Known(s, i, n)', Known(s, i, m)', n \notin strays, m \notin strays
      PROVE  n = m
  <2>1. /\ Known(s, i, n) \/ (s = scope /\ IsOf(q, i, n))
        /\ Known(s, i, m) \/ (s = scope /\ IsOf(q, i, m))
    BY <1>1, <1>2 DEF News
  <2>2. CASE Known(s, i, n) /\ Known(s, i, m)
    BY <1>2, <2>2 DEF Unique
  <2>3. ASSUME s = scope, NEW a \in Calls, NEW b \in Calls, IsOf(q, i, a), Known(s, i, b), a \notin strays, b \notin strays
        PROVE  FALSE
    <3>1. a = q.number /\ i = q.id /\ scope # 0
      BY <2>3, ConstantsTyped DEF IsOf
    <3>2. Known(scope, q.id, b)
      BY <2>3, <3>1
    <3>3. QED
      BY <2>3, <3>1, <3>2 DEF Unheard
  <2>4. QED
    BY <1>2, <2>1, <2>2, <2>3 DEF IsOf
<1>3. Unique'
  BY <1>1, <1>2 DEF Unique
<1>4. ASSUME Fresh, NEW i \in CallIds, NEW n \in Calls, scope # 0, Known(scope, i, n)', n \notin strays
      PROVE  i < nextId'
  <2>1. scope \in Scopes /\ i \in Nat
    BY <1>4, ConstantsTyped DEF Types, IdentityOK, DaemonOK
  <2>2. Known(scope, i, n) \/ IsOf(q, i, n)
    BY <1>1, <1>4, <2>1 DEF News
  <2>3. CASE Known(scope, i, n)
    <3>1. i < nextId
      BY <1>4, <2>3 DEF Fresh
    <3>2. QED
      BY <1>1, <2>1, <3>1
  <2>4. CASE IsOf(q, i, n)
    BY <1>4, <2>4 DEF Unheard, IsOf
  <2>5. QED
    BY <2>2, <2>3, <2>4
<1>5. Fresh => Fresh'
  <2>1. SUFFICES ASSUME Fresh, NEW i \in CallIds, NEW n \in Calls, scope' # 0, Known(scope, i, n)', n \notin strays'
                 PROVE  i < nextId'
    BY DEF Fresh
  <2>2. QED
    BY <1>1, <1>4, <2>1
<1>6. QED
  BY <1>3, <1>5

LEMMA NewsUnused ==
    ASSUME Types, GreetedOK, UnusedOK, NEW q, News(q), scope' = scope, issued' = issued,
           connector' = connector \/ connector'.state # "done"
    PROVE  UnusedOK'
<1>1. ASSUME NEW s \in Scopes, s # scope, Blank(s) PROVE Blank(s)'
  BY <1>1 DEF Blank, News, Known
<1>2. issued \in Nat /\ scope \in 0 .. issued
  BY ConstantsTyped DEF Types, IdentityOK, DaemonOK
<1>3. \A s \in Scopes : s > issued => s # scope
  BY <1>2, ConstantsTyped
<1>4. \A s \in Scopes : s > issued' => Blank(s)'
  BY <1>1, <1>3 DEF UnusedOK
<1>5. ASSUME connector'.state = "done", ~ connector'.hello.resumed PROVE Blank(connector.hello.scope)'
  <2>1. connector' = connector /\ connector.hello.scope # scope /\ Blank(connector.hello.scope)
    BY <1>5 DEF GreetedOK, UnusedOK
  <2>2. connector.hello.scope \in Scopes
    BY <1>5, <2>1, ConstantsTyped DEF Types, ConnectorOK, WiresOK, DaemonOK, GreetedOK
  <2>3. PICK s \in Scopes : s = connector.hello.scope
    BY <2>2
  <2>4. Blank(s)'
    BY <1>1, <2>1, <2>3
  <2>5. s = connector'.hello.scope
    BY <2>1, <2>3
  <2>6. QED
    BY <2>4, <2>5 DEF Blank, Kept
<1>6. QED
  BY <1>4, <1>5 DEF UnusedOK

\* The client starts over in a scope that knows nothing.
StartsOver ==
    /\ scope' \in Scopes /\ made' = made /\ nextId' \in Nat
    /\ strays \subseteq strays' /\ executed' = executed
    /\ \A s \in Scopes, i \in CallIds, n \in Calls :
          Known(s, i, n)' => Known(s, i, n) /\ s # scope'

LEMMA StartsOverKeeps ==
    ASSUME Types, Single, Unique, StartsOver
    PROVE  Single' /\ Unique' /\ Fresh'
<1>1. Single'
  BY DEF Single, StartsOver
<1>2. Unique'
  BY DEF Unique, StartsOver
<1>3. Fresh'
  <2>1. SUFFICES ASSUME NEW i \in CallIds, NEW n \in Calls, Known(scope, i, n)'
                 PROVE FALSE
    BY DEF Fresh
  <2>2. \E s \in Scopes : s = scope' /\ Known(s, i, n)'
    <3>1. scope' \in Scopes
      BY DEF StartsOver
    <3>2. PICK s \in Scopes : s = scope'
      BY <3>1
    <3>3. Known(s, i, n)'
      BY <2>1, <3>2 DEF Known, Kept
    <3>4. QED
      BY <3>2, <3>3
  <2>3. QED
    BY <2>2 DEF StartsOver
<1>4. QED
  BY <1>1, <1>2, <1>3

(***************************************************************************)
(* The accounting of calls, and the three kinds of steps it has: the       *)
(* client stays in its scope, a connector greets the daemon, the client    *)
(* starts over.                                                            *)
(***************************************************************************)
Accounted == /\ UnusedOK /\ Single /\ Unique /\ Fresh /\ UnsentOK /\ ExecutedOK /\ HeardOK

Stays(q) == /\ News(q) /\ Unheard(q) /\ SameBooks
            /\ issued' = issued /\ (connector' = connector \/ connector'.state # "done")

LEMMA NothingUnheard == Unheard(NoCall)
<1>1. NoCall.number = 0 /\ 0 \notin Calls
  BY ConstantsTyped
<1>2. QED
  BY <1>1 DEF Unheard

LEMMA SameIsSameBooks ==
    Types /\ UNCHANGED << scope, strays, nextId, made >> => SameBooks
BY DEF Types, IdentityOK, SameBooks

\* The next call is unheard of, and so is the one that is being submitted.
LEMMA NextUnheard ==
    ASSUME Types, Accounted, NEW q \in Request, q.number = made + 1, q.id = nextId,
           made' = made + 1, nextId' = nextId + 1
    PROVE  Unheard(q)
<1>1. made \in Nat /\ nextId \in Nat /\ executed \in [Calls -> Nat]
  BY ConstantsTyped DEF Types, IdentityOK, HistoryOK
<1>2. ASSUME q.number \in Calls PROVE executed[q.number] = 0
  BY <1>1, <1>2, ConstantsTyped DEF Accounted, ExecutedOK
<1>3. ASSUME NEW s \in Scopes, NEW i \in CallIds, Known(s, i, q.number) PROVE FALSE
  <2>1. q.number \in Calls
    BY <1>3 DEF Known
  <2>2. q.number <= made
    BY <1>3, <2>1 DEF Accounted, Single
  <2>3. QED
    BY <1>1, <2>2
<1>4. ASSUME NEW n \in Calls, scope # 0, Known(scope, q.id, n), q.number \in Calls PROVE n \in strays
  <2>1. q.id \in CallIds
    BY <1>4, RequestTyped, ConstantsTyped
  <2>2. n \notin strays => q.id < nextId
    BY <1>4, <2>1 DEF Accounted, Fresh
  <2>3. QED
    BY <1>1, <2>2
<1>5. QED
  BY <1>1, <1>2, <1>3, <1>4 DEF Unheard

LEMMA SubmittingUnheard ==
    ASSUME Types, Accounted, submitting # NoCall, SameBooks
    PROVE  Unheard(submitting)
<1>1. /\ made \in Nat /\ made' \in Nat /\ made <= made' /\ nextId \in Nat /\ nextId' \in Nat /\ nextId <= nextId'
      /\ submitting.number \in Nat /\ submitting.id \in Nat
  BY RequestTyped, ConstantsTyped DEF Types, IdentityOK, RequestsOK, SameBooks
<1>2. QED
  BY <1>1 DEF Unheard, Accounted, UnsentOK

LEMMA BeginsStays ==
    ASSUME Types, Accounted, Begins
    PROVE  \E q \in Request \ {NoCall} : q.number = made + 1 /\ q.id = nextId /\ Stays(q)
<1>1. PICK q \in Request \ {NoCall} :
              /\ q.number = made + 1 /\ q.id = nextId
              /\ made' = made + 1 /\ made' \in Calls /\ nextId' = nextId + 1 /\ nextId \in CallIds
              /\ \/ /\ submitting = NoCall /\ submitting' = q
                    /\ UNCHANGED << call, outbox, written >>
                 \/ /\ q.kind # "stop" /\ conn = "open" /\ call = NoCall /\ call' = q
                    /\ Put(q) /\ Wrote(q) /\ UNCHANGED submitting
              /\ UNCHANGED << scope, instance, stops, deferred, conn, connector, inbox, link, server,
                              breaks, executed, result, heard, alarms, strays >>
  BY BeginsMeans
<1>2. UNCHANGED << records, late, issued >>
  BY <1>1 DEF server
<1>3. Unheard(q)
  BY <1>1, NextUnheard
<1>4. SameBooks
  BY <1>1 DEF SameBooks, Types, IdentityOK
<1>5. CASE UNCHANGED << call, outbox >>
  <2>1. /\ \A s, i, n : Kept(s, i, n)' <=> Kept(s, i, n)
        /\ \A i \in CallIds, n \in Calls : Own(i, n)' => Own(i, n)
    BY <1>1, <1>2, <1>5, KeptSame, OwnFewer
  <2>2. News(q)
    BY <1>1, <2>1 DEF News, Known
  <2>3. QED
    BY <1>1, <1>2, <1>3, <1>4, <2>2 DEF Stays
<1>6. CASE conn = "open" /\ call' = q /\ Put(q)
  <2>1. News(q)
    BY <1>1, <1>2, <1>6, PutNews
  <2>2. QED
    BY <1>1, <1>2, <1>3, <1>4, <2>1 DEF Stays
<1>7. QED
  BY <1>1, <1>5, <1>6

LEMMA SubmitStays ==
    ASSUME Types, Accounted, Submit
    PROVE  submitting \in Request \ {NoCall} /\ Stays(submitting)
<1>1. /\ submitting # NoCall /\ call = NoCall /\ conn = "open" /\ Put(submitting)
      /\ UNCHANGED << identity, deferred, connector, inbox, link, server, made, strays >>
      /\ \/ UNCHANGED stops /\ call' = submitting
         \/ UNCHANGED call /\ stops' = stops \cup {[id |-> submitting.id, number |-> submitting.number]}
  BY DEF Submit, Submitted
<1>2. /\ UNCHANGED << scope, nextId, records, late, issued >> /\ submitting \in Request
  BY <1>1 DEF identity, server, Types, RequestsOK
<1>3. News(submitting)
  BY <1>1, <1>2, PutNews
<1>4. SameBooks
  BY <1>1, <1>2, SameIsSameBooks
<1>5. QED
  BY <1>1, <1>2, <1>3, <1>4, SubmittingUnheard DEF Stays

LEMMA QuietStays == Types /\ (Quiet \/ UNCHANGED vars) => Stays(NoCall)
<1>1. SUFFICES ASSUME Types, Quiet \/ UNCHANGED vars PROVE Stays(NoCall)
  OBVIOUS
<1>2. CASE Quiet
  <2>1. /\ UNCHANGED << scope, nextId, made, strays, server >>
        /\ connector' = connector \/ connector'.state # "done"
    BY <1>2, QuietMeans, ConstantsTyped
  <2>2. QED
    BY <1>1, <1>2, <2>1, QuietNews, NothingUnheard, SameIsSameBooks DEF Stays, server
<1>3. CASE UNCHANGED vars
  <2>1. UNCHANGED << scope, nextId, made, strays, issued, connector, records, late, link, inbox, outbox,
                     call, stops, deferred >>
    BY <1>3 DEF vars, identity, requests, wires, server, history
  <2>2. /\ \A s, i, n : Kept(s, i, n)' <=> Kept(s, i, n)
        /\ \A i \in CallIds, n \in Calls : Own(i, n)' => Own(i, n)
    BY <2>1, KeptSame, OwnFewer
  <2>3. News(NoCall)
    BY <2>1, <2>2 DEF News, Known
  <2>4. QED
    BY <1>1, <2>1, <2>3, NothingUnheard, SameIsSameBooks DEF Stays
<1>4. QED
  BY <1>1, <1>2, <1>3

LEMMA HearsStays == Types /\ Hears => Stays(NoCall)
<1>1. SUFFICES ASSUME Types, Hears PROVE Stays(NoCall)
  OBVIOUS
<1>2. UNCHANGED << scope, nextId, made, strays, issued, connector >>
  BY <1>1, HearsMeans DEF identity, server
<1>3. QED
  BY <1>1, <1>2, HearsNews, NothingUnheard, SameIsSameBooks DEF Stays

LEMMA ServesStays == Types /\ Serves => Stays(NoCall)
<1>1. SUFFICES ASSUME Types, Serves PROVE Stays(NoCall)
  OBVIOUS
<1>2. UNCHANGED << scope, nextId, made, strays, issued, connector >>
  BY <1>1, ServesMeans DEF DaemonServes, identity
<1>3. QED
  BY <1>1, <1>2, ServesNews, NothingUnheard, SameIsSameBooks DEF Stays

LEMMA ConnectsKeeps ==
    ASSUME TypeInv, Accounted, ConnectorConnects
    PROVE  News(NoCall) /\ SameBooks /\ UnusedOK'
<1>0. Types
  BY DEF TypeInv
<1>1. /\ Types /\ Accepts(scope) /\ scope \in Scopes \cup {0}
      /\ connector' = [state |-> "done", resume |-> scope, hello |-> HelloTo(scope)]
      /\ inbox' = << >> /\ outbox' = << >>
      /\ UNCHANGED << identity, requests, made, history >>
  <2>1. scope \in Scopes \cup {0}
    BY <1>0, ConstantsTyped DEF Types, IdentityOK, DaemonOK
  <2>2. QED
    BY <1>0, <2>1, ConnectsMeans
<1>2. UNCHANGED << scope, nextId, strays, call, stops, deferred >>
  BY <1>1 DEF identity, requests, history
<1>3. Copies
  BY <1>1, AcceptsKeeps
<1>4. \A i \in CallIds, n \in Calls : Own(i, n)' => Own(i, n)
  BY <1>2, OwnFewer
<1>5. News(NoCall)
  BY <1>2, <1>3, <1>4 DEF News, Known, Copies
<1>6. ASSUME NEW s \in Scopes, Blank(s) PROVE Blank(s)'
  BY <1>3, <1>6 DEF Blank, Copies
<1>7. /\ issued \in Nat /\ issued' \in Nat /\ issued <= issued'
      /\ scope \notin alive => HelloTo(scope).scope = issued + 1
      /\ HelloTo(scope).scope \in Scopes
      /\ HelloTo(scope).resumed <=> scope \in alive
  BY <1>1, AcceptsMeans, HelloTyped
<1>8. ASSUME NEW s \in Scopes, s > issued' PROVE Blank(s)'
  BY <1>6, <1>7, <1>8, ConstantsTyped DEF Accounted, UnusedOK
<1>9. ASSUME ~ connector'.hello.resumed PROVE Blank(connector.hello.scope)'
  <2>1. connector'.hello = HelloTo(scope) /\ scope \notin alive
    BY <1>1, <1>7, <1>9
  <2>2. PICK s \in Scopes : s = HelloTo(scope).scope
    BY <1>7
  <2>3. s > issued
    BY <1>7, <2>1, <2>2
  <2>4. Blank(s)'
    BY <1>6, <2>3 DEF Accounted, UnusedOK
  <2>5. s = connector'.hello.scope
    BY <2>1, <2>2
  <2>6. QED
    BY <2>4, <2>5 DEF Blank, Kept
<1>10. UnusedOK'
  BY <1>8, <1>9 DEF UnusedOK
<1>11. QED
  BY <1>1, <1>2, <1>5, <1>10, SameIsSameBooks

LEMMA AdoptKeeps ==
    ASSUME TypeInv, Accounted, Adopt
    PROVE  /\ \/ SameScope /\ Stays(NoCall)
              \/ NewScope(NoCall) /\ StartsOver /\ UnusedOK'
           /\ UNCHANGED << executed, heard, highest, made >> /\ stops' = {}
           /\ submitting' \in {submitting, [submitting EXCEPT !.counted = FALSE]}
<1>1. Types /\ GreetedOK
  BY DEF TypeInv
<1>2. /\ conn = "none" /\ connector.state = "done" /\ call = NoCall /\ stops = {}
      /\ scope' = link.scope /\ scope' \in Nat
      /\ \/ connector.hello.resumed /\ SameScope /\ deferred' = deferred
         \/ ~ connector.hello.resumed /\ NewScope(NoCall)
      /\ submitting' \in {submitting, [submitting EXCEPT !.counted = FALSE]}
      /\ connector' = NoConnector
      /\ UNCHANGED << call, stops, inbox, outbox, link, server, made, executed, result, heard, alarms, written >>
  BY <1>1, AdoptMeans, ConstantsTyped DEF Types, WiresOK, DaemonOK
<1>3. UNCHANGED << records, late, issued, highest >> /\ NoConnector.state # "done"
  BY <1>2, ConstantsTyped DEF server
<1>4. \A s, i, n : Kept(s, i, n)' <=> Kept(s, i, n)
  BY <1>2, <1>3, KeptSame
<1>5. CASE SameScope
  <2>1. UNCHANGED << scope, nextId, strays >> /\ deferred' \subseteq deferred
    BY <1>5 DEF SameScope
  <2>2. \A i \in CallIds, n \in Calls : Own(i, n)' => Own(i, n)
    BY <1>2, <2>1, OwnFewer
  <2>3. News(NoCall)
    BY <1>4, <2>1, <2>2 DEF News, Known
  <2>4. Stays(NoCall)
    BY <1>1, <1>2, <1>3, <2>1, <2>3, NothingUnheard, SameIsSameBooks DEF Stays
  <2>5. QED
    BY <1>2, <1>3, <1>5, <2>4
<1>6. CASE ~ connector.hello.resumed /\ NewScope(NoCall)
  <2>1. /\ scope' # scope /\ scope' \in Scopes /\ deferred' = {} /\ strays \subseteq strays'
        /\ nextId' \in Nat
    BY <1>1, <1>6, ConstantsTyped DEF NewScope, Types, IdentityOK
  <2>2. scope' = connector.hello.scope /\ Blank(connector.hello.scope)
    BY <1>1, <1>2, <1>6 DEF GreetedOK, Accounted, UnusedOK
  <2>3. ASSUME NEW i \in CallIds, NEW n \in Calls, Own(i, n)' PROVE FALSE
    <3>1. call' = NoCall /\ stops' = {} /\ deferred' = {}
      BY <1>2, <2>1
    <3>2. IsOf(NoCall, i, n)
      BY <2>3, <3>1 DEF Own
    <3>3. QED
      BY <3>2, ConstantsTyped DEF IsOf
  <2>4. ASSUME NEW s \in Scopes, NEW i \in CallIds, NEW n \in Calls, Known(s, i, n)'
        PROVE  Known(s, i, n) /\ s # scope'
    <3>1. Kept(s, i, n)
      BY <1>4, <2>3, <2>4 DEF Known
    <3>2. s # connector.hello.scope
      BY <2>2, <3>1 DEF Blank
    <3>3. QED
      BY <2>2, <3>1, <3>2 DEF Known
  <2>5. StartsOver
    BY <1>2, <2>1, <2>4 DEF StartsOver
  <2>6. \A s \in Scopes : s > issued' => Blank(s)'
    BY <1>3, <1>4 DEF Accounted, UnusedOK, Blank
  <2>7. UnusedOK'
    BY <1>2, <1>3, <2>6 DEF UnusedOK
  <2>8. QED
    BY <1>2, <1>3, <1>6, <2>5, <2>7
<1>7. QED
  BY <1>2, <1>5, <1>6

\* The frame that is written again is of a call that is under way, or of one that
\* was not written yet.
LEMMA ResendsKeeps ==
    ASSUME TypeInv, Accounted, NEW q \in Request, q # NoCall, q = call \/ q = submitting,
           Accepts(scope), Resends(q), UNCHANGED << made, connector >>
    PROVE  Stays(IF q = submitting THEN q ELSE NoCall)
<1>1. Types /\ scope \in Scopes
  BY ConstantsTyped DEF TypeInv, Types, IdentityOK, DaemonOK, Resends, SameScope
<1>2. /\ UNCHANGED << scope, nextId, strays >> /\ deferred' \subseteq deferred /\ scope \in alive
      /\ link' = [scope |-> scope, up |-> TRUE]
      /\ inbox' = << >> /\ outbox' = << Frame(q) >>
      /\ \/ stops' = {[id |-> q.id, number |-> q.number]} /\ call' = NoCall
         \/ stops' = {} /\ call' = q
  BY DEF Resends, SameScope
<1>3. issued' = issued /\ SameBooks
  BY <1>1, <1>2, AcceptsMeans, SameIsSameBooks
<1>4. \A s \in Scopes, i \in CallIds, n \in Calls :
         Kept(s, i, n)' => Kept(s, i, n) \/ (s = scope' /\ IsOf(q, i, n))
  BY <1>1, <1>2, AcceptsKeeps
<1>5. ASSUME NEW i \in CallIds, NEW n \in Calls, Own(i, n)'
      PROVE  Own(i, n) \/ IsOf(q, i, n)
  <2>1. ~ IsOf(NoCall, i, n)
    BY ConstantsTyped DEF IsOf
  <2>2. IsOf([id |-> q.id, number |-> q.number], i, n) => IsOf(q, i, n)
    BY DEF IsOf
  <2>3. CASE \E m \in deferred' : IsOf(m, i, n)
    BY <1>2, <2>3 DEF Own
  <2>4. CASE IsOf(call', i, n) \/ \E t \in stops' : IsOf(t, i, n)
    <3>1. CASE stops' = {[id |-> q.id, number |-> q.number]} /\ call' = NoCall
      BY <2>1, <2>2, <2>4, <3>1
    <3>2. CASE stops' = {} /\ call' = q
      BY <2>4, <3>2
    <3>3. QED
      BY <1>2, <3>1, <3>2
  <2>5. QED
    BY <1>5, <2>3, <2>4 DEF Own
<1>6. News(q)
  BY <1>2, <1>4, <1>5 DEF News, Known
<1>7. CASE q = submitting
  BY <1>1, <1>3, <1>6, <1>7, SubmittingUnheard DEF Stays
<1>8. CASE q # submitting
  <2>1. \A s \in Scopes, i \in CallIds, n \in Calls : s = scope' /\ IsOf(q, i, n) => Known(s, i, n)
    BY <1>2, <1>8 DEF Known, Own
  <2>2. News(NoCall)
    BY <1>6, <2>1 DEF News
  <2>3. QED
    BY <1>3, <1>8, <2>2, NothingUnheard DEF Stays
<1>9. QED
  BY <1>7, <1>8

LEMMA FailsKeeps ==
    ASSUME Types, ResumeFails, UNCHANGED << made, connector >>
    PROVE  Stays(NoCall) /\ call' = NoCall /\ stops' = {} /\ UNCHANGED << highest, strays, scope, nextId >>
<1>1. /\ UNCHANGED << scope, nextId, strays, issued, records, late, link, highest >>
      /\ deferred' \subseteq deferred /\ call' = NoCall /\ stops' = {}
      /\ inbox' = << >> /\ outbox' = << >>
  BY DEF ResumeFails, identity, server
<1>2. \A i, n : ~ Has(inbox, i, n)' /\ ~ Has(outbox, i, n)'
  BY <1>1, EmptyHas DEF Has
<1>3. \A s \in Scopes, i \in CallIds, n \in Calls : Kept(s, i, n)' => Kept(s, i, n)
  BY <1>1, <1>2 DEF Kept
<1>4. \A i \in CallIds, n \in Calls : Own(i, n)' => Own(i, n)
  BY <1>1, OwnFewer
<1>5. News(NoCall)
  BY <1>1, <1>3, <1>4 DEF News, Known
<1>6. QED
  BY <1>1, <1>5, NothingUnheard, SameIsSameBooks DEF Stays

LEMMA GivesUpKeeps ==
    ASSUME TypeInv, Accounted, NEW q, Accepts(scope), scope \notin alive, GivesUp(q),
           UNCHANGED << made, executed >>, connector' = NoConnector
    PROVE  StartsOver /\ UnusedOK' /\ stops' = {} /\ call' = NoCall /\ highest' = highest
<1>1. Types /\ scope \in Scopes \cup {0}
  BY ConstantsTyped DEF TypeInv, Types, IdentityOK, DaemonOK
<1>2. /\ scope' \in Scopes /\ scope' = issued + 1 /\ strays \subseteq strays'
      /\ call' = NoCall /\ stops' = {} /\ deferred' = {} /\ nextId' \in Nat
      /\ inbox' = << >> /\ outbox' = << >>
  BY <1>1, ConstantsTyped DEF GivesUp, NewScope, Types, IdentityOK
<1>3. /\ issued \in Nat /\ issued' \in Nat /\ issued <= issued' /\ highest' = highest
  BY <1>1, AcceptsMeans
<1>4. Copies
  BY <1>1, <1>2, AcceptsKeeps
<1>5. ASSUME NEW i \in CallIds, NEW n \in Calls, Own(i, n)' PROVE FALSE
  <2>1. IsOf(NoCall, i, n)
    BY <1>2, <1>5 DEF Own
  <2>2. QED
    BY <2>1, ConstantsTyped DEF IsOf
<1>6. ASSUME NEW s \in Scopes, s > issued PROVE Blank(s)
  BY <1>6 DEF Accounted, UnusedOK
<1>7. ASSUME NEW s \in Scopes, NEW i \in CallIds, NEW n \in Calls, Known(s, i, n)'
      PROVE  Known(s, i, n) /\ s # scope'
  <2>1. Kept(s, i, n)
    BY <1>4, <1>5, <1>7 DEF Known, Copies
  <2>2. ~ (s > issued)
    BY <1>6, <2>1 DEF Blank
  <2>3. QED
    BY <1>2, <1>3, <2>1, <2>2 DEF Known
<1>8. StartsOver
  BY <1>2, <1>7 DEF StartsOver
<1>9. \A s \in Scopes : s > issued' => Blank(s)'
  <2>1. \A s \in Scopes : s > issued' => s > issued
    BY <1>3, ConstantsTyped
  <2>2. QED
    BY <1>4, <1>6, <2>1 DEF Blank, Copies
<1>10. UnusedOK'
  BY <1>9, ConstantsTyped DEF UnusedOK
<1>11. QED
  BY <1>2, <1>3, <1>8, <1>10

Books == Single /\ Unique /\ Fresh /\ UnusedOK

LEMMA StaysKeeps ==
    ASSUME TypeInv, Accounted, NEW q, Stays(q)
    PROVE  Books'
<1>1. Types /\ GreetedOK /\ Single /\ Unique /\ Fresh /\ UnusedOK
  BY DEF TypeInv, Accounted
<1>2. /\ News(q) /\ Unheard(q) /\ SameBooks
      /\ issued' = issued /\ (connector' = connector \/ connector'.state # "done")
      /\ scope' = scope /\ made' \in Nat /\ made <= made'
  BY DEF Stays, SameBooks
<1>3. Single'
  BY <1>1, <1>2, NewsSingle
<1>4. Unique' /\ Fresh'
  BY <1>1, <1>2, NewsUnique
<1>5. UnusedOK'
  BY <1>1, <1>2, NewsUnused
<1>6. QED
  BY <1>3, <1>4, <1>5 DEF Books

\* resume_and_resend, with what it keeps.
ResumesAs(q) ==
    /\ q \in Request \ {NoCall} /\ (q.kind # "stop" \/ q = submitting)
    /\ submitting' = IF q = submitting THEN NoCall ELSE submitting
    /\ UNCHANGED << made, executed, result, heard, alarms, highest >>
    /\ \/ Stays(NoCall) /\ stops' = {} /\ call' = NoCall
       \/ Stays(q) /\ q = submitting /\ Resends(q)
       \/ Stays(NoCall) /\ q # submitting /\ Resends(q)
       \/ StartsOver /\ UnusedOK' /\ stops' = {} /\ call' = NoCall /\ GivesUp(q)

LEMMA ResumesKeeps ==
    ASSUME TypeInv, Accounted, Resumes
    PROVE  \E q : ResumesAs(q)
<1>1. Types /\ GreetedOK
  BY DEF TypeInv
<1>2. PICK q \in Request \ {NoCall} :
              /\ q.kind # "stop" \/ q = submitting
              /\ q = call \/ (q = submitting /\ call = NoCall)
              /\ \/ ResumeFails
                 \/ Accepts(scope) /\ Resends(q)
                 \/ Accepts(scope) /\ scope \notin alive /\ GivesUp(q)
              /\ connector = NoConnector
              /\ submitting' = IF q = submitting THEN NoCall ELSE submitting
              /\ UNCHANGED << connector, made, breaks, executed, result, heard, alarms, written >>
  BY <1>1, ResumesMeans
<1>3. CASE ResumeFails
  <2>1. Stays(NoCall) /\ call' = NoCall /\ stops' = {} /\ highest' = highest
    BY <1>1, <1>2, <1>3, FailsKeeps
  <2>2. QED
    BY <1>2, <2>1 DEF ResumesAs
<1>4. CASE Accepts(scope) /\ Resends(q)
  <2>1. Stays(IF q = submitting THEN q ELSE NoCall)
    BY <1>1, <1>2, <1>4, ResendsKeeps
  <2>2. highest' = highest
    BY <1>4 DEF Accepts
  <2>3. QED
    BY <1>2, <1>4, <2>1, <2>2 DEF ResumesAs
<1>5. CASE Accepts(scope) /\ scope \notin alive /\ GivesUp(q)
  <2>1. StartsOver /\ UnusedOK' /\ stops' = {} /\ call' = NoCall /\ highest' = highest
    BY <1>1, <1>2, <1>5, GivesUpKeeps
  <2>2. QED
    BY <1>2, <1>5, <2>1 DEF ResumesAs
<1>6. QED
  BY <1>2, <1>3, <1>4, <1>5

LEMMA NextBooks == TypeInv /\ Accounted /\ [Next]_vars => Books'
<1>1. SUFFICES ASSUME TypeInv, Accounted, [Next]_vars PROVE Books'
  OBVIOUS
<1>2. Types /\ Single /\ Unique /\ Fresh
  BY <1>1 DEF TypeInv, Accounted
<1>3. CASE Quiet \/ UNCHANGED vars
  BY <1>1, <1>2, <1>3, QuietStays, StaysKeeps
<1>4. CASE Begins
  BY <1>1, <1>2, <1>4, BeginsStays, StaysKeeps
<1>5. CASE Submit
  BY <1>1, <1>2, <1>5, SubmitStays, StaysKeeps
<1>6. CASE Hears
  BY <1>1, <1>2, <1>6, HearsStays, StaysKeeps
<1>7. CASE Serves
  BY <1>1, <1>2, <1>7, ServesStays, StaysKeeps
<1>8. ASSUME StartsOver, UnusedOK' PROVE Books'
  BY <1>2, <1>8, StartsOverKeeps DEF Books
<1>9. CASE ConnectorConnects
  <2>1. News(NoCall) /\ SameBooks /\ UnusedOK'
    BY <1>1, <1>9, ConnectsKeeps
  <2>2. Single'
    BY <1>2, <2>1, NewsSingle, NothingUnheard DEF SameBooks
  <2>3. Unique' /\ Fresh'
    BY <1>2, <2>1, NewsUnique, NothingUnheard
  <2>4. QED
    BY <2>1, <2>2, <2>3 DEF Books
<1>10. CASE Adopt
  BY <1>1, <1>8, <1>10, AdoptKeeps, StaysKeeps
<1>11. CASE Resumes
  <2>1. PICK q : ResumesAs(q)
    BY <1>1, <1>11, ResumesKeeps
  <2>2. Stays(NoCall) \/ Stays(q) \/ (StartsOver /\ UnusedOK')
    BY <2>1 DEF ResumesAs
  <2>3. QED
    BY <1>1, <1>8, <2>2, StaysKeeps
<1>12. QED
  BY <1>1, <1>3, <1>4, <1>5, <1>6, <1>7, <1>9, <1>10, <1>11, NextCases

(***************************************************************************)
(* The request that is not written stays unheard of.                       *)
(***************************************************************************)
LEMMA UnsentStays ==
    ASSUME Types, UnsentOK, submitting # NoCall,
           submitting'.number = submitting.number, submitting'.id = submitting.id,
           executed'[submitting.number] = executed[submitting.number],
           submitting.number \notin heard', SameBooks, NEW q, News(q),
           \/ q = NoCall
           \/ q.number # submitting.number /\ (submitting.number \notin strays => q.id # submitting.id)
    PROVE  UnsentOK'
<1>1. /\ submitting.number <= made /\ submitting.number \in Calls
      /\ executed[submitting.number] = 0
      /\ \A s \in Scopes, i \in CallIds : ~ Known(s, i, submitting.number)
      /\ submitting.number \notin strays =>
             /\ submitting.id < nextId
             /\ \A n \in Calls : scope # 0 /\ Known(scope, submitting.id, n) => n \in strays
  BY RequestTyped DEF UnsentOK, Types, RequestsOK
<1>2. /\ scope' = scope /\ strays' = strays /\ made' \in Nat /\ made \in Nat /\ made <= made'
      /\ nextId \in Nat /\ nextId' \in Nat /\ nextId <= nextId' /\ submitting.number \in Nat /\ submitting.id \in CallIds
      /\ submitting.id \in Nat
  BY <1>1, RequestTyped, ConstantsTyped DEF SameBooks, Types, IdentityOK, RequestsOK
<1>3. \A i \in CallIds, n \in Calls : ~ IsOf(NoCall, i, n)
  BY ConstantsTyped DEF IsOf
<1>4. /\ submitting'.number <= made'
      /\ executed'[submitting'.number] = 0 /\ submitting'.number \notin heard'
  BY <1>1, <1>2
<1>5. PICK b \in Calls : b = submitting.number
  BY <1>1
<1>6. ASSUME NEW s \in Scopes, NEW i \in CallIds, Known(s, i, b)' PROVE FALSE
  BY <1>1, <1>3, <1>5, <1>6 DEF News, IsOf
<1>7. \A s \in Scopes, i \in CallIds : ~ Known(s, i, submitting.number)'
  BY <1>5, <1>6 DEF Known, Kept, Own
<1>8. ASSUME submitting.number \notin strays, NEW n \in Calls, scope # 0, NEW i \in CallIds, i = submitting.id, Known(scope, i, n)'
      PROVE  n \in strays
  <2>1. scope \in Scopes
    BY <1>8, ConstantsTyped DEF Types, IdentityOK, DaemonOK
  <2>2. Known(scope, i, n) \/ IsOf(q, i, n)
    BY <1>2, <1>8, <2>1 DEF News
  <2>3. ~ IsOf(q, i, n)
    BY <1>3, <1>8 DEF IsOf
  <2>4. QED
    BY <1>1, <1>8, <2>2, <2>3
<1>9. PICK i \in CallIds : i = submitting.id
  BY <1>2
<1>10. submitting.number \notin strays =>
          \A n \in Calls : scope # 0 /\ Known(scope, submitting.id, n)' => n \in strays
  <2>1. SUFFICES ASSUME submitting.number \notin strays, NEW n \in Calls, scope # 0,
                        Known(scope, submitting.id, n)'
                 PROVE  n \in strays
    OBVIOUS
  <2>2. Known(scope, i, n)'
    BY <1>9, <2>1 DEF Known, Kept, Own
  <2>3. QED
    BY <1>8, <1>9, <2>1, <2>2
<1>11. QED
  BY <1>1, <1>2, <1>4, <1>7, <1>10 DEF UnsentOK

LEMMA UnsentStartsOver ==
    ASSUME Types, UnsentOK, submitting # NoCall, StartsOver,
           submitting'.number = submitting.number, submitting'.id = submitting.id, heard' = heard,
           submitting.number \in strays' \/ (nextId' = nextId /\ strays' = strays)
    PROVE  UnsentOK'
<1>1. /\ submitting.number <= made /\ submitting.number \in Calls
      /\ executed[submitting.number] = 0 /\ submitting.number \notin heard
      /\ \A s \in Scopes, i \in CallIds : ~ Known(s, i, submitting.number)
      /\ submitting.number \notin strays => submitting.id < nextId
  BY RequestTyped DEF UnsentOK, Types, RequestsOK
<1>2. scope' \in Scopes /\ made' = made /\ executed' = executed
  BY DEF StartsOver
<1>3. PICK b \in Calls : b = submitting.number
  BY <1>1
<1>4. ASSUME NEW s \in Scopes, NEW i \in CallIds PROVE ~ Known(s, i, b)'
  BY <1>1, <1>3 DEF StartsOver
<1>5. \A s \in Scopes, i \in CallIds : ~ Known(s, i, submitting.number)'
  BY <1>3, <1>4 DEF Known, Kept, Own
<1>6. PICK s \in Scopes : s = scope'
  BY <1>2
<1>7. PICK i \in CallIds : i = submitting.id
  BY RequestTyped DEF Types, RequestsOK
<1>8. \A n \in Calls : ~ Known(s, i, n)'
  BY <1>6 DEF StartsOver
<1>9. \A n \in Calls : ~ Known(scope, submitting.id, n)'
  BY <1>6, <1>7, <1>8 DEF Known, Kept, Own
<1>10. submitting'.number \notin strays' => submitting'.id < nextId'
  BY <1>1
<1>11. QED
  BY <1>1, <1>2, <1>5, <1>9, <1>10 DEF UnsentOK

LEMMA NextUnsent == TypeInv /\ Accounted /\ [Next]_vars => UnsentOK'
<1>1. SUFFICES ASSUME TypeInv, Accounted, [Next]_vars, submitting' # NoCall PROVE UnsentOK'
  BY DEF UnsentOK
<1>2. Types /\ UnsentOK /\ Single /\ (submitting # NoCall => submitting \in Request \ {NoCall})
  BY <1>1 DEF TypeInv, Types, RequestsOK, Accounted
<1>3. submitting # NoCall =>
          /\ submitting.number \in Calls /\ submitting.number <= made /\ submitting.number \notin heard
          /\ \A s \in Scopes, i \in CallIds : ~ Known(s, i, submitting.number)
          /\ submitting.number \notin strays => submitting.id < nextId
  BY <1>2, RequestTyped DEF UnsentOK
<1>4. ASSUME submitting # NoCall, Stays(NoCall), submitting' = submitting,
             executed'[submitting.number] = executed[submitting.number], submitting.number \notin heard'
      PROVE  UnsentOK'
  BY <1>2, <1>4, UnsentStays DEF Stays
<1>5. CASE Quiet
  BY <1>1, <1>2, <1>3, <1>4, <1>5, QuietMeans, QuietStays
<1>6. CASE UNCHANGED vars
  <2>1. UNCHANGED << submitting, executed, heard >>
    BY <1>6 DEF vars, requests, history
  <2>2. QED
    BY <1>1, <1>2, <1>3, <1>4, <1>6, <2>1, QuietStays
<1>7. CASE Begins
  <2>1. PICK q \in Request \ {NoCall} : q.number = made + 1 /\ q.id = nextId /\ Stays(q)
    BY <1>1, <1>2, <1>7, BeginsStays
  <2>2. /\ \/ submitting = NoCall /\ submitting'.number = made + 1 /\ submitting'.id = nextId
              /\ UNCHANGED << call, outbox >> /\ submitting' \in Request \ {NoCall}
           \/ UNCHANGED submitting
        /\ made' = made + 1 /\ nextId' = nextId + 1 /\ made' \in Calls
        /\ UNCHANGED << scope, stops, deferred, inbox, link, server, executed, heard, strays >>
    BY <1>2, <1>7, BeginsMeans
  <2>3. News(q) /\ SameBooks /\ made \in Nat /\ nextId \in Nat
    BY <1>2, <2>1, ConstantsTyped DEF Stays, Types, IdentityOK
  <2>4. CASE UNCHANGED submitting
    <3>1. submitting # NoCall
      BY <1>1, <2>4
    <3>2. q.number # submitting.number /\ (submitting.number \notin strays => q.id # submitting.id)
      BY <1>3, <2>1, <2>3, <3>1
    <3>3. QED
      BY <1>2, <1>3, <2>2, <2>3, <2>4, <3>1, <3>2, UnsentStays
  <2>5. CASE submitting = NoCall /\ submitting'.number = made + 1 /\ submitting'.id = nextId
              /\ UNCHANGED << call, outbox >> /\ submitting' \in Request \ {NoCall}
    <3>1. PICK r \in Request \ {NoCall} : r = submitting'
      BY <2>5
    <3>2. Unheard(r)
      BY <1>1, <1>2, <2>2, <2>5, <3>1, NextUnheard
    <3>3. r.number \in Calls /\ r.id \in CallIds /\ r.number = made + 1 /\ r.number \notin heard
      <4>1. r.number \in Calls /\ r.id \in CallIds /\ r.number = made + 1
        BY <2>5, <3>1, RequestTyped
      <4>2. \A n \in heard : n <= made
        BY <1>1 DEF Accounted, HeardOK
      <4>3. QED
        BY <2>3, <4>1, <4>2
    <3>4. /\ r.number <= made' /\ executed[r.number] = 0
          /\ \A s \in Scopes, i \in CallIds : ~ Known(s, i, r.number)
          /\ r.number \notin strays =>
               /\ r.id < nextId'
               /\ \A n \in Calls : scope # 0 /\ Known(scope, r.id, n) => n \in strays
      BY <3>2, <3>3 DEF Unheard
    <3>5. \A s, i, n : Known(s, i, n)' <=> Known(s, i, n)
      <4>1. UNCHANGED << records, late, link, inbox, outbox, scope, call, stops, deferred >>
        BY <2>2, <2>5 DEF server
      <4>2. QED
        BY <4>1, KeptSame DEF Known, Own
    <3>6. \A s \in Scopes, i \in CallIds : ~ Known(s, i, submitting.number)'
      <4>1. \A s \in Scopes, i \in CallIds : ~ Known(s, i, r.number)'
        BY <3>4, <3>5
      <4>2. QED
        BY <3>1, <4>1 DEF Known, Kept, Own
    <3>7. r.number \notin strays => \A n \in Calls : scope # 0 /\ Known(scope, submitting.id, n)' => n \in strays
      <4>1. SUFFICES ASSUME r.number \notin strays, NEW n \in Calls, scope # 0, Known(scope, submitting.id, n)'
                     PROVE  n \in strays
        OBVIOUS
      <4>2. PICK s : s = scope
        OBVIOUS
      <4>3. PICK i : i = r.id
        OBVIOUS
      <4>4. Known(s, i, n)'
        BY <2>2, <3>1, <4>1, <4>2, <4>3 DEF Known, Kept, Own
      <4>5. Known(s, i, n)
        BY <3>5, <4>4
      <4>6. QED
        BY <3>4, <4>1, <4>2, <4>3, <4>5
    <3>8. QED
      BY <2>2, <3>1, <3>3, <3>4, <3>6, <3>7 DEF UnsentOK
  <2>6. QED
    BY <2>2, <2>4, <2>5
<1>8. CASE Submit
  BY <1>1, <1>8 DEF Submit
<1>9. CASE Hears
  <2>1. /\ UNCHANGED << submitting, executed >>
        /\ UNCHANGED heard \/ \E m : HeardOf(m)
    BY <1>9, HearsMeans
  <2>2. ASSUME NEW m, HeardOf(m), submitting # NoCall PROVE submitting.number \notin heard'
    <3>1. m = Head(inbox) /\ inbox # << >> /\ inbox \in Seq(Message) /\ heard' = heard \cup {m.number}
          /\ conn = "open" /\ link.scope \in Scopes
      BY <1>2, <2>2, ConstantsTyped DEF HeardOf, Types, WiresOK, ConnectionOK, IdentityOK, DaemonOK
    <3>2. Has(inbox, m.id, m.number) /\ m.id \in CallIds /\ m.number \in Calls
      BY <3>1, TailHas, MessageTyped
    <3>3. Known(link.scope, m.id, m.number)
      BY <3>1, <3>2 DEF Known, Kept
    <3>4. m.number # submitting.number
      BY <1>3, <2>2, <3>1, <3>2, <3>3
    <3>5. QED
      BY <1>3, <2>2, <3>1, <3>4
  <2>3. QED
    BY <1>1, <1>2, <1>3, <1>4, <1>9, <2>1, <2>2, HearsStays
<1>10. CASE Serves
  <2>1. UNCHANGED << submitting, heard >> /\ (UNCHANGED executed \/ Executes)
    BY <1>2, <1>10, ServesMeans DEF DaemonServes, requests
  <2>2. executed'[submitting.number] = executed[submitting.number]
    <3>1. CASE Executes
      <4>1. PICK s \in Scopes, f \in Message :
               Kept(s, f.id, f.number) /\ executed' = [executed EXCEPT ![f.number] = @ + 1]
        BY <3>1 DEF Executes
      <4>2. Known(s, f.id, f.number) /\ f.id \in CallIds
        BY <4>1, MessageTyped DEF Known
      <4>3. f.number # submitting.number
        BY <1>1, <1>3, <2>1, <4>2
      <4>4. executed \in [Calls -> Nat] /\ submitting.number \in Calls
        BY <1>1, <1>2, <1>3, <2>1 DEF Types, HistoryOK
      <4>5. QED
        BY <4>1, <4>3, <4>4
    <3>2. QED
      BY <2>1, <3>1
  <2>3. QED
    BY <1>1, <1>2, <1>3, <1>4, <1>10, <2>1, <2>2, ServesStays
<1>11. CASE ConnectorConnects
  <2>1. News(NoCall) /\ SameBooks /\ UNCHANGED << submitting, executed, heard >>
    BY <1>1, <1>2, <1>11, ConnectsKeeps, ConnectsMeans DEF requests, history
  <2>2. QED
    BY <1>1, <1>2, <1>3, <2>1, UnsentStays
<1>12. CASE Adopt
  <2>1. /\ (SameScope /\ Stays(NoCall)) \/ (NewScope(NoCall) /\ StartsOver)
        /\ UNCHANGED << executed, heard >>
        /\ submitting' \in {submitting, [submitting EXCEPT !.counted = FALSE]}
    BY <1>1, <1>12, AdoptKeeps
  <2>2. submitting # NoCall
    BY <1>1, <2>1, ConstantsTyped DEF NoCall
  <2>3. submitting'.number = submitting.number /\ submitting'.id = submitting.id
    BY <1>2, <2>1, <2>2 DEF Request
  <2>4. CASE Stays(NoCall)
    BY <1>2, <1>3, <2>1, <2>2, <2>3, <2>4, UnsentStays DEF Stays
  <2>5. CASE NewScope(NoCall) /\ StartsOver
    <3>1. submitting.number \in strays' \/ (nextId' = nextId /\ strays' = strays)
      BY <2>2, <2>5 DEF NewScope
    <3>2. QED
      BY <1>2, <2>1, <2>2, <2>3, <2>5, <3>1, UnsentStartsOver
  <2>6. QED
    BY <2>1, <2>4, <2>5
<1>13. CASE Resumes
  <2>1. PICK q : ResumesAs(q)
    BY <1>1, <1>13, ResumesKeeps
  <2>2. q # submitting /\ submitting' = submitting /\ submitting # NoCall /\ UNCHANGED << executed, heard >>
    BY <1>1, <2>1 DEF ResumesAs
  <2>3. CASE Stays(NoCall)
    BY <1>2, <1>3, <1>4, <2>2, <2>3
  <2>4. CASE StartsOver /\ GivesUp(q)
    <3>1. submitting.number \in strays' \/ (nextId' = nextId /\ strays' = strays)
      BY <2>2, <2>4 DEF GivesUp, NewScope
    <3>2. QED
      BY <1>2, <2>2, <2>4, <3>1, UnsentStartsOver
  <2>5. QED
    BY <2>1, <2>2, <2>3, <2>4 DEF ResumesAs
<1>14. QED
  BY <1>1, <1>5, <1>6, <1>7, <1>8, <1>9, <1>10, <1>11, <1>12, <1>13, NextCases

(***************************************************************************)
(* What the daemon executed, and what the client heard.                    *)
(***************************************************************************)
LEMMA ExecutedStays ==
    ASSUME Types, ExecutedOK, NEW q, News(q), Unheard(q), executed' = executed,
           made' \in Nat, made <= made',
           \A s \in Scopes : highest'[s] \in Nat /\ highest[s] <= highest'[s]
    PROVE  ExecutedOK'
<1>1. SUFFICES ASSUME NEW n \in Calls
               PROVE  /\ executed[n] <= 1
                      /\ executed[n] = 1 => n <= made'
                      /\ executed[n] = 1 => \A s \in Scopes, i \in CallIds : Known(s, i, n)' => i <= highest'[s]
  BY DEF ExecutedOK
<1>2. /\ executed[n] <= 1
      /\ executed[n] = 1 => n <= made
  BY DEF ExecutedOK
<1>3. n \in Nat /\ made \in Nat /\ highest \in [Scopes -> Nat]
  BY ConstantsTyped DEF Types, IdentityOK, DaemonOK
<1>4. ASSUME executed[n] = 1, NEW s \in Scopes, NEW i \in CallIds, Known(s, i, n)'
      PROVE  i <= highest'[s]
  <2>1. Known(s, i, n) \/ IsOf(q, i, n)
    BY <1>4 DEF News
  <2>2. ~ IsOf(q, i, n)
    BY <1>4 DEF Unheard, IsOf
  <2>3. i <= highest[s]
    BY <1>4, <2>1, <2>2 DEF ExecutedOK
  <2>4. i \in Nat /\ highest[s] \in Nat /\ highest'[s] \in Nat /\ highest[s] <= highest'[s]
    BY <1>3, ConstantsTyped
  <2>5. QED
    BY <2>3, <2>4
<1>5. QED
  BY <1>2, <1>3, <1>4

LEMMA ExecutedServes ==
    ASSUME Types, Accounted, Executes, News(NoCall), made' = made,
           \A s \in Scopes : highest'[s] \in Nat /\ highest[s] <= highest'[s]
    PROVE  ExecutedOK'
<1>1. PICK t \in Scopes, f \in Message :
               /\ Kept(t, f.id, f.number)
               /\ f.id > highest[t] /\ highest'[t] = f.id
               /\ executed' = [executed EXCEPT ![f.number] = @ + 1]
  BY DEF Executes
<1>2. /\ f.id \in CallIds /\ f.number \in Calls /\ Known(t, f.id, f.number)
      /\ executed \in [Calls -> Nat] /\ highest \in [Scopes -> Nat] /\ ExecutedOK /\ Single
      /\ f.id \in Nat
  BY <1>1, MessageTyped, ConstantsTyped DEF Known, Types, HistoryOK, DaemonOK, Accounted
<1>3. executed[f.number] # 1
  <2>1. executed[f.number] = 1 => f.id <= highest[t]
    BY <1>2 DEF ExecutedOK
  <2>2. highest[t] \in Nat
    BY <1>2
  <2>3. QED
    BY <1>1, <1>2, <2>1, <2>2
<1>4. executed[f.number] = 0 /\ f.number <= made
  BY <1>2, <1>3 DEF ExecutedOK, Single
<1>5. executed'[f.number] = 1 /\ \A n \in Calls : n # f.number => executed'[n] = executed[n]
  BY <1>1, <1>2, <1>4
<1>6. \A s \in Scopes, i \in CallIds, n \in Calls : Known(s, i, n)' => Known(s, i, n)
  <2>1. \A i \in CallIds, n \in Calls : ~ IsOf(NoCall, i, n)
    BY ConstantsTyped DEF IsOf
  <2>2. QED
    BY <2>1 DEF News
<1>7. ASSUME NEW s \in Scopes, NEW i \in CallIds, Known(s, i, f.number)' PROVE i <= highest'[s]
  <2>1. s = t /\ i = f.id
    BY <1>2, <1>6, <1>7 DEF Single
  <2>2. QED
    BY <1>1, <1>2, <2>1
<1>8. ASSUME NEW n \in Calls, n # f.number
      PROVE  /\ executed'[n] <= 1
             /\ executed'[n] = 1 => n <= made'
             /\ executed'[n] = 1 => \A s \in Scopes, i \in CallIds : Known(s, i, n)' => i <= highest'[s]
  <2>1. executed'[n] = executed[n]
    BY <1>5, <1>8
  <2>2. ASSUME executed[n] = 1, NEW s \in Scopes, NEW i \in CallIds, Known(s, i, n)' PROVE i <= highest'[s]
    <3>1. i <= highest[s]
      BY <1>2, <1>6, <2>2 DEF ExecutedOK
    <3>2. i \in Nat /\ highest[s] \in Nat /\ highest'[s] \in Nat /\ highest[s] <= highest'[s]
      BY <1>2, ConstantsTyped
    <3>3. QED
      BY <3>1, <3>2
  <2>3. QED
    BY <1>2, <2>1, <2>2 DEF ExecutedOK
<1>9. ASSUME NEW n \in Calls, n = f.number
      PROVE  /\ executed'[n] <= 1
             /\ executed'[n] = 1 => n <= made'
             /\ executed'[n] = 1 => \A s \in Scopes, i \in CallIds : Known(s, i, n)' => i <= highest'[s]
  BY <1>4, <1>5, <1>7, <1>9
<1>10. QED
  BY <1>8, <1>9 DEF ExecutedOK

\* Whatever a step does, its highest IDs grow and it executes nothing, unless the
\* daemon serves a frame.
LEMMA NextHighest ==
    Types /\ [Next]_vars =>
        /\ \A s \in Scopes : highest'[s] \in Nat /\ highest[s] <= highest'[s]
        /\ UNCHANGED executed \/ Serves
<1>1. SUFFICES ASSUME Types, [Next]_vars
               PROVE  /\ \A s \in Scopes : highest'[s] \in Nat /\ highest[s] <= highest'[s]
                      /\ UNCHANGED executed \/ Serves
  OBVIOUS
<1>2. highest \in [Scopes -> Nat]
  BY <1>1 DEF Types, DaemonOK
<1>3. CASE Serves
  BY <1>1, <1>3, ServesMeans DEF DaemonServes
<1>4. ASSUME highest' = highest, executed' = executed
      PROVE  /\ \A s \in Scopes : highest'[s] \in Nat /\ highest[s] <= highest'[s]
             /\ UNCHANGED executed \/ Serves
  BY <1>2, <1>4
<1>5. CASE Quiet
  BY <1>4, <1>5, QuietMeans DEF server
<1>6. CASE Begins
  BY <1>1, <1>4, <1>6, BeginsMeans DEF server
<1>7. CASE Submit
  BY <1>4, <1>7 DEF Submit, server
<1>8. CASE Hears
  BY <1>4, <1>8, HearsMeans DEF server
<1>9. CASE ConnectorConnects
  BY <1>4, <1>9 DEF ConnectorConnects, Accepts, history
<1>10. CASE Adopt
  BY <1>4, <1>10 DEF Adopt, server
<1>11. CASE Resumes
  <2>1. ASSUME NEW q, NEW ended, Resume(q, ended) PROVE highest' = highest /\ executed' = executed
    BY <2>1 DEF Resume, Accepts, server
  <2>2. QED
    BY <1>4, <1>11, <2>1 DEF Resumes, SubmitResumes, CallResumes
<1>12. CASE UNCHANGED vars
  BY <1>4, <1>12 DEF vars, server, history
<1>13. QED
  BY <1>1, <1>3, <1>5, <1>6, <1>7, <1>8, <1>9, <1>10, <1>11, <1>12, NextCases

LEMMA NextExecuted == TypeInv /\ Accounted /\ [Next]_vars => ExecutedOK'
<1>1. SUFFICES ASSUME TypeInv, Accounted, [Next]_vars PROVE ExecutedOK'
  OBVIOUS
<1>2. Types /\ ExecutedOK
  BY <1>1 DEF TypeInv, Accounted
<1>3. /\ \A s \in Scopes : highest'[s] \in Nat /\ highest[s] <= highest'[s]
      /\ UNCHANGED executed \/ Serves
  BY <1>1, <1>2, NextHighest
<1>4. ASSUME NEW q, Stays(q), executed' = executed PROVE ExecutedOK'
  BY <1>2, <1>3, <1>4, ExecutedStays DEF Stays, SameBooks
<1>5. ASSUME StartsOver PROVE ExecutedOK'
  <2>1. /\ executed' = executed /\ made' = made /\ made \in Nat
        /\ \A s \in Scopes, i \in CallIds, n \in Calls : Known(s, i, n)' => Known(s, i, n)
    BY <1>2, <1>5, ConstantsTyped DEF StartsOver, Types, IdentityOK
  <2>2. News(NoCall)
    BY <2>1 DEF News
  <2>3. QED
    BY <1>2, <1>3, <2>1, <2>2, ExecutedStays, NothingUnheard
<1>6. CASE Serves
  <2>1. Stays(NoCall) /\ News(NoCall) /\ made' = made /\ (UNCHANGED executed \/ Executes)
    BY <1>2, <1>6, ServesMeans, ServesStays DEF DaemonServes, Stays
  <2>2. QED
    BY <1>1, <1>2, <1>3, <1>4, <2>1, ExecutedServes
<1>7. CASE ConnectorConnects
  <2>1. News(NoCall) /\ SameBooks /\ executed' = executed
    BY <1>1, <1>2, <1>7, ConnectsKeeps, ConnectsMeans DEF history
  <2>2. QED
    BY <1>2, <1>3, <2>1, ExecutedStays, NothingUnheard DEF SameBooks
<1>8. CASE (Quiet \/ UNCHANGED vars) /\ UNCHANGED executed
  BY <1>2, <1>4, <1>8, QuietStays
<1>9. CASE Begins /\ UNCHANGED executed
  BY <1>1, <1>2, <1>4, <1>9, BeginsStays
<1>10. CASE Submit /\ UNCHANGED executed
  BY <1>1, <1>2, <1>4, <1>10, SubmitStays
<1>11. CASE Hears /\ UNCHANGED executed
  BY <1>2, <1>4, <1>11, HearsStays
<1>12. CASE Adopt
  BY <1>1, <1>4, <1>5, <1>12, AdoptKeeps
<1>13. CASE Resumes
  BY <1>1, <1>4, <1>5, <1>13, ResumesKeeps DEF ResumesAs
<1>14. QED
  BY <1>1, <1>3, <1>6, <1>7, <1>8, <1>9, <1>10, <1>11, <1>12, <1>13, NextCases

\* What the client has, and the next message it receives, are known in its scope.
LEMMA ClientKnows ==
    ASSUME Types, conn = "open"
    PROVE  /\ scope \in Scopes
           /\ call # NoCall => call.id \in CallIds /\ call.number \in Calls /\ Known(scope, call.id, call.number)
           /\ \A t \in stops : t.id \in CallIds /\ t.number \in Calls /\ Known(scope, t.id, t.number)
                               /\ t = [id |-> t.id, number |-> t.number]
           /\ \A m \in deferred : m.id \in CallIds /\ m.number \in Calls /\ Known(scope, m.id, m.number)
           /\ \A m : HeardOf(m) => m.id \in CallIds /\ m.number \in Calls /\ Known(scope, m.id, m.number)
<1>1. scope \in Scopes /\ link.scope = scope /\ inbox \in Seq(Message)
  BY ConstantsTyped DEF Types, IdentityOK, DaemonOK, ConnectionOK, WiresOK
<1>2. call # NoCall => call.id \in CallIds /\ call.number \in Calls /\ Known(scope, call.id, call.number)
  BY RequestTyped DEF Types, RequestsOK, Known, Own, IsOf
<1>3. \A t \in stops : t.id \in CallIds /\ t.number \in Calls /\ Known(scope, t.id, t.number)
                       /\ t = [id |-> t.id, number |-> t.number]
  BY DEF Types, RequestsOK, StopType, Known, Own, IsOf
<1>4. \A m \in deferred : m.id \in CallIds /\ m.number \in Calls /\ Known(scope, m.id, m.number)
  BY MessageTyped DEF Types, RequestsOK, Known, Own, IsOf
<1>5. ASSUME NEW m, HeardOf(m)
      PROVE  m.id \in CallIds /\ m.number \in Calls /\ Known(scope, m.id, m.number)
  <2>1. m = Head(inbox) /\ inbox # << >>
    BY <1>5 DEF HeardOf
  <2>2. m \in Message /\ Has(inbox, m.id, m.number)
    BY <1>1, <2>1, TailHas
  <2>3. QED
    BY <1>1, <2>2, MessageTyped DEF Known, Kept
<1>6. QED
  BY <1>1, <1>2, <1>3, <1>4, <1>5

\* Of two calls with one ID, either one is written to a scope not its own.
LEMMA OneCall ==
    ASSUME Accounted, scope \in Scopes, NEW i \in CallIds, NEW n \in Calls, NEW m \in Calls,
           Known(scope, i, n), Known(scope, i, m)
    PROVE  n = m \/ {n, m} \cap strays # {}
BY DEF Accounted, Unique

\* A stop that is not waited for was answered, then an answer is kept.
Answerable == strays = {} => \A t \in stops : t.number \in heard => WithId(deferred, t.id) # {}

LEMMA HeardSplit ==
    HeardOK <=> /\ \A n \in heard : n <= made
                /\ \A t \in stops : t.number # call.number
                /\ Answerable
BY DEF HeardOK, Answerable

LEMMA HearsAnswerable == TypeInv /\ Accounted /\ Hears => HeardOK'
<1>1. SUFFICES ASSUME TypeInv, Accounted, Hears PROVE HeardOK'
  OBVIOUS
<1>2. Types /\ Answerable /\ (\A n \in heard : n <= made) /\ (\A t \in stops : t.number # call.number) /\ Single
  BY <1>1, HeardSplit DEF TypeInv, Accounted
<1>3. made' = made /\ strays' = strays /\ NoCall.number = 0 /\ 0 \notin Calls
  BY <1>1, HearsMeans, ConstantsTyped
<1>4. stops # {} \/ call # NoCall => conn = "open"
  BY <1>2 DEF Types, ConnectionOK, WiresOK
<1>5. \A m : HeardOf(m) => conn = "open"
  BY DEF HeardOf
<1>6. \A n \in heard' : n <= made'
  <2>1. UNCHANGED heard \/ \E m : HeardOf(m)
    BY <1>1, HearsMeans
  <2>2. ASSUME NEW m, HeardOf(m) PROVE heard' = heard \cup {m.number} /\ m.number <= made
    <3>1. heard' = heard \cup {m.number}
      BY <2>2 DEF HeardOf
    <3>2. scope \in Scopes /\ m.id \in CallIds /\ m.number \in Calls /\ Known(scope, m.id, m.number)
      BY <1>2, <1>5, <2>2, ClientKnows
    <3>3. QED
      BY <1>2, <3>1, <3>2 DEF Single
  <2>3. QED
    BY <1>2, <1>3, <2>1, <2>2
<1>7. \A t \in stops' : t.number # call'.number
  <2>1. stops' \subseteq stops /\ call' \in {call, NoCall}
    BY <1>1, HearsMeans DEF Answered, KeepsFor, Reaped
  <2>2. \A t \in stops : t.number \in Calls
    BY <1>2 DEF Types, RequestsOK, StopType
  <2>3. QED
    BY <1>2, <1>3, <2>1, <2>2
<1>8. ASSUME strays = {}, NEW t \in stops', t.number \in heard' PROVE \E d \in deferred' : d.id = t.id
  <2>1. t \in stops /\ conn = "open"
    BY <1>1, <1>4, <1>8, HearsMeans DEF Answered, KeepsFor, Reaped
  <2>2. /\ scope \in Scopes /\ t.id \in CallIds /\ t.number \in Calls /\ Known(scope, t.id, t.number)
        /\ t = [id |-> t.id, number |-> t.number]
    BY <1>2, <2>1, ClientKnows
  <2>3. ASSUME t.number \in heard PROVE \E d \in deferred : d.id = t.id
    BY <1>2, <1>8, <2>1, <2>3 DEF Answerable, WithId
  <2>4. ASSUME NEW m, HeardOf(m), t.number \notin heard PROVE m.id = t.id
    <3>1. heard' = heard \cup {m.number}
      BY <2>4 DEF HeardOf
    <3>2. m.id \in CallIds /\ Known(scope, m.id, m.number) /\ m.number = t.number
      BY <1>2, <1>8, <2>1, <2>4, <3>1, ClientKnows
    <3>3. QED
      BY <1>2, <2>2, <3>2 DEF Single
  <2>5. ASSUME NEW m, Answered(m), UNCHANGED heard \/ HeardOf(m) PROVE \E d \in deferred' : d.id = t.id
    <3>1. call # NoCall /\ m.id = call.id /\ deferred' = deferred \ WithId(deferred, call.id)
      BY <2>5 DEF Answered, Finished
    <3>2. call.id # t.id
      <4>1. SUFFICES ASSUME call.id = t.id PROVE FALSE
        OBVIOUS
      <4>2. call.number \in Calls /\ Known(scope, t.id, call.number)
        BY <1>2, <2>1, <3>1, <4>1, ClientKnows
      <4>3. call.number = t.number
        BY <1>1, <1>8, <2>2, <4>2, OneCall
      <4>4. QED
        BY <1>2, <2>1, <4>3
    <3>3. t.number \in heard
      BY <1>8, <2>4, <2>5, <3>1, <3>2
    <3>4. QED
      BY <2>3, <3>1, <3>2, <3>3 DEF WithId
  <2>6. ASSUME NEW m, HeardOf(m), KeepsFor(m) PROVE \E d \in deferred' : d.id = t.id
    <3>1. deferred' = deferred \cup {m}
      BY <2>6 DEF KeepsFor
    <3>2. QED
      BY <2>3, <2>4, <2>6, <3>1
  <2>7. ASSUME NEW u \in stops, NEW m \in deferred, UNCHANGED heard, Reaped(u, m)
        PROVE  \E d \in deferred' : d.id = t.id
    <3>1. m.id = u.id /\ deferred' = deferred \ {m} /\ t # u
      BY <1>8, <2>7 DEF Reaped
    <3>2. u.id # t.id
      <4>1. SUFFICES ASSUME u.id = t.id PROVE FALSE
        OBVIOUS
      <4>2. u.number \in Calls /\ Known(scope, t.id, u.number) /\ u = [id |-> u.id, number |-> u.number]
        BY <1>2, <2>1, <4>1, ClientKnows
      <4>3. u.number = t.number
        BY <1>1, <1>8, <2>2, <4>2, OneCall
      <4>4. QED
        BY <2>2, <3>1, <4>1, <4>2, <4>3
    <3>3. QED
      BY <1>8, <2>3, <2>7, <3>1, <3>2
  <2>8. QED
    BY <1>1, <2>5, <2>6, <2>7, HearsMeans
<1>9. Answerable'
  BY <1>3, <1>8 DEF Answerable, WithId
<1>10. QED
  BY <1>6, <1>7, <1>9 DEF HeardOK, Answerable

LEMMA NextHeard == TypeInv /\ Accounted /\ [Next]_vars => HeardOK'
<1>1. SUFFICES ASSUME TypeInv, Accounted, [Next]_vars PROVE HeardOK'
  OBVIOUS
<1>2. /\ Types /\ (\A n \in heard : n <= made) /\ (\A t \in stops : t.number # call.number)
      /\ strays = {} => \A t \in stops : t.number \in heard => WithId(deferred, t.id) # {}
  BY <1>1 DEF TypeInv, Accounted, HeardOK
<1>3. /\ NoCall.number = 0 /\ 0 \notin Calls /\ \A t \in stops : t.number \in Calls
      /\ conn = "none" => stops = {}
      /\ made \in Nat /\ heard \subseteq Nat
  BY <1>2, ConstantsTyped DEF Types, RequestsOK, StopType, ConnectionOK, IdentityOK, HistoryOK
<1>4. ASSUME UNCHANGED << heard, made >>, stops' = {} PROVE HeardOK'
  BY <1>2, <1>4 DEF HeardOK
<1>5. ASSUME UNCHANGED << heard, made, strays, deferred >>, call' \in {call, NoCall}, stops' \subseteq stops
      PROVE  HeardOK'
  <2>1. WithId(deferred', 0) = WithId(deferred, 0)
    BY <1>5
  <2>2. \A i : WithId(deferred', i) = WithId(deferred, i)
    BY <1>5
  <2>3. \A n \in heard' : n <= made'
    BY <1>2, <1>5
  <2>4. \A t \in stops' : t.number # call'.number
    BY <1>2, <1>3, <1>5
  <2>5. strays' = {} => \A t \in stops' : t.number \in heard' => WithId(deferred', t.id) # {}
    BY <1>2, <1>5, <2>2
  <2>6. QED
    BY <2>3, <2>4, <2>5 DEF HeardOK, WithId
<1>6. CASE Quiet
  <2>1. /\ UNCHANGED << heard, made, strays >> /\ call' \in {call, NoCall} /\ stops' \subseteq stops
        /\ UNCHANGED deferred \/ stops' = {} \/ conn = "none"
    BY <1>6, QuietMeans
  <2>2. CASE UNCHANGED deferred
    BY <1>5, <2>1, <2>2
  <2>3. CASE stops' = {} \/ conn = "none"
    BY <1>3, <1>4, <2>1, <2>3
  <2>4. QED
    BY <2>1, <2>2, <2>3
<1>7. CASE Begins
  <2>1. PICK q \in Request \ {NoCall} :
          /\ q.number = made + 1 /\ made' = made + 1
          /\ UNCHANGED call \/ call' = q
          /\ UNCHANGED << stops, deferred, heard, strays >>
    BY <1>2, <1>7, BeginsMeans
  <2>2. \A t \in stops : t.number <= made
    <3>1. SUFFICES ASSUME NEW t \in stops PROVE t.number <= made
      OBVIOUS
    <3>2. conn = "open"
      BY <1>2, <1>3, <3>1 DEF Types, WiresOK
    <3>3. scope \in Scopes /\ t.id \in CallIds /\ t.number \in Calls /\ Known(scope, t.id, t.number)
      BY <1>2, <3>1, <3>2, ClientKnows
    <3>4. QED
      BY <1>1, <3>3 DEF Accounted, Single
  <2>3. \A t \in stops' : t.number # call'.number
    BY <1>2, <1>3, <2>1, <2>2, ConstantsTyped
  <2>4. \A n \in heard' : n <= made'
    BY <1>2, <1>3, <2>1
  <2>5. \A i : WithId(deferred', i) = WithId(deferred, i)
    BY <2>1
  <2>6. strays' = {} => \A t \in stops' : t.number \in heard' => WithId(deferred', t.id) # {}
    BY <1>2, <2>1, <2>5
  <2>7. QED
    BY <2>3, <2>4, <2>6 DEF HeardOK, WithId
<1>8. ASSUME NEW q \in Request, q = submitting, submitting # NoCall
      PROVE  /\ q.number \in Calls /\ q.number \notin heard
             /\ \A s \in Scopes, i \in CallIds : ~ Known(s, i, q.number)
  BY <1>1, <1>8, RequestTyped DEF Accounted, UnsentOK
<1>9. CASE Submit
  <2>1. /\ submitting # NoCall /\ call = NoCall /\ UNCHANGED << heard, made, strays, deferred >> /\ conn = "open"
        /\ \/ stops' = stops \cup {[id |-> submitting.id, number |-> submitting.number]} /\ UNCHANGED call
           \/ UNCHANGED stops /\ call' = submitting
    BY <1>9 DEF Submit, Submitted
  <2>2. PICK q \in Request : q = submitting
    BY <1>2 DEF Types, RequestsOK
  <2>3. /\ q.number \in Calls /\ q.number \notin heard
        /\ \A s \in Scopes, i \in CallIds : ~ Known(s, i, q.number)
    BY <1>8, <2>1, <2>2
  <2>4. \A t \in stops : t.number # q.number
    BY <1>2, <2>1, <2>3, ClientKnows
  <2>5. \A n \in heard' : n <= made'
    BY <1>2, <2>1
  <2>6. \A t \in stops' : t.number # call'.number
    BY <1>3, <2>1, <2>2, <2>3, <2>4
  <2>7. \A t \in stops' : t.number \in heard => t \in stops
    BY <2>1, <2>2, <2>3
  <2>8. \A i : WithId(deferred', i) = WithId(deferred, i)
    BY <2>1
  <2>9. strays' = {} => \A t \in stops' : t.number \in heard' => WithId(deferred', t.id) # {}
    BY <1>2, <2>1, <2>7, <2>8
  <2>10. QED
    BY <2>5, <2>6, <2>9 DEF HeardOK, WithId
<1>10. CASE Hears
  BY <1>1, <1>10, HearsAnswerable
<1>11. CASE Serves
  <2>1. UNCHANGED << heard, made, strays, deferred, call, stops >>
    BY <1>2, <1>11, ServesMeans DEF DaemonServes, requests
  <2>2. QED
    BY <1>5, <2>1
<1>12. CASE ConnectorConnects
  <2>1. UNCHANGED << heard, made, strays, deferred, call, stops >>
    BY <1>12 DEF ConnectorConnects, requests, history
  <2>2. QED
    BY <1>5, <2>1
<1>13. CASE Adopt
  BY <1>1, <1>4, <1>13, AdoptKeeps
<1>14. CASE Resumes
  <2>1. PICK q : ResumesAs(q)
    BY <1>1, <1>14, ResumesKeeps
  <2>2. UNCHANGED << heard, made >> /\ q \in Request \ {NoCall}
    BY <2>1 DEF ResumesAs
  <2>3. CASE stops' = {}
    BY <1>4, <2>2, <2>3
  <2>4. CASE Resends(q) /\ stops' # {}
    <3>1. /\ stops' = {[id |-> q.id, number |-> q.number]} /\ call' = NoCall /\ q.kind = "stop"
      BY <2>4 DEF Resends
    <3>2. q = submitting
      BY <2>1, <3>1 DEF ResumesAs
    <3>3. q.number \in Calls /\ q.number \notin heard
      BY <1>8, <2>2, <3>2
    <3>4. \A t \in stops' : t.number = q.number
      BY <3>1
    <3>5. \A t \in stops' : t.number # call'.number /\ t.number \notin heard'
      BY <1>3, <2>2, <3>1, <3>3, <3>4
    <3>6. \A n \in heard' : n <= made'
      BY <1>2, <2>2
    <3>7. QED
      BY <3>5, <3>6 DEF HeardOK
  <2>5. QED
    BY <2>1, <2>3, <2>4 DEF ResumesAs
<1>15. CASE UNCHANGED vars
  <2>1. UNCHANGED << heard, made, strays, deferred, call, stops >>
    BY <1>15 DEF vars, requests, history
  <2>2. QED
    BY <1>5, <2>1
<1>16. QED
  BY <1>1, <1>6, <1>7, <1>9, <1>10, <1>11, <1>12, <1>13, <1>14, <1>15, NextCases

(***************************************************************************)
(* The answers that were taken, and the alarms.                            *)
(***************************************************************************)
LEMMA NextStrays == Types /\ GreetedOK /\ [Next]_vars => strays \subseteq strays'
<1>1. SUFFICES ASSUME Types, GreetedOK, [Next]_vars PROVE strays \subseteq strays'
  OBVIOUS
<1>2. CASE Quiet
  BY <1>2, QuietMeans
<1>3. CASE Begins
  BY <1>1, <1>3, BeginsMeans
<1>4. CASE Submit
  BY <1>4 DEF Submit
<1>5. CASE Hears
  BY <1>5, HearsMeans
<1>6. CASE Serves
  BY <1>1, <1>6, ServesMeans DEF DaemonServes
<1>7. CASE ConnectorConnects
  BY <1>7 DEF ConnectorConnects, history
<1>8. CASE Adopt
  BY <1>1, <1>8, AdoptMeans DEF SameScope, NewScope
<1>9. CASE Resumes
  BY <1>1, <1>9, ResumesMeans DEF ResumeFails, Resends, GivesUp, SameScope, NewScope
<1>10. CASE UNCHANGED vars
  BY <1>10 DEF vars, history
<1>11. QED
  BY <1>1, <1>2, <1>3, <1>4, <1>5, <1>6, <1>7, <1>8, <1>9, <1>10, NextCases

LEMMA NextAnswers == TypeInv /\ Accounted /\ AnswersMatch /\ [Next]_vars => AnswersMatch'
<1>1. SUFFICES ASSUME TypeInv, Accounted, AnswersMatch, [Next]_vars PROVE AnswersMatch'
  OBVIOUS
<1>2. Types /\ GreetedOK /\ result \in [Calls -> Nat]
  BY <1>1 DEF TypeInv, Types, HistoryOK
<1>3. strays \subseteq strays'
  BY <1>1, <1>2, NextStrays
<1>4. ASSUME result' = result PROVE AnswersMatch'
  BY <1>1, <1>3, <1>4 DEF AnswersMatch
<1>5. ASSUME NEW a \in Calls, NEW b, result' = [result EXCEPT ![a] = b], a = b \/ {a, b} \cap strays # {}
      PROVE  AnswersMatch'
  <2>1. SUFFICES ASSUME NEW n \in Calls PROVE result'[n] \in {0, n} \/ {n, result'[n]} \cap strays' # {}
    BY DEF AnswersMatch
  <2>2. CASE n = a
    BY <1>2, <1>3, <1>5, <2>2
  <2>3. CASE n # a
    <3>1. result'[n] = result[n]
      BY <1>2, <1>5, <2>3
    <3>2. QED
      BY <1>1, <1>3, <3>1 DEF AnswersMatch
  <2>4. QED
    BY <2>2, <2>3
<1>6. CASE Hears
  <2>1. stops # {} \/ call # NoCall => conn = "open"
    BY <1>2 DEF Types, ConnectionOK, WiresOK
  <2>2. ASSUME NEW m, Answered(m), m \in deferred \/ HeardOf(m) PROVE AnswersMatch'
    <3>1. call # NoCall /\ m.id = call.id /\ result' = [result EXCEPT ![call.number] = m.number]
      BY <2>2 DEF Answered
    <3>2. /\ call.id \in CallIds /\ call.number \in Calls /\ Known(scope, call.id, call.number)
          /\ m.number \in Calls /\ Known(scope, call.id, m.number) /\ scope \in Scopes
      BY <1>2, <2>1, <2>2, <3>1, ClientKnows
    <3>3. call.number = m.number \/ {call.number, m.number} \cap strays # {}
      BY <1>1, <3>2, OneCall
    <3>4. QED
      BY <1>5, <3>1, <3>2, <3>3
  <2>3. ASSUME NEW t \in stops, NEW m \in deferred, Reaped(t, m) PROVE AnswersMatch'
    <3>1. m.id = t.id /\ result' = [result EXCEPT ![t.number] = m.number]
      BY <2>3 DEF Reaped
    <3>2. /\ t.id \in CallIds /\ t.number \in Calls /\ Known(scope, t.id, t.number)
          /\ m.number \in Calls /\ Known(scope, t.id, m.number) /\ scope \in Scopes
      BY <1>2, <2>1, <2>3, <3>1, ClientKnows
    <3>3. t.number = m.number \/ {t.number, m.number} \cap strays # {}
      BY <1>1, <3>2, OneCall
    <3>4. QED
      BY <1>5, <3>1, <3>2, <3>3
  <2>4. \A m : KeepsFor(m) => result' = result
    BY DEF KeepsFor
  <2>5. QED
    BY <1>4, <1>6, <2>2, <2>3, <2>4, HearsMeans
<1>7. CASE Quiet
  BY <1>4, <1>7, QuietMeans
<1>8. CASE Begins
  BY <1>2, <1>4, <1>8, BeginsMeans
<1>9. CASE Submit
  BY <1>4, <1>9 DEF Submit
<1>10. CASE Serves
  BY <1>2, <1>4, <1>10, ServesMeans DEF DaemonServes
<1>11. CASE ConnectorConnects
  BY <1>4, <1>11 DEF ConnectorConnects, history
<1>12. CASE Adopt
  BY <1>4, <1>12 DEF Adopt
<1>13. CASE Resumes
  BY <1>2, <1>4, <1>13, ResumesMeans
<1>14. CASE UNCHANGED vars
  BY <1>4, <1>14 DEF vars, history
<1>15. QED
  BY <1>1, <1>6, <1>7, <1>8, <1>9, <1>10, <1>11, <1>12, <1>13, <1>14, NextCases

LEMMA NextAlarms == TypeInv /\ Accounted /\ NoFalseAlarm /\ [Next]_vars => NoFalseAlarm'
<1>1. SUFFICES ASSUME TypeInv, Accounted, NoFalseAlarm, [Next]_vars PROVE NoFalseAlarm'
  OBVIOUS
<1>2. Types /\ GreetedOK
  BY <1>1 DEF TypeInv
<1>3. strays \subseteq strays'
  BY <1>1, <1>2, NextStrays
<1>4. ASSUME alarms' = alarms PROVE NoFalseAlarm'
  BY <1>1, <1>3, <1>4 DEF NoFalseAlarm
<1>5. CASE Quiet
  <2>1. CASE \E t \in stops : /\ WithId(deferred, t.id) = {}
                              /\ alarms' = alarms \cup {[number |-> t.number, heard |-> t.number \in heard]}
    <3>1. PICK t \in stops : /\ WithId(deferred, t.id) = {}
                             /\ alarms' = alarms \cup {[number |-> t.number, heard |-> t.number \in heard]}
      BY <2>1
    <3>2. t.number \in heard => strays # {}
      BY <1>1, <3>1 DEF Accounted, HeardOK
    <3>3. \A a \in alarms' : a \in alarms \/ a.heard = (t.number \in heard)
      <4>1. [number |-> t.number, heard |-> t.number \in heard].heard = (t.number \in heard)
        OBVIOUS
      <4>2. QED
        BY <3>1, <4>1, Zenon
    <3>4. QED
      BY <1>1, <1>3, <3>2, <3>3 DEF NoFalseAlarm
  <2>2. QED
    BY <1>4, <1>5, <2>1, QuietMeans
<1>6. CASE Begins
  BY <1>2, <1>4, <1>6, BeginsMeans
<1>7. CASE Submit
  BY <1>4, <1>7 DEF Submit
<1>8. CASE Hears
  BY <1>4, <1>8, HearsMeans
<1>9. CASE Serves
  BY <1>2, <1>4, <1>9, ServesMeans DEF DaemonServes
<1>10. CASE ConnectorConnects
  BY <1>4, <1>10 DEF ConnectorConnects, history
<1>11. CASE Adopt
  BY <1>4, <1>11 DEF Adopt
<1>12. CASE Resumes
  BY <1>2, <1>4, <1>12, ResumesMeans
<1>13. CASE UNCHANGED vars
  BY <1>4, <1>13 DEF vars, history
<1>14. QED
  BY <1>1, <1>5, <1>6, <1>7, <1>8, <1>9, <1>10, <1>11, <1>12, <1>13, NextCases

-----------------------------------------------------------------------------
LEMMA InitAccounted == Init => Accounted /\ AnswersMatch /\ NoFalseAlarm
<1>1. SUFFICES ASSUME Init PROVE Accounted /\ AnswersMatch /\ NoFalseAlarm
  OBVIOUS
<1>2. \A s \in Scopes, i \in CallIds, n \in Calls : ~ Kept(s, i, n)
  BY <1>1, EmptyHas DEF Init, Kept
<1>3. \A i \in CallIds, n \in Calls : ~ Own(i, n)
  BY <1>1, ConstantsTyped DEF Init, Own, IsOf
<1>4. \A s \in Scopes, i \in CallIds, n \in Calls : ~ Known(s, i, n)
  BY <1>2, <1>3 DEF Known
<1>5. Single /\ Unique
  BY <1>4 DEF Single, Unique
<1>6. Fresh /\ UnsentOK /\ UnusedOK
  BY <1>1, <1>2, ConstantsTyped DEF Init, Fresh, UnsentOK, UnusedOK, Blank
<1>7. ExecutedOK /\ HeardOK
  BY <1>1 DEF Init, ExecutedOK, HeardOK
<1>8. QED
  BY <1>1, <1>5, <1>6, <1>7 DEF Init, Accounted, AnswersMatch, NoFalseAlarm

CallInv == TypeInv /\ Accounted /\ AnswersMatch /\ NoFalseAlarm

LEMMA CallInvHolds == Spec => []CallInv
<1>1. Init => CallInv
  BY InitTypeInv, InitAccounted DEF CallInv
<1>2. CallInv /\ [Next]_vars => CallInv'
  BY NextTypeInv, NextBooks, NextUnsent, NextExecuted, NextHeard, NextAnswers, NextAlarms
     DEF CallInv, Accounted, Books
<1>3. QED
  BY <1>1, <1>2, PTL DEF Spec

\* No request is executed twice, by one daemon or by two: resume_and_resend sends
\* a frame again only to the daemon and the scope its ID is of, and a frame that
\* is late finds the ID used.
THEOREM ExecutesOnce == Spec => []ExecutedOnce
<1>1. CallInv => ExecutedOnce
  BY DEF CallInv, Accounted, ExecutedOK, ExecutedOnce
<1>2. QED
  BY <1>1, CallInvHolds, PTL

\* receive_for_request and reap_pending_stops take the answer of the request they
\* take it for, unless one of the two was written to a scope not its own.
THEOREM AnswersAreTheirOwn == Spec => []AnswersMatch
<1>1. CallInv => AnswersMatch
  BY DEF CallInv
<1>2. QED
  BY <1>1, CallInvHolds, PTL

\* A stop is reported as never confirmed only if no answer to it was received,
\* unless a request was written to a scope not its own.
THEOREM AlarmsAreTrue == Spec => []NoFalseAlarm
<1>1. CallInv => NoFalseAlarm
  BY DEF CallInv
<1>2. QED
  BY <1>1, CallInvHolds, PTL

(***************************************************************************)
(* What the callers see (CallService).  A call is pending until it takes   *)
(* an answer, is given up, or is reported: the number of a request that    *)
(* ends is of no other request that waits, so that no other ends with it.  *)
(***************************************************************************)
LEMMA PendingMeans ==
    \A n : n \in Pending <=> /\ n # 0
                             /\ n = submitting.number \/ n = call.number \/ \E t \in stops : t.number = n
BY DEF Pending

\* A message that was kept was received.
DeferredHeard == \A m \in deferred : m.number \in heard

LEMMA NextDeferredHeard == TypeInv /\ DeferredHeard /\ [Next]_vars => DeferredHeard'
<1>1. SUFFICES ASSUME TypeInv, DeferredHeard, [Next]_vars PROVE DeferredHeard'
  OBVIOUS
<1>2. Types /\ GreetedOK
  BY <1>1 DEF TypeInv
<1>3. ASSUME deferred' \subseteq deferred, heard' = heard PROVE DeferredHeard'
  BY <1>1, <1>3 DEF DeferredHeard
<1>4. CASE Quiet
  BY <1>3, <1>4, QuietMeans
<1>5. CASE Begins
  BY <1>2, <1>3, <1>5, BeginsMeans
<1>6. CASE Submit
  BY <1>3, <1>6 DEF Submit
<1>7. CASE Hears
  <2>1. UNCHANGED heard \/ \E m : HeardOf(m)
    BY <1>7, HearsMeans
  <2>2. heard \subseteq heard'
    BY <2>1 DEF HeardOf
  <2>3. \A m \in deferred' : m \in deferred \/ m.number \in heard'
    BY <1>7, HearsMeans DEF Answered, KeepsFor, Reaped, HeardOf, Finished
  <2>4. QED
    BY <1>1, <2>2, <2>3 DEF DeferredHeard
<1>8. CASE Serves
  BY <1>2, <1>3, <1>8, ServesMeans DEF DaemonServes, requests
<1>9. CASE ConnectorConnects
  BY <1>3, <1>9 DEF ConnectorConnects, requests, history
<1>10. CASE Adopt
  BY <1>2, <1>3, <1>10, AdoptMeans DEF SameScope, NewScope
<1>11. CASE Resumes
  BY <1>2, <1>3, <1>11, ResumesMeans DEF ResumeFails, Resends, GivesUp, SameScope, NewScope
<1>12. CASE UNCHANGED vars
  BY <1>3, <1>12 DEF vars, requests, history
<1>13. QED
  BY <1>1, <1>4, <1>5, <1>6, <1>7, <1>8, <1>9, <1>10, <1>11, <1>12, NextCases

\* A stop that ends takes no other call with it ...
LEMMA StopEnds ==
    ASSUME TypeInv, Accounted, NEW t \in stops, UNCHANGED << submitting, call >>, stops' = stops \ {t}
    PROVE  /\ conn = "open" /\ scope \in Scopes /\ t.id \in CallIds /\ t.number \in Calls
           /\ Known(scope, t.id, t.number) /\ t.number \in 1 .. made
           /\ t.number \in Pending /\ Pending' = Pending \ {t.number}
<1>1. Types /\ conn = "open"
  BY DEF TypeInv, Types, ConnectionOK, WiresOK
<1>2. /\ scope \in Scopes /\ t.id \in CallIds /\ t.number \in Calls /\ Known(scope, t.id, t.number)
      /\ t = [id |-> t.id, number |-> t.number]
  BY <1>1, ClientKnows
<1>3. t.number <= made /\ t.number # 0 /\ t.number \in Nat /\ t.number \in 1 .. made
  BY <1>1, <1>2, ConstantsTyped DEF Accounted, Single, Types, IdentityOK
<1>4. t.number # call.number
  BY DEF Accounted, HeardOK
<1>5. t.number # submitting.number
  BY <1>2, <1>3, ConstantsTyped DEF Accounted, UnsentOK
<1>6. \A u \in stops : u.number = t.number => u = t
  <2>1. SUFFICES ASSUME NEW u \in stops, u.number = t.number PROVE u = t
    OBVIOUS
  <2>2. /\ u.id \in CallIds /\ Known(scope, u.id, t.number)
        /\ u = [id |-> u.id, number |-> u.number]
    BY <1>1, <2>1, ClientKnows
  <2>3. u.id = t.id
    BY <1>2, <2>2 DEF Accounted, Single
  <2>4. QED
    BY <1>2, <2>1, <2>2, <2>3
<1>7. t.number \in Pending
  BY <1>3, PendingMeans
<1>8. \A n : n \in Pending' <=> n \in Pending /\ n # t.number
  BY <1>4, <1>5, <1>6 DEF Pending
<1>9. QED
  BY <1>1, <1>2, <1>3, <1>7, <1>8

\* ... nor does the request that waits.
LEMMA CallEnds ==
    ASSUME TypeInv, Accounted, call # NoCall, call' = NoCall, UNCHANGED << submitting, stops >>
    PROVE  /\ conn = "open" /\ scope \in Scopes /\ call.id \in CallIds /\ call.number \in Calls
           /\ Known(scope, call.id, call.number)
           /\ call.number \in Pending /\ Pending' = Pending \ {call.number}
<1>1. Types /\ conn = "open"
  BY DEF TypeInv, Types, ConnectionOK, WiresOK
<1>2. scope \in Scopes /\ call.id \in CallIds /\ call.number \in Calls /\ Known(scope, call.id, call.number)
  BY <1>1, ClientKnows
<1>3. call.number # 0
  BY <1>2, ConstantsTyped
<1>4. call.number # submitting.number
  BY <1>2, <1>3, ConstantsTyped DEF Accounted, UnsentOK
<1>5. \A t \in stops : t.number # call.number
  BY DEF Accounted, HeardOK
<1>6. call.number \in Pending
  BY <1>3, PendingMeans
<1>7. \A n : n \in Pending' <=> n \in Pending /\ n # call.number
  BY <1>4, <1>5, ConstantsTyped DEF Pending
<1>8. QED
  BY <1>1, <1>2, <1>6, <1>7

\* A step that ends calls, or moves them on, and tells nobody.
LEMMA GivesUpMaps ==
    ASSUME Pending' \subseteq Pending,
           strays' = strays \/ \E n \in Pending' : strays' = strays \cup {n},
           UNCHANGED << made, executed, heard, result, alarms >>
    PROVE  Service!Next
<1>1. Alarmed' = Alarmed
  BY DEF Alarmed
<1>2. Service!GiveUp
  BY <1>1 DEF Service!GiveUp
<1>3. QED
  BY <1>2 DEF Service!Next

LEMMA QuietMaps == TypeInv /\ Accounted /\ Quiet => Service!Next
<1>1. SUFFICES ASSUME TypeInv, Accounted, Quiet PROVE Service!Next
  OBVIOUS
<1>2. /\ call' \in {call, NoCall} /\ submitting' \in {submitting, NoCall} /\ stops' \subseteq stops
      /\ UNCHANGED << made, executed, result, heard, strays >>
  BY <1>1, QuietMeans
<1>3. Pending' \subseteq Pending
  BY <1>2, ConstantsTyped DEF Pending
<1>4. CASE UNCHANGED alarms
  BY <1>2, <1>3, <1>4, GivesUpMaps
<1>5. CASE \E t \in stops : ReapExpired(t)
  <2>1. PICK t \in stops : ReapExpired(t)
    BY <1>5
  <2>2. /\ WithId(deferred, t.id) = {} /\ stops' = stops \ {t} /\ UNCHANGED << submitting, call >>
        /\ alarms' = alarms \cup {[number |-> t.number, heard |-> t.number \in heard]}
    BY <2>1 DEF ReapExpired
  <2>3. t.number \in Pending /\ Pending' = Pending \ {t.number}
    BY <1>1, <2>2, StopEnds
  <2>4. Alarmed' = Alarmed \cup {t.number}
    <3>1. PICK heardIt : heardIt = (t.number \in heard)
      OBVIOUS
    <3>2. alarms' = alarms \cup {[number |-> t.number, heard |-> heardIt]}
      BY <2>2, <3>1
    <3>3. {a.number : a \in alarms \cup {[number |-> t.number, heard |-> heardIt]}}
             = {a.number : a \in alarms} \cup {t.number}
      <4>1. PICK b : b = [number |-> t.number, heard |-> heardIt]
        OBVIOUS
      <4>2. b.number = t.number
        BY <4>1
      <4>3. {a.number : a \in alarms \cup {b}} = {a.number : a \in alarms} \cup {b.number}
        OBVIOUS
      <4>4. QED
        BY <4>1, <4>2, <4>3
    <3>4. QED
      BY <3>2, <3>3 DEF Alarmed
  <2>5. t.number \notin heard \/ strays # {}
    BY <1>1, <2>2 DEF Accounted, HeardOK
  <2>6. Service!Alarm(t.number)
    BY <1>2, <2>3, <2>4, <2>5 DEF Service!Alarm
  <2>7. QED
    BY <2>3, <2>6 DEF Service!Next
<1>6. UNCHANGED alarms \/ \E t \in stops : ReapExpired(t)
  BY <1>1 DEF Quiet, StartConnector, ConnectorFails, BackoffExpires, TimesOut, SubmitFails, DrainLost,
              history
<1>7. QED
  BY <1>4, <1>5, <1>6

LEMMA BeginsMaps == Types /\ Begins => Service!Next
<1>1. SUFFICES ASSUME Types, Begins PROVE Service!Next
  OBVIOUS
<1>2. PICK q \in Request \ {NoCall} :
          /\ q.number = made + 1 /\ made' = made + 1 /\ made' \in Calls
          /\ \/ submitting = NoCall /\ submitting' = q /\ UNCHANGED call
             \/ call = NoCall /\ call' = q /\ UNCHANGED submitting
          /\ UNCHANGED << stops, executed, result, heard, alarms, strays >>
  BY <1>1, BeginsMeans
<1>3. made \in Nat /\ made < LastCall /\ made' # 0
  BY <1>1, <1>2, ConstantsTyped DEF Types, IdentityOK
<1>4. Pending' = Pending \cup {made'}
  <2>1. \A n : n \in Pending' <=> n \in Pending \/ n = made'
    BY <1>2, <1>3, ConstantsTyped DEF Pending
  <2>2. QED
    BY <2>1
<1>5. Alarmed' = Alarmed
  BY <1>2 DEF Alarmed
<1>6. Service!Call
  BY <1>2, <1>3, <1>4, <1>5 DEF Service!Call
<1>7. QED
  BY <1>6 DEF Service!Next

LEMMA SubmitMaps == Submit => Service!Next
<1>1. SUFFICES ASSUME Submit PROVE Service!Next
  OBVIOUS
<1>2. /\ call = NoCall /\ submitting' = NoCall
      /\ \/ stops' = stops \cup {[id |-> submitting.id, number |-> submitting.number]} /\ UNCHANGED call
         \/ UNCHANGED stops /\ call' = submitting
      /\ UNCHANGED << made, executed, result, heard, alarms, strays >>
  BY <1>1 DEF Submit, Submitted
<1>3. Pending' \subseteq Pending
  BY <1>2, ConstantsTyped DEF Pending
<1>4. QED
  BY <1>2, <1>3, GivesUpMaps

\* An answer that comes is the call's own, and one that is kept has come.
LEMMA HearsMaps == TypeInv /\ Accounted /\ DeferredHeard /\ Hears => Service!Next
<1>1. SUFFICES ASSUME TypeInv, Accounted, DeferredHeard, Hears PROVE Service!Next
  OBVIOUS
<1>2. /\ UNCHANGED << submitting, made, executed, alarms, strays >> /\ Alarmed' = Alarmed
      /\ Types /\ conn \in {"none", "open"}
  BY <1>1, HearsMeans DEF TypeInv, Types, WiresOK, Alarmed
<1>3. ASSUME NEW m, conn = "open", m \in deferred \/ HeardOf(m)
      PROVE  m.id \in CallIds /\ m.number \in Calls /\ Known(scope, m.id, m.number) /\ m.number \in Service!Made
  <2>1. scope \in Scopes /\ m.id \in CallIds /\ m.number \in Calls /\ Known(scope, m.id, m.number)
    BY <1>2, <1>3, ClientKnows
  <2>2. m.number <= made
    BY <1>1, <2>1 DEF Accounted, Single
  <2>3. QED
    BY <1>2, <2>1, <2>2, ConstantsTyped DEF Types, IdentityOK, Service!Made
<1>4. ASSUME NEW n \in Pending, NEW m, m.number \in Service!Made,
             m.number = n \/ {n, m.number} \cap strays # {},
             Pending' = Pending \ {n}, heard' = heard \cup {m.number},
             result' = [result EXCEPT ![n] = m.number]
      PROVE  Service!Next
  <2>1. Service!Take(n, m.number)
    BY <1>2, <1>4 DEF Service!Take
  <2>2. QED
    BY <1>4, <2>1 DEF Service!Next
<1>5. ASSUME NEW m, m \in deferred \/ HeardOf(m), Answered(m), UNCHANGED heard \/ HeardOf(m)
      PROVE  Service!Next
  <2>1. /\ call # NoCall /\ m.id = call.id /\ call' = NoCall /\ UNCHANGED stops
        /\ result' = [result EXCEPT ![call.number] = m.number]
    BY <1>5 DEF Answered
  <2>2. /\ conn = "open" /\ scope \in Scopes /\ call.id \in CallIds /\ call.number \in Calls
        /\ Known(scope, call.id, call.number)
        /\ call.number \in Pending /\ Pending' = Pending \ {call.number}
    BY <1>1, <1>2, <2>1, CallEnds
  <2>3. m.number \in Calls /\ Known(scope, call.id, m.number) /\ m.number \in Service!Made
    BY <1>3, <1>5, <2>1, <2>2
  <2>4. m.number = call.number \/ {call.number, m.number} \cap strays # {}
    BY <1>1, <2>2, <2>3, OneCall
  <2>5. heard' = heard \cup {m.number}
    BY <1>1, <1>5 DEF DeferredHeard, HeardOf
  <2>6. QED
    BY <1>4, <2>1, <2>2, <2>3, <2>4, <2>5
<1>6. ASSUME NEW m, HeardOf(m), KeepsFor(m) PROVE Service!Next
  <2>1. conn = "open" /\ heard' = heard \cup {m.number} /\ UNCHANGED << result, call, stops >>
    BY <1>6 DEF HeardOf, KeepsFor
  <2>2. m.number \in Service!Made /\ Pending' = Pending
    BY <1>2, <1>3, <1>6, <2>1 DEF Pending
  <2>3. Service!Hear(m.number)
    BY <1>2, <2>1, <2>2 DEF Service!Hear
  <2>4. QED
    BY <2>2, <2>3 DEF Service!Next
<1>7. ASSUME NEW t \in stops, NEW m \in deferred, UNCHANGED heard, Reaped(t, m) PROVE Service!Next
  <2>1. /\ m.id = t.id /\ stops' = stops \ {t} /\ UNCHANGED call
        /\ result' = [result EXCEPT ![t.number] = m.number]
    BY <1>7 DEF Reaped
  <2>2. /\ conn = "open" /\ scope \in Scopes /\ t.id \in CallIds /\ t.number \in Calls
        /\ Known(scope, t.id, t.number)
        /\ t.number \in Pending /\ Pending' = Pending \ {t.number}
    BY <1>1, <1>2, <2>1, StopEnds
  <2>3. m.number \in Calls /\ Known(scope, t.id, m.number) /\ m.number \in Service!Made
    BY <1>3, <2>1, <2>2
  <2>4. m.number = t.number \/ {t.number, m.number} \cap strays # {}
    BY <1>1, <2>2, <2>3, OneCall
  <2>5. heard' = heard \cup {m.number}
    BY <1>1, <1>7 DEF DeferredHeard
  <2>6. QED
    BY <1>4, <2>1, <2>2, <2>3, <2>4, <2>5
<1>8. QED
  BY <1>1, <1>5, <1>6, <1>7, HearsMeans

\* A frame is executed under an ID the scope has not seen: its call never was.
LEMMA ServesMaps == TypeInv /\ Accounted /\ Serves => Service!Next
<1>1. SUFFICES ASSUME TypeInv, Accounted, Serves PROVE Service!Next
  OBVIOUS
<1>2. /\ UNCHANGED << submitting, call, stops, made, result, heard, alarms, strays >>
      /\ UNCHANGED executed \/ Executes
  BY <1>1, ServesMeans DEF TypeInv, DaemonServes, requests
<1>3. Pending' = Pending /\ Alarmed' = Alarmed
  BY <1>2 DEF Pending, Alarmed
<1>4. CASE UNCHANGED executed
  BY <1>2, <1>3, <1>4, GivesUpMaps
<1>5. CASE Executes
  <2>1. PICK t \in Scopes, f \in Message :
               /\ Kept(t, f.id, f.number)
               /\ f.id > highest[t] /\ highest'[t] = f.id
               /\ executed' = [executed EXCEPT ![f.number] = @ + 1]
    BY <1>5 DEF Executes
  <2>2. /\ f.id \in CallIds /\ f.id \in Nat /\ f.number \in Calls /\ Known(t, f.id, f.number)
        /\ executed \in [Calls -> Nat] /\ highest[t] \in Nat /\ made \in Nat
    <3>1. f.id \in CallIds /\ f.id \in Nat /\ f.number \in Calls
      BY MessageTyped, ConstantsTyped
    <3>2. Known(t, f.id, f.number)
      BY <2>1, <3>1 DEF Known
    <3>3. executed \in [Calls -> Nat] /\ highest \in [Scopes -> Nat] /\ made \in Nat
      BY <1>1, ConstantsTyped DEF TypeInv, Types, HistoryOK, DaemonOK, IdentityOK
    <3>4. QED
      BY <3>1, <3>2, <3>3
  <2>3. executed[f.number] = 1 => f.id <= highest[t]
    BY <1>1, <2>2 DEF Accounted, ExecutedOK
  <2>4. executed[f.number] <= 1 /\ f.number <= made
    BY <1>1, <2>2 DEF Accounted, ExecutedOK, Single
  <2>5. executed[f.number] = 0
    BY <2>1, <2>2, <2>3, <2>4
  <2>6. executed' = [executed EXCEPT ![f.number] = 1]
    BY <2>1, <2>2, <2>5
  <2>7. Service!Execute(f.number)
    BY <1>2, <1>3, <2>5, <2>6 DEF Service!Execute
  <2>8. f.number \in Service!Made
    BY <2>2, <2>4, ConstantsTyped DEF Service!Made
  <2>9. QED
    BY <2>7, <2>8 DEF Service!Next
<1>6. QED
  BY <1>2, <1>4, <1>5

\* A request that has its ID is a stray where it is written in another scope.
LEMMA AdoptMaps == TypeInv /\ Adopt => Service!Next
<1>1. SUFFICES ASSUME TypeInv, Adopt PROVE Service!Next
  OBVIOUS
<1>2. /\ SameScope \/ NewScope(NoCall)
      /\ submitting' \in {submitting, [submitting EXCEPT !.counted = FALSE]}
      /\ UNCHANGED << call, stops, made, executed, result, heard, alarms >>
      /\ submitting \in Request
  BY <1>1, AdoptMeans DEF TypeInv, Types, RequestsOK
<1>3. submitting'.number = submitting.number
  BY <1>2 DEF Request, NoCall
<1>4. Pending' = Pending
  BY <1>2, <1>3 DEF Pending
<1>5. strays' = strays \/ \E n \in Pending' : strays' = strays \cup {n}
  <2>1. strays' = strays \/ (submitting # NoCall /\ strays' = strays \cup {submitting.number})
    BY <1>2 DEF SameScope, NewScope
  <2>2. submitting # NoCall => submitting.number \in Pending
    BY <1>2, RequestTyped, ConstantsTyped, PendingMeans
  <2>3. QED
    BY <1>4, <2>1, <2>2
<1>6. QED
  BY <1>2, <1>4, <1>5, GivesUpMaps

LEMMA ResumesMap == TypeInv /\ Resumes => Service!Next
<1>1. SUFFICES ASSUME TypeInv, Resumes PROVE Service!Next
  OBVIOUS
<1>2. Types /\ GreetedOK /\ submitting \in Request
  BY <1>1 DEF TypeInv, Types, RequestsOK
<1>3. PICK q \in Request \ {NoCall} :
          /\ q = call \/ (q = submitting /\ call = NoCall)
          /\ \/ ResumeFails
             \/ Accepts(scope) /\ Resends(q)
             \/ Accepts(scope) /\ scope \notin alive /\ GivesUp(q)
          /\ submitting' = IF q = submitting THEN NoCall ELSE submitting
          /\ UNCHANGED << made, executed, result, heard, alarms >>
  BY <1>1, <1>2, ResumesMeans
<1>4. /\ call' \in {q, NoCall} /\ \A t \in stops' : t.number = q.number
      /\ \/ strays' = strays
         \/ submitting \notin {NoCall, q} /\ strays' = strays \cup {submitting.number}
  <2>1. CASE ResumeFails
    BY <2>1 DEF ResumeFails
  <2>2. CASE Resends(q)
    BY <2>2 DEF Resends, SameScope
  <2>3. CASE GivesUp(q)
    BY <2>3 DEF GivesUp, NewScope
  <2>4. QED
    BY <1>3, <2>1, <2>2, <2>3
<1>5. Pending' \subseteq Pending
  <2>1. \A n \in Pending' : n # 0 /\ (n = submitting.number \/ n = q.number)
    BY <1>3, <1>4, ConstantsTyped DEF Pending
  <2>2. QED
    BY <1>3, <2>1, PendingMeans
<1>6. strays' = strays \/ \E n \in Pending' : strays' = strays \cup {n}
  <2>1. ASSUME submitting \notin {NoCall, q} PROVE submitting.number \in Pending'
    <3>1. submitting' = submitting /\ submitting.number # 0
      BY <1>2, <1>3, <2>1, RequestTyped, ConstantsTyped
    <3>2. QED
      BY <3>1 DEF Pending
  <2>2. QED
    BY <1>4, <2>1
<1>7. QED
  BY <1>3, <1>5, <1>6, GivesUpMaps

LEMMA NextMaps == CallInv /\ DeferredHeard /\ [Next]_vars => [Service!Next]_(Service!vars)
<1>1. SUFFICES ASSUME CallInv, DeferredHeard, [Next]_vars PROVE Service!Next
  OBVIOUS
<1>2. TypeInv /\ Types /\ Accounted
  BY <1>1 DEF CallInv, TypeInv
<1>3. ASSUME UNCHANGED << submitting, call, stops, made, executed, result, heard, alarms, strays >>
      PROVE  Service!Next
  <2>1. Pending' = Pending
    BY <1>3 DEF Pending
  <2>2. QED
    BY <1>3, <2>1, GivesUpMaps
<1>4. CASE ConnectorConnects
  BY <1>3, <1>4 DEF ConnectorConnects, requests, history
<1>5. CASE UNCHANGED vars
  BY <1>3, <1>5 DEF vars, requests, history
<1>6. QED
  BY <1>1, <1>2, <1>4, <1>5, QuietMaps, BeginsMaps, SubmitMaps, HearsMaps, ServesMaps, AdoptMaps,
     ResumesMap, NextCases

\* PtyRuntime keeps its promise to its callers: whatever connections break, and
\* whatever scopes start over, a call ends once, is executed at most once, and
\* takes an answer to it, or to a stray; and a stop is reported as never confirmed
\* only while no answer to it has come, or some call is a stray.
THEOREM Refinement == Spec => ImplementsCallService
<1>1. Init => Service!Init /\ DeferredHeard
  <2>1. Init => Pending = {} /\ Alarmed = {} /\ DeferredHeard
    BY ConstantsTyped DEF Init, Pending, Alarmed, DeferredHeard
  <2>2. QED
    BY <2>1 DEF Init, Service!Init, Calls, Service!Calls
<1>2. CallInv /\ DeferredHeard /\ [Next]_vars => DeferredHeard'
  BY NextDeferredHeard DEF CallInv
<1>3. QED
  BY <1>1, <1>2, NextMaps, CallInvHolds, PTL DEF Spec, ImplementsCallService, Service!Spec
=============================================================================
