--------------------------- MODULE ClientRuntime ---------------------------
(***************************************************************************)
(* The client's request runtime (PtyRuntime in src/src/pty.rs): request    *)
(* IDs, the one synchronous request a time that waits for its answer, the  *)
(* stops nobody waits for, the messages kept for later, and the connection *)
(* behind them, which breaks, is resumed, or is replaced by one of another *)
(* client scope.                                                           *)
(*                                                                         *)
(* The client is one thread; beside it run the connector thread and the    *)
(* reader thread (the inbox).  The daemon is what the client relies on: a  *)
(* request cache per client scope (RequestScope has its detail), kept      *)
(* until the daemon is restarted.  A connection that breaks may leave      *)
(* frames the daemon still reads.                                          *)
(*                                                                         *)
(* A call is numbered; its number is in what it sends and in the answers   *)
(* to it, for the properties only.  The client reads the request ID.       *)
(***************************************************************************)
EXTENDS Integers, Sequences, SequencesExt

CONSTANTS LastCall,     \* bound: calls made
          LastScope,    \* bound: client scopes the daemon issues
          MaxBreaks     \* bound: connections that break and daemons that restart

ASSUME ClientRuntimeAssumption ==
    /\ LastCall \in Nat
    /\ LastScope \in Nat \ {0}
    /\ MaxBreaks \in Nat

\* Mutant of FirstId: IDs restart at zero.
FirstIdZero == 0

\* RequestId::MIN.
FirstId == 1

Calls == 1 .. LastCall
Scopes == 1 .. LastScope

VARIABLES
    scope, instance,  \* client_scope and server_instance (0: none yet)
    nextId,           \* next_request_id
    submitting,       \* a request that has its ID and is not written: [kind, number,
                      \* id, counted], counted: it is in pending_requests
    call,             \* the request that waits for its answer: the same
    stops,            \* pending_stops: [id, number]
    deferred,         \* deferred_messages: [id, number, kind]; a set, since each message
                      \* is received once and looked up by its ID (of two with one
                      \* ID, the code takes the older one, and the model either)
    toReattach,       \* pending_reattach is empty ("no") or not; "later": backing off
    conn,             \* connection: "none" or "open"
    connector,        \* pending_connect: [state, resume, hello]
    inbox,            \* received by the reader thread, not yet by the client
    outbox,           \* written by the client, not yet handled
    link,             \* the client's connection, at the daemon: [scope, up]
    daemon,           \* the daemon's instance
    alive,            \* the scopes it retains
    issued,           \* scopes issued
    highest,          \* each scope's highest_request_id (0: none)
    records,          \* each scope's records: [id, number, state]
    late,             \* frames left of connections that broke: [scope, frame]
    made, breaks,     \* calls made, breaks
    executed,         \* how often each call was executed (history)
    result,           \* the call whose answer each call took, or 0 (history)
    heard,            \* calls an answer to which the client received (history)
    alarms,           \* stops reported as unconfirmed: [number, heard] (history)
    strays,           \* calls written in another scope than their ID is of (history)
    written           \* each scope's highest ID written, and whether a lower one
                      \* was first written after it: [top, back] (history)

identity == << scope, instance, nextId >>
requests == << submitting, call, stops, deferred >>
wires    == << conn, connector, inbox, outbox, link >>
server   == << daemon, alive, issued, highest, records, late >>
history  == << executed, result, heard, alarms, strays, written >>
vars     == << identity, requests, toReattach, wires, server, made, breaks, history >>

NoCall == [kind |-> "none", number |-> 0, id |-> 0, counted |-> FALSE]
NoHello == [scope |-> 0, daemon |-> 0, resumed |-> FALSE]
NoConnector == [state |-> "none", resume |-> 0, hello |-> NoHello]

Init ==
    /\ scope = 0 /\ instance = 0 /\ nextId = FirstId
    /\ submitting = NoCall /\ call = NoCall /\ stops = {} /\ deferred = {}
    /\ toReattach = "no"
    /\ conn = "none" /\ connector = NoConnector
    /\ inbox = << >> /\ outbox = << >>
    /\ link = [scope |-> 0, up |-> FALSE]
    /\ daemon = 1 /\ alive = {} /\ issued = 0
    /\ highest = [s \in Scopes |-> 0]
    /\ records = [s \in Scopes |-> {}]
    /\ late = {}
    /\ made = 0 /\ breaks = 0
    /\ executed = [n \in Calls |-> 0]
    /\ result = [n \in Calls |-> 0]
    /\ heard = {} /\ alarms = {} /\ strays = {}
    /\ written = [s \in Scopes |-> [top |-> 0, back |-> FALSE]]

\* No request of the client's own is under way.
Idle == call = NoCall /\ submitting = NoCall
-----------------------------------------------------------------------------
(* Connecting.                                                             *)

\* resume_or_allocate_scope: the daemon's answer to a client's hello.
HelloTo(resume) ==
    IF resume \in alive
    THEN [scope |-> resume, daemon |-> daemon, resumed |-> TRUE]
    ELSE [scope |-> issued + 1, daemon |-> daemon, resumed |-> FALSE]

\* Its side of the connection: nobody waits for the answers of the one before.
Accepts(resume) ==
    /\ \/ resume \in alive /\ UNCHANGED << alive, issued >>
       \/ /\ resume \notin alive /\ issued < LastScope
          /\ issued' = issued + 1
          /\ alive' = alive \cup {issued'}
    /\ link' = [scope |-> HelloTo(resume).scope, up |-> TRUE]
    /\ records' = [s \in Scopes |->
          {[r EXCEPT !.state = IF @ = "done" THEN "done" ELSE "unheard"] : r \in records[s]}]
    /\ UNCHANGED << daemon, highest, late >>

ResumedSame(hello, resume) ==
    hello.resumed /\ resume = hello.scope /\ instance = hello.daemon

Replaced(hello, resume) == scope # 0 /\ ~ ResumedSame(hello, resume)

\* Mutant of KeptMessages: messages of the scope before are kept.
KeptMessagesAlways(kept, hello, resume) == kept

KeptMessages(kept, hello, resume) == IF Replaced(hello, resume) THEN {} ELSE kept

\* install_connection: a connection of another scope starts over.
Install(hello, resume, kept) ==
    /\ scope' = hello.scope /\ instance' = hello.daemon
    /\ nextId' = IF Replaced(hello, resume) THEN FirstId ELSE nextId
    /\ deferred' = KeptMessages(kept, hello, resume)
    /\ conn' = "open"

\* enqueue_reattachments.
Enqueued == IF toReattach = "later" THEN "later" ELSE "due"

\* A request that is not in pending_requests has found a connection already: what it
\* loses now, it writes to, and poll_connector is not called again before.
MayPoll == submitting = NoCall \/ submitting.counted

\* start_connector.
StartConnector ==
    /\ conn = "none" /\ connector = NoConnector /\ MayPoll
    /\ connector' = [state |-> "running", resume |-> scope, hello |-> NoHello]
    /\ UNCHANGED << identity, requests, toReattach, conn, inbox, outbox, link,
                    server, made, breaks, history >>

\* establish_connection, in the connector thread.
ConnectorConnects ==
    /\ connector.state = "running"
    /\ Accepts(connector.resume)
    /\ connector' = [connector EXCEPT !.state = "done", !.hello = HelloTo(connector.resume)]
    /\ inbox' = << >> /\ outbox' = << >>
    /\ UNCHANGED << identity, requests, toReattach, conn, made, breaks, history >>

ConnectorFails ==
    /\ connector.state = "running"
    /\ connector' = NoConnector
    /\ UNCHANGED << identity, requests, toReattach, conn, inbox, outbox, link,
                    server, made, breaks, history >>

\* poll_connector, at a drain or where ensure_connected is called: between two
\* requests, or in the midst of one that has its ID already.  Another scope
\* clears pending_requests, the one under way included.
Adopt ==
    /\ conn = "none" /\ connector.state = "done"
    /\ call = NoCall
    /\ MayPoll
    /\ Install(connector.hello, connector.resume, deferred)
    /\ toReattach' \in {"due"} \cup ({toReattach} \ {"later"})
    /\ submitting' = IF Replaced(connector.hello, connector.resume)
                     THEN [submitting EXCEPT !.counted = FALSE] ELSE submitting
    /\ strays' = IF submitting # NoCall /\ Replaced(connector.hello, connector.resume)
                 THEN strays \cup {submitting.number} ELSE strays
    /\ connector' = NoConnector
    /\ UNCHANGED << call, stops, inbox, outbox, link, server, made, breaks,
                    executed, result, heard, alarms, written >>

WithId(messages, id) == {m \in messages : m.id = id}

\* disconnect: the stops are given up, with their answers.
KeptAtDisconnect == {m \in deferred : \A s \in stops : s.id # m.id}

\* The reader thread is at its end and everything it read was taken.
Lost == conn = "open" /\ ~ link.up /\ inbox = << >>

DrainLost ==
    /\ Idle /\ Lost
    /\ conn' = "none" /\ stops' = {} /\ deferred' = KeptAtDisconnect
    /\ UNCHANGED << identity, submitting, call, toReattach, connector, inbox, outbox, link,
                    server, made, breaks, history >>
-----------------------------------------------------------------------------
(* Requests.                                                               *)

Frame(q) == [id |-> q.id, number |-> q.number, kind |-> q.kind]

\* A frame written to a connection that broke is lost.
Put(q) == outbox' = IF link.up THEN Append(outbox, Frame(q)) ELSE outbox

\* The history of the first write of a request.
Wrote(q) ==
    written' = [written EXCEPT ![scope] =
                   [top  |-> IF q.id > @.top THEN q.id ELSE @.top,
                    back |-> @.back \/ q.id < @.top]]

NewCall(kind, counted) ==
    [kind |-> kind, number |-> made + 1, id |-> nextId, counted |-> counted]

Allocates ==
    /\ made < LastCall
    /\ made' = made + 1
    /\ nextId' = nextId + 1

\* create, attach and their like connect first: nothing comes between the ID and
\* the write.
BeginConnected(kind) ==
    /\ conn = "open" /\ Allocates
    /\ call' = NewCall(kind, TRUE)
    /\ Put(call') /\ Wrote(call')
    /\ UNCHANGED << scope, instance, submitting, stops, deferred, conn, connector, inbox, link,
                    server, breaks, executed, result, heard, alarms, strays >>

BeginAttach == Idle /\ BeginConnected("attach") /\ UNCHANGED toReattach

\* service_reattachments, while no request is in pending_requests: at a drain, and
\* where ensure_connected is called.
BeginReattach ==
    /\ call = NoCall /\ ~ submitting.counted
    /\ toReattach = "due" /\ toReattach' = "no"
    /\ BeginConnected("reattach")

\* After an attempt that failed: advance_retry_backoff.
BackoffExpires ==
    /\ Idle
    /\ toReattach = "later" /\ toReattach' = "due"
    /\ UNCHANGED << identity, requests, wires, server, made, breaks, history >>

\* update_agent_status and get_agent_status take their ID before they connect.
BeginStatus ==
    /\ Idle /\ Allocates
    /\ submitting' = NewCall("status", TRUE)
    /\ UNCHANGED << scope, instance, call, stops, deferred, toReattach, wires, server,
                    breaks, history >>

\* stop_async connects, takes an ID that is not in pending_requests, and connects
\* again to write.
BeginStop ==
    /\ Idle /\ conn = "open" /\ Allocates
    /\ submitting' = NewCall("stop", FALSE)
    /\ UNCHANGED << scope, instance, call, stops, deferred, toReattach, wires, server,
                    breaks, history >>

\* A stop is not waited for.
Submitted(q) ==
    IF q.kind = "stop"
    THEN stops' = stops \cup {[id |-> q.id, number |-> q.number]} /\ UNCHANGED call
    ELSE call' = q /\ UNCHANGED stops

Submit ==
    /\ submitting # NoCall /\ call = NoCall /\ conn = "open"
    /\ Put(submitting) /\ Wrote(submitting)
    /\ Submitted(submitting)
    /\ submitting' = NoCall
    /\ UNCHANGED << identity, deferred, toReattach, conn, connector, inbox, link, server,
                    made, breaks, executed, result, heard, alarms, strays >>

\* Mutant of Finished: every message kept is dropped with the request's.
FinishedAll(id) == {}

\* finish_request.
Finished(id) == deferred \ WithId(deferred, id)

\* Not connected: the request fails at once.
SubmitFails ==
    /\ submitting.counted /\ call = NoCall
    /\ conn = "none" /\ connector.state # "done"
    /\ submitting' = NoCall
    /\ deferred' = Finished(submitting.id)
    /\ UNCHANGED << identity, call, stops, toReattach, wires, server, made, breaks, history >>

\* Mutant of MayResend: the request is sent again to whatever answers.
MayResendAnywhere(hello) == TRUE

MayResend(hello) == ResumedSame(hello, scope)

\* resume_and_resend, for a write that failed or an answer that cannot come any
\* more: connect at once, and send the same frame only to the same daemon and scope.
Resume(q, ended) ==
    /\ connector = NoConnector
    /\ \/ /\ conn' = "none" /\ deferred' = IF ended THEN KeptAtDisconnect \ WithId(deferred, q.id)
                                                    ELSE KeptAtDisconnect
          /\ stops' = {} /\ call' = NoCall
          /\ inbox' = << >> /\ outbox' = << >>
          /\ UNCHANGED << identity, link, server, strays >>
          /\ toReattach' = IF q.kind = "reattach" THEN "later" ELSE toReattach
       \/ /\ Accepts(scope)
          /\ inbox' = << >>
          /\ LET hello == HelloTo(scope)
             IN  /\ Install(hello, scope, KeptAtDisconnect)
                 /\ strays' = IF submitting \notin {NoCall, q} /\ Replaced(hello, scope)
                              THEN strays \cup {submitting.number} ELSE strays
                 /\ \/ /\ MayResend(hello)
                       /\ outbox' = << Frame(q) >>
                       /\ toReattach' \in {toReattach, Enqueued}
                       /\ IF q.kind = "stop"
                          THEN stops' = {[id |-> q.id, number |-> q.number]} /\ call' = NoCall
                          ELSE stops' = {} /\ call' = q
                    \/ /\ ~ MayResend(hello)
                       /\ outbox' = << >>
                       /\ toReattach' \in IF q.kind = "reattach" THEN {"later"}
                                         ELSE {toReattach, Enqueued}
                       /\ stops' = {} /\ call' = NoCall
    /\ submitting' = IF q = submitting THEN NoCall ELSE submitting
    /\ UNCHANGED << connector, made, breaks, executed, result, heard, alarms, written >>

\* The write failed; or, for a stop or a request whose scope was replaced, the
\* connection was lost by the re-attachment that came before the write.
SubmitResumes ==
    /\ submitting # NoCall /\ call = NoCall
    /\ \/ conn = "open" /\ ~ link.up
       \/ conn = "none" /\ ~ submitting.counted
    /\ Resume(submitting, submitting.kind # "stop")

CallResumes ==
    /\ call # NoCall /\ Lost
    /\ WithId(deferred, call.id) = {}
    /\ Resume(call, TRUE)

\* What receive_for_request takes first: a message kept for this ID.  One of
\* another kind is put back where it was, and found again.
Takes(q, m) ==
    /\ result' = [result EXCEPT ![q.number] = m.number]
    /\ call' = NoCall
    /\ toReattach' \in IF q.kind = "reattach" THEN {"no", "due", "later"} ELSE {toReattach}

SameKind(k, l) == (k = "status") = (l = "status") /\ (k = "stop") = (l = "stop")

TakeDeferred ==
    /\ call # NoCall
    /\ \E m \in WithId(deferred, call.id) : SameKind(call.kind, m.kind) /\ Takes(call, m)
    /\ deferred' = Finished(call.id)
    /\ UNCHANGED << identity, submitting, stops, wires, server, made, breaks,
                    executed, heard, alarms, strays, written >>

\* The next message: the answer, or one for another request, kept.
Receive ==
    /\ call # NoCall /\ conn = "open" /\ inbox # << >>
    /\ WithId(deferred, call.id) = {}
    /\ LET m == Head(inbox)
       IN  /\ heard' = heard \cup {m.number}
           /\ \/ m.id = call.id /\ SameKind(call.kind, m.kind) /\ Takes(call, m)
                 /\ deferred' = Finished(call.id)
              \/ ~ (m.id = call.id /\ SameKind(call.kind, m.kind))
                 /\ deferred' = deferred \cup {m}
                 /\ UNCHANGED << result, call, toReattach >>
    /\ inbox' = Tail(inbox)
    /\ UNCHANGED << identity, submitting, stops, conn, connector, outbox, link, server,
                    made, breaks, executed, alarms, strays, written >>

TimesOut ==
    /\ call # NoCall
    /\ WithId(deferred, call.id) = {}
    /\ call' = NoCall /\ deferred' = Finished(call.id)
    /\ toReattach' = IF call.kind = "reattach" THEN "later" ELSE toReattach
    /\ UNCHANGED << identity, submitting, stops, wires, server, made, breaks, history >>
-----------------------------------------------------------------------------
(* drain_events, and the stops.                                            *)

Drain ==
    /\ Idle /\ conn = "open" /\ inbox # << >>
    /\ deferred' = deferred \cup {Head(inbox)}
    /\ heard' = heard \cup {Head(inbox).number}
    /\ inbox' = Tail(inbox)
    /\ UNCHANGED << identity, submitting, call, stops, toReattach, conn, connector, outbox,
                    link, server, made, breaks, executed, result, alarms, strays, written >>

\* reap_pending_stops: an answer that was kept; any message with the ID is one.
Reap(s) ==
    /\ Idle
    /\ \E m \in WithId(deferred, s.id) :
          /\ result' = [result EXCEPT ![s.number] = m.number]
          /\ deferred' = deferred \ {m}
    /\ stops' = stops \ {s}
    /\ UNCHANGED << identity, submitting, call, toReattach, wires, server, made, breaks,
                    executed, heard, alarms, strays, written >>

\* Its deadline passed: StopFailed, "never confirmed".
ReapExpired(s) ==
    /\ Idle
    /\ WithId(deferred, s.id) = {}
    /\ stops' = stops \ {s}
    /\ alarms' = alarms \cup {[number |-> s.number, heard |-> s.number \in heard]}
    /\ UNCHANGED << identity, submitting, call, deferred, toReattach, wires, server,
                    made, breaks, executed, result, heard, strays, written >>
-----------------------------------------------------------------------------
(* The daemon and the connection.                                          *)

Answers(s, f, there) ==
    inbox' = IF there THEN Append(inbox, f) ELSE inbox

\* One frame of scope s; there: its connection is still the client's.
Handle(s, f, there) ==
    /\ s \in alive
    /\ \/ \E r \in records[s] :
             /\ r.id = f.id
             /\ Answers(s, f, there /\ (r.number # f.number \/ r.state = "done"))
             /\ records' = [records EXCEPT ![s] =
                    IF there /\ r.number = f.number /\ r.state # "done"
                    THEN (@ \ {r}) \cup {[r EXCEPT !.state = "waited"]} ELSE @]
             /\ UNCHANGED << highest, executed >>
       \/ /\ \A r \in records[s] : r.id # f.id
          /\ f.id <= highest[s]
          /\ Answers(s, f, there)
          /\ UNCHANGED << highest, records, executed >>
       \/ /\ f.id > highest[s]
          /\ highest' = [highest EXCEPT ![s] = f.id]
          /\ executed' = [executed EXCEPT ![f.number] = @ + 1]
          /\ records' = [records EXCEPT ![s] = @ \cup
                {[id |-> f.id, number |-> f.number,
                  state |-> IF f.kind # "stop" THEN "done"
                            ELSE IF there THEN "waited" ELSE "unheard"]}]
          /\ Answers(s, f, there /\ f.kind # "stop")

Serve ==
    /\ link.up /\ outbox # << >>
    /\ Handle(link.scope, Head(outbox), TRUE)
    /\ outbox' = Tail(outbox)
    /\ UNCHANGED << identity, requests, toReattach, conn, connector, link, daemon, alive, issued,
                    late, made, breaks, result, heard, alarms, strays, written >>

ServeLate(l) ==
    /\ Handle(l.scope, l.frame, FALSE)
    /\ late' = late \ {l}
    /\ UNCHANGED << identity, requests, toReattach, conn, connector, outbox, link, daemon, alive,
                    issued, made, breaks, result, heard, alarms, strays, written >>

\* A stop completes: its pane is reaped and drained.
StopCompletes(s, r) ==
    /\ s \in alive /\ r.state # "done"
    /\ records' = [records EXCEPT ![s] = (@ \ {r}) \cup {[r EXCEPT !.state = "done"]}]
    /\ Answers(s, [id |-> r.id, number |-> r.number, kind |-> "stop"],
               link.up /\ link.scope = s /\ r.state = "waited")
    /\ UNCHANGED << identity, requests, toReattach, conn, connector, outbox, link, daemon, alive,
                    issued, highest, late, made, breaks, history >>

\* The connection breaks; what was written may still be read there.
Break ==
    /\ link.up /\ breaks < MaxBreaks
    /\ breaks' = breaks + 1
    /\ link' = [link EXCEPT !.up = FALSE]
    /\ late' = late \cup {[scope |-> link.scope, frame |-> f] : f \in ToSet(outbox)}
    /\ outbox' = << >>
    /\ UNCHANGED << identity, requests, toReattach, conn, connector, inbox, daemon, alive, issued,
                    highest, records, made, history >>

\* A daemon that dies takes its scopes with it; nothing else forgets one.
Restart ==
    /\ breaks < MaxBreaks
    /\ breaks' = breaks + 1
    /\ daemon' = daemon + 1
    /\ alive' = {} /\ late' = {}
    /\ link' = [link EXCEPT !.up = FALSE]
    /\ outbox' = << >>
    /\ UNCHANGED << identity, requests, toReattach, conn, connector, inbox, issued, highest,
                    records, made, history >>
-----------------------------------------------------------------------------
Next ==
    \/ StartConnector \/ ConnectorConnects \/ ConnectorFails \/ Adopt \/ DrainLost
    \/ BeginAttach \/ BeginReattach \/ BackoffExpires \/ BeginStatus \/ BeginStop
    \/ Submit \/ SubmitFails \/ SubmitResumes \/ CallResumes
    \/ TakeDeferred \/ Receive \/ TimesOut \/ Drain
    \/ \E s \in stops : Reap(s) \/ ReapExpired(s)
    \/ Serve \/ Break \/ Restart
    \/ \E l \in late : ServeLate(l)
    \/ \E s \in Scopes : \E r \in records[s] : StopCompletes(s, r)

Spec == Init /\ [][Next]_vars
-----------------------------------------------------------------------------
Request == [kind : {"attach", "reattach", "status", "stop"}, number : Calls,
            id : 1 .. LastCall, counted : BOOLEAN] \cup {NoCall}
Message == [id : 1 .. LastCall, number : Calls,
            kind : {"attach", "reattach", "status", "stop"}]

\* Every variable keeps its type; in particular a request ID is never zero.
TypeOK ==
    /\ scope \in Scopes \cup {0} /\ instance \in 0 .. daemon
    /\ nextId \in 1 .. LastCall + 1
    /\ submitting \in Request /\ call \in Request
    /\ stops \subseteq [id : 1 .. LastCall, number : Calls]
    /\ deferred \subseteq Message
    /\ conn \in {"none", "open"} /\ toReattach \in {"no", "due", "later"}
    /\ connector.state \in {"none", "running", "done"}
    /\ inbox \in Seq(Message) /\ outbox \in Seq(Message)
    /\ alive \subseteq Scopes /\ issued \in 0 .. LastScope
    /\ \A s \in Scopes : records[s] \subseteq
          [id : 1 .. LastCall, number : Calls, state : {"waited", "unheard", "done"}]

\* A request and a stop take the answer the daemon gave to them, whatever was
\* retried, timed out, answered late or left of a scope that is gone.  Excepted
\* is a request that was written in another scope than its ID is of, and one that
\* has the same ID then.
AnswersMatch ==
    \A n \in Calls : result[n] \in {0, n} \/ {n, result[n]} \cap strays # {}

\* No request is executed twice, by one daemon or by two: it is sent again only
\* where its ID is known to mean it.
ExecutedOnce == \A n \in Calls : executed[n] <= 1

\* A deleted pane is reported as "never confirmed" only if no answer to its stop
\* has reached the client (unless a request was written in another scope than its
\* ID is of: its answer may be taken for the stop's).
NoFalseAlarm == \A a \in alarms : a.heard => strays # {}

\* "Request IDs increase without wrapping inside one client scope."
IdsIncrease == \A s \in Scopes : ~ written[s].back
-----------------------------------------------------------------------------
(* What the runtime promises (CallService).                                *)

\* The calls that have not ended: the requests that wait, and the stops.
Pending == ({submitting.number, call.number} \cup {t.number : t \in stops}) \ {0}

Alarmed == {a.number : a \in alarms}

Service == INSTANCE CallService WITH pending <- Pending, alarmed <- Alarmed

\* Every step of the runtime is one its callers may see: a call ends once, is
\* executed at most once, takes only its own answer (but for the strays), and a
\* stop is reported as never confirmed only while no answer to it has come.
ImplementsCallService == Service!Spec
=============================================================================
