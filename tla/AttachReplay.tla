----------------------------- MODULE AttachReplay -----------------------------
(***************************************************************************)
(* The output of one pane on its way to the screen of one client: what the *)
(* daemon retains, replays and queues live, and what the client makes of   *)
(* it while it attaches, loses its connection in the middle, resumes its   *)
(* scope and attaches again.                                               *)
(*                                                                         *)
(* Output is counted: byte n is the number n.  A publish is one critical   *)
(* section of the pane lock, and so is the commit of an attach with its    *)
(* whole replay (lock rule L4: the server lock goes back before it, the    *)
(* pane lock does not).  The daemon's queue is bounded and drained by a    *)
(* writer thread meanwhile, so any message may be refused, and any prefix  *)
(* of a replay accepted.                                                   *)
(*                                                                         *)
(* Connections are numbered in the order the client opens them; every one  *)
(* but the first resumes the scope of the first.  "wire" is what is queued *)
(* for the client on its current connection and not yet handled: delivery  *)
(* queue, socket and channel.  The client is one thread; perform_attach is *)
(* a loop over messages and one action handles one message.                *)
(*                                                                         *)
(* The pane lives throughout.  Answers to requests the client gave up are  *)
(* put into deferred_messages, where nobody looks for them: here they are  *)
(* dropped.                                                                *)
(***************************************************************************)
EXTENDS RequestCache

CONSTANTS LastConn,      \* connections the client opens
          LastLease,     \* leases granted while we watch
          MaxOutput,     \* bytes the pane puts out while we watch
          MaxRead,       \* bytes of one PTY read
          HistoryLimit,  \* RAW_HISTORY_MAX_BYTES
          ChunkBytes     \* RAW_HISTORY_CHUNK_BYTES

ASSUME AttachReplayAssumption ==
    /\ LastConn \in Nat /\ LastLease \in Nat /\ MaxOutput \in Nat /\ HistoryLimit \in Nat
    /\ MaxRead \in Nat \ {0} /\ ChunkBytes \in Nat \ {0}
    /\ None \notin Nat

Conns == 1 .. LastConn

VARIABLES
    output,    \* next_output
    start,     \* history_start: start .. output - 1 is retained
    owner,     \* the AttachmentOwner: [lease, conn], lease 0 if there is none,
               \* connection 0 if it is a stranger's
    leases,    \* leases granted so far
    scope,     \* the RequestScopeState of the client's scope
    handler,   \* what each connection's reader thread is inside of
    inbox,     \* the Attach requests each reader thread has not read
    active,    \* ClientHandle.active
    wire,      \* messages for the client on its current connection
    client,    \* the client's connection, its counters, and its pane's entry
    attach,    \* the variables of perform_attach; an id of 0 outside of it
    screen,    \* what the parser was fed since it was reset
    partial    \* history: leases whose transaction did not fit the queue

daemon == << output, start, owner, leases, scope, handler, partial >>
terminal == << client, attach, screen >>
vars == << output, start, owner, leases, scope, handler, inbox, active, wire,
           client, attach, screen, partial >>

Idle == [op |-> "idle", id |-> 0, lease |-> 0]
Away == [id |-> 0, origin |-> "user", lease |-> 0, next |-> None, watermark |-> None, first |-> None]
Blank == [from |-> None, bytes |-> << >>]

Init ==
    /\ output = 0 /\ start = 0
    /\ owner = [lease |-> 0, conn |-> 0]
    /\ leases = 0
    /\ scope = EmptyScope
    /\ handler = [c \in Conns |-> Idle]
    /\ inbox = [c \in Conns |-> << >>]
    /\ active = [c \in Conns |-> FALSE]
    /\ wire = << >>
    /\ client = [conn |-> 0, opened |-> 0, last |-> 0, bound |-> FALSE, queued |-> FALSE,
                 lease |-> 0, expected |-> 0]
    /\ attach = Away
    /\ screen = Blank
    /\ partial = {}
-----------------------------------------------------------------------------
\* Messages.  Bytes from .. to - 1; a lease of 0 in a result is a refusal.
Message(kind, id, lease, from, to) ==
    [kind |-> kind, id |-> id, lease |-> lease, from |-> from, to |-> to]

Failed == 0
Result(id, lease) == Message("result", id, lease, 0, 0)
TakenOver(lease)  == Message("taken", 0, lease, 0, 0)

Least(a, b) == IF a < b THEN a ELSE b

Run(first, next) == [k \in 1 .. next - first |-> first + k - 1]

\* Mutant of HistoryStart: nothing is trimmed.
HistoryUntrimmed(next) == IF next > start THEN start ELSE next

\* append_raw_history: trim_to drops the oldest bytes beyond the limit, to the
\* byte.
HistoryStart(next) == IF next - start > HistoryLimit THEN next - HistoryLimit ELSE start

\* RawHistory::replay_chunks: full chunks and a rest.
ReplayChunks(id, lease) ==
    [k \in 1 .. (output - start + ChunkBytes - 1) \div ChunkBytes |->
        Message("chunk", id, lease, start + (k - 1) * ChunkBytes,
                Least(start + k * ChunkBytes, output))]

\* deliver_attach_transaction.
Transaction(id, lease) ==
    << Result(id, lease), Message("begin", id, lease, start, output) >>
    \o ReplayChunks(id, lease)
    \o << Message("end", id, lease, output, output) >>

\* Mutants of LiveFrame and Cut: the frame is numbered after the append; a
\* refused message costs nothing.
LiveFrameAfter(n) == Message("output", 0, owner.lease, output + n, output + n)
CutNobody(delivered) == {}

LiveFrame(n) == Message("output", 0, owner.lease, output, output + n)

\* The owner's connection is dropped when it cannot take what is sent to it.
Cut(delivered) == IF owner.conn # 0 /\ ~ delivered THEN {owner.conn} ELSE {}

Dropping(cs) == [c \in Conns |-> active[c] /\ c \notin cs]

Reaches(delivered) == delivered => owner.conn # 0 /\ active[owner.conn]

\* What the client sees of a message its owner connection took.
ToOwner(delivered, message) ==
    IF delivered /\ owner.conn = client.conn THEN Append(wire, message) ELSE wire

\* One PTY read is retained and queued for the owner.
Publish(n, delivered) ==
    /\ output + n <= MaxOutput
    /\ Reaches(delivered)
    /\ output' = output + n
    /\ start' = HistoryStart(output + n)
    /\ wire' = ToOwner(delivered, LiveFrame(n))
    /\ active' = Dropping(Cut(delivered))
    /\ UNCHANGED << owner, leases, scope, handler, inbox, client, attach, screen, partial >>

\* Another client's attach takes the pane.
Takeover(delivered) ==
    /\ leases < LastLease
    /\ Reaches(delivered)
    /\ leases' = leases + 1
    /\ owner' = [lease |-> leases + 1, conn |-> 0]
    /\ wire' = ToOwner(delivered, TakenOver(owner.lease))
    /\ active' = Dropping(Cut(delivered))
    /\ UNCHANGED << output, start, scope, handler, inbox, client, attach, screen, partial >>
-----------------------------------------------------------------------------
\* A reply that may not fit, with no consequence.
Attempted(c, message) ==
    IF c = client.conn /\ active[c] THEN {wire, Append(wire, message)} ELSE {wire}

\* A reader thread takes an Attach from its socket: begin_request.
BeginAttach(c) ==
    LET id     == Head(inbox[c])
        found  == Disposition(scope, id, id)
        cached == scope.records[id].response
    IN  /\ handler[c] = Idle
        /\ inbox[c] # << >>
        /\ inbox' = [inbox EXCEPT ![c] = Tail(@)]
        /\ scope' = BeginRequest(scope, id, id, c)
        /\ handler' =
             [handler EXCEPT ![c] =
                CASE found = "New" -> [op |-> "attach", id |-> id, lease |-> 0]
                  [] found = "Cached" /\ cached # Failed -> [op |-> "reattach", id |-> id, lease |-> cached]
                  [] OTHER -> Idle]
        /\ wire' \in IF found = "Expired" \/ (found = "Cached" /\ cached = Failed)
                     THEN Attempted(c, Result(id, Failed)) ELSE {wire}
        /\ UNCHANGED << output, start, owner, leases, active, client, attach, screen, partial >>

Waiting(c) ==
    LET waiters == WaitersOf(scope, handler[c].id)
    IN  IF waiters = << >> THEN << c >> ELSE waiters

\* Whoever began last becomes the owner.  Every waiter is sent the transaction
\* up to where it no longer fits, and TakenOver if it was not selected.
CommitNew(c, notified) ==
    LET id       == handler[c].id
        lease    == leases + 1
        waiters  == {Waiting(c)[k] : k \in 1 .. Len(Waiting(c))}
        selected == Waiting(c)[Len(Waiting(c))]
        alive    == Dropping(Cut(notified))
        mine     == client.conn \in waiters /\ alive[client.conn]
        parcel   == IF ~ mine THEN << >>
                    ELSE Transaction(id, lease)
                         \o (IF client.conn = selected THEN << >> ELSE << TakenOver(lease) >>)
    IN  /\ handler[c].op = "attach"
        /\ leases < LastLease
        /\ Reaches(notified)
        /\ leases' = lease
        /\ owner' = [lease |-> lease, conn |-> selected]
        /\ scope' = CompleteRequest(scope, id, lease)
        /\ active' = alive
        /\ \E n \in 0 .. Len(parcel) :
              /\ wire' = ToOwner(notified, TakenOver(owner.lease)) \o SubSeq(parcel, 1, n)
              /\ partial' = IF n < Len(parcel) THEN partial \cup {lease} ELSE partial
        /\ handler' = [handler EXCEPT ![c] = Idle]
        /\ UNCHANGED << output, start, inbox, client, attach, screen >>

\* The window cannot be resized, or the daemon shuts down.
CommitFailed(c, refused) ==
    LET waiters == WaitingOn(scope.records[handler[c].id])
    IN  /\ handler[c].op = "attach"
        /\ refused \subseteq waiters
        /\ scope' = CompleteRequest(scope, handler[c].id, Failed)
        /\ wire' = IF client.conn \in waiters \ refused /\ active[client.conn]
                   THEN Append(wire, Result(handler[c].id, Failed)) ELSE wire
        /\ active' = Dropping(refused)
        /\ handler' = [handler EXCEPT ![c] = Idle]
        /\ UNCHANGED << output, start, owner, leases, inbox, client, attach, screen, partial >>

\* The exact retry of an attach binds its lease to this connection, if it
\* resumed the scope or has the lease anyway.
CommitRebind(c, notified) ==
    LET moved  == owner.conn # c
        lease  == handler[c].lease
        parcel == IF c = client.conn THEN Transaction(handler[c].id, lease) ELSE << >>
    IN  /\ handler[c].op = "reattach"
        /\ owner.lease = lease /\ active[c] /\ (moved => c # 1)
        /\ (notified => moved) /\ Reaches(notified)
        /\ owner' = [owner EXCEPT !.conn = c]
        /\ active' = IF moved THEN Dropping(Cut(notified)) ELSE active
        /\ \E n \in 0 .. Len(parcel) :
              /\ wire' = ToOwner(notified, TakenOver(lease)) \o SubSeq(parcel, 1, n)
              /\ partial' = IF n < Len(parcel) THEN partial \cup {lease} ELSE partial
        /\ handler' = [handler EXCEPT ![c] = Idle]
        /\ UNCHANGED << output, start, leases, scope, inbox, client, attach, screen >>

\* The cached attach no longer stands, or fails like a fresh one.
CommitSuperseded(c) ==
    /\ handler[c].op = "reattach"
    /\ wire' \in Attempted(c, Result(handler[c].id, Failed))
    /\ handler' = [handler EXCEPT ![c] = Idle]
    /\ UNCHANGED << output, start, owner, leases, scope, inbox, active, terminal, partial >>

\* The writer thread ends, for an error or because the stream was shut down.
WriterEnds(c) ==
    /\ c <= client.opened
    /\ active' = Dropping({c})
    /\ scope' = RemoveClient(scope, c)
    /\ UNCHANGED << output, start, owner, leases, handler, inbox, wire, terminal, partial >>

\* The reader thread ends; what it has not read is lost.
ReaderEnds(c) ==
    /\ c <= client.opened
    /\ c # client.conn \/ ~ active[c]
    /\ handler[c] = Idle
    /\ inbox' = [inbox EXCEPT ![c] = << >>]
    /\ active' = Dropping({c})
    /\ scope' = RemoveClient(scope, c)
    /\ UNCHANGED << output, start, owner, leases, handler, wire, terminal, partial >>
-----------------------------------------------------------------------------
\* The client.

\* Mutant of Restarted: the parser keeps what it was fed.
RestartedKeeps(fed) == fed

\* reset_parser.
Restarted(fed) == Blank

\* A connection that resumes the scope.  install_connection queues the pane for
\* re-attachment if it is bound.
Reconnected(entry) ==
    [entry EXCEPT !.conn = entry.opened + 1, !.opened = entry.opened + 1,
                  !.queued = entry.queued \/ entry.bound]

Reconnects(requests) ==
    /\ client.opened < LastConn
    /\ active' = [active EXCEPT ![client.opened + 1] = TRUE]
    /\ inbox' = [inbox EXCEPT ![client.opened + 1] = requests]
    /\ wire' = << >>

\* poll_connector takes a connection over.
Connect ==
    /\ client.conn = 0
    /\ Reconnects(<< >>)
    /\ client' = Reconnected(client)
    /\ UNCHANGED << daemon, attach, screen >>

\* The entry after perform_attach returned an error.  The user's attach gives
\* the binding up if the error is definite; service_reattachments queues the
\* pane again whatever the error is.
Cleared(entry) == [entry EXCEPT !.bound = FALSE, !.lease = 0, !.expected = 0]

AfterFailure(entry, origin, definite) ==
    IF origin = "queue" THEN [entry EXCEPT !.queued = TRUE]
    ELSE IF definite THEN Cleared(entry) ELSE entry

Fails(definite) ==
    /\ attach.id # 0
    /\ client' = AfterFailure(client, attach.origin, definite)
    /\ attach' = Away

\* attach_existing and reattach_terminal: blank parser, a new request ID; it is
\* written, or the connection turns out to be broken and it is written to a new
\* one, or there is no new one.
StartAttach(origin) ==
    LET id    == client.last + 1
        entry == [client EXCEPT !.last = id, !.bound = TRUE, !.queued = FALSE]
    IN  /\ client.conn # 0 /\ attach.id = 0 /\ id \in Ids
        /\ IF origin = "queue" THEN client.queued /\ client.bound
           ELSE ~ (client.bound /\ client.lease # 0)
        /\ screen' = Restarted(screen)
        /\ \/ /\ active[client.conn]
              /\ inbox' = [inbox EXCEPT ![client.conn] = Append(@, id)]
              /\ client' = entry
              /\ attach' = [Away EXCEPT !.id = id, !.origin = origin]
              /\ UNCHANGED << active, wire >>
           \/ /\ ~ active[client.conn]
              /\ Reconnects(<< id >>)
              /\ client' = Reconnected(entry)
              /\ attach' = [Away EXCEPT !.id = id, !.origin = origin]
           \/ /\ ~ active[client.conn]
              /\ \E definite \in BOOLEAN :
                    client' = AfterFailure([entry EXCEPT !.conn = 0], origin, definite)
              /\ wire' = << >>
              /\ UNCHANGED << attach, inbox, active >>
        /\ UNCHANGED << output, start, owner, leases, scope, handler, partial >>

\* perform_attach meets the end of its connection, with or without the rest of
\* what was queued for it, and repeats the request on a new one ...
ResumeAndResend ==
    /\ attach.id # 0
    /\ ~ active[client.conn]
    /\ Reconnects(<< attach.id >>)
    /\ client' = [Reconnected(client) EXCEPT !.lease = 0, !.expected = 0]
    /\ attach' = [Away EXCEPT !.id = attach.id, !.origin = attach.origin]
    /\ screen' = Restarted(screen)
    /\ UNCHANGED << output, start, owner, leases, scope, handler, partial >>

\* ... or finds no new one.
GiveUp ==
    /\ attach.id # 0
    /\ ~ active[client.conn]
    /\ \E definite \in BOOLEAN :
          client' = AfterFailure([client EXCEPT !.conn = 0], attach.origin, definite)
    /\ attach' = Away
    /\ wire' = << >>
    /\ UNCHANGED << daemon, inbox, active, screen >>

\* drain_events meets the end of the connection.
Disconnect ==
    /\ attach.id = 0
    /\ client.conn # 0
    /\ ~ active[client.conn]
    /\ client' = [client EXCEPT !.conn = 0]
    /\ wire' = << >>
    /\ UNCHANGED << daemon, inbox, active, attach, screen >>

\* ATTACH_ACK_TIMEOUT passes without a message.
Timeout ==
    /\ Fails(FALSE)
    /\ UNCHANGED << daemon, inbox, active, wire, screen >>
-----------------------------------------------------------------------------
\* One message.

Receives ==
    /\ wire # << >>
    /\ wire' = Tail(wire)
    /\ UNCHANGED << daemon, inbox, active >>

Answers(message) == attach.id # 0 /\ message.id = attach.id

\* What perform_attach requires of a message of its request.
InOrder(message) ==
    CASE message.kind = "result" -> attach.lease = 0
      [] message.kind = "begin"  -> attach.lease = message.lease /\ attach.next = None
      [] message.kind = "chunk"  -> /\ attach.lease = message.lease
                                    /\ attach.next = message.from
                                    /\ message.to <= attach.watermark
      [] OTHER                   -> /\ attach.lease = message.lease
                                    /\ attach.watermark = message.to
                                    /\ attach.next = message.to

AttachAccepted ==
    LET message == Head(wire)
    IN  /\ Receives
        /\ Answers(message) /\ message.kind = "result" /\ message.lease # Failed /\ InOrder(message)
        /\ attach' = [attach EXCEPT !.lease = message.lease]
        /\ UNCHANGED << client, screen >>

AttachRefused ==
    LET message == Head(wire)
    IN  /\ Receives
        /\ Answers(message) /\ message.kind = "result" /\ message.lease = Failed
        /\ Fails(TRUE)
        /\ UNCHANGED screen

ReplayBegin ==
    LET message == Head(wire)
    IN  /\ Receives
        /\ Answers(message) /\ message.kind = "begin" /\ InOrder(message)
        /\ attach' = [attach EXCEPT !.next = message.from, !.first = message.from,
                                    !.watermark = message.to]
        /\ UNCHANGED << client, screen >>

ReplayChunk ==
    LET message == Head(wire)
    IN  /\ Receives
        /\ Answers(message) /\ message.kind = "chunk" /\ InOrder(message)
        /\ attach' = [attach EXCEPT !.next = message.to]
        /\ UNCHANGED << client, screen >>

\* The collected bytes are fed at once.
ReplayEnd ==
    LET message == Head(wire)
    IN  /\ Receives
        /\ Answers(message) /\ message.kind = "end" /\ InOrder(message)
        /\ screen' = [from |-> attach.first, bytes |-> screen.bytes \o Run(attach.first, message.to)]
        /\ client' = [client EXCEPT !.lease = message.lease, !.expected = message.to,
                                    !.queued = FALSE]
        /\ attach' = Away

\* protocol_order_error.
OutOfOrder(message) ==
    \/ Answers(message) /\ ~ InOrder(message) /\ (message.kind = "result" => message.lease # Failed)
    \/ /\ attach.id # 0
       /\ message.kind = "output" /\ attach.lease = message.lease

Disorder ==
    /\ Receives
    /\ OutOfOrder(Head(wire))
    /\ Fails(FALSE)
    /\ UNCHANGED screen

\* lease_of: what is known of a pane that is not bound does not count.
Concerns(message) == client.bound /\ message.lease # 0 /\ client.lease = message.lease

\* handle_server_message, from drain_events or from within an attach.  Answers
\* to requests that were given up are put aside for nobody.
ShowOutput ==
    LET message == Head(wire)
    IN  /\ Receives
        /\ message.kind = "output" /\ Concerns(message) /\ ~ OutOfOrder(message)
        /\ IF client.expected = message.from
           THEN /\ client' = [client EXCEPT !.expected = message.to]
                /\ screen' = [screen EXCEPT !.bytes = @ \o Run(message.from, message.to)]
           ELSE /\ client' = [client EXCEPT !.lease = 0, !.expected = 0]
                /\ UNCHANGED screen
        /\ UNCHANGED attach

LoseLease ==
    LET message == Head(wire)
    IN  /\ Receives
        /\ message.kind = "taken" /\ Concerns(message)
        /\ client' = Cleared(client)
        /\ UNCHANGED << attach, screen >>

Ignore ==
    LET message == Head(wire)
    IN  /\ Receives
        /\ ~ Answers(message) /\ ~ Concerns(message) /\ ~ OutOfOrder(message)
        /\ UNCHANGED << client, attach, screen >>
-----------------------------------------------------------------------------
Daemon ==
    \/ \E delivered \in BOOLEAN :
         \/ \E n \in 1 .. MaxRead : Publish(n, delivered)
         \/ Takeover(delivered)
         \/ \E c \in Conns : CommitNew(c, delivered) \/ CommitRebind(c, delivered)
    \/ \E c \in Conns :
         \/ BeginAttach(c)
         \/ \E refused \in SUBSET Conns : CommitFailed(c, refused)
         \/ CommitSuperseded(c)
         \/ WriterEnds(c)
         \/ ReaderEnds(c)

Client ==
    \/ Connect
    \/ \E origin \in {"user", "queue"} : StartAttach(origin)
    \/ ResumeAndResend \/ GiveUp \/ Disconnect \/ Timeout
    \/ AttachAccepted \/ AttachRefused
    \/ ReplayBegin \/ ReplayChunk \/ ReplayEnd
    \/ Disorder \/ ShowOutput \/ LoseLease \/ Ignore

Next == Daemon \/ Client

Spec == Init /\ [][Next]_vars
-----------------------------------------------------------------------------
\* Types, and what bounds the retained history: no more than the limit, and
\* the newest bytes.
TypeOK ==
    /\ output \in 0 .. MaxOutput
    /\ start \in 0 .. output
    /\ output - start <= HistoryLimit
    /\ leases \in 0 .. LastLease
    /\ owner \in [lease : 0 .. leases, conn : 0 .. LastConn]
    /\ handler \in [Conns -> [op : {"idle", "attach", "reattach"}, id : Ids \cup {0}, lease : 0 .. leases]]
    /\ inbox \in [Conns -> Seq(Ids)]
    /\ active \in [Conns -> BOOLEAN]
    /\ client \in [conn : 0 .. LastConn, opened : 0 .. LastConn, last : Ids \cup {0}, bound : BOOLEAN,
                   queued : BOOLEAN, lease : 0 .. leases, expected : 0 .. output]
    /\ attach \in [id : Ids \cup {0}, origin : {"user", "queue"}, lease : 0 .. leases,
                   next : 0 .. output \cup {None}, watermark : 0 .. output \cup {None},
                   first : 0 .. output \cup {None}]
    /\ partial \subseteq 1 .. leases

Live(message) == message.kind = "output" /\ client.lease = message.lease

\* The client never has a gap to report: live output of the lease it holds
\* starts at the byte it expects (docs/DAEMON.md, "Attach replay ordering"),
\* whatever was refused, resent or replayed before.
NoGap ==
    (wire # << >> /\ client.bound /\ client.lease # 0 /\ Live(Head(wire)))
        => Head(wire).from = client.expected

\* An attach fails for the order of its messages only when its transaction did
\* not fit the queue and live output of the lease follows the hole.  Retries,
\* two connections and a second delivery never cause one.
NoDisorder ==
    (wire # << >> /\ OutOfOrder(Head(wire)))
        => Head(wire).kind = "output" /\ Head(wire).lease \in partial

\* What a client reads is in order: it never has a gap to report, and no replay
\* fails for the order of its messages.
Contiguous == NoGap /\ NoDisorder

Settled == client.conn # 0 /\ attach.id = 0 /\ active[client.conn] /\ client.bound /\ ~ client.queued

\* A client that owns the pane and has handled what was sent has seen all of
\* it: no output is lost on the way without the connection being dropped.
CaughtUp ==
    (/\ Settled /\ client.lease # 0 /\ wire = << >>
     /\ owner = [lease |-> client.lease, conn |-> client.conn])
        => /\ client.expected = output
           /\ screen.from + Len(screen.bytes) = output

\* A client that believes it is attached is, or will be told that it is not,
\* on a connection that is up.  The exception is a transaction with no room
\* left for the notice behind it.
BeliefTrue ==
    (Settled /\ client.lease # 0 /\ client.lease \notin partial)
        => \/ owner = [lease |-> client.lease, conn |-> client.conn]
           \/ \E k \in 1 .. Len(wire) : wire[k] = TakenOver(client.lease)

\* docs/DAEMON.md, "Attach replay ordering", of a transaction that did not fit
\* the queue: "the attachment is simply unreconciled and the client re-attaches
\* once its writer has caught up".  So the pane is queued for re-attachment when
\* the writer has, unless the client got hold of the lease after all.
Unreconciled ==
    /\ owner.lease \in partial /\ owner.conn = client.conn
    /\ client.conn # 0 /\ active[client.conn]
    /\ client.bound /\ client.lease = 0

UnreconciledQueued == (Unreconciled /\ attach.id = 0 /\ wire = << >>) => client.queued

\* What is on the screen is one contiguous run of the output.
Terminal == INSTANCE TerminalView WITH Nothing <- None
ImplementsTerminalView == Terminal!Spec
=============================================================================
