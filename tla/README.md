# Specifications of mult

mult is a terminal multiplexer for projects and agents. A daemon (`mult-server`, `src/src/bin/mult-server.rs`)
owns the pseudo-terminals and their child processes and outlives the TUI; the TUI (`mult`, `src/src/`) talks to
it over a Unix socket with the framed messages of `src/crates/protocol`. This directory holds TLA+ models of the
program's concurrent and fault-tolerant parts, the TLC configurations that check them on small instances, and
proofs, checked by TLAPS, that hold for every value of the constants. The modules are written from the code; the
contracts they are compared with come from `docs/DAEMON.md`.

`PROJECT.json` lists components, runs, mutants, hazards and theorems, and maps every definition to the source
lines it stands for. `tlc -config X.cfg M` repeats a run, `tlapm M.tla` a proof.

## 1. The system

### The daemon

The daemon has one `ServerState` behind a mutex, one `PaneState` per live pane behind its own mutex, and these
threads: the main thread (accept, shutdown), a reader and a writer thread per connection, a PTY reader, a PTY
writer and a child waiter per pane, and one termination driver per stop in progress. A client's queue is bounded;
every delivery is a `try_send`, so no thread of the daemon ever blocks on a client.

| component | state | operations | hard behaviour | what makes it correct |
|---|---|---|---|---|
| Request scopes and cache | per client scope: highest request ID, records pending or completed, waiters of each | `begin_request`, `complete_request`, `evict_old_results`, `remove_client` | retries on a second connection while the first is still draining; overload; eviction; a connection that ends inside a handler | a mutation runs at most once; one ID, one result; whoever waits is answered; nobody leaks |
| Attachment leases | per pane: owner (scope, lease, connection); `next_lease`; shutdown flag | attach, cached attach (rebind), input, paste, resize, detach, stop, finalize | takeover between a check and its effect; a cached result repeated after the lease went; a notification that does not fit | one holder; leases are fresh; a displaced connection learns of it; nothing is granted during shutdown |
| Pane stop and finalization | lifecycle, `stop_driver_active`, `pending_stops`, `reader_done`, `child_exit`, lifecycle generation and condition variable | stop, termination driver, reader end, reap, `maybe_finalize`, `fail_pending_stops` | two finalizers; a driver that gives up while a stop arrives; a wake-up between look and sleep; a wait that fails | every stop is answered; one driver; one `PaneExited` |
| Session creation | sessions by number and by identity, reserved numbers and identities, next ID | lookups, reserve, spawn, publish, clean up, release | two creates for one number or identity; a spawn that fails; shutdown between reserve and publish | one session per number and identity; a reservation never outlives its create; no child outlives the drain |
| Agent status store | an entry per identity: registered metadata, last status | register, update, query, record the exit | late update of an older generation; an exit after a final status | a final status stands until the next publication; a generation is answered only with its own status |
| Raw history and replay | `RawHistory`, the pane's sequence numbers, an attach transaction per waiter | append, publish, replay in chunks | output during a replay; a transaction that overflows a queue; truncation of history | replay and live output are contiguous, or the client knows they are not |
| PTY write queue | FIFO of byte buffers with a bound | push, pop, close | refusal at the bound; close while full | all of an input or nothing; order kept |
| Shutdown and drain | shutdown flag, live panes, creates in flight | begin shutdown, bounded wait | a create that is still spawning | a drained daemon leaves no child |
| Start, socket guard; foreground polling | lock file, socket, signal flag; debounced process name | bind, unlink, probe | operating system only | not modelled |

### The protocol

`crates/protocol` frames messages (length prefix and postcard), bounds their size and checks peer credentials.
It keeps no state between frames. Its request IDs, scopes and leases are the vocabulary of the models.

### The client

| component | state | operations | hard behaviour | what makes it correct |
|---|---|---|---|---|
| PTY runtime (`pty.rs`) | connection, request counter, panes with lease and expected sequence, pending stops, queued re-attachments, deferred messages | connect in the background, resume, resend, attach, input, asynchronous stop, event drain | a reply after its timeout; a resend that is answered by a cache; stops answered after the pane was deleted; reconnection in the middle of an attach | never replays what is not idempotent; what it shows is what the daemon said; stops are reported once |
| Session lifecycle and restore (`runtime/session.rs`) | which terminals run, restore queue | attach-only restore, start, stop, close, apply exits | exits that are applied turns after they were received | an agent runs only with its generation saved; exits end what exited |
| Agent launch and status bridge (`runtime/agent_launch.rs`, `runtime/agent_status.rs`) | generations, status journals | begin a generation, reconcile with the daemon, poll | a daemon that lost the status; a journal of an earlier generation | no chat shows work that nobody does |
| State storage and saves (`storage.rs`, `runtime/save.rs`) | dirty flags, last save, lock | mark, save, atomic replace, migrate | death between change and save, or inside the save | while nothing is marked dirty, what a power failure leaves is what is shown |
| Project model (`model.rs`, `app/`) | projects, terminals, identity counters | add, delete, rename, move | deletion while a stop is in flight | identities are never reused |
| UI, configuration, git, remote, CLI, agents, transcript, vendored emulator | - | - | sequential, or no shared state | not modelled |

### Interactions

A client request crosses the components in this order: the connection's reader thread enters the scope's cache
(`begin_request`), mutates leases, sessions or stops under the server and pane locks, completes the request and
queues the result for every waiter. A stop is completed by another thread (a driver or a finalizer). Takeover and
finalization send unsolicited messages (`TakenOver`, `PaneExited`) through the same queues, and a queue that is
full costs its connection. After a connection is lost the client resumes its scope on a new one and repeats what
is unresolved, while the old connection's reader thread may still be working on what it had read.

On the client's side one thread does everything but connecting and reading: it asks `pty.rs` for a synchronous
request (attach, create, status query), during which other answers and unsolicited messages are put aside, and
drains them a turn later. What it learns (an exit, an agent's status) changes the project, which is saved before an
agent is launched and otherwise when the rate limit allows.

## 2. Modules

```
AtMostOnce       <--implemented by--  RequestScope  --EXTENDS-->  RequestCache
LeaseService     <--implemented by--  PaneLease     --EXTENDS-->  RequestCache
StopService      <--implemented by--  PaneStop
SessionDirectory <--implemented by--  SessionTable
TerminalView     <--implemented by--  AttachReplay  --EXTENDS-->  RequestCache
CallService      <--implemented by--  ClientRuntime
                                      AgentLife
```

Each of the seven detailed modules has an `MC` module (small sets, symmetry where it is sound) and a `Proofs` module;
AgentLife has two, AgentLifeProofs and AgentRecordProofs. What one module abstracts from, another has:
PaneLease and AttachReplay run the cache of RequestCache itself; ClientRuntime relies on the contract that
RequestScope keeps, RequestScope on the answers to stops that PaneStop guarantees, SessionTable on PaneStop for how
a pane ends, AgentLife on SessionTable for creates and statuses.

**RequestCache** gives `RequestScopeState` as operators on a value: a scope is `[highest, records]`, the BTreeMap a
total function with `Absent` for a missing key, the Vec of waiters a sequence. `Disposition` is the decision that
`begin` takes, `BeginRequest` its effect, `CompleteRequest` includes the eviction that ends `complete`. It has no
variables, so the cache that is checked alone in RequestScope is the very one PaneLease composes with leases.

**RequestScope** is one scope and the connections that speak for it. One action is one critical section of the
server lock: a `Begin...` action per outcome of `begin`, `Mutate`, `Complete` (which delivers to every waiter),
and the three ways a connection goes down: `Disconnect` (active is cleared by a failed delivery), `WriterEnds`,
`ReaderEnds`. Request bodies are opaque; `Deferred` ones are completed by another thread (Stop), `Lenient` ones
have an answer that may be refused without costing the connection. `runs`, `answers`, `awaiting` are history
variables. `busy` says which handler a reader thread is inside, so a connection begins nothing else meanwhile.

**PaneLease** is the ownership of panes over real scopes. An attach is `BeginAttach` and one of `CommitNew`,
`CommitFailed`, `CommitRebind`, `CommitSuperseded`; an input is `ValidateInput` and `EnqueueInput` or
`RefuseInput`; `Detach` is one step; a stop is `RequestStop`, `StartStop`; `DriverFails`, `Finalize` and
`NotifyExit` follow; `Shutdown` lists the panes that `StartShutdownStop` then stops one by one. `Publish` puts a
pane at a coordinate, also one that had another pane before. A message counts as received when it is queued;
a waiter whose queue had room up to `ReplayEnd` has been told the lease, and is in `deaf` if `TakenOver` was not
queued for it, also where that is because its `ForegroundProcess` did not fit. What a connection was told is kept in
`told` (the lease it believes it holds), `unheard` and `late`, history variables that no guard reads.

**PaneStop** is the end of one pane, thread by thread: the readers handling stops (`Lookup`, `Refuse`, `Push`,
`Conclude`), `StartStop` and `BeginShutdown`, the driver with its two signals and with `wait_for_finalization`
split at every lock (`EnterWait`, `Observe`, `Check`, `Compare`, `Wake`, `TimeOut`), `GiveUp` and `FailAfterDrive`
as the two critical sections they are, the reader (`Drain`), the waiter (`Reap`, `WaitFails`, `FailAfterWait`) and
`maybe_finalize` from either of them. The finalization generation is one bit per driver, "moved since I last read it".

**SessionTable** is the daemon's table of sessions and agent statuses. A create request is walked through its
handler: `FindNumeric`, `FindIdentity`, `Reserve`, `Spawn` (outside the lock, and it may fail), `Publish`, and on
failure `Cleanup`, `Release` and the second lookup that tells an identity taken meanwhile. `stage` says where it
is, `found` keeps what its first lookup returned, which may be finalized since. `Finalize` removes a pane and
records how its agent ended; `UpdateAgentStatus` is an agent's status with the tests of its preconditions in their order, a
query is the operator `QueryOutcome`; `BeginShutdown`, `Drained` and `DrainExpires` are the main thread.

**AttachReplay** is the way of one pane's output to one client's screen, daemon and client in one module. Bytes are
numbered. On the daemon's side `Publish` appends, trims and queues one PTY read in one critical section, and an
attach is `BeginAttach` and a commit as in PaneLease, here with the whole transaction (acceptance, `ReplayBegin`,
chunks, `ReplayEnd`) of which the queue may take any prefix. `wire` is everything queued for the client on its
current connection. On the client's side `StartAttach` is `attach_existing` ("user") or `reattach_terminal`
("queue"); each turn of `perform_attach` is one action (`AttachAccepted`, `ReplayBegin`, `ReplayChunk`,
`ReplayEnd`, `AttachRefused`, `Disorder`, `Timeout`, `ResumeAndResend`, `GiveUp`), and `ShowOutput`, `LoseLease` and
`Ignore` are `handle_server_message`, which also runs inside an attach. `screen` is what the parser was fed since it
was reset; `partial` is a history variable.

**ClientRuntime** is `PtyRuntime` as the keeper of requests. The client is one thread: at most one request waits
for its answer (`call`), at most one has an ID and is not written yet (`submitting`; the ID is taken before
`ensure_connected` may install a connection or service the queue of re-attachments, which is what `Adopt` and
`BeginReattach` may do in between). `stops` are those nobody waits for, `deferred` the messages kept for later: a
set, although the code has a queue, because no message is received twice (TLC, on the instance of `client_runtime`:
none in `inbox` is there twice or kept already) and the code looks them up by ID alone. Two with one ID are kept only after a stray (see below); the code
takes the older one, the model either. `Submit` writes, `SubmitResumes` (a write that failed, or a re-attachment just
before it that lost the connection) and `CallResumes` resume the scope on a new connection and repeat what is
unresolved, `Adopt` installs what the connector thread brought, resumed or of a new scope. `Receive`,
`TakeDeferred`, `TimesOut`, `Drain`, `Reap`, `ReapExpired` are what happens to an answer. The daemon is a request
cache per scope; `Break` loses a connection and leaves frames the daemon still reads (`late`), `Restart` loses the
daemon with its scopes. A call is numbered for the properties; the client sees its ID only.

**AgentLife** is one client with its project, state file and agents, and the daemon that runs them. `Load` restores
the file (with the repair of what it finds), `Restore...`, `Start...` and `Reattach...` are the outcomes of an
attach, `BeginGeneration`, `SendCreate`, `CreateDone` a launch in its three steps (the save comes first);
`GenerationFails` is a launch without a generation, and a chat that is still bound to its pane is attached first
(`SendAttached`, `SendMissing`). A turn of the event loop has three phases: `drain` (`ApplyExit` applies the exits
received), `tick` (the poll, the save, a start) and `events` (the keys, each a handler). `ReceiveExit` takes a
`PaneExited` from the connection; one that a request of a later phase receives waits for the drain of the next turn
(`Turn`, or the end of the batch of keys), while the rest of this turn goes on. `PollStatus` reads a
journal. `SaveContent` is the tick's save; the saves that other actions force may fail before or after the rename, and
only the directory sync makes a file safe from `PowerFails` (`stable`). `Crash`, `Disconnect`,
`DaemonDies`, `PowerFails` are the faults.

The abstract modules say what `docs/DAEMON.md` promises: **AtMostOnce** has no cache and no connections,
**LeaseService** no requests and no queues, **StopService** no threads, **SessionDirectory** no tables, handlers or
children, **TerminalView** no leases, messages or connections: a screen is blank or was fed one contiguous run of
the output. **CallService** is what `PtyRuntime` promises the code that calls it, with no request IDs, scopes or
messages: a call is executed at most once and ends once, by its answer (`Take`), by an error (`GiveUp`), or, for a
stop, by the report that it was never confirmed (`Alarm`).

### What the models abstract from

- Payloads, sizes, names and texts; the results of a mutation are two model values, an attach result is its lease.
- A resize is left out of PaneLease: it makes the same check as a detach in the same critical section as its
  effect, and its effect is a window size. The window size an attach sets may fail, which is why `CommitFailed`
  and `CommitSuperseded` are enabled on any running pane.
- Results are queued after `complete_request` releases the lock. The delivery reads only what the thread took with
  it, so RequestScope and PaneLease model it in the same step. `PaneExited` is different: it is queued when the
  coordinate may already have a new pane, so `NotifyExit` is a step of its own.
- When a delivery of `CommitFailed` does not fit, the connection goes down in a later `Disconnect`.
- In PaneLease a stop takes no request ID: its bookkeeping is PaneStop's subject.
- A connection ID is never reused, and `Hello` succeeds once per connection; a connection that never says hello
  has no effect on the state.
- In SessionTable a create is handled once (retries are RequestScope's), a pane's stop is one step with its
  finalization, and what a child is started with is left out. The agent statuses are four: two that are not final
  matter no more than one.
- AttachReplay has one pane that lives throughout and one client; another client only takes the pane over. Every
  connection but the first resumes the first one's scope, so a daemon that restarts in between is left out, and so
  are `ForegroundProcess` messages and connection-wide `Error` messages. The daemon's queue, the socket and the
  client's channel are one sequence; a client loses a connection only when the daemon has dropped it. Answers to
  requests that were given up go to `deferred_messages`, where nobody asks for them again; the model drops them.
- ClientRuntime has the requests that are answered: attach, re-attach, status query, stop. Input, paste and resize
  are written once and forgotten. A create is, to the machinery of requests, an attach; that it waits for a stop
  of the same session first (`await_stop_for_session`) is `Drain`, `Reap` and `ReapExpired` before `BeginAttach`.
  The limits of the deferred and pending queues are left out; deadlines may pass at any moment.
- AgentLife has chats and agents. Terminals, whose restoration and start record an intent and no process, are left
  out, and so are the lock file, the backup of an invalid file, migrations, a chat taken over by another client, and
  the experimental process backend. `Thinking` stands for Thinking and Waiting, `done` for its seen and unseen
  forms. A journal is whether its agent may have written to it; how far it was read is not kept, so a poll may give
  any report.
- Signals, `/proc`, the child and its output are external: they do what they like, when they like.

## 3. Runs

| run | instance | question |
|---|---|---|
| `request_scope` | 2 connections, IDs 1..3, 2 bodies (one deferred and lenient), 1 pending, 1 cached | Does the cache keep at-most-once execution, one result per ID and exact waiter lists? Is everyone who waits answered, or does its connection go down? Does it implement AtMostOnce? |
| `pane_takeover` | 3 connections, 2 scopes, 1 pane, 1 request ID, 2 leases | Can a live connection believe in a lease it lost? How much input can arrive late? Who may move a lease? Is LeaseService implemented? |
| `pane_retry` | 2 connections, 1 scope, 2 identities, IDs 1..2, 1 lease | Does a lease always belong to the one attach that asked for this pane under this identity? Do leases run out without wrapping? |
| `pane_late_input` | 2 connections, 2 scopes, 1 ID, 2 leases | Can bytes of a displaced connection enter the pane? (violated, see below) |
| `pane_stop` | 2 stops and the shutdown, one pane | Is every stop answered, is there one driver, is the pane finalized once, are wake-ups kept? Is StopService implemented? |
| `session_table` | 2 creates, 2 identities, 2 generations and refused metadata, numbers 1..2 of which 1 can be asked for | Do the indexes and reservations agree whatever fails? Does a drained daemon leave a child? Do final statuses stay? Is every create answered? Is SessionDirectory implemented? |
| `attach_replay` | 2 connections, 2 attach requests, 3 leases, 3 bytes in reads of 1 or 2, history of 2, chunks of 1 | Is what a screen shows contiguous, is the owner's screen complete, does the client know whether it is attached, and can the daemon's messages ever look out of order? Is TerminalView implemented? |
| `attach_overflow` | 1 connection, 1 request, 1 lease, 1 byte | Is an attach whose transaction did not fit repeated? (violated, see below) |
| `client_runtime` | 3 calls of any kind, 3 client scopes, 2 breaks or restarts | Does every answer reach the request it is for? Is a stop that was answered ever reported as unconfirmed? Is CallService implemented: does a call end once, and is it executed at most once? |
| `client_runtime_ids` | the same calls, no breaks needed | Are request IDs written in increasing order? (violated, see below) |
| `agent_life` | 1 chat, 2 generations, 1 crash or power failure, 1 lost connection or dead daemon | Does an agent ever run without its generation in the state file? Can a clean flag be trusted? Is a chat ever shown working with nobody behind it? |
| `agent_life_exit` | the same, no crash, no lost connection | Is the record of a started agent cleared by the exit of an earlier one? (violated, see below) |

Why the bounds are enough for these questions. One pending and one cached record make every branch of `begin`
(new, pending, cached, collision, expired, overload) and the eviction reachable with three IDs; two connections
are a drained one and its successor, and nothing in the cache distinguishes a third. Three connections in two
scopes are the fewest with a takeover by a stranger and a rebind by the owner's successor at once. The request
cache of one scope limits `pane_takeover` to one ID; `pane_retry` has two, so that a cached attach meets a newer
lease of its own scope, and two identities make the coordinate change hands between a begin and its commit. Two
leases are one to lose and one to lose it to; one lease makes exhaustion common. Two stops and the shutdown are
three possible drivers, one more than can overlap in the hand-over between a driver that has cleared its flag and
one that has just started. Two creates race for a number, for an identity, or for both, and two numbers are one to
ask for and one, the last, that only allocation could give and does not: the counter stops before it. Two generations
are an agent and the one that replaces it. Three bytes against a history of two is the first truncation,
also in the middle of a read; chunks of one byte make a replay with two chunks, the fewest that can be out of order
or cut between; two connections are the one lost in mid-replay and the one the attach is repeated on; three leases
are two of the client's and a stranger's, in any order. Three calls are a stop nobody waits for, a request that
times out and the one that meets their answers; three scopes are the one lost, the one that replaces it and one
more that a connector may bring meanwhile (four calls over two scopes with one break were explored by hand, without
an error). One chat is enough for `agent_life` since chats share nothing there but the thread, the file and the
connection, and each of these can be held up or fail under one chat alone; with two generations its past is what
interferes. The proofs drop every one of these bounds.

`CHECK_DEADLOCK FALSE` is set everywhere: with finitely many connections, request IDs, calls or stops the models
end when all of them are used up, as the program would if no client came again.

Every property of a passing run has a mutant in `PROJECT.json`: an operator beside the one it changes, called
"Mutant of ..." in the module, that TLC refutes with the run's own configuration.

### What the properties say

- RequestScope: `ExecutedAtMostOnce`; `OneResult`; `WaitersExact` (the waiter lists hold whoever is owed an answer
  and nobody else); `Answered`; `ImplementsAtMostOnce`.
- PaneLease: `BeliefSound` (a live connection that was told it holds a pane's lease, and has been told nothing
  since, does hold it, except while its `PaneExited` is on its way, or when it was a waiter that lost the selection
  and `TakenOver`, or the `ForegroundProcess` before it, did not fit its queue: then the code leaves the connection
  up, mult-server.rs:2042-2051, and in the second case does not try `TakenOver`, 2125-2129);
  `OwnerAsked`; `LateInputBounded`; `RebindOnlyByExactRetry`; `ImplementsLeaseService`.
- PaneStop: `PendingAttended` (whoever waits for a stop is attended by some thread), `SingleDriver`,
  `NoLostWakeup`, `FinalizedOnce`, `StopAnswered`, `Finalizes`, `ImplementsStopService`.
- SessionTable: `TableCoherent` (the two indexes name the same panes, the reservations are exactly those of the
  creates in flight), `DrainedLeavesNoChild`, `StatusEntries` (an entry without a session is final, one with a
  session is that session's, a query is answered by its own generation), `FinalStays`, `CreateAnswered`,
  `ImplementsDirectory`.
- AttachReplay: `Contiguous` (no live output of the client's lease starts anywhere but at the byte it expects, and
  the protocol errors of `perform_attach` are raised only by live output after a transaction that was cut),
  `CaughtUp` (the owner that handled everything has shown everything), `BeliefTrue` (a client that believes
  it is attached is, or will be told), `ImplementsTerminalView`.
- ClientRuntime: `AnswersMatch` (an answer is taken by the call it is for), `NoFalseAlarm` (a stop
  is reported as unconfirmed only if no answer to it reached the client), `ImplementsCallService` (the calls that
  have not ended are the requests that wait and the stops; one that ended never takes an answer, and none is executed
  twice, which is `ExecutedOnce`). A call that was written in another scope than its ID is of (`strays`) may have
  another's answer, see below; it too ends once and is executed at most once.
- AgentLife: `CleanIsDurable` (while nothing is marked dirty, memory, the state file and what a power failure
  leaves agree, but for a file that was loaded and is not known to be durable; a quit happens only then), `AgentRecorded` (an
  agent runs only with its generation in the state file, with two named exceptions), `NoGhostThinking`.

The exceptions are history variables that say when the code itself lets go of the record. `overtaken`: the daemon
said that the chat has no session while a create of it was still being served on a connection that is gone.
`mistaken`: the exit of one generation was applied to the next; that is the defect of `agent_life_exit`.

### Divergences

`handle_leased_input` checks the lease under the locks, releases them, and then hands the bytes to the write queue.
A takeover fits in between, and `DAEMON.md` says it does not ("Validation and mutation are serialized with
takeover", "the displaced connection cannot input"). Run `pane_late_input` shows it; `LateInputBounded` in
`pane_takeover` shows that it is at most the one frame in the hands of the displaced connection's reader thread.

Of an attach transaction that overflows the queue, `DAEMON.md` says that "the attachment is simply unreconciled and
the client re-attaches once its writer has caught up". `service_reattachments` does queue its own failures again,
but an attach that started in `attach_existing` (the user, restoration) times out, keeps the binding without a lease
and is queued by nobody until the connection is replaced. Run `attach_overflow` shows it.

`stop_async` takes its request ID before `write_idempotent_request` calls `ensure_connected` once more, and that may
install a connection and service the queue of re-attachments, each of which takes and writes a higher ID first.
`DAEMON.md` says "Request IDs increase without wrapping inside one client scope"; run `client_runtime_ids` shows the
stop written second. The daemon answers it `RetryExpired` although it never executed it. When the connection
installed in between is of a new scope, the stop is written there with an ID of the old scope, another request can
be given the same ID later, and one of the two is refused as a collision or meets the other's answer: these are the
`strays` that `AnswersMatch` and `NoFalseAlarm` except. In one such case, found while modelling, `perform_attach`
finds the kept `StopResult` under its own ID, puts it back as not its kind and finds it again, without a look at its
deadline.

`apply_pty_event` clears the generation a chat has when an exit is applied, not the one that exited. An exit that is
received inside a synchronous request is applied a turn later; a start of the chat in between has begun, saved and
spawned the next generation, which the old exit then clears: the state file forgets an agent that runs, against the
comment in `agent_launch.rs` that its save is forced lest "a launched agent whose generation no state file records"
exist. Run `agent_life_exit` shows it, without a crash or a lost connection.

### Fairness

- RequestScope: weak fairness of completing each begun request. A handler's reader thread never waits for a client
  (every delivery is a `try_send`), so it runs to its end. For deferred requests (Stop) the assumption is what
  PaneStop establishes as `StopAnswered`.
- PaneStop: weak fairness of each thread that has something to do. A wait of a driver has an absolute deadline, so
  it ends however often it is woken: strong fairness of `TimeOut`. Nothing is assumed about requests arriving, the
  child ending, its output draining, or a failing wait succeeding.
- SessionTable: weak fairness of each create's handler while the daemon runs. It is one thread that waits for no
  client; the spawn and the kill of its own child are system calls that return.
- PaneLease, AttachReplay, ClientRuntime and AgentLife have no liveness property and no fairness.

## 4. Proofs

All theorems are of the form `Spec => ...` and hold for any sets of connections, scopes, panes, requests, stops,
creates and chats and any bounds, under the assumptions named in the modules: IDs and bounds are positive naturals
(`RequestCacheAssumption`), the special values are distinct from the ordinary ones (`RequestScopeAssumption`,
`PaneLeaseAssumption`, `AttachReplayAssumption`, `SessionTableAssumption`; in PaneLease `None`, which is also "no
response yet", is no lease number either), the daemon's own thread is not a stop request
(`PaneStopAssumption`), the bounds of ClientRuntime are natural numbers and a scope can be issued
(`ClientRuntimeAssumption`), and the reports of agents are four known words (`AgentLifeAssumption`). TLC evaluates
them in every run.

**RequestScopeProofs**: `TypeCorrect`, `AtMostOnceExecution`, `SingleResult`, `WaitersAreExact`, `Refinement`. The
properties alone are not inductive. That an ID runs once needs that a mutated or completed ID is
never begun again, which needs that every record is at or below `highest` and that a job exists exactly while a
record is pending; that everyone is told the same needs that all answers of a completed ID are its cached
response. `Accounted(id)` says this of an ID and `Listens(c, id)` of a waiter; with `TypeOK` they are the
inductive invariant. The lemmas before them say what adding and removing a waiter, eviction and completion do to a
record; all of the cache's arithmetic is in `DispositionMeans`.

**PaneStopProofs**: `TypeCorrect`, `StopsAttended`, `OneDriver`, `WakeupKept`, `ExitOnce`, `Refinement`. The
invariant adds to the properties: a driver is inside the wait exactly in its two waiting stages, a thread that has
not started a driver has none, a driver that compares or sleeps on a removed pane has its generation stale, and a
stop is unanswered while pending. `NoLostWakeup` needs the last but one at the comparison, one step before the sleep.

**PaneLeaseProofs**, first part: `LeaseMovesByExactRetry`, `Refinement`. Here the invariant is small
(shapes, connections have a scope once they said hello, a lease in force is below `next_lease`) and the argument is
in the steps: `NextStep` shows that every step keeps all owners, takes one away, grants one pane a fresh lease
while not closing, rebinds one lease by its cached attach, or closes. The request cache enters only through the
value a retry finds in it, so nothing has to be assumed of it: a wrong cached value cannot pass `Usable`.

**PaneLeaseProofs**, second part: `TypeCorrect`, `LeaseNamesItsRequest`, `LateInputAtMostOne`, `BeliefsAreSound`.
Here the cache does enter, and each property has its own inductive invariant over the types (`TypeInv`: what a reader thread
inside of a handler knows, and that a completed request has its response).
`AskInv`, for `OwnerAsked`: the commit of an attach grants its lease to what its record names, so a thread that is
inside of an attach must have a pending record of its own with the very pane and identity it works on (`Asking`), no
two threads the same record (`Apart`), and a lease in a record is below `next_lease`, so that a fresh lease is in none.
`LateInv`, for `LateInputBounded`: whoever may mutate a pane has had no late input under its lease yet (`OnTime`), nor
has one who checked an input and has not queued it (`InputOK`), so that one is the first; a lease that was not granted
was not used (`Unused`), owners and waiters have said hello, and no two panes have one lease (`Exclusive`), or an input
that is on time at one pane could be late at another.
`BeliefInv`, for `BeliefSound`: next to the property, that a connection that is not open believes nothing (`Silent`)
and an absent pane has no owner (`Unowned`). The argument is one lemma per action about what a takeover, a rebind, a detach
and an exit tell whom, and whose queue may refuse it.

**AttachReplayProofs**: `TypeCorrect`, `ScreenIsOneRun`, `ReadsInOrder`, `ReadsAllOfIt`, `BelievesTheTruth`. The
invariant is in layers, and each was checked by TLC on instances of `attach_replay`'s size before it was proved.
`Types` adds to the types that a thread inside of an attach knows its request. `Numbered` says that nobody knows a
request or a connection from the future and that what the current connection carries was sent by it. `Reading` says
that a request is granted at most one lease and is read, handled and answered once per connection. `Leased` says
that a lease the client has seen on its connection is not bound to it a second time (`Once`), and that of a lease it
believed in before it had to attach again nothing more is heard (`Gone`). `Shown` relates the client's next byte, its running replay and its screen. Together (`ScreenSafe`)
they carry the refinement: every action is a step of TerminalView or leaves the screen and the output alone. A run of
output is shown only through `ReplayEnd`, whose bytes `Collected` knows, and grows only by `ShowOutput` with the
expected byte; that a client never takes the replay of an earlier attempt for that of its present one is `Leased` and
`Reading`.
`ReadSafe` adds `Flow`, about what is still on the wire: message by message the transaction of a lease is in order
and begins and ends as it should (`Streams`), the client stands at a point of it (`Cursor`), live output continues
what is before it (`Lines`), and what was sent to the owner ends where the output ends (`Newest`). The lemmas say what
each of these keeps when the daemon puts something behind the wire (`CarriesJoin`) and when the client takes the
first message of it. `Contiguous` is `Flow` read at the head of the wire, `CaughtUp` is `Newest` on an empty wire.
`BeliefSafe` adds `Standing`: a lease that is not the owner's any more has its `TakenOver` on the wire, behind the
end of its transaction (`Told`), or its connection was dropped, or its transaction was cut (`partial`).

**ClientRuntimeProofs**: `TypeCorrect`, `ExecutesOnce`, `AnswersAreTheirOwn`, `AlarmsAreTrue`, `Refinement`. A call may be named in
seven places at once: the records, `late`, `outbox` and `inbox` at the daemon's end (`Kept`), the waiting call, `stops`
and `deferred` at the client's (`Own`); all of them together say in which scope and under which ID it is `Known`. The
invariant is an account over `Known`, not over the places: a call is known in one scope under one ID (`Single`), which
has it alone there (`Unique`), the next ID is unknown (`Fresh`), and so are the request that has its ID and is not yet
written (`UnsentOK`) and every scope the client was not told of (`UnusedOK`). A step can then only do one of three
things: it stays in the client's scope and makes known at most one call nobody had heard of (`Stays`), it greets a
daemon, or it starts over in a scope nothing is known of (`StartsOver`). `ExecutedOK` says that what was executed is
known only at or below `highest`, so a copy of it, resent or late, runs no second time; `HeardOK` that an answer the client
heard for a stop is still in `deferred`, since no `finish_request` or reap of another ID can take it (`OneCall`). The calls
in `strays`, written to another scope than the one their ID was taken in, are excepted from `Unique`, `Fresh` and the
answers, never from `Single` or `ExecutedOK`: even these run once.
The refinement maps `pending` to the numbers of the requests that wait and of the stops. That a call ends alone, and
so ends once, is `StopEnds` and `CallEnds`: no two that wait have one number, by `Single`, `UnsentOK` and `HeardOK`.
An answer that was kept has been heard (`DeferredHeard`), and by `OneCall` it is the call's own unless one of the two
is a stray. TLC checked the whole invariant on the run's own instance (1.5 million states) before it was proved.

**SessionTableProofs**: `TypeCorrect`, `TableIsCoherent`, `NoChildSurvivesTheDrain`, `StatusEntriesHold`,
`FinalStatusStays`, `Refinement`. The invariant `TableInv` says of a create between reserve and release that its
reservation still stands (`Held`), of two of them that they hold different names (`Apart`), of a reservation that
some create holds it (`Accounted`), and of the two indexes that each entry of one is confirmed by the other and by
a finished create (`Placed`, `Indexed`). Only with `Apart` does a release keep the others' reservations, and only
with `Held` can `Publish` fail for no reason but shutdown. The drain needs `Living`: a running child is its
handler's or is published, so an empty table without reservations has none. `EntryInv` is `StatusEntries` with the
generation a stored status was sent under, which is what a query is compared with. The refinement maps each create
to what it holds.

**AgentLifeProofs**: `TypeCorrect`, `CleanIsSaved`. The first part says what marking, clearing, normalising and
saving a project return; `CleanIsDurable` is inductive with the shape of an operation in progress, since `Becomes`
marks dirty whatever it changes.

**AgentRecordProofs**: `AgentIsRecorded`, `GhostFree`. `AgentRecorded` looks at agents that run; its invariant
`AgentInv` looks at everything that is or may still become one. No generation is numbered above those allocated
(`Counted`); a create is not both running and on its way (`Once`); whatever lives is recorded in memory and in the
file, or is exempt (`Live`); what was reported dead is dead, so an exit cannot clear a living generation unless it
is of another (`Past`); when the daemon has answered that there is no session, none lives (`Missing`); a create
about to be sent is saved and newer than everything (`Sending`). `AliveStep` shows that of all actions only
`SendCreate` gives a chat a generation it did not have. `GhostFree` rests on `Normalized` at load and on the two
actions that clear a generation marking the chat's status in the same step.

Only model-checked: the liveness properties (`Answered`, `StopAnswered`, `Finalizes`, `CreateAnswered`), which need
fairness and ENABLED and are out of the prover's reach. Every invariant and every action property that a passing run
checks is the conclusion of a theorem.

## 5. What remains

ClientRuntime has no output and AttachReplay no asynchronous stops; the two share the connection and could be
composed.

## 6. Not modelled, and why

- The PTY write queue: a VecDeque and its byte count under one lock; every input is pushed and popped whole, so
  order and bound hold within one critical section. What races is the input that is validated before it is pushed,
  and that is in PaneLease.
- A driver that sends SIGKILL when its grace period ends just as the pane is finalized (mult-server.rs:2978):
  `docs/DAEMON.md` promises the signal only "if finalization did not complete", which is what the driver last saw;
  what the operating system does with a process group that is gone is outside of the program.
- Daemon start and socket ownership, foreground polling: operating-system I/O with no interleaving of the program's
  own.
- Wire framing and credentials: byte-level code with its own tests and fuzz targets.
- User interface, keymaps, layout, prompts, clipboard, configuration, git, remote commands, CLI: sequential rendering
  and string handling, covered by snapshot and unit tests.
- Command terminals of the client's session lifecycle, workspaces, names and identity counters of the project model,
  the lock file and the migrations of old state files: sequential bookkeeping, or file-system calls.
- Process agent backend and transcript journal: experimental, and without a call site.
- The vendored terminal emulator: third-party.

The map therefore covers under a tenth of the repository's lines. Most of the rest is what the list above names, and
two fifths of `pty.rs` and of `mult-server.rs` are their tests.
