---------------------------- MODULE SessionTable ----------------------------
(***************************************************************************)
(* The daemon's session table (ServerState in src/src/bin/mult-server.rs)  *)
(* and the threads that change it:                                         *)
(*                                                                         *)
(*   - one handler per create request: look the session up by number, then *)
(*     by identity, reserve both names, spawn outside the lock, publish,   *)
(*     and on a failure reap the child and release the reservation;        *)
(*   - the finalization of a published pane (its stop and its two threads  *)
(*     are in PaneStop) and the agent status it leaves behind;             *)
(*   - agent status updates, and queries as the operator QueryOutcome;     *)
(*   - the main thread: shutdown, then the bounded wait for the drain.     *)
(*                                                                         *)
(* One action is one critical section of the server lock, or the work a    *)
(* handler does between two.  A pane is named by the request that spawned  *)
(* it (the code compares panes by pointer).  The request cache in front of *)
(* the handlers is RequestScope; an answer here is what it is completed    *)
(* with.                                                                   *)
(***************************************************************************)
EXTENDS Integers

CONSTANTS Creates,      \* create requests, each handled once
          Identities,   \* logical identities, [namespace, token]
          Metadata,     \* agent metadata, [schema, chat, agent, generation]
          Wanted,       \* the numeric IDs requests ask for
          Updates,      \* the agent status records sent, [identity, metadata, status]
          Statuses,     \* agent statuses, and the final ones among them
          Final,
          Schema,       \* AGENT_STATUS_SCHEMA_VERSION
          LastSession,  \* u64::MAX
          None

ASSUME SessionTableAssumption ==
    /\ LastSession \in Nat \ {0}
    /\ Wanted \subseteq 1 .. LastSession
    /\ {"exited", "failed"} \subseteq Final
    /\ Final \subseteq Statuses
    /\ None \notin Creates
    /\ None \notin Identities
    /\ None \notin Metadata
    /\ None \notin Statuses
    /\ None \notin 1 .. LastSession
    /\ Updates \subseteq [identity : Identities, metadata : Metadata, status : Statuses]

SessionIds == 1 .. LastSession

VARIABLES
    sessions,        \* session ID -> the pane (its create request), or None
    byIdentity,      \* session_by_identity
    reserved,        \* reserved_sessions
    reservedNames,   \* reserved_identities
    agents,          \* agent_states: the metadata registered, and the status record
                     \* as its status and the metadata it was sent with
    nextId,          \* next_session_id
    main,            \* main thread: "serving", "draining", "drained", "expired"
    body,            \* each create request: [identity, wanted, agent]
    stage,           \* where its handler is
    found,           \* the pane its numeric lookup returned
    number,          \* the session ID it reserved
    child,           \* its child: "none", "running", "ok" or "bad" (exited)
    outcome          \* its answer, kept while the handler cleans up

table   == << sessions, byIdentity, reserved, reservedNames, agents, nextId >>
request == << body, found, number >>
vars    == << table, request, main, stage, child, outcome >>

\* An identity without an entry.
NoEntry == [metadata |-> None, status |-> None, sent |-> None]

Running == main \in {"serving", "draining"}

Init ==
    /\ sessions = [s \in SessionIds |-> None]
    /\ byIdentity = [i \in Identities |-> None]
    /\ reserved = {}
    /\ reservedNames = {}
    /\ agents = [i \in Identities |-> NoEntry]
    /\ nextId = 1
    /\ main = "serving"
    /\ body = [r \in Creates |-> None]
    /\ stage = [r \in Creates |-> "new"]
    /\ found = [r \in Creates |-> None]
    /\ number = [r \in Creates |-> None]
    /\ child = [r \in Creates |-> "none"]
    /\ outcome = [r \in Creates |-> None]
-----------------------------------------------------------------------------
Go(r, next) == stage' = [stage EXCEPT ![r] = next]

Answer(r, what) ==
    /\ outcome' = [outcome EXCEPT ![r] = what]
    /\ Go(r, "done")

\* A new create request (begin_request returned New).
Begin(r) ==
    /\ stage[r] = "new"
    /\ \E i \in Identities, w \in Wanted \cup {None}, a \in Metadata \cup {None} :
          body' = [body EXCEPT ![r] = [identity |-> i, wanted |-> w, agent |-> a]]
    /\ Go(r, "numeric")
    /\ UNCHANGED << table, found, number, main, child, outcome >>

\* The lookups before the reservation and the ones after a collision.
FindNumeric(r) ==
    /\ stage[r] \in {"numeric", "numeric again"}
    /\ found' = [found EXCEPT ![r] = IF body[r].wanted = None THEN None
                                     ELSE sessions[body[r].wanted]]
    /\ Go(r, IF stage[r] = "numeric" THEN "logical" ELSE "logical again")
    /\ UNCHANGED << table, body, number, main, child, outcome >>

ValidMetadata(a) == a # None => a.schema = Schema /\ a.chat # 0

\* What the lookups say of the two names.
Existing(r) ==
    CASE found[r] # None -> IF body[found[r]].identity = body[r].identity
                            THEN "SessionAlreadyExists" ELSE "IdentityMismatch"
      [] found[r] = None /\ byIdentity[body[r].identity] # None -> "IdentityAlreadyExists"
      [] OTHER -> "free"

FindIdentity(r) ==
    /\ stage[r] = "logical"
    /\ CASE ~ ValidMetadata(body[r].agent) -> Answer(r, "InvalidAgentMetadata")
         [] ValidMetadata(body[r].agent) /\ Existing(r) # "free" -> Answer(r, Existing(r))
         [] OTHER -> Go(r, "reserve") /\ UNCHANGED outcome
    /\ UNCHANGED << table, request, main, child >>

FindIdentityAgain(r) ==
    /\ stage[r] = "logical again"
    /\ Answer(r, IF Existing(r) = "free" THEN "CreatedConcurrently" ELSE Existing(r))
    /\ UNCHANGED << table, request, main, child >>
-----------------------------------------------------------------------------
Unused(s) == sessions[s] = None /\ s \notin reserved

\* Mutant of Allocatable: the last number is given out.
AllocatableToTheLast == {s \in SessionIds : nextId <= s /\ Unused(s)}

\* allocate_session_id: the next unused number.  u64::MAX itself is never
\* given out, for the counter must move past what it returns.
Allocatable == {s \in SessionIds : nextId <= s /\ s < LastSession /\ Unused(s)}

Collide(r) ==
    /\ Go(r, "numeric again")
    /\ UNCHANGED << table, number, outcome >>

\* Both names are taken in one critical section.
Take(r, s) ==
    /\ reserved' = reserved \cup {s}
    /\ reservedNames' = reservedNames \cup {body[r].identity}
    /\ number' = [number EXCEPT ![r] = s]
    /\ Go(r, "spawn")
    /\ UNCHANGED << sessions, byIdentity, agents, outcome >>

NameTaken(i) == byIdentity[i] # None \/ i \in reservedNames

\* reserve_session.
Reserve(r) ==
    /\ stage[r] = "reserve"
    /\ CASE main # "serving" ->
              /\ Answer(r, "ShuttingDown")
              /\ UNCHANGED << table, number >>
         [] main = "serving" /\ NameTaken(body[r].identity) -> Collide(r)
         [] main = "serving" /\ ~ NameTaken(body[r].identity) /\ body[r].wanted # None ->
              IF Unused(body[r].wanted)
              THEN Take(r, body[r].wanted) /\ UNCHANGED nextId
              ELSE Collide(r)
         [] OTHER ->
              IF Allocatable # {}
              THEN \E s \in Allocatable :
                      /\ \A t \in Allocatable : s <= t
                      /\ Take(r, s)
                      /\ nextId' = s + 1
              ELSE /\ Answer(r, "ResourceExhausted")
                   /\ nextId' = LastSession
                   /\ UNCHANGED << sessions, byIdentity, reserved, reservedNames,
                                   agents, number >>
    /\ UNCHANGED << body, found, main, child >>

\* spawn_pane, outside the lock.  When it fails it has reaped what it started.
Spawn(r) ==
    /\ stage[r] = "spawn"
    /\ \/ /\ child' = [child EXCEPT ![r] = "running"]
          /\ Go(r, "publish")
          /\ UNCHANGED outcome
       \/ /\ outcome' = [outcome EXCEPT ![r] = "LaunchFailed"]
          /\ Go(r, "release")
          /\ UNCHANGED child
    /\ UNCHANGED << table, request, main >>

\* The test publish_reserved_session makes before it touches the table.
StillReserved(r) ==
    /\ sessions[number[r]] = None
    /\ byIdentity[body[r].identity] = None
    /\ number[r] \in reserved
    /\ body[r].identity \in reservedNames

\* The agent status entry of a session that is published.
Register(agent) == [NoEntry EXCEPT !.metadata = agent]

\* Mutant of MayPublish: shutdown is not looked at again.
MayPublishAlways(r) == StillReserved(r)

MayPublish(r) == main = "serving" /\ StillReserved(r)

\* publish_reserved_session: both indexes, the agent entry and the release of
\* the reservation in one critical section.
Publish(r) ==
    /\ stage[r] = "publish"
    /\ IF MayPublish(r)
       THEN /\ reserved' = reserved \ {number[r]}
            /\ reservedNames' = reservedNames \ {body[r].identity}
            /\ byIdentity' = [byIdentity EXCEPT ![body[r].identity] = number[r]]
            /\ agents' = [agents EXCEPT ![body[r].identity] = Register(body[r].agent)]
            /\ sessions' = [sessions EXCEPT ![number[r]] = r]
            /\ Answer(r, "Created")
            /\ UNCHANGED nextId
       ELSE /\ outcome' = [outcome EXCEPT ![r] = IF main = "serving" THEN "AlreadyExists"
                                                 ELSE "ShuttingDown"]
            /\ Go(r, "cleanup")
            /\ UNCHANGED table
    /\ UNCHANGED << request, main, child >>

\* Mutant of Cleanup: it waits for the child without killing it.
CleanupWithoutKill(r) ==
    /\ stage[r] = "cleanup"
    /\ child[r] # "running"
    /\ Go(r, "release")
    /\ UNCHANGED << table, request, main, child, outcome >>

\* cleanup_unpublished_child: killed and reaped by the handler itself.
Cleanup(r) ==
    /\ stage[r] = "cleanup"
    /\ child' = [child EXCEPT ![r] = IF @ = "running" THEN "bad" ELSE @]
    /\ Go(r, "release")
    /\ UNCHANGED << table, request, main, outcome >>

\* Mutant of Release: only the number is given back.
ReleaseNumber(r) ==
    /\ stage[r] = "release"
    /\ reserved' = reserved \ {number[r]}
    /\ Go(r, IF outcome[r] = "AlreadyExists" THEN "numeric again" ELSE "done")
    /\ UNCHANGED << sessions, byIdentity, agents, nextId, reservedNames,
                    request, main, child, outcome >>

\* release_session_reservation after a failure.
Release(r) ==
    /\ stage[r] = "release"
    /\ reserved' = reserved \ {number[r]}
    /\ reservedNames' = reservedNames \ {body[r].identity}
    /\ Go(r, IF outcome[r] = "AlreadyExists" THEN "numeric again" ELSE "done")
    /\ UNCHANGED << sessions, byIdentity, agents, nextId, request, main, child, outcome >>
-----------------------------------------------------------------------------
\* The child ends by itself or by the signals of a stop.
Exit(r) ==
    /\ child[r] = "running"
    /\ \E how \in {"ok", "bad"} : child' = [child EXCEPT ![r] = how]
    /\ UNCHANGED << table, request, main, stage, outcome >>

IsFinal(entry) == entry.status \in Final

\* Mutant of RecordExit: it overwrites a final status.
RecordExitAlways(entry, metadata, how) ==
    IF entry.metadata # metadata THEN entry
    ELSE [entry EXCEPT !.status = IF how = "ok" THEN "exited" ELSE "failed", !.sent = metadata]

\* record_agent_exit: only the generation that exited, and no second final status.
RecordExit(entry, metadata, how) ==
    IF entry.metadata # metadata \/ IsFinal(entry) THEN entry
    ELSE [entry EXCEPT !.status = IF how = "ok" THEN "exited" ELSE "failed", !.sent = metadata]

\* maybe_finalize: the exit is recorded and both indexes lose the session.
Finalize(r) ==
    /\ number[r] # None
    /\ sessions[number[r]] = r
    /\ child[r] \in {"ok", "bad"}
    /\ agents' = IF body[r].agent = None THEN agents
                 ELSE [agents EXCEPT ![body[r].identity] =
                          RecordExit(@, body[r].agent, child[r])]
    /\ sessions' = [sessions EXCEPT ![number[r]] = None]
    /\ byIdentity' = [i \in Identities |-> IF byIdentity[i] = number[r] THEN None
                                           ELSE byIdentity[i]]
    /\ UNCHANGED << reserved, reservedNames, nextId, request, main, stage, child, outcome >>
-----------------------------------------------------------------------------
Known == {j \in Identities : agents[j].metadata # None}

\* missing_agent_identity_error.
Missing(i, chat) ==
    CASE byIdentity[i] # None -> "NotAgentSession"
      [] byIdentity[i] = None
         /\ \E j \in Known : j.token = i.token -> "WrongNamespace"
      [] OTHER ->
         IF \E j \in Known : j.namespace = i.namespace /\ agents[j].metadata.chat = chat
         THEN "WrongToken" ELSE "SessionNotFound"

\* Mutant of Precondition: the generation is not compared.
PreconditionAnyGeneration(i, m) ==
    CASE m.schema # Schema                             -> "WrongSchema"
      [] m.schema = Schema /\ agents[i].metadata = None -> Missing(i, m.chat)
      [] OTHER ->
         CASE m.chat # agents[i].metadata.chat       -> "WrongChat"
           [] m.agent # agents[i].metadata.agent     -> "WrongAgent"
           [] OTHER                                  -> "Ok"

\* The tests update_agent_status and query_agent_status share, in their order.
Precondition(i, m) ==
    CASE m.schema # Schema                             -> "WrongSchema"
      [] m.schema = Schema /\ agents[i].metadata = None -> Missing(i, m.chat)
      [] OTHER ->
         CASE m.chat # agents[i].metadata.chat       -> "WrongChat"
           [] m.chat = agents[i].metadata.chat
              /\ m.agent # agents[i].metadata.agent  -> "WrongAgent"
           [] OTHER -> IF m.generation # agents[i].metadata.generation
                       THEN "StaleGeneration" ELSE "Ok"

\* What query_agent_status answers.
QueryOutcome(i, m) ==
    [error |-> Precondition(i, m),
     status |-> IF Precondition(i, m) = "Ok" THEN agents[i].status ELSE None]

\* What update_agent_status leaves: a final status is kept, whether the answer
\* is its repetition or FinalStatusConflict.
Stored(entry, u) == IF IsFinal(entry) THEN entry
                    ELSE [entry EXCEPT !.status = u.status, !.sent = u.metadata]

UpdateAgentStatus(u) ==
    /\ Precondition(u.identity, u.metadata) = "Ok"
    /\ agents' = [agents EXCEPT ![u.identity] = Stored(@, u)]
    /\ UNCHANGED << sessions, byIdentity, reserved, reservedNames, nextId,
                    request, main, stage, child, outcome >>
-----------------------------------------------------------------------------
\* The main thread: begin_daemon_shutdown, then wait_for_sessions_drained.
BeginShutdown ==
    /\ main = "serving"
    /\ main' = "draining"
    /\ UNCHANGED << table, request, stage, child, outcome >>

\* Mutant of IsDrained: reservations are not waited for.
IsDrainedOfSessions == \A s \in SessionIds : sessions[s] = None

IsDrained == reserved = {} /\ \A s \in SessionIds : sessions[s] = None

Drained ==
    /\ main = "draining"
    /\ IsDrained
    /\ main' = "drained"
    /\ UNCHANGED << table, request, stage, child, outcome >>

\* SHUTDOWN_DRAIN_TIMEOUT passes.
DrainExpires ==
    /\ main = "draining"
    /\ main' = "expired"
    /\ UNCHANGED << table, request, stage, child, outcome >>

Work(r) ==
    FindNumeric(r) \/ FindIdentity(r) \/ FindIdentityAgain(r) \/ Reserve(r)
        \/ Spawn(r) \/ Publish(r) \/ Cleanup(r) \/ Release(r)

Next ==
    \/ Running /\ \E r \in Creates : Begin(r) \/ Work(r) \/ Finalize(r)
    \/ Running /\ \E u \in Updates : UpdateAgentStatus(u)
    \/ \E r \in Creates : Exit(r)
    \/ BeginShutdown \/ Drained \/ DrainExpires

Spec == Init /\ [][Next]_vars

\* A handler runs on: spawn_pane returns, and a child killed with SIGKILL can
\* be reaped.  Nothing is assumed of the other children or of the main thread.
FairSpec == Spec /\ \A r \in Creates : WF_vars(Running /\ Work(r))
-----------------------------------------------------------------------------
\* A create between its reservation and its release.
Reserving(r) == stage[r] \in {"spawn", "publish", "cleanup", "release"}

\* A create whose pane is in the table.
Published(r) == number[r] # None /\ sessions[number[r]] = r

Entries == [metadata : Metadata \cup {None}, status : Statuses \cup {None},
            sent : Metadata \cup {None}]

Bodies == [identity : Identities, wanted : Wanted \cup {None}, agent : Metadata \cup {None}]

Stages == {"new", "numeric", "logical", "reserve", "spawn", "publish", "cleanup", "release",
           "numeric again", "logical again", "done"}

Answers == {"Created", "InvalidAgentMetadata", "SessionAlreadyExists", "IdentityMismatch",
            "IdentityAlreadyExists", "AlreadyExists", "CreatedConcurrently", "ShuttingDown",
            "ResourceExhausted", "LaunchFailed"}

TypeOK ==
    /\ sessions \in [SessionIds -> Creates \cup {None}]
    /\ byIdentity \in [Identities -> SessionIds \cup {None}]
    /\ reserved \subseteq SessionIds
    /\ reservedNames \subseteq Identities
    /\ agents \in [Identities -> Entries]
    /\ nextId \in SessionIds
    /\ main \in {"serving", "draining", "drained", "expired"}
    /\ body \in [Creates -> Bodies \cup {None}]
    /\ stage \in [Creates -> Stages]
    /\ found \in [Creates -> Creates \cup {None}]
    /\ number \in [Creates -> SessionIds \cup {None}]
    /\ child \in [Creates -> {"none", "running", "ok", "bad"}]
    /\ outcome \in [Creates -> Answers \cup {None}]

\* The two indexes name the same panes, and the two reservation sets hold what
\* the creates in flight hold and nothing else: no failure path leaks or gives
\* away a reservation, and publishing is refused by shutdown alone.
TableCoherent ==
    /\ \A s \in SessionIds :
          sessions[s] # None => byIdentity[body[sessions[s]].identity] = s
    /\ \A i \in Identities :
          byIdentity[i] # None =>
             sessions[byIdentity[i]] # None /\ body[sessions[byIdentity[i]]].identity = i
    /\ reserved = {number[r] : r \in {q \in Creates : Reserving(q)}}
    /\ reservedNames = {body[r].identity : r \in {q \in Creates : Reserving(q)}}
    /\ \A r \in Creates : stage[r] = "publish" => StillReserved(r)

\* docs/DAEMON.md: "an unpublished child is killed and definitively reaped".
\* A daemon that drained leaves no process behind, not even of a create that
\* was spawning when shutdown began.
DrainedLeavesNoChild == main = "drained" => \A r \in Creates : child[r] # "running"

\* docs/DAEMON.md: "Final status remains queryable after the live PTY is
\* removed": an entry without a session tells how its agent ended, an entry
\* with one is that session's, and a query is answered only with a status that
\* its own generation sent.
StatusEntries ==
    \A i \in Identities :
        /\ byIdentity[i] = None /\ agents[i].metadata # None => IsFinal(agents[i])
        /\ byIdentity[i] # None => agents[i].metadata = body[sessions[byIdentity[i]]].agent
        /\ \A m \in Metadata :
              QueryOutcome(i, m).status # None => agents[i].sent.generation = m.generation

\* docs/DAEMON.md: "Failed and exited states are final": once a generation has
\* a final status, no update and no exit changes it; only a publication for
\* the identity replaces it.
FinalStays ==
    [][\A i \in Identities :
          IsFinal(agents[i]) =>
             \/ agents'[i] = agents[i]
             \/ byIdentity[i] = None /\ byIdentity'[i] # None]_vars

\* Every create a handler took up is answered, unless the daemon ends first.
CreateAnswered == \A r \in Creates : (stage[r] # "new") ~> (stage[r] = "done" \/ ~ Running)

\* What each create holds, for the contract.
Holding(r) ==
    IF Reserving(r) \/ Published(r)
    THEN [identity |-> body[r].identity, session |-> number[r],
          phase |-> IF Published(r) THEN "open" ELSE "claimed"]
    ELSE [identity |-> None, session |-> None, phase |-> "none"]

Directory == INSTANCE SessionDirectory WITH
    holds <- [r \in Creates |-> Holding(r)], closed <- main # "serving"
ImplementsDirectory == Directory!Spec
=============================================================================
