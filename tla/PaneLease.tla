------------------------------- MODULE PaneLease -------------------------------
(***************************************************************************)
(* Who may drive a pane: attachment leases, the connections they are bound *)
(* to, and everything that takes them away (takeover, detach, stop, exit,  *)
(* shutdown), over the real request cache of every client scope.           *)
(*                                                                         *)
(* One action is one critical section.  An attach is two (begin_request;   *)
(* then the commit, under the server lock and the pane lock, which are     *)
(* released only after every queue attempt), an input is two (the lease    *)
(* check under both locks; then the enqueue, under neither), a stop is     *)
(* three, and a finalization two.  A message counts as received when it is *)
(* queued: a connection's queue is a FIFO, and whatever it cannot take is  *)
(* refused at once (try_send).                                             *)
(*                                                                         *)
(* Resize is left out: it needs the same check as Detach, in the same      *)
(* critical section as its effect, and the effect is a window size.        *)
(***************************************************************************)
EXTENDS RequestCache

CONSTANTS Conns,       \* connections the daemon ever accepts (ClientId)
          Scopes,      \* client scopes it may allocate (ClientScopeId)
          Panes,       \* pane coordinates (SessionId, and PaneId, its equal)
          Identities,  \* durable session identities
          LastLease    \* largest AttachmentLease (u64::MAX in the code)

ASSUME PaneLeaseAssumption ==
    /\ LastLease \in Nat \ {0}
    /\ None \notin Conns \cup Scopes \cup Panes \cup Identities \cup (0 .. LastLease)

VARIABLES
    conn,       \* each connection: [status, scope, resumed]
    scopes,     \* the RequestScopeState of each scope
    pane,       \* each coordinate's live pane: [life, driver, identity, owner]
    nextLease,  \* next_lease; beyond LastLease when exhausted
    closing,    \* shutting_down
    toStop,     \* panes begin_daemon_shutdown still has to stop
    handler,    \* what each reader thread is inside of
    notices,    \* PaneExited messages taken but not yet queued
    told,       \* history: the lease each open connection was told it holds
    unheard,    \* history: beliefs whose TakenOver was not queued
    late        \* history: inputs each connection queued under each lease while
                \* it could not have sent them any more

vars == << conn, scopes, pane, nextLease, closing, toStop, handler, notices,
           told, unheard, late >>

NoOwner == [scope |-> None, lease |-> 0, conn |-> None]
NoPane  == [life |-> "absent", driver |-> FALSE, identity |-> None, owner |-> NoOwner]
Idle    == [op |-> "idle", id |-> 0, pane |-> None, identity |-> None, lease |-> 0]

Failed == 0   \* an AttachResult error; a success is its lease
Leases == 1 .. LastLease

Init ==
    /\ conn = [c \in Conns |-> [status |-> "new", scope |-> None, resumed |-> FALSE]]
    /\ scopes = [s \in Scopes |-> EmptyScope]
    /\ pane = [p \in Panes |-> NoPane]
    /\ nextLease = 1
    /\ closing = FALSE
    /\ toStop = {}
    /\ handler = [c \in Conns |-> Idle]
    /\ notices = {}
    /\ told = [c \in Conns |-> [p \in Panes |-> 0]]
    /\ unheard = {}
    /\ late = [c \in Conns |-> [lease \in Leases |-> 0]]
-----------------------------------------------------------------------------
Open(c)  == conn[c].status = "open"
Ready(c) == conn[c].status \in {"open", "inactive"} /\ handler[c] = Idle
Owner(p) == pane[p].owner
Known    == {conn[c].scope : c \in Conns} \ {None}

\* ClientHandle.disconnect on each of cs; a closed connection stays closed.
Dropping(cs) == [c \in Conns |-> IF c \in cs /\ Open(c)
                                 THEN [conn[c] EXCEPT !.status = "inactive"] ELSE conn[c]]

\* A connection that is gone believes nothing.
Forget(cs) == [c \in Conns |-> IF c \in cs THEN [p \in Panes |-> 0] ELSE told[c]]

\* handle_client_messages: the hello resumes a scope the daemon knows or
\* allocates a fresh one.
Hello(c, s) ==
    /\ conn[c].status = "new"
    /\ conn' = [conn EXCEPT ![c] = [status |-> "open", scope |-> s, resumed |-> s \in Known]]
    /\ UNCHANGED << scopes, pane, nextLease, closing, toStop, handler, notices,
                    told, unheard, late >>

\* publish_reserved_session: CreateSession put a pane at a free coordinate.
Publish(p, i) ==
    /\ ~ closing
    /\ pane[p].life = "absent"
    /\ \A q \in Panes : pane[q].identity # i
    /\ pane' = [pane EXCEPT ![p] = [NoPane EXCEPT !.life = "running", !.identity = i]]
    /\ UNCHANGED << conn, scopes, nextLease, closing, toStop, handler, notices,
                    told, unheard, late >>
-----------------------------------------------------------------------------
\* begin_request of an Attach.  A fresh request, and a retry of one that
\* succeeded, go on to the commit; everything else is answered from the cache.
Attaching(c, id, p, i, op, lease) ==
    [handler EXCEPT ![c] = [op |-> op, id |-> id, pane |-> p, identity |-> i, lease |-> lease]]

BeginAttach(c, id, p, i) ==
    LET s     == conn[c].scope
        body  == << p, i >>
        found == Disposition(scopes[s], id, body)
    IN  /\ Ready(c)
        /\ scopes' = [scopes EXCEPT ![s] = BeginRequest(scopes[s], id, body, c)]
        /\ handler' =
             CASE found = "New"            -> Attaching(c, id, p, i, "attach", 0)
               [] found = "TooManyPending" -> Attaching(c, id, p, i, "overloaded", 0)
               [] found = "Cached"         ->
                    IF scopes[s].records[id].response = Failed THEN handler
                    ELSE Attaching(c, id, p, i, "reattach", scopes[s].records[id].response)
               [] OTHER -> handler
        /\ UNCHANGED << conn, pane, nextLease, closing, toStop, notices, told, unheard, late >>

\* Mutant of Attachable: the identity is not compared.
AttachableByCoordinate(p, i) ==
    \/ pane[p].life = "running"
    \/ pane[p].life = "stopping" /\ ~ pane[p].driver

\* A stopping pane whose driver gave up can be attached to, so that its stop
\* can be repeated.
Attachable(p, i) ==
    /\ pane[p].identity = i
    /\ \/ pane[p].life = "running"
       \/ pane[p].life = "stopping" /\ ~ pane[p].driver

\* Mutants: a lease is allocated although none is left; shutdown is not seen.
AnyLease == nextLease \in Nat
IgnoringShutdown == closing \in BOOLEAN

LeaseLeft == nextLease <= LastLease
Accepting == ~ closing

Completed(c, result) ==
    [scopes EXCEPT ![conn[c].scope] = CompleteRequest(scopes[conn[c].scope], handler[c].id, result)]

\* Mutant of Cut: the refused TakenOver is ignored.
CutNobody(p, notified) == {}

\* The previous owner is sent TakenOver, or disconnected when its queue cannot
\* take the message; "notified" says which.
Cut(p, notified) == IF Owner(p) # NoOwner /\ ~ notified THEN {Owner(p).conn} ELSE {}

CanNotify(p, notified) ==
    notified => Owner(p) # NoOwner /\ Open(Owner(p).conn)

\* The connections that wait for an attach; the one that asked when all left.
Listed(c) ==
    LET waiters == WaitersOf(scopes[conn[c].scope], handler[c].id)
    IN  IF waiters = << >> THEN << c >> ELSE waiters

Selected(c) == Listed(c)[Len(Listed(c))]

\* A fresh attach commits: whoever began last among the waiters becomes the
\* owner; every waiter gets the result and the replay ("accepted": all of it, to
\* ReplayEnd, fitted its queue), then the ForegroundProcess, and then, if not
\* selected, TakenOver ("deaf": that did not fit, or was not tried because the
\* ForegroundProcess before it did not fit).
CommitNew(c, notified, accepted, deaf) ==
    LET p        == handler[c].pane
        was      == Owner(p)
        cut      == Cut(p, notified)
        waiting  == {Listed(c)[k] : k \in 1 .. Len(Listed(c))}
        selected == Selected(c)
        keeps    == (accepted \cap {selected}) \cup deaf
    IN  /\ handler[c].op = "attach"
        /\ Accepting
        /\ Attachable(p, handler[c].identity)
        /\ LeaseLeft
        /\ CanNotify(p, notified)
        /\ accepted \subseteq {w \in waiting : Open(w)} \ cut
        /\ deaf \subseteq accepted \ {selected}
        /\ pane' = [pane EXCEPT ![p].owner =
                      [scope |-> conn[c].scope, lease |-> nextLease, conn |-> selected]]
        /\ nextLease' = nextLease + 1
        /\ scopes' = Completed(c, nextLease)
        /\ conn' = Dropping(cut)
        /\ told' = [w \in Conns |->
                      IF w \in cut THEN [q \in Panes |-> 0]
                      ELSE IF w \in keeps THEN [told[w] EXCEPT ![p] = nextLease]
                      ELSE IF w \in accepted
                           \/ (notified /\ w = was.conn /\ told[w][p] = was.lease)
                      THEN [told[w] EXCEPT ![p] = 0]
                      ELSE told[w]]
        /\ unheard' = {x \in unheard : x[1] \notin cut /\ ~ (x[1] \in accepted /\ x[2] = p)}
                      \cup (deaf \X {p} \X {nextLease})
        /\ handler' = [handler EXCEPT ![c] = Idle]
        /\ UNCHANGED << closing, toStop, notices, late >>

\* A fresh attach fails: shutdown, no such pane, no lease left, the window
\* could not be resized, or the request was refused for overload.
CommitFailed(c) ==
    /\ \/ handler[c].op = "overloaded"
       \/ /\ handler[c].op = "attach"
          /\ \/ ~ Accepting
             \/ ~ Attachable(handler[c].pane, handler[c].identity)
             \/ ~ LeaseLeft
             \/ pane[handler[c].pane].life = "running"
    /\ scopes' = Completed(c, Failed)
    /\ handler' = [handler EXCEPT ![c] = Idle]
    /\ UNCHANGED << conn, pane, nextLease, closing, toStop, notices, told, unheard, late >>

\* Mutant of Usable: any connection of the scope.
UsableByScope(c) ==
    LET o == Owner(handler[c].pane)
    IN  o.scope = conn[c].scope /\ o.lease = handler[c].lease /\ Open(c)

\* The lease of a cached attach can be rebound to the connection that repeats
\* the request.
Usable(c) ==
    LET o == Owner(handler[c].pane)
    IN  /\ o.scope = conn[c].scope
        /\ o.lease = handler[c].lease
        /\ Open(c)
        /\ o.conn = c \/ conn[c].resumed

CommitRebind(c, notified, accepted) ==
    LET p    == handler[c].pane
        was  == Owner(p)
        cut  == IF was.conn = c THEN {} ELSE Cut(p, notified)
    IN  /\ handler[c].op = "reattach"
        /\ Accepting
        /\ Attachable(p, handler[c].identity)
        /\ Usable(c)
        /\ CanNotify(p, notified)
        /\ pane' = [pane EXCEPT ![p].owner =
                      [scope |-> conn[c].scope, lease |-> handler[c].lease, conn |-> c]]
        /\ conn' = Dropping(cut)
        /\ told' = [w \in Conns |->
                      IF w \in cut THEN [q \in Panes |-> 0]
                      ELSE IF w = c THEN IF accepted THEN [told[c] EXCEPT ![p] = handler[c].lease]
                                         ELSE told[c]
                      ELSE IF notified /\ w = was.conn /\ told[w][p] = was.lease
                      THEN [told[w] EXCEPT ![p] = 0]
                      ELSE told[w]]
        /\ unheard' = {x \in unheard : x[1] \notin cut /\ ~ (accepted /\ x[1] = c /\ x[2] = p)}
        /\ late' = IF was.conn = c THEN late ELSE [late EXCEPT ![c][was.lease] = 0]
        /\ handler' = [handler EXCEPT ![c] = Idle]
        /\ UNCHANGED << scopes, nextLease, closing, toStop, notices >>

\* The cached attach no longer stands: the reply is an error and nothing else
\* changes.
CommitSuperseded(c) ==
    /\ handler[c].op = "reattach"
    /\ \/ ~ Accepting
       \/ ~ Attachable(handler[c].pane, handler[c].identity)
       \/ ~ Usable(c)
       \/ pane[handler[c].pane].life = "running"
    /\ handler' = [handler EXCEPT ![c] = Idle]
    /\ UNCHANGED << conn, scopes, pane, nextLease, closing, toStop, notices,
                    told, unheard, late >>
-----------------------------------------------------------------------------
\* Mutant of HoldsLease: the connection is not compared, only its scope.
HoldsLeaseByScope(c, p, lease) ==
    Owner(p).lease = lease /\ Owner(p).scope = conn[c].scope /\ Open(c)

\* validate_lease, and validate_mutation_lease on top of it.
HoldsLease(c, p, lease) ==
    /\ Owner(p).lease = lease
    /\ Owner(p).scope = conn[c].scope
    /\ Owner(p).conn = c
    /\ Open(c)

MayMutate(c, p, lease) ==
    ~ closing /\ pane[p].life = "running" /\ HoldsLease(c, p, lease)

\* handle_leased_input, first half: the check, under both locks.
ValidateInput(c, p, lease) ==
    /\ Ready(c)
    /\ MayMutate(c, p, lease)
    /\ handler' = [handler EXCEPT ![c] = [Idle EXCEPT !.op = "input", !.pane = p, !.lease = lease]]
    /\ UNCHANGED << conn, scopes, pane, nextLease, closing, toStop, notices,
                    told, unheard, late >>

\* Second half: the bytes enter the pane's write queue, under no lock.
EnqueueInput(c) ==
    LET p == handler[c].pane
    IN  /\ handler[c].op = "input"
        /\ late' = IF MayMutate(c, p, handler[c].lease) THEN late
                   ELSE [late EXCEPT ![c][handler[c].lease] = @ + 1]
        /\ handler' = [handler EXCEPT ![c] = Idle]
        /\ UNCHANGED << conn, scopes, pane, nextLease, closing, toStop, notices, told, unheard >>

\* Or the queue is full or closed, and the client is told WriteRefused.
RefuseInput(c) ==
    /\ handler[c].op \in {"input", "refused"}
    /\ handler' = [handler EXCEPT ![c] = Idle]
    /\ UNCHANGED << conn, scopes, pane, nextLease, closing, toStop, notices,
                    told, unheard, late >>

\* handle_leased_detach: check and effect in one critical section.
Detach(c, p, lease) ==
    /\ Ready(c)
    /\ MayMutate(c, p, lease)
    /\ pane' = [pane EXCEPT ![p].owner = NoOwner]
    /\ told' = [told EXCEPT ![c][p] = 0]
    /\ UNCHANGED << conn, scopes, nextLease, closing, toStop, handler, notices, unheard, late >>

\* handle_stop_request: the stop is recorded under the pane lock, and the
\* reader thread starts the termination driver afterwards.
RequestStop(c, p, lease) ==
    /\ Ready(c)
    /\ pane[p].life \in {"running", "stopping"}
    /\ HoldsLease(c, p, lease)
    /\ pane' = [pane EXCEPT ![p].life = "stopping"]
    /\ handler' = [handler EXCEPT ![c] = [Idle EXCEPT !.op = "stop", !.pane = p]]
    /\ UNCHANGED << conn, scopes, nextLease, closing, toStop, notices, told, unheard, late >>

\* start_stop_if_needed, from a stop request and from the shutdown.
StartStop(c) ==
    /\ handler[c].op = "stop"
    /\ pane' = [pane EXCEPT ![handler[c].pane].life = "stopping",
                            ![handler[c].pane].driver = TRUE]
    /\ handler' = [handler EXCEPT ![c] = Idle]
    /\ UNCHANGED << conn, scopes, nextLease, closing, toStop, notices, told, unheard, late >>

StartShutdownStop(p) ==
    /\ p \in toStop
    /\ toStop' = toStop \ {p}
    /\ pane' = [pane EXCEPT ![p].life = "stopping", ![p].driver = TRUE]
    /\ UNCHANGED << conn, scopes, nextLease, closing, handler, notices, told, unheard, late >>

\* The driver gives up.  SIGTERM could not be sent: the pane runs on.  SIGKILL
\* failed or the reap timed out: it stays stopping.
DriverFails(p, termFailed) ==
    /\ pane[p].driver
    /\ pane' = [pane EXCEPT ![p].driver = FALSE,
                            ![p].life = IF termFailed THEN "running" ELSE "stopping"]
    /\ late' = IF termFailed /\ Owner(p) # NoOwner
               THEN [late EXCEPT ![Owner(p).conn][Owner(p).lease] = 0] ELSE late
    /\ UNCHANGED << conn, scopes, nextLease, closing, toStop, handler, notices, told, unheard >>
-----------------------------------------------------------------------------
\* maybe_finalize: the child is reaped and the output drained.  The pane's
\* queue closes, so an input in flight is refused; a driver start in flight
\* finds the pane removed.  PaneExited is queued after the locks are released.
Finalize(p) ==
    /\ pane[p].life # "absent"
    /\ pane' = [pane EXCEPT ![p] = NoPane]
    /\ notices' = IF Owner(p) = NoOwner THEN notices
                  ELSE notices \cup {<< Owner(p).conn, p, Owner(p).lease >>}
    /\ toStop' = toStop \ {p}
    /\ handler' = [c \in Conns |->
                     IF handler[c].op = "input" /\ handler[c].pane = p
                     THEN [handler[c] EXCEPT !.op = "refused"]
                     ELSE IF handler[c].op = "stop" /\ handler[c].pane = p THEN Idle
                     ELSE handler[c]]
    /\ UNCHANGED << conn, scopes, nextLease, closing, told, unheard, late >>

NotifyExit(notice, queued) ==
    LET c == notice[1]
        p == notice[2]
    IN  /\ notice \in notices
        /\ queued => Open(c)
        /\ notices' = notices \ {notice}
        /\ conn' = IF queued THEN conn ELSE Dropping({c})
        /\ told' = IF ~ queued THEN Forget({c})
                   ELSE IF told[c][p] = notice[3] THEN [told EXCEPT ![c][p] = 0] ELSE told
        /\ unheard' = IF queued THEN unheard ELSE {x \in unheard : x[1] # c}
        /\ UNCHANGED << scopes, pane, nextLease, closing, toStop, handler, late >>

\* begin_daemon_shutdown: the flag and the list of panes in one critical
\* section.
Shutdown ==
    /\ ~ closing
    /\ closing' = TRUE
    /\ toStop' = {p \in Panes : pane[p].life # "absent"}
    /\ UNCHANGED << conn, scopes, pane, nextLease, handler, notices, told, unheard, late >>

\* Any other delivery that does not fit: output to the owner, a result.
Disconnect(c) ==
    /\ Open(c)
    /\ conn' = Dropping({c})
    /\ told' = Forget({c})
    /\ unheard' = {x \in unheard : x[1] # c}
    /\ UNCHANGED << scopes, pane, nextLease, closing, toStop, handler, notices, late >>

\* remove_client takes the connection out of every waiter list and leaves the
\* owners alone.
Leaving(c, status) ==
    /\ conn' = [conn EXCEPT ![c].status = status]
    /\ scopes' = [s \in Scopes |-> RemoveClient(scopes[s], c)]
    /\ told' = Forget({c})
    /\ unheard' = {x \in unheard : x[1] # c}
    /\ UNCHANGED << pane, nextLease, closing, toStop, handler, notices, late >>

WriterEnds(c) == conn[c].status \in {"open", "inactive"} /\ Leaving(c, "inactive")

ReaderEnds(c) == Ready(c) /\ Leaving(c, "closed")
-----------------------------------------------------------------------------
Commit(c) ==
    \/ \E notified \in BOOLEAN, accepted, deaf \in SUBSET Conns :
          CommitNew(c, notified, accepted, deaf)
    \/ CommitFailed(c)
    \/ \E notified, accepted \in BOOLEAN : CommitRebind(c, notified, accepted)
    \/ CommitSuperseded(c)

Leased(c, p, lease) ==
    ValidateInput(c, p, lease) \/ Detach(c, p, lease) \/ RequestStop(c, p, lease)

Next ==
    \/ \E c \in Conns :
          \/ \E s \in Scopes : Hello(c, s)
          \/ \E id \in Ids, p \in Panes, i \in Identities : BeginAttach(c, id, p, i)
          \/ Commit(c)
          \/ \E p \in Panes, lease \in Leases : Leased(c, p, lease)
          \/ EnqueueInput(c) \/ RefuseInput(c) \/ StartStop(c)
          \/ Disconnect(c) \/ WriterEnds(c) \/ ReaderEnds(c)
    \/ \E p \in Panes :
          \/ \E i \in Identities : Publish(p, i)
          \/ StartShutdownStop(p) \/ Finalize(p)
          \/ \E termFailed \in BOOLEAN : DriverFails(p, termFailed)
    \/ \E notice \in notices, queued \in BOOLEAN : NotifyExit(notice, queued)
    \/ Shutdown

Spec == Init /\ [][Next]_vars
-----------------------------------------------------------------------------
Responses == Leases \cup {Failed}
RecordType == [state : {"absent", "pending", "done"},
               request : (Panes \X Identities) \cup {None},
               response : Responses \cup {None}, waiters : Seq(Conns)]
OwnerType == [scope : Scopes, lease : Leases, conn : Conns] \cup {NoOwner}

TypeOK ==
    /\ conn \in [Conns -> [status : {"new", "open", "inactive", "closed"},
                           scope : Scopes \cup {None}, resumed : BOOLEAN]]
    /\ scopes \in [Scopes -> [highest : Nat, records : [Ids -> RecordType]]]
    /\ pane \in [Panes -> [life : {"absent", "running", "stopping"}, driver : BOOLEAN,
                           identity : Identities \cup {None}, owner : OwnerType]]
    /\ nextLease \in 1 .. LastLease + 1
    /\ closing \in BOOLEAN
    /\ toStop \subseteq Panes
    /\ handler \in [Conns -> [op : {"idle", "attach", "overloaded", "reattach", "input",
                                    "refused", "stop"},
                              id : Ids \cup {0}, pane : Panes \cup {None},
                              identity : Identities \cup {None}, lease : Leases \cup {0}]]
    /\ notices \subseteq Conns \X Panes \X Leases
    /\ told \in [Conns -> [Panes -> Leases \cup {0}]]
    /\ unheard \subseteq Conns \X Panes \X Leases
    /\ late \in [Conns -> [Leases -> Nat]]

\* A lease belongs to one attach: no two remembered requests were answered
\* with the same lease, and the request that was answered with the current
\* lease of a pane named that pane and its identity, in the owner's scope.
OwnerAsked ==
    \A s \in Scopes, id \in Ids :
        LET record == scopes[s].records[id]
        IN  record.state = "done" /\ record.response # Failed =>
              /\ \A t \in Scopes, jd \in Ids :
                    scopes[t].records[jd].response = record.response => t = s /\ jd = id
              /\ \A p \in Panes : Owner(p).lease = record.response =>
                    Owner(p).scope = s /\ record.request = << p, pane[p].identity >>

\* A live connection that was told it holds a pane's lease, and nothing since,
\* does hold it; or its PaneExited is on its way, or it was a waiter that was not
\* selected, and TakenOver or the ForegroundProcess before it did not fit its queue.
BeliefSound ==
    \A c \in Conns, p \in Panes :
        Open(c) /\ told[c][p] # 0 =>
            \/ Owner(p).conn = c /\ Owner(p).lease = told[c][p]
            \/ << c, p, told[c][p] >> \in notices \cup unheard

\* After a connection lost a pane (to a takeover, a stop, the shutdown, its own
\* death) at most the one input its reader thread had already checked still
\* reaches the pane.
LateInputBounded ==
    \A c \in Conns, lease \in Leases : late[c][lease] <= 1

\* docs/DAEMON.md: "Validation and mutation are serialized with takeover and
\* lifecycle transitions", "the displaced connection cannot input": bytes reach
\* the pane only from the connection that holds the lease at that moment.
DisplacedCannotInput ==
    [][\A c \in Conns, lease \in Leases :
          late'[c][lease] > late[c][lease] =>
             Owner(handler[c].pane).conn = c /\ Owner(handler[c].pane).lease = lease]_vars

\* A lease moves to another connection only by the exact cached attach of a
\* live connection that resumed the owner's scope, and never once the daemon shuts
\* down, not even for an attach that was received before.
RebindOnlyByExactRetry ==
    [][\A p \in Panes :
          LET was == Owner(p)
              now == Owner(p)'
          IN  was.lease = now.lease /\ was.conn # now.conn =>
                /\ ~ closing
                /\ was.scope = now.scope
                /\ conn[now.conn].scope = was.scope
                /\ conn[now.conn].status = "open" /\ conn[now.conn].resumed
                /\ handler[now.conn].op = "reattach" /\ handler[now.conn].lease = was.lease]_vars

Holder(p) == IF Owner(p) = NoOwner THEN None
             ELSE [scope |-> Owner(p).scope, lease |-> Owner(p).lease]

\* The daemon implements the lease contract.
Service == INSTANCE LeaseService
             WITH holder <- [p \in Panes |-> Holder(p)], granted <- nextLease - 1, NoHolder <- None
ImplementsLeaseService == Service!Spec
=============================================================================
