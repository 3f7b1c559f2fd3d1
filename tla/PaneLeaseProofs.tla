---------------------------- MODULE PaneLeaseProofs ----------------------------
(***************************************************************************)
(* What PaneLease guarantees, for any number of connections, scopes,       *)
(* panes, identities, request IDs and leases and any cache bounds.         *)
(*                                                                         *)
(* First, of leases: they are fresh, they only move by an exact retry and  *)
(* never during a shutdown, and the daemon implements LeaseService.  The   *)
(* request cache enters there only through the value a retry finds in it,  *)
(* so nothing is assumed of it.                                            *)
(*                                                                         *)
(* Then, over the real request cache: every variable keeps its type, a     *)
(* lease belongs to one attach (OwnerAsked), at most one input is late     *)
(* (LateInputBounded), and what a live connection was told of a pane is    *)
(* true (BeliefSound).  Each needs an inductive invariant of its own on    *)
(* top of IInv; each is proved with one lemma per action.                  *)
(***************************************************************************)
EXTENDS PaneLease, TLAPS

PaneFields    == {"life", "driver", "identity", "owner"}
HandlerFields == {"op", "id", "pane", "identity", "lease"}
ConnType == [status : {"new", "open", "inactive", "closed"},
             scope : Scopes \cup {None}, resumed : BOOLEAN]

PaneShape    == DOMAIN pane = Panes /\ \A p \in Panes : DOMAIN pane[p] = PaneFields
HandlerShape == DOMAIN handler = Conns /\ \A c \in Conns : DOMAIN handler[c] = HandlerFields

\* A connection past its hello has a scope, and a handler that is inside a
\* request has such a connection and names a pane.
Placed(c) ==
    /\ conn[c].status # "new" => conn[c].scope \in Scopes
    /\ handler[c].op # "idle" => conn[c].status # "new" /\ handler[c].pane \in Panes

\* Every lease in force was granted, and the next one is larger.
Granted(p) == Owner(p) = NoOwner \/ Owner(p).lease \in 1 .. nextLease - 1

IInv ==
    /\ PaneShape
    /\ HandlerShape
    /\ conn \in [Conns -> ConnType]
    /\ nextLease \in Nat \ {0}
    /\ \A c \in Conns : Placed(c)
    /\ \A p \in Panes : Granted(p)

LEMMA Constants ==
    /\ DOMAIN NoPane = PaneFields /\ NoPane.owner = NoOwner
    /\ DOMAIN Idle = HandlerFields /\ Idle.op = "idle"
    /\ NoOwner.scope = None /\ NoOwner.lease = 0
BY DEF NoPane, Idle, NoOwner, PaneFields, HandlerFields

LEMMA InitIInv == Init => IInv
<1> SUFFICES ASSUME Init PROVE IInv
  OBVIOUS
<1>1. [status |-> "new", scope |-> None, resumed |-> FALSE] \in ConnType
  BY DEF ConnType
<1>2. conn \in [Conns -> ConnType] /\ \A c \in Conns : conn[c].status = "new"
  BY <1>1 DEF Init
<1>3. PaneShape /\ \A p \in Panes : pane[p] = NoPane
  BY Constants, Zenon DEF Init, PaneShape
<1>4. HandlerShape /\ \A c \in Conns : handler[c] = Idle
  BY Constants, Zenon DEF Init, HandlerShape
<1>5. \A c \in Conns : Placed(c)
  BY <1>2, <1>4, Constants DEF Placed
<1>6. \A p \in Panes : Granted(p)
  BY <1>3, Constants DEF Granted, Owner
<1>7. nextLease \in Nat \ {0}
  BY DEF Init
<1>8. QED
  BY <1>2, <1>3, <1>4, <1>5, <1>6, <1>7 DEF IInv
-----------------------------------------------------------------------------
\* What a step does to the owners, the lease counter and the shutdown flag.
Same == \A p \in Panes : Owner(p)' = Owner(p)

Counting == nextLease' = nextLease /\ closing' = closing

Lost(p) == Owner(p)' = NoOwner /\ \A q \in Panes \ {p} : Owner(q)' = Owner(q)

\* A fresh attach on connection c took pane p for the selected waiter.
Taken(c, p) ==
    /\ ~ closing /\ closing' = closing
    /\ nextLease <= LastLease /\ nextLease' = nextLease + 1
    /\ conn[c].scope \in Scopes
    /\ Owner(p)' = [scope |-> conn[c].scope, lease |-> nextLease, conn |-> Selected(c)]
    /\ \A q \in Panes \ {p} : Owner(q)' = Owner(q)

\* A repeated attach on connection c bound pane p to it.
Rebound(c, p) ==
    /\ ~ closing /\ Counting
    /\ conn[c].scope \in Scopes
    /\ handler[c].op = "reattach" /\ Usable(c) /\ handler[c].pane = p
    /\ Owner(p)' = [scope |-> conn[c].scope, lease |-> handler[c].lease, conn |-> c]
    /\ \A q \in Panes \ {p} : Owner(q)' = Owner(q)

Kinds ==
    \/ Same /\ Counting
    \/ Same /\ nextLease' = nextLease /\ closing' = TRUE
    \/ Counting /\ \E p \in Panes : Lost(p)
    \/ \E c \in Conns, p \in Panes : Taken(c, p)
    \/ \E c \in Conns, p \in Panes : Rebound(c, p)

\* What a step does to the connections and their handlers.
ConnKept ==
    /\ conn' \in [Conns -> ConnType]
    /\ \A c \in Conns :
          /\ conn[c].status # "new" => conn'[c].status # "new"
          /\ conn'[c].status # "new" => conn'[c].scope \in Scopes

HandlerKept ==
    /\ HandlerShape'
    /\ \A c \in Conns :
          handler'[c].op # "idle" => conn[c].status # "new" /\ handler'[c].pane \in Panes

\* A pane's fields other than its owner change.
LEMMA PaneFieldsKept ==
    ASSUME PaneShape, NEW p \in Panes, NEW life, NEW driver,
           \/ pane' = [pane EXCEPT ![p].life = life]
           \/ pane' = [pane EXCEPT ![p].life = life, ![p].driver = driver]
           \/ pane' = [pane EXCEPT ![p].driver = driver, ![p].life = life]
    PROVE  PaneShape' /\ Same
<1>1. CASE pane' = [pane EXCEPT ![p].life = life]
  BY <1>1 DEF PaneShape, PaneFields, Same, Owner
<1>2. CASE pane' = [pane EXCEPT ![p].life = life, ![p].driver = driver]
  BY <1>2 DEF PaneShape, PaneFields, Same, Owner
<1>3. CASE pane' = [pane EXCEPT ![p].driver = driver, ![p].life = life]
  BY <1>3 DEF PaneShape, PaneFields, Same, Owner
<1>4. QED
  BY <1>1, <1>2, <1>3

LEMMA PaneOwnerChanged ==
    ASSUME PaneShape, NEW p \in Panes, NEW owner, pane' = [pane EXCEPT ![p].owner = owner]
    PROVE  /\ PaneShape'
           /\ Owner(p)' = owner /\ \A q \in Panes \ {p} : Owner(q)' = Owner(q)
BY DEF PaneShape, PaneFields, Owner

LEMMA PaneReplaced ==
    ASSUME PaneShape, NEW p \in Panes, NEW new, DOMAIN new = PaneFields, new.owner = NoOwner,
           pane' = [pane EXCEPT ![p] = new]
    PROVE  PaneShape' /\ Lost(p)
BY DEF PaneShape, PaneFields, Owner, Lost

LEMMA PaneUntouched ==
    ASSUME PaneShape, pane' = pane
    PROVE  PaneShape' /\ Same
BY DEF PaneShape, Owner, Same

\* One reader thread enters or leaves a request.
LEMMA HandlerSet ==
    ASSUME IInv, NEW c \in Conns, NEW h, DOMAIN h = HandlerFields,
           h.op # "idle" => conn[c].status # "new" /\ h.pane \in Panes,
           handler' = [handler EXCEPT ![c] = h]
    PROVE  HandlerKept
BY DEF IInv, Placed, HandlerShape, HandlerKept

LEMMA HandlerDone ==
    ASSUME IInv, NEW c \in Conns, handler' = [handler EXCEPT ![c] = Idle]
    PROVE  HandlerKept
BY HandlerSet, Constants

LEMMA HandlerUntouched ==
    ASSUME IInv, handler' = handler
    PROVE  HandlerKept
BY DEF IInv, Placed, HandlerShape, HandlerKept

LEMMA ConnUntouched ==
    ASSUME IInv, conn' = conn
    PROVE  ConnKept
BY DEF IInv, Placed, ConnKept

LEMMA ConnDropped ==
    ASSUME IInv, NEW cs, conn' = Dropping(cs)
    PROVE  ConnKept
<1>1. ASSUME NEW c \in Conns
      PROVE  /\ conn'[c] \in ConnType
             /\ conn[c].status # "new" => conn'[c].status # "new"
             /\ conn'[c].status # "new" => conn'[c].scope \in Scopes
  <2>1. conn[c] \in ConnType /\ Placed(c)
    BY DEF IInv
  <2>2. CASE c \in cs /\ Open(c)
    <3>1. conn'[c] = [conn[c] EXCEPT !.status = "inactive"]
      BY <2>2 DEF Dropping
    <3>2. QED
      BY <2>1, <2>2, <3>1 DEF ConnType, Placed, Open
  <2>3. CASE ~ (c \in cs /\ Open(c))
    BY <2>1, <2>3 DEF Dropping, Placed
  <2>4. QED
    BY <2>2, <2>3
<1>2. conn' = [c \in Conns |-> conn'[c]]
  BY DEF Dropping
<1>3. conn' \in [Conns -> ConnType]
  BY <1>1, <1>2
<1>4. QED
  BY <1>1, <1>3 DEF ConnKept

LEMMA ConnStatus ==
    ASSUME IInv, NEW c \in Conns, NEW status \in {"inactive", "closed"},
           conn[c].status # "new",
           conn' = [conn EXCEPT ![c].status = status]
    PROVE  ConnKept
BY DEF IInv, Placed, ConnType, ConnKept
-----------------------------------------------------------------------------
\* The step that matters to the leases is one of Kinds, action by action.
Stepped == Kinds /\ PaneShape' /\ ConnKept /\ HandlerKept

LEMMA ReadyPlaced ==
    ASSUME IInv, NEW c \in Conns, Ready(c)
    PROVE  conn[c].status # "new" /\ conn[c].scope \in Scopes
BY DEF IInv, Placed, Ready

LEMMA BusyPlaced ==
    ASSUME IInv, NEW c \in Conns, handler[c].op # "idle"
    PROVE  conn[c].status # "new" /\ conn[c].scope \in Scopes /\ handler[c].pane \in Panes
BY DEF IInv, Placed

\* Steps that leave the panes, the counter and the flag alone.
LEMMA QuietStep ==
    ASSUME IInv, pane' = pane, nextLease' = nextLease, closing' = closing,
           ConnKept, HandlerKept
    PROVE  Stepped
BY PaneUntouched DEF IInv, Stepped, Kinds, Counting

LEMMA HelloStep ==
    ASSUME IInv, NEW c \in Conns, NEW s \in Scopes, Hello(c, s)
    PROVE  Stepped
<1>1. (s \in Known) \in BOOLEAN
  OBVIOUS
<1>2. [status |-> "open", scope |-> s, resumed |-> s \in Known] \in ConnType
  BY <1>1 DEF ConnType
<1>3. ConnKept
  BY <1>2 DEF IInv, Placed, Hello, ConnKept
<1>4. QED
  BY <1>3, HandlerUntouched, QuietStep DEF Hello

LEMMA PublishStep ==
    ASSUME IInv, NEW p \in Panes, NEW i \in Identities, Publish(p, i)
    PROVE  Stepped
<1> DEFINE new == [NoPane EXCEPT !.life = "running", !.identity = i]
<1>1. DOMAIN new = PaneFields /\ new.owner = NoOwner
  BY Constants DEF PaneFields
<1>2. PaneShape' /\ Lost(p)
  BY <1>1, PaneReplaced DEF IInv, Publish
<1>3. QED
  BY <1>2, ConnUntouched, HandlerUntouched DEF Publish, Stepped, Kinds, Counting

LEMMA BeginAttachStep ==
    ASSUME IInv, NEW c \in Conns, NEW id \in Ids, NEW p \in Panes, NEW i \in Identities,
           BeginAttach(c, id, p, i)
    PROVE  Stepped
<1>1. conn[c].status # "new"
  BY ReadyPlaced DEF BeginAttach
<1>2. ASSUME NEW op, NEW lease, handler' = Attaching(c, id, p, i, op, lease)
      PROVE  HandlerKept
  <2> DEFINE h == [op |-> op, id |-> id, pane |-> p, identity |-> i, lease |-> lease]
  <2>1. DOMAIN h = HandlerFields /\ h.pane = p
    BY DEF HandlerFields
  <2>2. handler' = [handler EXCEPT ![c] = h]
    BY <1>2 DEF Attaching
  <2> HIDE DEF h
  <2>3. QED
    BY <1>1, <2>1, <2>2, HandlerSet
<1>3. \/ handler' = handler
      \/ \E op, lease : handler' = Attaching(c, id, p, i, op, lease)
  BY DEF BeginAttach
<1>4. HandlerKept
  BY <1>2, <1>3, HandlerUntouched
<1>5. pane' = pane /\ nextLease' = nextLease /\ closing' = closing /\ conn' = conn
  BY DEF BeginAttach
<1>6. QED
  BY <1>4, <1>5, ConnUntouched, QuietStep

LEMMA CommitNewStep ==
    ASSUME IInv, NEW c \in Conns, NEW notified, NEW accepted, NEW deaf,
           CommitNew(c, notified, accepted, deaf)
    PROVE  Stepped
<1>0. PICK p \in Panes : p = handler[c].pane
  BY BusyPlaced DEF CommitNew
<1> DEFINE owner == [scope |-> conn[c].scope, lease |-> nextLease, conn |-> Selected(c)]
<1>1. conn[c].scope \in Scopes
  BY BusyPlaced DEF CommitNew
<1>2. /\ ~ closing /\ nextLease <= LastLease
      /\ pane' = [pane EXCEPT ![p].owner = owner]
      /\ nextLease' = nextLease + 1 /\ closing' = closing
      /\ conn' = Dropping(Cut(p, notified))
      /\ handler' = [handler EXCEPT ![c] = Idle]
  BY <1>0 DEF CommitNew, Accepting, LeaseLeft
<1> HIDE DEF owner
<1>3. /\ PaneShape'
      /\ Owner(p)' = owner /\ \A q \in Panes \ {p} : Owner(q)' = Owner(q)
  BY <1>1, <1>2, PaneOwnerChanged DEF IInv
<1>4. Taken(c, p)
  BY <1>1, <1>2, <1>3 DEF Taken, owner
<1>5. ConnKept /\ HandlerKept
  BY <1>2, ConnDropped, HandlerDone
<1>6. QED
  BY <1>1, <1>3, <1>4, <1>5 DEF Stepped, Kinds

LEMMA CommitRebindStep ==
    ASSUME IInv, NEW c \in Conns, NEW notified, NEW accepted,
           CommitRebind(c, notified, accepted)
    PROVE  Stepped
<1>0. PICK p \in Panes : p = handler[c].pane
  BY BusyPlaced DEF CommitRebind
<1> DEFINE owner == [scope |-> conn[c].scope, lease |-> handler[c].lease, conn |-> c]
<1>1. conn[c].scope \in Scopes
  BY BusyPlaced DEF CommitRebind
<1>2. /\ ~ closing /\ Counting
      /\ handler[c].op = "reattach" /\ Usable(c)
      /\ pane' = [pane EXCEPT ![p].owner = owner]
      /\ \E cs : conn' = Dropping(cs)
      /\ handler' = [handler EXCEPT ![c] = Idle]
  BY <1>0 DEF CommitRebind, Accepting, Counting
<1> HIDE DEF owner
<1>3. /\ PaneShape'
      /\ Owner(p)' = owner /\ \A q \in Panes \ {p} : Owner(q)' = Owner(q)
  BY <1>1, <1>2, PaneOwnerChanged DEF IInv
<1>4. Rebound(c, p)
  BY <1>0, <1>1, <1>2, <1>3 DEF Rebound, owner
<1>5. ConnKept /\ HandlerKept
  BY <1>2, ConnDropped, HandlerDone
<1>6. QED
  BY <1>1, <1>3, <1>4, <1>5 DEF Stepped, Kinds

LEMMA CommitFailedStep ==
    ASSUME IInv, NEW c \in Conns, CommitFailed(c) \/ CommitSuperseded(c)
    PROVE  Stepped
<1>1. /\ pane' = pane /\ nextLease' = nextLease /\ closing' = closing /\ conn' = conn
      /\ handler' = [handler EXCEPT ![c] = Idle]
  BY DEF CommitFailed, CommitSuperseded
<1>2. QED
  BY <1>1, HandlerDone, ConnUntouched, QuietStep

LEMMA InputStep ==
    ASSUME IInv, NEW c \in Conns,
           \/ \E p \in Panes, lease \in Leases : ValidateInput(c, p, lease)
           \/ EnqueueInput(c) \/ RefuseInput(c)
    PROVE  Stepped
<1>1. pane' = pane /\ nextLease' = nextLease /\ closing' = closing /\ conn' = conn
  BY DEF ValidateInput, EnqueueInput, RefuseInput
<1>2. CASE \E p \in Panes, lease \in Leases : ValidateInput(c, p, lease)
  <2>1. PICK p \in Panes, lease \in Leases : ValidateInput(c, p, lease)
    BY <1>2
  <2> DEFINE h == [Idle EXCEPT !.op = "input", !.pane = p, !.lease = lease]
  <2>2. DOMAIN h = HandlerFields /\ h.pane = p
    BY DEF HandlerFields, Idle
  <2>3. conn[c].status # "new" /\ handler' = [handler EXCEPT ![c] = h]
    BY <2>1, ReadyPlaced DEF ValidateInput
  <2> HIDE DEF h
  <2>4. HandlerKept
    BY <2>2, <2>3, HandlerSet
  <2>5. QED
    BY <1>1, <2>4, ConnUntouched, QuietStep
<1>3. CASE EnqueueInput(c) \/ RefuseInput(c)
  <2>1. handler' = [handler EXCEPT ![c] = Idle]
    BY <1>3 DEF EnqueueInput, RefuseInput
  <2>2. QED
    BY <1>1, <2>1, HandlerDone, ConnUntouched, QuietStep
<1>4. QED
  BY <1>2, <1>3

LEMMA DetachStep ==
    ASSUME IInv, NEW c \in Conns, NEW p \in Panes, NEW lease \in Leases, Detach(c, p, lease)
    PROVE  Stepped
<1>1. /\ PaneShape'
      /\ Owner(p)' = NoOwner /\ \A q \in Panes \ {p} : Owner(q)' = Owner(q)
  BY PaneOwnerChanged DEF IInv, Detach
<1>2. QED
  BY <1>1, ConnUntouched, HandlerUntouched DEF Detach, Stepped, Kinds, Counting, Lost

LEMMA StopStep ==
    ASSUME IInv, NEW c \in Conns,
           \/ \E p \in Panes, lease \in Leases : RequestStop(c, p, lease)
           \/ StartStop(c)
    PROVE  Stepped
<1>1. CASE \E p \in Panes, lease \in Leases : RequestStop(c, p, lease)
  <2>1. PICK p \in Panes, lease \in Leases : RequestStop(c, p, lease)
    BY <1>1
  <2> DEFINE h == [Idle EXCEPT !.op = "stop", !.pane = p]
  <2>2. DOMAIN h = HandlerFields /\ h.pane = p
    BY DEF HandlerFields, Idle
  <2>3. /\ conn[c].status # "new" /\ handler' = [handler EXCEPT ![c] = h]
        /\ pane' = [pane EXCEPT ![p].life = "stopping"]
    BY <2>1, ReadyPlaced DEF RequestStop
  <2> HIDE DEF h
  <2>4. HandlerKept
    BY <2>2, <2>3, HandlerSet
  <2>5. PaneShape' /\ Same
    BY <2>3, PaneFieldsKept DEF IInv
  <2>6. QED
    BY <2>1, <2>4, <2>5, ConnUntouched DEF RequestStop, Stepped, Kinds, Counting
<1>2. CASE StartStop(c)
  <2>1. HandlerKept
    BY <1>2, HandlerDone DEF StartStop
  <2>2. handler[c].pane \in Panes
    BY <1>2, BusyPlaced DEF StartStop
  <2>3. PaneShape' /\ Same
    BY <1>2, <2>2, PaneFieldsKept DEF IInv, StartStop
  <2>4. QED
    BY <1>2, <2>1, <2>3, ConnUntouched DEF StartStop, Stepped, Kinds, Counting
<1>3. QED
  BY <1>1, <1>2

LEMMA DriverStep ==
    ASSUME IInv, NEW p \in Panes,
           StartShutdownStop(p) \/ \E termFailed \in BOOLEAN : DriverFails(p, termFailed)
    PROVE  Stepped
<1>1. PaneShape' /\ Same
  <2>1. CASE StartShutdownStop(p)
    BY <2>1, PaneFieldsKept DEF IInv, StartShutdownStop
  <2>2. CASE \E termFailed \in BOOLEAN : DriverFails(p, termFailed)
    BY <2>2, PaneFieldsKept DEF IInv, DriverFails
  <2>3. QED
    BY <2>1, <2>2
<1>2. conn' = conn /\ handler' = handler /\ Counting
  BY DEF StartShutdownStop, DriverFails, Counting
<1>3. QED
  BY <1>1, <1>2, ConnUntouched, HandlerUntouched DEF Stepped, Kinds

LEMMA FinalizeStep ==
    ASSUME IInv, NEW p \in Panes, Finalize(p)
    PROVE  Stepped
<1>1. PaneShape' /\ Lost(p)
  BY PaneReplaced, Constants DEF IInv, Finalize
<1>2. ASSUME NEW c \in Conns
      PROVE  /\ DOMAIN handler'[c] = HandlerFields
             /\ handler'[c].op # "idle" => conn[c].status # "new" /\ handler'[c].pane \in Panes
  <2>1. DOMAIN handler[c] = HandlerFields /\ Placed(c)
    BY DEF IInv, HandlerShape
  <2>2. CASE handler[c].op = "input" /\ handler[c].pane = p
    <3>1. handler'[c] = [handler[c] EXCEPT !.op = "refused"]
      BY <2>2 DEF Finalize
    <3>2. QED
      BY <2>1, <2>2, <3>1 DEF HandlerFields, Placed
  <2>3. CASE handler[c].op = "stop" /\ handler[c].pane = p
    <3>1. handler'[c] = Idle
      BY <2>3 DEF Finalize
    <3>2. QED
      BY <3>1, Constants
  <2>4. CASE /\ ~ (handler[c].op = "input" /\ handler[c].pane = p)
             /\ ~ (handler[c].op = "stop" /\ handler[c].pane = p)
    <3>1. handler'[c] = handler[c]
      BY <2>4 DEF Finalize
    <3>2. QED
      BY <2>1, <3>1 DEF Placed
  <2>5. QED
    BY <2>2, <2>3, <2>4
<1>3. HandlerKept
  BY <1>2 DEF Finalize, HandlerKept, HandlerShape
<1>4. QED
  BY <1>1, <1>3, ConnUntouched DEF Finalize, Stepped, Kinds, Counting

LEMMA DeliveryStep ==
    ASSUME IInv,
           \/ \E notice \in notices, queued \in BOOLEAN : NotifyExit(notice, queued)
           \/ \E c \in Conns : Disconnect(c)
    PROVE  Stepped
<1>1. /\ conn' = conn \/ \E cs : conn' = Dropping(cs)
      /\ pane' = pane /\ nextLease' = nextLease /\ closing' = closing /\ handler' = handler
  BY DEF NotifyExit, Disconnect
<1>2. QED
  BY <1>1, ConnUntouched, ConnDropped, HandlerUntouched, QuietStep

LEMMA LeavingStep ==
    ASSUME IInv, NEW c \in Conns, WriterEnds(c) \/ ReaderEnds(c)
    PROVE  Stepped
<1>1. PICK status \in {"inactive", "closed"} : Leaving(c, status) /\ conn[c].status # "new"
  BY ReadyPlaced DEF WriterEnds, ReaderEnds
<1>2. QED
  BY <1>1, ConnStatus, HandlerUntouched, QuietStep DEF Leaving

LEMMA ShutdownStep ==
    ASSUME IInv, Shutdown
    PROVE  Stepped
BY PaneUntouched, ConnUntouched, HandlerUntouched DEF IInv, Shutdown, Stepped, Kinds

LEMMA NextStep ==
    ASSUME IInv, [Next]_vars
    PROVE  Stepped
<1>1. CASE UNCHANGED vars
  BY <1>1, ConnUntouched, HandlerUntouched, QuietStep DEF vars
<1>2. CASE \E c \in Conns, s \in Scopes : Hello(c, s)
  BY <1>2, HelloStep
<1>3. CASE \E c \in Conns, id \in Ids, p \in Panes, i \in Identities : BeginAttach(c, id, p, i)
  BY <1>3, BeginAttachStep
<1>4. CASE \E c \in Conns : Commit(c)
  BY <1>4, CommitNewStep, CommitRebindStep, CommitFailedStep DEF Commit
<1>5. CASE \E c \in Conns, p \in Panes, lease \in Leases : Leased(c, p, lease)
  BY <1>5, InputStep, DetachStep, StopStep DEF Leased
<1>6. CASE \E c \in Conns : EnqueueInput(c) \/ RefuseInput(c) \/ StartStop(c)
  BY <1>6, InputStep, StopStep
<1>7. CASE \E c \in Conns : Disconnect(c) \/ WriterEnds(c) \/ ReaderEnds(c)
  BY <1>7, DeliveryStep, LeavingStep
<1>8. CASE \E p \in Panes, i \in Identities : Publish(p, i)
  BY <1>8, PublishStep
<1>9. CASE \E p \in Panes : \/ StartShutdownStop(p) \/ Finalize(p)
                            \/ \E termFailed \in BOOLEAN : DriverFails(p, termFailed)
  BY <1>9, DriverStep, FinalizeStep
<1>10. CASE \E notice \in notices, queued \in BOOLEAN : NotifyExit(notice, queued)
  BY <1>10, DeliveryStep
<1>11. CASE Shutdown
  BY <1>11, ShutdownStep
<1>12. QED
  BY <1>1, <1>2, <1>3, <1>4, <1>5, <1>6, <1>7, <1>8, <1>9, <1>10, <1>11 DEF Next
-----------------------------------------------------------------------------
\* A lease that is in force after a step either was before, or is the next one.
LEMMA OwnersGranted ==
    ASSUME IInv, Kinds, NEW q \in Panes
    PROVE  Granted(q)'
<1>1. /\ nextLease \in Nat \ {0}
      /\ Owner(q) = NoOwner \/ Owner(q).lease \in 1 .. nextLease - 1
  BY DEF IInv, Granted
<1>2. CASE Same /\ nextLease' = nextLease
  BY <1>1, <1>2 DEF Same, Granted
<1>3. CASE Counting /\ \E p \in Panes : Lost(p)
  BY <1>1, <1>3 DEF Counting, Lost, Granted
<1>4. ASSUME NEW c \in Conns, NEW p \in Panes, Taken(c, p)
      PROVE  Granted(q)'
  BY <1>1, <1>4 DEF Taken, Granted
<1>5. ASSUME NEW c \in Conns, NEW p \in Panes, Rebound(c, p)
      PROVE  Granted(q)'
  <2>1. CASE q = p
    <3>1. Owner(q).lease = handler[c].lease /\ Owner(q) # NoOwner
      BY <1>5, <2>1, PaneLeaseAssumption, Constants DEF Rebound, Usable
    <3>2. QED
      BY <1>1, <1>5, <2>1, <3>1 DEF Rebound, Counting, Granted
  <2>2. CASE q # p
    BY <1>1, <1>5, <2>2 DEF Rebound, Counting, Granted
  <2>3. QED
    BY <2>1, <2>2
<1>6. QED
  BY <1>2, <1>3, <1>4, <1>5 DEF Kinds, Counting

LEMMA NextIInv == IInv /\ [Next]_vars => IInv'
<1> SUFFICES ASSUME IInv, [Next]_vars PROVE IInv'
  OBVIOUS
<1>1. Stepped
  BY NextStep
<1>2. \A c \in Conns : Placed(c)'
  BY <1>1 DEF Stepped, ConnKept, HandlerKept, Placed
<1>3. \A p \in Panes : Granted(p)'
  BY <1>1, OwnersGranted DEF Stepped
<1>4. (nextLease \in Nat \ {0})'
  BY <1>1 DEF IInv, Stepped, Kinds, Counting, Taken, Rebound
<1>5. QED
  BY <1>1, <1>2, <1>3, <1>4 DEF IInv, Stepped, ConnKept, HandlerKept

THEOREM Invariance == Spec => []IInv
<1>1. QED
  BY InitIInv, NextIInv, PTL DEF Spec
-----------------------------------------------------------------------------
\* A lease that stays in force changes connection only by the exact retry of
\* its attach (attach_with_handle's cached branch, which reads shutting_down again
\* under the locks of its commit): every other attach takes a lease nobody had.
THEOREM LeaseMovesByExactRetry == Spec => RebindOnlyByExactRetry
<1> DEFINE Moves(p) ==
             LET was == Owner(p)
                 now == Owner(p)'
             IN  was.lease = now.lease /\ was.conn # now.conn =>
                   /\ ~ closing
                   /\ was.scope = now.scope
                   /\ conn[now.conn].scope = was.scope
                   /\ conn[now.conn].status = "open" /\ conn[now.conn].resumed
                   /\ handler[now.conn].op = "reattach"
                   /\ handler[now.conn].lease = was.lease
<1>1. ASSUME IInv, [Next]_vars, NEW p \in Panes
      PROVE  Moves(p)
  <2>1. Kinds /\ nextLease \in Nat \ {0} /\ Granted(p)
    BY <1>1, NextStep DEF Stepped, IInv
  <2>2. CASE Owner(p)' = Owner(p)
    BY <2>2
  <2>3. CASE \E q \in Panes : Lost(q)
    <3>1. Owner(p)' = NoOwner \/ Owner(p)' = Owner(p)
      BY <2>3 DEF Lost
    <3>2. QED
      BY <2>1, <2>2, <3>1, Constants DEF Granted
  <2>4. ASSUME NEW c \in Conns, NEW q \in Panes, Taken(c, q)
        PROVE  Moves(p)
    <3>1. Owner(p)' = Owner(p) \/ Owner(p)'.lease = nextLease
      BY <2>4 DEF Taken
    <3>2. Owner(p).lease # nextLease
      BY <2>1, Constants DEF Granted
    <3>3. QED
      BY <2>2, <3>1, <3>2
  <2>5. ASSUME NEW c \in Conns, NEW q \in Panes, Rebound(c, q)
        PROVE  Moves(p)
    <3>1. CASE p = q
      BY <2>5, <3>1 DEF Rebound, Usable, Open
    <3>2. CASE p # q
      BY <2>2, <2>5, <3>2 DEF Rebound
    <3>3. QED
      BY <3>1, <3>2
  <2>6. QED
    BY <2>1, <2>2, <2>3, <2>4, <2>5 DEF Kinds, Same
<1>2. IInv /\ [Next]_vars =>
        [\A p \in Panes :
           LET was == Owner(p)
               now == Owner(p)'
           IN  was.lease = now.lease /\ was.conn # now.conn =>
                 /\ ~ closing
                 /\ was.scope = now.scope
                 /\ conn[now.conn].scope = was.scope
                 /\ conn[now.conn].status = "open" /\ conn[now.conn].resumed
                 /\ handler[now.conn].op = "reattach" /\ handler[now.conn].lease = was.lease]_vars
  BY <1>1
<1> HIDE DEF Moves
<1>3. QED
  BY <1>2, Invariance, PTL DEF Spec, RebindOnlyByExactRetry
-----------------------------------------------------------------------------
holderBar  == [p \in Panes |-> Holder(p)]
grantedBar == nextLease - 1

LEMMA OwnerIsHolder ==
    /\ \A p \in Panes : holderBar[p] = Holder(p)
    /\ \A p \in Panes : (Owner(p)' = Owner(p)) => Holder(p)' = Holder(p)
BY DEF holderBar, Holder

\* A step of the daemon, as its leases show it.
LEMMA StepRefines ==
    ASSUME IInv, Kinds
    PROVE  [Service!Next]_(Service!vars)
<1>1. CASE Same /\ Counting
  <2>1. holderBar' = holderBar
    BY <1>1, OwnerIsHolder DEF Same, holderBar
  <2>2. QED
    BY <1>1, <2>1 DEF Counting, Service!vars, holderBar
<1>2. CASE Same /\ nextLease' = nextLease /\ closing' = TRUE
  <2>1. holderBar' = holderBar
    BY <1>2, OwnerIsHolder DEF Same, holderBar
  <2>2. Service!Close
    BY <1>2, <2>1 DEF Service!Close, holderBar
  <2>3. QED
    BY <2>2 DEF Service!Next
<1>3. ASSUME Counting, NEW p \in Panes, Lost(p)
      PROVE  [Service!Next]_(Service!vars)
  <2>1. holderBar' = [holderBar EXCEPT ![p] = None]
    BY <1>3, OwnerIsHolder DEF Lost, holderBar, Holder
  <2>2. CASE holderBar[p] = None
    <3>1. holderBar' = holderBar
      BY <2>1, <2>2 DEF holderBar
    <3>2. QED
      BY <1>3, <3>1 DEF Counting, Service!vars, holderBar
  <2>3. CASE holderBar[p] # None
    <3>1. Service!Release(p)
      BY <1>3, <2>1, <2>3 DEF Counting, Service!Release, holderBar
    <3>2. QED
      BY <3>1 DEF Service!Next
  <2>4. QED
    BY <2>2, <2>3
<1>4. ASSUME NEW c \in Conns, NEW p \in Panes, Taken(c, p)
      PROVE  [Service!Next]_(Service!vars)
  <2>1. Holder(p)' = [scope |-> conn[c].scope, lease |-> nextLease]
    BY <1>4, PaneLeaseAssumption, Constants DEF Taken, Holder
  <2>2. holderBar' = [holderBar EXCEPT ![p] = [scope |-> conn[c].scope, lease |-> nextLease]]
    BY <1>4, <2>1, OwnerIsHolder DEF Taken, holderBar
  <2>3. /\ grantedBar < LastLease /\ grantedBar' = grantedBar + 1
        /\ nextLease = grantedBar + 1
    BY <1>4, PaneLeaseAssumption DEF IInv, Taken, grantedBar
  <2>4. Service!Grant(p, conn[c].scope)
    BY <1>4, <2>2, <2>3 DEF Taken, Service!Grant, holderBar, grantedBar
  <2>5. QED
    BY <1>4, <2>4 DEF Taken, Service!Next
<1>5. ASSUME NEW c \in Conns, NEW p \in Panes, Rebound(c, p)
      PROVE  [Service!Next]_(Service!vars)
  <2>1. Holder(p)' = Holder(p)
    BY <1>5, PaneLeaseAssumption, Constants DEF Rebound, Usable, Holder
  <2>2. holderBar' = holderBar
    BY <1>5, <2>1, OwnerIsHolder DEF Rebound, holderBar
  <2>3. QED
    BY <1>5, <2>2 DEF Rebound, Counting, Service!vars, holderBar
<1>6. QED
  BY <1>1, <1>2, <1>3, <1>4, <1>5 DEF Kinds

\* The daemon implements the lease contract, for any number of everything.
THEOREM Refinement == Spec => ImplementsLeaseService
<1>1. Init => Service!Init
  BY Constants DEF Init, Service!Init, Holder, Owner
<1>2. IInv /\ [Next]_vars => [Service!Next]_(Service!vars)
  BY NextStep, StepRefines DEF Stepped
<1>3. QED
  BY <1>1, <1>2, Invariance, PTL DEF Spec, ImplementsLeaseService, Service!Spec
-----------------------------------------------------------------------------
(***************************************************************************)
(* The types, over the real request cache.                                 *)
(***************************************************************************)
Requests    == Panes \X Identities
ScopeType   == [highest : Nat, records : [Ids -> RecordType]]
PaneType    == [life : {"absent", "running", "stopping"}, driver : BOOLEAN,
                identity : Identities \cup {None}, owner : OwnerType]
HandlerType == [op : {"idle", "attach", "overloaded", "reattach", "input", "refused", "stop"},
                id : Ids \cup {0}, pane : Panes \cup {None},
                identity : Identities \cup {None}, lease : Leases \cup {0}]
BeliefType  == [Panes -> Leases \cup {0}]
Messages    == Conns \X Panes \X Leases

\* What a reader thread inside of h knows: the pane it works on, the request it
\* began, the lease it found.
Within(h) ==
    /\ h.op # "idle" => h.pane \in Panes
    /\ h.op \in {"attach", "overloaded", "reattach"} => h.id \in Ids /\ h.identity \in Identities
    /\ h.op \in {"reattach", "input"} => h.lease \in Leases

\* A completed request has its response.
Replied(rs) == \A id \in Ids : rs.records[id].state = "done" => rs.records[id].response \in Responses

ScopesOK   == scopes \in [Scopes -> ScopeType] /\ \A s \in Scopes : Replied(scopes[s])
PanesOK    == pane \in [Panes -> PaneType]
LeaseOK    == nextLease \in 1 .. LastLease + 1 /\ closing \in BOOLEAN
StoppingOK == toStop \subseteq Panes
HandlersOK == handler \in [Conns -> HandlerType] /\ \A c \in Conns : Within(handler[c])
NoticesOK  == notices \subseteq Messages
ToldOK     == told \in [Conns -> BeliefType]
UnheardOK  == unheard \subseteq Messages
LateOK     == late \in [Conns -> [Leases -> Nat]]

Types == /\ ScopesOK /\ PanesOK /\ LeaseOK /\ StoppingOK /\ HandlersOK
         /\ NoticesOK /\ ToldOK /\ UnheardOK /\ LateOK

TypeInv == IInv /\ Types

LEMMA TypeParts == TypeInv => TypeOK
BY DEF TypeInv, Types, TypeOK, IInv, ConnType, ScopesOK, ScopeType, PanesOK, PaneType, LeaseOK,
       StoppingOK, HandlersOK, HandlerType, NoticesOK, Messages, ToldOK, BeliefType,
       UnheardOK, LateOK

LEMMA ConstantsTyped ==
    /\ NoOwner \in OwnerType
    /\ NoPane \in PaneType
    /\ Idle \in HandlerType /\ Within(Idle)
    /\ Absent \in RecordType
    /\ EmptyScope \in ScopeType /\ Replied(EmptyScope)
    /\ None \notin Responses /\ Failed \in Responses /\ Failed \notin Leases
<1>1. NoOwner \in OwnerType
  BY DEF OwnerType
<1>2. NoPane \in PaneType
  BY <1>1 DEF NoPane, PaneType
<1>3. Idle \in HandlerType /\ Within(Idle)
  BY DEF Idle, HandlerType, Within
<1>4. Absent \in RecordType
  BY DEF Absent, RecordType
<1>5. EmptyScope \in ScopeType /\ Replied(EmptyScope)
  BY <1>4 DEF EmptyScope, ScopeType, Replied, Absent
<1>6. None \notin Responses /\ Failed \in Responses /\ Failed \notin Leases
  BY PaneLeaseAssumption DEF Responses, Leases, Failed
<1>7. QED
  BY <1>1, <1>2, <1>3, <1>4, <1>5, <1>6

LEMMA InitTypeInv == Init => TypeInv
<1> SUFFICES ASSUME Init PROVE TypeInv
  OBVIOUS
<1>1. IInv
  BY InitIInv
<1>2. ScopesOK /\ PanesOK /\ HandlersOK
  BY ConstantsTyped DEF Init, ScopesOK, PanesOK, HandlersOK
<1>3. LeaseOK
  <2>1. 1 \in 1 .. LastLease + 1
    BY PaneLeaseAssumption
  <2>2. nextLease = 1 /\ closing = FALSE
    BY DEF Init
  <2>3. QED
    BY <2>1, <2>2 DEF LeaseOK
<1>4. StoppingOK /\ NoticesOK /\ UnheardOK /\ ToldOK /\ LateOK
  BY DEF Init, StoppingOK, NoticesOK, UnheardOK, ToldOK, BeliefType, LateOK
<1>5. QED
  BY <1>1, <1>2, <1>3, <1>4 DEF TypeInv, Types
-----------------------------------------------------------------------------
(***************************************************************************)
(* The operators of the cache.                                             *)
(***************************************************************************)
\* A connection is pushed when it is not listed yet; nothing else changes.
LEMMA AddWaiterKeeps ==
    ASSUME NEW record \in RecordType, NEW c \in Conns
    PROVE  /\ AddWaiter(record, c) \in RecordType
           /\ AddWaiter(record, c).state = record.state
           /\ AddWaiter(record, c).request = record.request
           /\ AddWaiter(record, c).response = record.response
           /\ WaitingOn(AddWaiter(record, c)) \subseteq WaitingOn(record) \cup {c}
<1>1. CASE c \in WaitingOn(record)
  BY <1>1 DEF AddWaiter
<1>2. CASE c \notin WaitingOn(record)
  <2> DEFINE w == record.waiters
             v == Append(w, c)
  <2>1. w \in Seq(Conns) /\ v \in Seq(Conns)
    BY DEF RecordType
  <2>2. Len(v) = Len(w) + 1 /\ v[Len(w) + 1] = c /\ \A i \in 1 .. Len(w) : v[i] = w[i]
    BY <2>1
  <2>3. {v[i] : i \in 1 .. Len(v)} \subseteq {w[i] : i \in 1 .. Len(w)} \cup {c}
    BY <2>1, <2>2
  <2>4. AddWaiter(record, c) = [record EXCEPT !.waiters = v]
    BY <1>2 DEF AddWaiter
  <2> HIDE DEF v
  <2>5. AddWaiter(record, c).waiters = v
    BY <2>4 DEF RecordType
  <2>6. WaitingOn(AddWaiter(record, c)) \subseteq WaitingOn(record) \cup {c}
    BY <2>3, <2>5 DEF WaitingOn
  <2>7. QED
    BY <2>1, <2>4, <2>6 DEF RecordType
<1>3. QED
  BY <1>1, <1>2

\* retain drops the connection that is leaving and adds nobody.
LEMMA WithoutClientKeeps ==
    ASSUME NEW w \in Seq(Conns), NEW c
    PROVE  /\ WithoutClient(w, c) \in Seq(Conns)
           /\ \A i \in 1 .. Len(WithoutClient(w, c)) :
                 \E j \in 1 .. Len(w) : WithoutClient(w, c)[i] = w[j]
<1>1. CASE ~ \E i \in 1 .. Len(w) : w[i] = c
  BY <1>1 DEF WithoutClient
<1>2. CASE \E i \in 1 .. Len(w) : w[i] = c
  <2> DEFINE k == CHOOSE i \in 1 .. Len(w) : w[i] = c
             p == SubSeq(w, 1, k - 1)
             q == SubSeq(w, k + 1, Len(w))
  <2>1. k \in 1 .. Len(w)
    BY <1>2
  <2>2. WithoutClient(w, c) = p \o q
    BY <1>2 DEF WithoutClient
  <2> HIDE DEF k
  <2>3. /\ p \in Seq(Conns) /\ Len(p) = k - 1
        /\ \A i \in 1 .. k - 1 : p[i] = w[i]
    BY <2>1
  <2>4. /\ q \in Seq(Conns) /\ Len(q) = Len(w) - k
        /\ \A i \in 1 .. Len(w) - k : q[i] = w[k + i]
    BY <2>1
  <2> HIDE DEF p, q
  <2>5. /\ p \o q \in Seq(Conns)
        /\ Len(p \o q) = Len(p) + Len(q)
        /\ \A i \in 1 .. Len(p) + Len(q) :
              (p \o q)[i] = IF i <= Len(p) THEN p[i] ELSE q[i - Len(p)]
    <3>1. p \in Seq(Conns) /\ q \in Seq(Conns)
      BY <2>3, <2>4
    <3>2. QED
      BY <3>1
  <2>6. ASSUME NEW i \in 1 .. Len(p \o q)
        PROVE  \E j \in 1 .. Len(w) : (p \o q)[i] = w[j]
    <3>1. CASE i <= Len(p)
      BY <2>1, <2>3, <2>5, <3>1
    <3>2. CASE i > Len(p)
      <4>1. i - Len(p) \in 1 .. Len(w) - k /\ k + (i - Len(p)) \in 1 .. Len(w)
        BY <2>1, <2>3, <2>4, <2>5, <3>2
      <4>2. (p \o q)[i] = w[k + (i - Len(p))]
        BY <2>3, <2>4, <2>5, <3>2, <4>1
      <4>3. QED
        BY <4>1, <4>2
    <3>3. QED
      BY <2>3, <2>5, <3>1, <3>2
  <2>7. QED
    BY <2>2, <2>5, <2>6
<1>3. QED
  BY <1>1, <1>2

\* A request is new, or refused for overload, only if its ID is larger than
\* every ID seen; it joins or copies a record only if the requests agree.
LEMMA DispositionMeans ==
    ASSUME NEW rs \in ScopeType, NEW id \in Ids, NEW request
    PROVE  /\ Disposition(rs, id, request) \in {"New", "TooManyPending"} =>
                 rs.records[id].state = "absent" /\ id > rs.highest
           /\ Disposition(rs, id, request) = "Pending" =>
                 rs.records[id].state = "pending" /\ rs.records[id].request = request
           /\ Disposition(rs, id, request) = "Cached" =>
                 rs.records[id].state = "done" /\ rs.records[id].request = request
<1>1. rs.records[id] \in RecordType /\ rs.highest \in Nat /\ id \in Nat
  BY RequestCacheAssumption DEF ScopeType
<1> DEFINE known == rs.records[id].state # "absent"
<1>2. CASE known /\ rs.records[id].request # request
  BY <1>2 DEF Disposition
<1>3. CASE known /\ rs.records[id].request = request /\ rs.records[id].state = "done"
  BY <1>3 DEF Disposition
<1>4. CASE known /\ rs.records[id].request = request /\ rs.records[id].state = "pending"
  BY <1>4 DEF Disposition
<1>5. CASE ~ known /\ id <= rs.highest
  BY <1>5 DEF Disposition
<1>6. CASE ~ known /\ ~ (id <= rs.highest)
  BY <1>1, <1>6 DEF Disposition
<1>7. QED
  BY <1>1, <1>2, <1>3, <1>4, <1>5, <1>6 DEF RecordType

\* The record of a fresh request.
Fresh(request, c) == [state |-> "pending", request |-> request, response |-> None,
                      waiters |-> << c >>]

LEMMA FreshTyped ==
    ASSUME NEW request \in Requests, NEW c \in Conns
    PROVE  Fresh(request, c) \in RecordType /\ WaitingOn(Fresh(request, c)) = {c}
<1>1. << c >> \in Seq(Conns) /\ Len(<< c >>) = 1 /\ << c >>[1] = c
  OBVIOUS
<1>2. QED
  BY <1>1 DEF Fresh, RecordType, Requests, WaitingOn

\* What begin does to one scope: the record of its own ID is opened, or one
\* more connection waits on it; no other record changes.
Began(old, new, id, request, c) ==
    /\ \A j \in Ids \ {id} : new.records[j] = old.records[j]
    /\ \/ new = old
       \/ /\ new.highest = old.highest
          /\ new.records[id].state = old.records[id].state
          /\ new.records[id].request = old.records[id].request
          /\ new.records[id].response = old.records[id].response
          /\ WaitingOn(new.records[id]) \subseteq WaitingOn(old.records[id]) \cup {c}
       \/ /\ old.records[id].state = "absent" /\ id > old.highest
          /\ new.highest = id /\ new.records[id] = Fresh(request, c)

LEMMA BeginChanges ==
    ASSUME NEW rs \in ScopeType, NEW id \in Ids, NEW request \in Requests, NEW c \in Conns
    PROVE  /\ BeginRequest(rs, id, request, c) \in ScopeType
           /\ Began(rs, BeginRequest(rs, id, request, c), id, request, c)
           /\ Disposition(rs, id, request) \in {"New", "TooManyPending"} =>
                 /\ rs.records[id].state = "absent"
                 /\ BeginRequest(rs, id, request, c).records[id] = Fresh(request, c)
<1>1. /\ rs.records \in [Ids -> RecordType] /\ rs.records[id] \in RecordType
      /\ rs.highest \in Nat /\ id \in Nat
  BY RequestCacheAssumption DEF ScopeType
<1>2. CASE Disposition(rs, id, request) = "Pending"
  <2> DEFINE joined == AddWaiter(rs.records[id], c)
  <2>1. /\ joined \in RecordType
        /\ joined.state = rs.records[id].state
        /\ joined.request = rs.records[id].request
        /\ joined.response = rs.records[id].response
        /\ WaitingOn(joined) \subseteq WaitingOn(rs.records[id]) \cup {c}
    BY <1>1, AddWaiterKeeps
  <2> HIDE DEF joined
  <2>2. BeginRequest(rs, id, request, c) = [rs EXCEPT !.records[id] = joined]
    BY <1>2 DEF BeginRequest, joined
  <2>3. BeginRequest(rs, id, request, c) =
             [highest |-> rs.highest, records |-> [rs.records EXCEPT ![id] = joined]]
    BY <2>2 DEF ScopeType
  <2>4. QED
    BY <1>1, <1>2, <2>1, <2>3 DEF ScopeType, Began
<1>3. CASE Disposition(rs, id, request) \in {"New", "TooManyPending"}
  <2>1. BeginRequest(rs, id, request, c) =
             [highest |-> id, records |-> [rs.records EXCEPT ![id] = Fresh(request, c)]]
    BY <1>3 DEF BeginRequest, Fresh
  <2>2. rs.records[id].state = "absent" /\ id > rs.highest
    BY <1>3, DispositionMeans
  <2>3. QED
    BY <1>1, <1>3, <2>1, <2>2, FreshTyped DEF ScopeType, Began
<1>4. CASE Disposition(rs, id, request) \notin {"Pending", "New", "TooManyPending"}
  BY <1>4 DEF BeginRequest, Began
<1>5. QED
  BY <1>2, <1>3, <1>4

\* What complete does to one scope: its own record is answered, unless it is
\* missing, and completed records may be forgotten.
Answered(record, response) == [state |-> "done", request |-> record.request,
                               response |-> response, waiters |-> << >>]

Finished(old, new, id, response) ==
    /\ new.highest = old.highest
    /\ \A j \in Ids :
          \/ new.records[j] = old.records[j] /\ (j = id => old.records[j].state = "absent")
          \/ new.records[j] = Absent /\ (j = id \/ old.records[j].state = "done")
          \/ j = id /\ old.records[j].state # "absent"
             /\ new.records[j] = Answered(old.records[j], response)

LEMMA CompleteChanges ==
    ASSUME NEW rs \in ScopeType, NEW id \in Ids, NEW response \in Responses
    PROVE  /\ CompleteRequest(rs, id, response) \in ScopeType
           /\ Finished(rs, CompleteRequest(rs, id, response), id, response)
<1> DEFINE answered == Answered(rs.records[id], response)
           stored == IF rs.records[id].state = "absent" THEN rs.records
                     ELSE [rs.records EXCEPT ![id] = answered]
<1>1. /\ rs.records \in [Ids -> RecordType] /\ rs.records[id] \in RecordType
      /\ rs.highest \in Nat
  BY DEF ScopeType
<1>2. answered \in RecordType
  BY <1>1 DEF RecordType, Answered
<1>3. stored \in [Ids -> RecordType]
  BY <1>1, <1>2
<1>4. /\ stored[id] = IF rs.records[id].state = "absent" THEN rs.records[id] ELSE answered
      /\ \A j \in Ids \ {id} : stored[j] = rs.records[j]
  BY <1>1
<1>5. CompleteRequest(rs, id, response) =
         [highest |-> rs.highest, records |-> EvictOldResults(stored)]
  BY DEF CompleteRequest, ScopeType, Answered
<1> HIDE DEF answered, stored
<1>6. /\ EvictOldResults(stored) \in [Ids -> RecordType]
      /\ \A j \in Ids : \/ EvictOldResults(stored)[j] = stored[j]
                        \/ EvictOldResults(stored)[j] = Absent /\ stored[j].state = "done"
  BY <1>3, ConstantsTyped DEF EvictOldResults, Retained
<1>7. QED
  BY <1>1, <1>4, <1>5, <1>6 DEF ScopeType, Finished, answered

\* remove_client changes waiter lists only.
Quit(old, new) ==
    /\ new.highest = old.highest
    /\ \A j \in Ids :
          /\ new.records[j].state = old.records[j].state
          /\ new.records[j].request = old.records[j].request
          /\ new.records[j].response = old.records[j].response
          /\ WaitingOn(new.records[j]) \subseteq WaitingOn(old.records[j])

LEMMA RemoveClientChanges ==
    ASSUME NEW rs \in ScopeType, NEW c
    PROVE  RemoveClient(rs, c) \in ScopeType /\ Quit(rs, RemoveClient(rs, c))
<1> DEFINE without(j) == DropWaiter(rs.records[j], c)
<1>1. RemoveClient(rs, c) = [highest |-> rs.highest, records |-> [j \in Ids |-> without(j)]]
  BY DEF RemoveClient, ScopeType
<1>2. ASSUME NEW j \in Ids
      PROVE  /\ without(j) \in RecordType
             /\ without(j).state = rs.records[j].state
             /\ without(j).request = rs.records[j].request
             /\ without(j).response = rs.records[j].response
             /\ WaitingOn(without(j)) \subseteq WaitingOn(rs.records[j])
  <2>1. rs.records[j] \in RecordType /\ rs.records[j].waiters \in Seq(Conns)
    BY DEF ScopeType, RecordType
  <2> DEFINE w == rs.records[j].waiters
             v == WithoutClient(w, c)
  <2>2. v \in Seq(Conns) /\ \A i \in 1 .. Len(v) : \E k \in 1 .. Len(w) : v[i] = w[k]
    BY <2>1, WithoutClientKeeps
  <2>3. without(j) = [rs.records[j] EXCEPT !.waiters = v]
    BY DEF DropWaiter
  <2> HIDE DEF v
  <2>4. QED
    BY <2>1, <2>2, <2>3 DEF RecordType, WaitingOn
<1> HIDE DEF without
<1>3. rs.highest \in Nat
  BY DEF ScopeType
<1>4. QED
  BY <1>1, <1>2, <1>3 DEF ScopeType, Quit
-----------------------------------------------------------------------------
(***************************************************************************)
(* The types are kept, action by action.                                   *)
(***************************************************************************)
LEMMA HandlerTyped ==
    ASSUME HandlersOK, NEW c \in Conns, NEW h \in HandlerType, Within(h),
           handler' = [handler EXCEPT ![c] = h]
    PROVE  HandlersOK'
BY DEF HandlersOK

LEMMA IdleTyped ==
    ASSUME HandlersOK, NEW c \in Conns, handler' = [handler EXCEPT ![c] = Idle]
    PROVE  HandlersOK'
BY HandlerTyped, ConstantsTyped

LEMMA ScopeTyped ==
    ASSUME ScopesOK, NEW s \in Scopes, NEW new \in ScopeType,
           Replied(new), scopes' = [scopes EXCEPT ![s] = new]
    PROVE  ScopesOK'
BY DEF ScopesOK

\* begin, complete and remove_client leave every completed request its response.
LEMMA BeganReplied ==
    ASSUME NEW rs, NEW new, NEW id \in Ids, NEW request, NEW c,
           Replied(rs), Began(rs, new, id, request, c)
    PROVE  Replied(new)
BY DEF Replied, Began, Fresh

LEMMA FinishedReplied ==
    ASSUME NEW rs, NEW new, NEW id \in Ids, NEW response \in Responses,
           Replied(rs), Finished(rs, new, id, response)
    PROVE  Replied(new)
<1>1. SUFFICES ASSUME NEW j \in Ids, new.records[j].state = "done"
               PROVE  new.records[j].response \in Responses
  BY DEF Replied
<1>2. \/ new.records[j] = rs.records[j]
      \/ new.records[j] = Absent
      \/ new.records[j] = Answered(rs.records[j], response)
  BY DEF Finished
<1>3. Absent.state = "absent" /\ Answered(rs.records[j], response).response = response
  BY DEF Absent, Answered
<1>4. QED
  BY <1>1, <1>2, <1>3 DEF Replied

LEMMA QuitReplied ==
    ASSUME NEW rs, NEW new, Replied(rs), Quit(rs, new)
    PROVE  Replied(new)
BY DEF Replied, Quit

LEMMA LifeTyped ==
    ASSUME PanesOK, NEW p \in Panes, NEW life \in {"running", "stopping"}, NEW driver \in BOOLEAN,
           \/ pane' = [pane EXCEPT ![p].life = life]
           \/ pane' = [pane EXCEPT ![p].life = life, ![p].driver = driver]
           \/ pane' = [pane EXCEPT ![p].driver = driver, ![p].life = life]
    PROVE  PanesOK'
<1>1. CASE pane' = [pane EXCEPT ![p].life = life]
  BY <1>1 DEF PanesOK, PaneType
<1>2. CASE pane' = [pane EXCEPT ![p].life = life, ![p].driver = driver]
  BY <1>2, ZenonT(40) DEF PanesOK, PaneType
<1>3. CASE pane' = [pane EXCEPT ![p].driver = driver, ![p].life = life]
  BY <1>3, ZenonT(40) DEF PanesOK, PaneType
<1>4. QED
  BY <1>1, <1>2, <1>3

LEMMA OwnerTyped ==
    ASSUME PanesOK, NEW p \in Panes, NEW owner \in OwnerType,
           pane' = [pane EXCEPT ![p].owner = owner]
    PROVE  PanesOK'
BY DEF PanesOK, PaneType

LEMMA ForgetTyped ==
    ASSUME ToldOK, NEW cs, told' = Forget(cs)
    PROVE  ToldOK'
BY DEF ToldOK, BeliefType, Forget

\* The requests a reader thread begins and ends.
LEMMA BeginAttachTyped ==
    ASSUME TypeInv, NEW c \in Conns, NEW id \in Ids, NEW p \in Panes, NEW i \in Identities,
           BeginAttach(c, id, p, i)
    PROVE  Types'
<1> DEFINE rs == scopes[conn[c].scope]
           body == << p, i >>
<1>1. conn[c].scope \in Scopes
  BY ReadyPlaced DEF TypeInv, BeginAttach
<1>2. rs \in ScopeType /\ Replied(rs) /\ body \in Requests
  BY <1>1 DEF TypeInv, Types, ScopesOK, Requests
<1>3. ScopesOK'
  <2>1. BeginRequest(rs, id, body, c) \in ScopeType /\ Replied(BeginRequest(rs, id, body, c))
    BY <1>2, BeginChanges, BeganReplied
  <2>2. scopes' = [scopes EXCEPT ![conn[c].scope] = BeginRequest(rs, id, body, c)]
    BY DEF BeginAttach
  <2>3. QED
    BY <1>1, <2>1, <2>2, ScopeTyped DEF TypeInv, Types
<1>4. HandlersOK'
  <2>1. ASSUME NEW op \in {"attach", "overloaded", "reattach"}, NEW lease \in Leases \cup {0},
               op = "reattach" => lease \in Leases,
               handler' = Attaching(c, id, p, i, op, lease)
        PROVE  HandlersOK'
    <3> DEFINE h == [op |-> op, id |-> id, pane |-> p, identity |-> i, lease |-> lease]
    <3>1. h \in HandlerType /\ Within(h)
      BY <2>1 DEF HandlerType, Within
    <3>2. handler' = [handler EXCEPT ![c] = h]
      BY <2>1 DEF Attaching
    <3> HIDE DEF h
    <3>3. QED
      BY <3>1, <3>2, HandlerTyped DEF TypeInv, Types
  <2> DEFINE found == Disposition(rs, id, body)
             response == rs.records[id].response
  <2>2. handler' = CASE found = "New" -> Attaching(c, id, p, i, "attach", 0)
                     [] found = "TooManyPending" -> Attaching(c, id, p, i, "overloaded", 0)
                     [] found = "Cached" ->
                          IF response = Failed THEN handler
                          ELSE Attaching(c, id, p, i, "reattach", response)
                     [] OTHER -> handler
    BY DEF BeginAttach
  <2>3. CASE found = "New" \/ found = "TooManyPending"
    BY <2>1, <2>2, <2>3
  <2>4. CASE found = "Cached" /\ response # Failed
    <3>1. handler' = Attaching(c, id, p, i, "reattach", response)
      BY <2>2, <2>4
    <3>2. response \in Leases
      BY <1>2, <2>4, DispositionMeans DEF Responses, Replied
    <3>3. QED
      BY <2>1, <3>1, <3>2
  <2>5. CASE ~ (found = "New" \/ found = "TooManyPending") /\ ~ (found = "Cached" /\ response # Failed)
    <3>1. handler' = handler
      BY <2>2, <2>5
    <3>2. QED
      BY <3>1 DEF TypeInv, Types, HandlersOK
  <2>6. QED
    BY <2>3, <2>4, <2>5
<1>5. QED
  BY <1>3, <1>4 DEF BeginAttach, TypeInv, Types, PanesOK, LeaseOK, StoppingOK, NoticesOK,
                    ToldOK, UnheardOK, LateOK

\* The waiters of an attach, and the one that is selected among them.
LEMMA ListedTyped ==
    ASSUME TypeInv, NEW c \in Conns, handler[c].op = "attach"
    PROVE  /\ Listed(c) \in Seq(Conns) /\ Selected(c) \in Conns
           /\ \/ Selected(c) = c
              \/ Selected(c) \in WaitingOn(scopes[conn[c].scope].records[handler[c].id])
<1> DEFINE record == scopes[conn[c].scope].records[handler[c].id]
           w == record.waiters
<1>1. w \in Seq(Conns)
  <2>1. conn[c].scope \in Scopes /\ handler[c].id \in Ids
    BY BusyPlaced DEF TypeInv, Types, HandlersOK, Within
  <2>2. record \in RecordType
    BY <2>1 DEF TypeInv, Types, ScopesOK, ScopeType
  <2>3. QED
    BY <2>2 DEF RecordType
<1>2. Listed(c) = IF w = << >> THEN << c >> ELSE w
  BY DEF Listed, WaitersOf
<1> HIDE DEF w
<1>3. CASE w = << >>
  <2>1. << c >> \in Seq(Conns) /\ Len(<< c >>) = 1 /\ << c >>[1] = c
    OBVIOUS
  <2>2. QED
    BY <1>2, <1>3, <2>1 DEF Selected
<1>4. CASE w # << >>
  <2>1. Len(w) \in 1 .. Len(w)
    BY <1>1, <1>4
  <2>2. w[Len(w)] \in Conns
    BY <1>1, <2>1
  <2>3. Selected(c) \in WaitingOn(record)
    BY <1>2, <1>4, <2>1 DEF Selected, WaitingOn, w
  <2>4. QED
    BY <1>1, <1>2, <1>4, <2>2, <2>3 DEF Selected
<1>5. QED
  BY <1>3, <1>4

LEMMA CompletedTyped ==
    ASSUME TypeInv, NEW c \in Conns, handler[c].op \in {"attach", "overloaded"},
           NEW response \in Responses, scopes' = Completed(c, response)
    PROVE  /\ ScopesOK'
           /\ conn[c].scope \in Scopes /\ handler[c].id \in Ids
           /\ Finished(scopes[conn[c].scope], scopes'[conn[c].scope], handler[c].id, response)
           /\ \A s \in Scopes \ {conn[c].scope} : scopes'[s] = scopes[s]
<1> DEFINE s == conn[c].scope
           id == handler[c].id
           new == CompleteRequest(scopes[s], id, response)
<1>1. s \in Scopes /\ id \in Ids
  BY BusyPlaced DEF TypeInv, Types, HandlersOK, Within
<1>2. scopes[s] \in ScopeType /\ Replied(scopes[s])
  BY <1>1 DEF TypeInv, Types, ScopesOK
<1>3. new \in ScopeType /\ Finished(scopes[s], new, id, response) /\ Replied(new)
  BY <1>1, <1>2, CompleteChanges, FinishedReplied
<1>4. scopes' = [scopes EXCEPT ![s] = new]
  BY DEF Completed
<1> HIDE DEF new, s, id
<1>5. ScopesOK' /\ scopes'[s] = new /\ \A t \in Scopes \ {s} : scopes'[t] = scopes[t]
  BY <1>1, <1>3, <1>4, ScopeTyped DEF TypeInv, Types, ScopesOK
<1>6. QED
  BY <1>1, <1>3, <1>5 DEF s, id

LEMMA CommitNewTyped ==
    ASSUME TypeInv, NEW c \in Conns, NEW notified \in BOOLEAN,
           NEW accepted \in SUBSET Conns, NEW deaf \in SUBSET Conns,
           CommitNew(c, notified, accepted, deaf)
    PROVE  Types'
<1> DEFINE s == conn[c].scope
           owner == [scope |-> s, lease |-> nextLease, conn |-> Selected(c)]
<1>1. PICK p \in Panes : p = handler[c].pane
  BY BusyPlaced DEF TypeInv, CommitNew
<1>2. nextLease \in Leases /\ nextLease \in Responses /\ LastLease \in Nat
  BY PaneLeaseAssumption DEF TypeInv, IInv, CommitNew, LeaseLeft, Leases, Responses
<1>3. ScopesOK' /\ s \in Scopes
  BY <1>2, CompletedTyped DEF CommitNew
<1>4. PanesOK'
  <2>1. owner \in OwnerType
    BY <1>2, <1>3, ListedTyped DEF CommitNew, OwnerType
  <2>2. pane' = [pane EXCEPT ![p].owner = owner]
    BY <1>1 DEF CommitNew
  <2> HIDE DEF owner
  <2>3. QED
    BY <2>1, <2>2, OwnerTyped DEF TypeInv, Types
<1>5. LeaseOK'
  <2>1. nextLease' = nextLease + 1 /\ nextLease + 1 \in 1 .. LastLease + 1
    BY <1>2 DEF CommitNew, Leases
  <2>2. closing' \in BOOLEAN
    BY DEF CommitNew, TypeInv, Types, LeaseOK
  <2>3. QED
    BY <2>1, <2>2 DEF LeaseOK
<1>6. HandlersOK'
  BY IdleTyped DEF CommitNew, TypeInv, Types
<1>7. ToldOK'
  <2>1. /\ told \in [Conns -> BeliefType]
        /\ [q \in Panes |-> 0] \in BeliefType
        /\ \A w \in Conns : [told[w] EXCEPT ![p] = nextLease] \in BeliefType
        /\ \A w \in Conns : [told[w] EXCEPT ![p] = 0] \in BeliefType
    BY <1>2 DEF TypeInv, Types, ToldOK, BeliefType
  <2>2. QED
    BY <1>1, <2>1 DEF CommitNew, ToldOK
<1>8. UnheardOK'
  <2>1. deaf \X {p} \X {nextLease} \subseteq Messages
    BY <1>2 DEF Messages
  <2>2. QED
    BY <1>1, <2>1 DEF CommitNew, TypeInv, Types, UnheardOK
<1>9. StoppingOK' /\ NoticesOK' /\ LateOK'
  BY DEF CommitNew, TypeInv, Types, StoppingOK, NoticesOK, LateOK
<1>10. QED
  BY <1>3, <1>4, <1>5, <1>6, <1>7, <1>8, <1>9 DEF Types

LEMMA CommitFailedTyped ==
    ASSUME TypeInv, NEW c \in Conns, CommitFailed(c)
    PROVE  Types'
<1>1. ScopesOK'
  BY CompletedTyped, ConstantsTyped DEF CommitFailed
<1>2. HandlersOK'
  BY IdleTyped DEF CommitFailed, TypeInv, Types
<1>3. QED
  BY <1>1, <1>2 DEF CommitFailed, TypeInv, Types, PanesOK, LeaseOK, StoppingOK, NoticesOK,
                    ToldOK, UnheardOK, LateOK

LEMMA CommitRebindTyped ==
    ASSUME TypeInv, NEW c \in Conns, NEW notified \in BOOLEAN, NEW accepted \in BOOLEAN,
           CommitRebind(c, notified, accepted)
    PROVE  Types'
<1> DEFINE lease == handler[c].lease
           owner == [scope |-> conn[c].scope, lease |-> lease, conn |-> c]
<1>1. PICK p \in Panes : p = handler[c].pane
  BY BusyPlaced DEF TypeInv, CommitRebind
<1>2. lease \in Leases /\ Owner(p).lease = lease
  BY <1>1 DEF TypeInv, Types, HandlersOK, Within, CommitRebind, Usable
<1>3. PanesOK'
  <2>1. owner \in OwnerType
    BY <1>2, BusyPlaced DEF TypeInv, CommitRebind, OwnerType
  <2>2. pane' = [pane EXCEPT ![p].owner = owner]
    BY <1>1 DEF CommitRebind
  <2> HIDE DEF owner
  <2>3. QED
    BY <2>1, <2>2, OwnerTyped DEF TypeInv, Types
<1>4. HandlersOK'
  BY IdleTyped DEF CommitRebind, TypeInv, Types
<1>5. ToldOK'
  <2>1. /\ told \in [Conns -> BeliefType]
        /\ [q \in Panes |-> 0] \in BeliefType
        /\ \A w \in Conns : [told[w] EXCEPT ![p] = 0] \in BeliefType
        /\ [told[c] EXCEPT ![p] = lease] \in BeliefType
    BY <1>2 DEF TypeInv, Types, ToldOK, BeliefType
  <2>2. QED
    BY <1>1, <2>1 DEF CommitRebind, ToldOK
<1>6. UnheardOK'
  BY DEF CommitRebind, TypeInv, Types, UnheardOK
<1>7. LateOK'
  BY <1>1, <1>2 DEF CommitRebind, TypeInv, Types, LateOK
<1>8. QED
  BY <1>3, <1>4, <1>5, <1>6, <1>7
     DEF CommitRebind, TypeInv, Types, ScopesOK, LeaseOK, StoppingOK, NoticesOK

\* Steps that leave everything but the handlers, the panes' lives and the
\* history alone.
LEMMA InputTyped ==
    ASSUME TypeInv, NEW c \in Conns,
           \/ CommitSuperseded(c)
           \/ \E p \in Panes, lease \in Leases : ValidateInput(c, p, lease)
           \/ EnqueueInput(c) \/ RefuseInput(c)
    PROVE  Types'
<1>1. HandlersOK'
  <2>1. ASSUME NEW p \in Panes, NEW lease \in Leases, ValidateInput(c, p, lease)
        PROVE  HandlersOK'
    <3> DEFINE h == [Idle EXCEPT !.op = "input", !.pane = p, !.lease = lease]
    <3>1. h \in HandlerType /\ Within(h)
      BY ConstantsTyped DEF HandlerType, Within, Idle
    <3>2. handler' = [handler EXCEPT ![c] = h]
      BY <2>1 DEF ValidateInput
    <3> HIDE DEF h
    <3>3. QED
      BY <3>1, <3>2, HandlerTyped DEF TypeInv, Types
  <2>2. CASE CommitSuperseded(c) \/ EnqueueInput(c) \/ RefuseInput(c)
    BY <2>2, IdleTyped DEF CommitSuperseded, EnqueueInput, RefuseInput, TypeInv, Types
  <2>3. QED
    BY <2>1, <2>2
<1>2. LateOK'
  <2>1. late' = late \/ (handler[c].lease \in Leases /\
                         late' = [late EXCEPT ![c][handler[c].lease] = @ + 1])
    BY DEF CommitSuperseded, ValidateInput, EnqueueInput, RefuseInput, TypeInv, Types,
           HandlersOK, Within
  <2>2. QED
    BY <2>1 DEF TypeInv, Types, LateOK
<1>3. UNCHANGED << scopes, pane, nextLease, closing, toStop, notices, told, unheard >>
  BY DEF CommitSuperseded, ValidateInput, EnqueueInput, RefuseInput
<1>4. QED
  BY <1>1, <1>2, <1>3 DEF TypeInv, Types, ScopesOK, PanesOK, LeaseOK, StoppingOK, NoticesOK,
                          ToldOK, UnheardOK

LEMMA DetachTyped ==
    ASSUME TypeInv, NEW c \in Conns, NEW p \in Panes, NEW lease \in Leases, Detach(c, p, lease)
    PROVE  Types'
<1>1. PanesOK'
  BY OwnerTyped, ConstantsTyped DEF Detach, TypeInv, Types
<1>2. ToldOK'
  BY DEF Detach, TypeInv, Types, ToldOK, BeliefType
<1>3. QED
  BY <1>1, <1>2 DEF Detach, TypeInv, Types, ScopesOK, LeaseOK, StoppingOK, HandlersOK, NoticesOK,
                    UnheardOK, LateOK

LEMMA StopTyped ==
    ASSUME TypeInv, NEW c \in Conns,
           \/ \E p \in Panes, lease \in Leases : RequestStop(c, p, lease)
           \/ StartStop(c)
    PROVE  Types'
<1>1. HandlersOK'
  <2>1. ASSUME NEW p \in Panes, NEW lease \in Leases, RequestStop(c, p, lease)
        PROVE  HandlersOK'
    <3> DEFINE h == [Idle EXCEPT !.op = "stop", !.pane = p]
    <3>1. h \in HandlerType /\ Within(h)
      BY ConstantsTyped DEF HandlerType, Within, Idle
    <3>2. handler' = [handler EXCEPT ![c] = h]
      BY <2>1 DEF RequestStop
    <3> HIDE DEF h
    <3>3. QED
      BY <3>1, <3>2, HandlerTyped DEF TypeInv, Types
  <2>2. CASE StartStop(c)
    BY <2>2, IdleTyped DEF StartStop, TypeInv, Types
  <2>3. QED
    BY <2>1, <2>2
<1>2. PanesOK'
  <2>1. ASSUME NEW p \in Panes, NEW lease \in Leases, RequestStop(c, p, lease)
        PROVE  PanesOK'
    BY <2>1, LifeTyped DEF RequestStop, TypeInv, Types
  <2>2. CASE StartStop(c)
    <3>1. handler[c].pane \in Panes
      BY <2>2, BusyPlaced DEF StartStop, TypeInv
    <3>2. QED
      BY <2>2, <3>1, LifeTyped DEF StartStop, TypeInv, Types
  <2>3. QED
    BY <2>1, <2>2
<1>3. UNCHANGED << scopes, nextLease, closing, toStop, notices, told, unheard, late >>
  BY DEF RequestStop, StartStop
<1>4. QED
  BY <1>1, <1>2, <1>3 DEF TypeInv, Types, ScopesOK, LeaseOK, StoppingOK, NoticesOK, ToldOK,
                          UnheardOK, LateOK

LEMMA DriverTyped ==
    ASSUME TypeInv, NEW p \in Panes,
           StartShutdownStop(p) \/ \E termFailed \in BOOLEAN : DriverFails(p, termFailed)
    PROVE  Types'
<1>1. PanesOK' /\ StoppingOK' /\ LateOK'
  <2>1. CASE StartShutdownStop(p)
    <3>1. PanesOK'
      BY <2>1, LifeTyped DEF StartShutdownStop, TypeInv, Types
    <3>2. QED
      BY <2>1, <3>1 DEF StartShutdownStop, TypeInv, Types, StoppingOK, LateOK
  <2>2. ASSUME NEW termFailed \in BOOLEAN, DriverFails(p, termFailed)
        PROVE  PanesOK' /\ StoppingOK' /\ LateOK'
    <3>1. PanesOK'
      BY <2>2, LifeTyped DEF DriverFails, TypeInv, Types
    <3>2. Owner(p) # NoOwner => Owner(p).conn \in Conns /\ Owner(p).lease \in Leases
      BY DEF TypeInv, Types, PanesOK, PaneType, OwnerType, Owner
    <3>3. LateOK'
      BY <2>2, <3>2 DEF DriverFails, TypeInv, Types, LateOK
    <3>4. QED
      BY <2>2, <3>1, <3>3 DEF DriverFails, TypeInv, Types, StoppingOK
  <2>3. QED
    BY <2>1, <2>2
<1>2. UNCHANGED << scopes, nextLease, closing, handler, notices, told, unheard >>
  BY DEF StartShutdownStop, DriverFails
<1>3. QED
  BY <1>1, <1>2 DEF TypeInv, Types, ScopesOK, LeaseOK, HandlersOK, NoticesOK, ToldOK, UnheardOK

LEMMA FinalizeTyped ==
    ASSUME TypeInv, NEW p \in Panes, Finalize(p)
    PROVE  Types'
<1>1. PanesOK'
  BY ConstantsTyped DEF Finalize, TypeInv, Types, PanesOK
<1>2. HandlersOK'
  <2>1. ASSUME NEW c \in Conns
        PROVE  handler'[c] \in HandlerType /\ Within(handler'[c])
    <3>1. handler[c] \in HandlerType /\ Within(handler[c])
      BY DEF TypeInv, Types, HandlersOK
    <3>2. \/ handler'[c] = [handler[c] EXCEPT !.op = "refused"] /\ handler[c].op = "input"
          \/ handler'[c] = Idle
          \/ handler'[c] = handler[c]
      BY DEF Finalize
    <3>3. CASE handler'[c] = [handler[c] EXCEPT !.op = "refused"] /\ handler[c].op = "input"
      BY <3>1, <3>3 DEF HandlerType, Within
    <3>4. QED
      BY <3>1, <3>2, <3>3, ConstantsTyped
  <2>2. handler' = [c \in Conns |-> handler'[c]]
    BY DEF Finalize
  <2>3. QED
    BY <2>1, <2>2 DEF HandlersOK
<1>3. NoticesOK'
  <2>1. Owner(p) # NoOwner => << Owner(p).conn, p, Owner(p).lease >> \in Messages
    BY DEF TypeInv, Types, PanesOK, PaneType, OwnerType, Owner, Messages
  <2>2. QED
    BY <2>1 DEF Finalize, TypeInv, Types, NoticesOK
<1>4. QED
  BY <1>1, <1>2, <1>3 DEF Finalize, TypeInv, Types, ScopesOK, LeaseOK, StoppingOK, ToldOK,
                          UnheardOK, LateOK

LEMMA NotifyExitTyped ==
    ASSUME TypeInv, NEW notice \in notices, NEW queued \in BOOLEAN, NotifyExit(notice, queued)
    PROVE  Types'
<1>1. notice[1] \in Conns /\ notice[2] \in Panes
  BY DEF TypeInv, Types, NoticesOK, Messages
<1>2. ToldOK'
  <2>1. CASE queued
    BY <1>1, <2>1 DEF NotifyExit, TypeInv, Types, ToldOK, BeliefType
  <2>2. CASE ~ queued
    BY <2>2, ForgetTyped DEF NotifyExit, TypeInv, Types
  <2>3. QED
    BY <2>1, <2>2
<1>3. UnheardOK' /\ NoticesOK'
  BY DEF NotifyExit, TypeInv, Types, UnheardOK, NoticesOK
<1>4. QED
  BY <1>2, <1>3 DEF NotifyExit, TypeInv, Types, ScopesOK, PanesOK, LeaseOK, StoppingOK,
                    HandlersOK, LateOK

LEMMA DisconnectTyped ==
    ASSUME TypeInv, NEW c \in Conns, Disconnect(c)
    PROVE  Types'
<1>1. ToldOK'
  BY ForgetTyped DEF Disconnect, TypeInv, Types
<1>2. QED
  BY <1>1 DEF Disconnect, TypeInv, Types, ScopesOK, PanesOK, LeaseOK, StoppingOK, HandlersOK,
              NoticesOK, UnheardOK, LateOK

LEMMA LeavingTyped ==
    ASSUME TypeInv, NEW c \in Conns, NEW status, Leaving(c, status)
    PROVE  Types' /\ \A s \in Scopes : Quit(scopes[s], scopes'[s])
<1>1. ASSUME NEW s \in Scopes
      PROVE  scopes'[s] \in ScopeType /\ Replied(scopes'[s]) /\ Quit(scopes[s], scopes'[s])
  <2>1. scopes[s] \in ScopeType /\ Replied(scopes[s])
    BY DEF TypeInv, Types, ScopesOK
  <2>2. scopes'[s] = RemoveClient(scopes[s], c)
    BY DEF Leaving
  <2>3. QED
    BY <2>1, <2>2, RemoveClientChanges, QuitReplied
<1>2. scopes' = [s \in Scopes |-> scopes'[s]]
  BY DEF Leaving
<1>3. ScopesOK'
  BY <1>1, <1>2 DEF ScopesOK
<1>4. ToldOK'
  BY ForgetTyped DEF Leaving, TypeInv, Types
<1>5. QED
  BY <1>1, <1>3, <1>4 DEF Leaving, TypeInv, Types, PanesOK, LeaseOK, StoppingOK, HandlersOK,
                          NoticesOK, UnheardOK, LateOK

LEMMA RestTyped ==
    ASSUME TypeInv,
           \/ \E c \in Conns, s \in Scopes : Hello(c, s)
           \/ \E p \in Panes, i \in Identities : Publish(p, i)
           \/ Shutdown
           \/ UNCHANGED vars
    PROVE  Types'
<1>1. CASE \E p \in Panes, i \in Identities : Publish(p, i)
  <2>1. PICK p \in Panes, i \in Identities : Publish(p, i)
    BY <1>1
  <2>2. [NoPane EXCEPT !.life = "running", !.identity = i] \in PaneType
    BY ConstantsTyped DEF PaneType, NoPane
  <2>3. PanesOK'
    BY <2>1, <2>2 DEF Publish, TypeInv, Types, PanesOK
  <2>4. QED
    BY <2>1, <2>3 DEF Publish, TypeInv, Types, ScopesOK, LeaseOK, StoppingOK, HandlersOK,
                      NoticesOK, ToldOK, UnheardOK, LateOK
<1>2. CASE Shutdown
  <2>1. LeaseOK'
    <3>1. nextLease' = nextLease /\ closing' = TRUE
      BY <1>2 DEF Shutdown
    <3>2. QED
      BY <3>1 DEF TypeInv, Types, LeaseOK
  <2>2. StoppingOK'
    BY <1>2 DEF Shutdown, StoppingOK
  <2>3. QED
    BY <1>2, <2>1, <2>2 DEF Shutdown, TypeInv, Types, ScopesOK, PanesOK, HandlersOK, NoticesOK,
                            ToldOK, UnheardOK, LateOK
<1>3. CASE \/ \E c \in Conns, s \in Scopes : Hello(c, s)
           \/ UNCHANGED vars
  BY <1>3 DEF Hello, vars, TypeInv, Types, ScopesOK, PanesOK, LeaseOK, StoppingOK, HandlersOK,
              NoticesOK, ToldOK, UnheardOK, LateOK
<1>4. QED
  BY <1>1, <1>2, <1>3

LEMMA NextTypeInv == TypeInv /\ [Next]_vars => TypeInv'
<1> SUFFICES ASSUME TypeInv, [Next]_vars PROVE TypeInv'
  OBVIOUS
<1>1. IInv'
  BY NextIInv DEF TypeInv
<1>2. Types'
  <2>1. CASE \E c \in Conns, id \in Ids, p \in Panes, i \in Identities : BeginAttach(c, id, p, i)
    BY <2>1, BeginAttachTyped
  <2>2. CASE \E c \in Conns : Commit(c)
    BY <2>2, CommitNewTyped, CommitFailedTyped, CommitRebindTyped, InputTyped DEF Commit
  <2>3. CASE \E c \in Conns, p \in Panes, lease \in Leases : Leased(c, p, lease)
    BY <2>3, InputTyped, DetachTyped, StopTyped DEF Leased
  <2>4. CASE \E c \in Conns : EnqueueInput(c) \/ RefuseInput(c) \/ StartStop(c)
    BY <2>4, InputTyped, StopTyped
  <2>5. CASE \E c \in Conns : Disconnect(c) \/ WriterEnds(c) \/ ReaderEnds(c)
    BY <2>5, DisconnectTyped, LeavingTyped DEF WriterEnds, ReaderEnds
  <2>6. CASE \E p \in Panes : \/ StartShutdownStop(p) \/ Finalize(p)
                              \/ \E termFailed \in BOOLEAN : DriverFails(p, termFailed)
    BY <2>6, DriverTyped, FinalizeTyped
  <2>7. CASE \E notice \in notices, queued \in BOOLEAN : NotifyExit(notice, queued)
    BY <2>7, NotifyExitTyped
  <2>8. CASE \/ \E c \in Conns, s \in Scopes : Hello(c, s)
             \/ \E p \in Panes, i \in Identities : Publish(p, i)
             \/ Shutdown
             \/ UNCHANGED vars
    BY <2>8, RestTyped
  <2>9. QED
    BY <2>1, <2>2, <2>3, <2>4, <2>5, <2>6, <2>7, <2>8 DEF Next
<1>3. QED
  BY <1>1, <1>2 DEF TypeInv

\* Every variable keeps its type: a completed request has a response, a handler
\* works on a pane and a request that exist, and the lease counter stops one past
\* the last lease (allocate_lease steps next_lease with checked_next).
THEOREM TypeCorrect == Spec => []TypeOK
<1>1. Spec => []TypeInv
  BY InitTypeInv, NextTypeInv, PTL DEF Spec
<1>2. QED
  BY <1>1, TypeParts, PTL
-----------------------------------------------------------------------------
(***************************************************************************)
(* Which request a lease was granted to.  OwnerAsked is not inductive: the *)
(* commit of an attach grants its lease to the request that its record     *)
(* still holds, which is the handler's own because one handler at most is  *)
(* inside of each pending request.                                         *)
(***************************************************************************)
Record(s, id) == scopes[s].records[id]
Success(s, id) == Record(s, id).state = "done" /\ Record(s, id).response # Failed

\* A response is stored once the request is done, and it is a granted lease; an
\* ID that is known was seen.
RecordOK(s, id) ==
    /\ Record(s, id).state = "done" => Record(s, id).response < nextLease
    /\ Record(s, id).state # "done" => Record(s, id).response = None
    /\ Record(s, id).state # "absent" => id <= scopes[s].highest

Waits(h) == h.op \in {"attach", "overloaded"}

\* A handler that has begun an attach finds its own request in the cache.
Asking(c) ==
    Waits(handler[c]) =>
        /\ Record(conn[c].scope, handler[c].id).state = "pending"
        /\ Record(conn[c].scope, handler[c].id).request = << handler[c].pane, handler[c].identity >>

\* No two handlers are inside of the same request.
Apart(c, d) ==
    c # d /\ Waits(handler[c]) /\ Waits(handler[d]) =>
        conn[c].scope # conn[d].scope \/ handler[c].id # handler[d].id

\* The two halves of OwnerAsked.
GrantedOnce(s, id) ==
    Success(s, id) =>
        \A t \in Scopes, jd \in Ids :
            Record(t, jd).response = Record(s, id).response => t = s /\ jd = id

NamesPane(s, id) ==
    Success(s, id) =>
        \A p \in Panes : Owner(p).lease = Record(s, id).response =>
            Owner(p).scope = s /\ Record(s, id).request = << p, pane[p].identity >>

AskInv ==
    /\ \A s \in Scopes, id \in Ids :
          RecordOK(s, id) /\ GrantedOnce(s, id) /\ NamesPane(s, id)
    /\ \A c \in Conns : Asking(c)
    /\ \A c, d \in Conns : Apart(c, d)

LEMMA AskedParts == AskInv => OwnerAsked
BY DEF AskInv, OwnerAsked, GrantedOnce, NamesPane, Success, Record

LEMMA InitAskInv == Init => AskInv
<1> SUFFICES ASSUME Init PROVE AskInv
  OBVIOUS
<1>1. \A s \in Scopes, id \in Ids : Record(s, id) = Absent
  BY DEF Init, Record, EmptyScope
<1>2. \A c \in Conns : ~ Waits(handler[c])
  BY Constants DEF Init, Waits
<1>3. QED
  BY <1>1, <1>2 DEF AskInv, RecordOK, GrantedOnce, NamesPane, Success, Asking, Apart, Absent

\* Most steps leave the records alone but for their waiters, every handler
\* inside of an attach where it is, and every lease in force with its scope and
\* its pane's identity, unless they take it away.
RecordsKept ==
    \A s \in Scopes :
        /\ scopes'[s].highest = scopes[s].highest
        /\ \A id \in Ids :
              /\ Record(s, id)'.state = Record(s, id).state
              /\ Record(s, id)'.request = Record(s, id).request
              /\ Record(s, id)'.response = Record(s, id).response

WaitsKept ==
    \A c \in Conns : Waits(handler'[c]) => handler'[c] = handler[c] /\ conn'[c].scope = conn[c].scope

LeasesKept ==
    \A p \in Panes :
        \/ Owner(p)'.lease = 0
        \/ /\ Owner(p)'.lease = Owner(p).lease /\ Owner(p)'.scope = Owner(p).scope
           /\ pane'[p].identity = pane[p].identity

Unasked == RecordsKept /\ WaitsKept /\ LeasesKept /\ nextLease' = nextLease

LEMMA UnaskedKeeps ==
    ASSUME TypeInv, AskInv, Unasked
    PROVE  AskInv'
<1>1. ASSUME NEW s \in Scopes, NEW id \in Ids
      PROVE  (RecordOK(s, id) /\ GrantedOnce(s, id) /\ NamesPane(s, id))'
  <2>1. RecordOK(s, id) /\ GrantedOnce(s, id) /\ NamesPane(s, id)
    BY DEF AskInv
  <2>2. RecordOK(s, id)'
    BY <2>1 DEF Unasked, RecordsKept, RecordOK, Record
  <2>3. GrantedOnce(s, id)'
    BY <2>1 DEF Unasked, RecordsKept, GrantedOnce, Success
  <2>4. NamesPane(s, id)'
    BY <2>1 DEF Unasked, RecordsKept, LeasesKept, NamesPane, Success, Failed
  <2>5. QED
    BY <2>2, <2>3, <2>4
<1>2. ASSUME NEW c \in Conns
      PROVE  Asking(c)'
  <2>1. SUFFICES ASSUME Waits(handler'[c])
                 PROVE  Asking(c)'
    BY DEF Asking
  <2>2. handler'[c] = handler[c] /\ conn'[c].scope = conn[c].scope
    BY <2>1 DEF Unasked, WaitsKept
  <2>3. conn[c].scope \in Scopes /\ handler[c].id \in Ids
    BY <2>1, <2>2, BusyPlaced DEF TypeInv, Types, HandlersOK, Within, Waits
  <2>4. Asking(c)
    BY DEF AskInv
  <2>5. QED
    BY <2>1, <2>2, <2>3, <2>4 DEF Unasked, RecordsKept, Asking
<1>3. ASSUME NEW c \in Conns, NEW d \in Conns
      PROVE  Apart(c, d)'
  BY DEF AskInv, Unasked, WaitsKept, Apart
<1>4. QED
  BY <1>1, <1>2, <1>3 DEF AskInv

LEMMA SameRecords ==
    ASSUME scopes' = scopes
    PROVE  RecordsKept
BY DEF RecordsKept, Record

LEMMA SameOwners ==
    ASSUME Same, \A p \in Panes : pane'[p].identity = pane[p].identity
    PROVE  LeasesKept
BY DEF Same, LeasesKept

LEMMA LostLease ==
    ASSUME NEW p \in Panes, Lost(p), \A q \in Panes \ {p} : pane'[q] = pane[q]
    PROVE  LeasesKept
BY Constants DEF Lost, LeasesKept

\* The scope of a connection never changes once it is inside of a request.
ScopeKept == \A c \in Conns : handler[c].op # "idle" => conn'[c].scope = conn[c].scope

LEMMA DroppedScope ==
    ASSUME TypeInv, conn' = conn \/ \E cs : conn' = Dropping(cs)
    PROVE  \A c \in Conns : conn'[c].scope = conn[c].scope
<1>1. conn \in [Conns -> ConnType]
  BY DEF TypeInv, IInv
<1>2. QED
  BY <1>1 DEF Dropping, ConnType

LEMMA OtherWaits ==
    ASSUME TypeInv, NEW c \in Conns, NEW h, ~ Waits(h), ScopeKept,
           \/ handler' = [handler EXCEPT ![c] = h]
           \/ handler' = handler
    PROVE  WaitsKept
BY DEF WaitsKept, ScopeKept, TypeInv, Types, HandlersOK, Waits

\* Only a pane's life and driver change.
LEMMA LifeOnly ==
    ASSUME TypeInv, NEW p \in Panes, NEW life, NEW driver,
           \/ pane' = [pane EXCEPT ![p].life = life]
           \/ pane' = [pane EXCEPT ![p].life = life, ![p].driver = driver]
           \/ pane' = [pane EXCEPT ![p].driver = driver, ![p].life = life]
    PROVE  Same /\ \A q \in Panes : pane'[q].identity = pane[q].identity
<1>1. PaneShape
  BY DEF TypeInv, IInv
<1>2. Same
  BY <1>1, PaneFieldsKept
<1>3. CASE pane' = [pane EXCEPT ![p].life = life]
  BY <1>1, <1>2, <1>3 DEF PaneShape, PaneFields
<1>4. CASE pane' = [pane EXCEPT ![p].life = life, ![p].driver = driver]
  BY <1>1, <1>2, <1>4 DEF PaneShape, PaneFields
<1>5. CASE pane' = [pane EXCEPT ![p].driver = driver, ![p].life = life]
  BY <1>1, <1>2, <1>5 DEF PaneShape, PaneFields
<1>6. QED
  BY <1>3, <1>4, <1>5

LEMMA HelloUnasked ==
    ASSUME TypeInv, NEW c \in Conns, NEW s \in Scopes, Hello(c, s)
    PROVE  Unasked
<1>1. handler[c].op = "idle" /\ conn \in [Conns -> ConnType]
  BY DEF TypeInv, IInv, Placed, Hello
<1>2. WaitsKept
  BY <1>1 DEF Hello, WaitsKept, Waits
<1>3. LeasesKept
  BY DEF Hello, LeasesKept, Owner
<1>4. QED
  BY <1>2, <1>3, SameRecords DEF Hello, Unasked

LEMMA PublishUnasked ==
    ASSUME TypeInv, NEW p \in Panes, NEW i \in Identities, Publish(p, i)
    PROVE  Unasked
<1>1. LeasesKept
  <2>1. pane'[p].owner = NoOwner /\ \A q \in Panes \ {p} : pane'[q] = pane[q]
    BY Constants DEF Publish, TypeInv, IInv, PaneShape, PaneFields
  <2>2. QED
    BY <2>1, Constants DEF LeasesKept, Owner
<1>2. QED
  BY <1>1, SameRecords DEF Publish, Unasked, WaitsKept

LEMMA RebindUnasked ==
    ASSUME TypeInv, NEW c \in Conns, NEW notified, NEW accepted, CommitRebind(c, notified, accepted)
    PROVE  Unasked
<1>1. PICK p \in Panes : p = handler[c].pane
  BY BusyPlaced DEF TypeInv, CommitRebind
<1> DEFINE owner == [scope |-> conn[c].scope, lease |-> handler[c].lease, conn |-> c]
<1>2. pane' = [pane EXCEPT ![p].owner = owner] /\ Usable(c)
  BY <1>1 DEF CommitRebind
<1>3. Owner(p).scope = conn[c].scope /\ Owner(p).lease = handler[c].lease
  BY <1>1, <1>2 DEF Usable
<1> HIDE DEF owner
<1>4. /\ Owner(p)' = owner /\ \A q \in Panes \ {p} : Owner(q)' = Owner(q)
      /\ \A q \in Panes : pane'[q].identity = pane[q].identity
  BY <1>2 DEF TypeInv, IInv, PaneShape, PaneFields, Owner
<1>5. LeasesKept
  BY <1>3, <1>4 DEF LeasesKept, owner
<1>6. WaitsKept
  <2>1. ScopeKept
    BY DroppedScope DEF CommitRebind, ScopeKept
  <2>2. QED
    BY <2>1, OtherWaits, Constants DEF CommitRebind, Waits
<1>7. QED
  BY <1>5, <1>6, SameRecords DEF CommitRebind, Unasked

LEMMA InputUnasked ==
    ASSUME TypeInv, NEW c \in Conns,
           \/ CommitSuperseded(c)
           \/ \E p \in Panes, lease \in Leases : ValidateInput(c, p, lease)
           \/ EnqueueInput(c) \/ RefuseInput(c)
    PROVE  Unasked
<1>1. UNCHANGED << conn, scopes, pane, nextLease >>
  BY DEF CommitSuperseded, ValidateInput, EnqueueInput, RefuseInput
<1>2. PICK h : handler' = [handler EXCEPT ![c] = h] /\ ~ Waits(h)
  <2>1. ASSUME NEW p \in Panes, NEW lease \in Leases, ValidateInput(c, p, lease)
        PROVE  \E h : handler' = [handler EXCEPT ![c] = h] /\ ~ Waits(h)
    <3> DEFINE h == [Idle EXCEPT !.op = "input", !.pane = p, !.lease = lease]
    <3>1. handler' = [handler EXCEPT ![c] = h]
      BY <2>1 DEF ValidateInput
    <3>2. ~ Waits(h)
      BY DEF Waits, Idle
    <3> HIDE DEF h
    <3>3. QED
      BY <3>1, <3>2
  <2>2. CASE CommitSuperseded(c) \/ EnqueueInput(c) \/ RefuseInput(c)
    BY <2>2, Constants DEF CommitSuperseded, EnqueueInput, RefuseInput, Waits
  <2>3. QED
    BY <2>1, <2>2
<1>3. WaitsKept
  <2>1. ScopeKept
    BY <1>1 DEF ScopeKept
  <2>2. QED
    BY <1>2, <2>1, OtherWaits
<1>4. QED
  BY <1>1, <1>3, SameRecords DEF Unasked, LeasesKept, Owner

LEMMA DetachUnasked ==
    ASSUME TypeInv, NEW c \in Conns, NEW p \in Panes, NEW lease \in Leases, Detach(c, p, lease)
    PROVE  Unasked
<1>1. Lost(p) /\ \A q \in Panes \ {p} : pane'[q] = pane[q]
  BY DEF Detach, TypeInv, IInv, PaneShape, PaneFields, Lost, Owner
<1>2. QED
  BY <1>1, LostLease, SameRecords DEF Detach, Unasked, WaitsKept

LEMMA StopUnasked ==
    ASSUME TypeInv, NEW c \in Conns,
           \/ \E p \in Panes, lease \in Leases : RequestStop(c, p, lease)
           \/ StartStop(c)
    PROVE  Unasked
<1>1. UNCHANGED << conn, scopes, nextLease >>
  BY DEF RequestStop, StartStop
<1>2. ScopeKept
  BY <1>1 DEF ScopeKept
<1>3. ASSUME NEW p \in Panes, NEW lease \in Leases, RequestStop(c, p, lease)
      PROVE  WaitsKept /\ LeasesKept
  <2> DEFINE h == [Idle EXCEPT !.op = "stop", !.pane = p]
  <2>1. handler' = [handler EXCEPT ![c] = h]
    BY <1>3 DEF RequestStop
  <2>2. ~ Waits(h)
    BY DEF Waits, Idle
  <2> HIDE DEF h
  <2>3. WaitsKept
    BY <1>2, <2>1, <2>2, OtherWaits
  <2>4. LeasesKept
    BY <1>3, LifeOnly, SameOwners DEF RequestStop
  <2>5. QED
    BY <2>3, <2>4
<1>4. CASE StartStop(c)
  <2>1. handler[c].pane \in Panes
    BY <1>4, BusyPlaced DEF StartStop, TypeInv
  <2>2. LeasesKept
    BY <1>4, <2>1, LifeOnly, SameOwners DEF StartStop
  <2>3. WaitsKept
    BY <1>2, <1>4, OtherWaits, Constants DEF StartStop, Waits
  <2>4. QED
    BY <1>1, <2>2, <2>3, SameRecords DEF Unasked
<1>5. QED
  BY <1>1, <1>3, <1>4, SameRecords DEF Unasked

LEMMA DriverUnasked ==
    ASSUME TypeInv, NEW p \in Panes,
           StartShutdownStop(p) \/ \E termFailed \in BOOLEAN : DriverFails(p, termFailed)
    PROVE  Unasked
<1>1. LeasesKept
  <2>1. CASE StartShutdownStop(p)
    BY <2>1, LifeOnly, SameOwners DEF StartShutdownStop
  <2>2. ASSUME NEW termFailed \in BOOLEAN, DriverFails(p, termFailed)
        PROVE  LeasesKept
    BY <2>2, LifeOnly, SameOwners DEF DriverFails
  <2>3. QED
    BY <2>1, <2>2
<1>2. UNCHANGED << conn, scopes, nextLease, handler >>
  BY DEF StartShutdownStop, DriverFails
<1>3. QED
  BY <1>1, <1>2, SameRecords DEF Unasked, WaitsKept

LEMMA FinalizeUnasked ==
    ASSUME TypeInv, NEW p \in Panes, Finalize(p)
    PROVE  Unasked
<1>1. Lost(p) /\ \A q \in Panes \ {p} : pane'[q] = pane[q]
  BY Constants DEF Finalize, TypeInv, IInv, PaneShape, PaneFields, Lost, Owner
<1>2. WaitsKept
  <2>1. SUFFICES ASSUME NEW c \in Conns, Waits(handler'[c])
                 PROVE  handler'[c] = handler[c]
    BY DEF Finalize, WaitsKept
  <2>2. \/ handler'[c] = [handler[c] EXCEPT !.op = "refused"]
        \/ handler'[c] = Idle
        \/ handler'[c] = handler[c]
    BY DEF Finalize
  <2>3. handler[c] \in HandlerType
    BY DEF TypeInv, Types, HandlersOK
  <2>4. QED
    BY <2>1, <2>2, <2>3, Constants DEF Waits, HandlerType
<1>3. QED
  BY <1>1, <1>2, LostLease, SameRecords DEF Finalize, Unasked

LEMMA DeliveryUnasked ==
    ASSUME TypeInv,
           \/ \E notice \in notices, queued \in BOOLEAN : NotifyExit(notice, queued)
           \/ \E c \in Conns : Disconnect(c)
           \/ Shutdown
           \/ UNCHANGED vars
    PROVE  Unasked
<1>1. /\ UNCHANGED << scopes, pane, nextLease, handler >>
      /\ conn' = conn \/ \E cs : conn' = Dropping(cs)
  BY DEF NotifyExit, Disconnect, Shutdown, vars
<1>2. WaitsKept
  BY <1>1, DroppedScope DEF WaitsKept
<1>3. QED
  BY <1>1, <1>2, SameRecords DEF Unasked, LeasesKept, Owner

LEMMA LeavingUnasked ==
    ASSUME TypeInv, NEW c \in Conns, NEW status, Leaving(c, status)
    PROVE  Unasked
<1>1. RecordsKept
  BY LeavingTyped DEF Quit, RecordsKept, Record
<1>2. WaitsKept
  BY DEF Leaving, WaitsKept, TypeInv, IInv, ConnType
<1>3. QED
  BY <1>1, <1>2 DEF Leaving, Unasked, LeasesKept, Owner

\* begin opens at most one record, for an ID no handler can be inside of.
LEMMA BeginAttachAsks ==
    ASSUME TypeInv, AskInv, NEW c \in Conns, NEW id \in Ids, NEW p \in Panes,
           NEW i \in Identities, BeginAttach(c, id, p, i)
    PROVE  AskInv'
<1> DEFINE s == conn[c].scope
           rs == scopes[s]
           body == << p, i >>
           new == BeginRequest(rs, id, body, c)
           found == Disposition(rs, id, body)
<1>1. s \in Scopes /\ UNCHANGED << conn, pane, nextLease >>
  BY ReadyPlaced DEF TypeInv, BeginAttach
<1>2. rs \in ScopeType /\ Replied(rs) /\ body \in Requests
  BY <1>1 DEF TypeInv, Types, ScopesOK, Requests
<1>3. /\ Began(rs, new, id, body, c)
      /\ found \in {"New", "TooManyPending"} =>
            rs.records[id].state = "absent" /\ new.records[id] = Fresh(body, c)
  BY <1>2, BeginChanges
<1>4. scopes'[s] = new /\ \A t \in Scopes \ {s} : scopes'[t] = scopes[t]
  BY <1>1 DEF BeginAttach, TypeInv, Types, ScopesOK
<1>5. /\ handler \in [Conns -> HandlerType]
      /\ \A d \in Conns \ {c} : handler'[d] = handler[d]
      /\ \/ handler' = handler /\ ~ Waits(handler[c])
         \/ ~ Waits(handler'[c])
         \/ /\ found \in {"New", "TooManyPending"}
            /\ handler'[c].id = id /\ handler'[c].pane = p /\ handler'[c].identity = i
  <2>1. handler \in [Conns -> HandlerType] /\ ~ Waits(handler[c])
    BY Constants DEF TypeInv, Types, HandlersOK, BeginAttach, Ready, Waits
  <2>2. \/ handler' = handler
        \/ \E lease : handler' = Attaching(c, id, p, i, "reattach", lease)
        \/ /\ found \in {"New", "TooManyPending"}
           /\ \E op : handler' = Attaching(c, id, p, i, op, 0)
    BY DEF BeginAttach
  <2>3. CASE handler' = handler
    BY <2>1, <2>3
  <2>4. ASSUME NEW lease, handler' = Attaching(c, id, p, i, "reattach", lease)
        PROVE  (\A d \in Conns \ {c} : handler'[d] = handler[d]) /\ ~ Waits(handler'[c])
    BY <2>1, <2>4 DEF Attaching, Waits
  <2>5. ASSUME NEW op, handler' = Attaching(c, id, p, i, op, 0)
        PROVE  /\ \A d \in Conns \ {c} : handler'[d] = handler[d]
               /\ handler'[c].id = id /\ handler'[c].pane = p /\ handler'[c].identity = i
    BY <2>1, <2>5 DEF Attaching
  <2>6. QED
    BY <2>1, <2>2, <2>3, <2>4, <2>5
<1> HIDE DEF s, new, found, body
\* A record is as it was, but for its waiters, or it is the fresh one.
<1>6. ASSUME NEW t \in Scopes, NEW jd \in Ids
      PROVE  \/ /\ Record(t, jd)'.state = Record(t, jd).state
                /\ Record(t, jd)'.request = Record(t, jd).request
                /\ Record(t, jd)'.response = Record(t, jd).response
             \/ /\ t = s /\ jd = id /\ Record(t, jd).state = "absent"
                /\ Record(t, jd)' = Fresh(body, c) /\ scopes'[t].highest = id
  BY <1>3, <1>4 DEF Began, Record
<1>7. ASSUME NEW t \in Scopes
      PROVE  \/ scopes'[t].highest = scopes[t].highest
             \/ t = s /\ scopes'[t].highest = id /\ id > scopes[t].highest
  BY <1>3, <1>4 DEF Began
<1>8. ASSUME NEW t \in Scopes, NEW jd \in Ids
      PROVE  (RecordOK(t, jd) /\ GrantedOnce(t, jd) /\ NamesPane(t, jd))'
  <2>1. RecordOK(t, jd) /\ GrantedOnce(t, jd) /\ NamesPane(t, jd)
    BY DEF AskInv
  <2>2. RecordOK(t, jd)'
    <3>1. jd \in Nat /\ id \in Nat /\ scopes[t].highest \in Nat
      BY RequestCacheAssumption DEF TypeInv, Types, ScopesOK, ScopeType
    <3>2. QED
      BY <1>1, <1>6, <1>7, <2>1, <3>1 DEF RecordOK, Fresh
  <2>3. GrantedOnce(t, jd)'
    <3>1. SUFFICES ASSUME Success(t, jd)',
                          NEW u \in Scopes, NEW kd \in Ids,
                          Record(u, kd)'.response = Record(t, jd)'.response
                   PROVE  u = t /\ kd = jd
      BY DEF GrantedOnce
    <3>2. Success(t, jd) /\ Record(t, jd)'.response = Record(t, jd).response
      BY <1>6, <3>1 DEF Success, Fresh
    <3>3. Record(t, jd).response # None
      BY <3>2, ConstantsTyped DEF Success, TypeInv, Types, ScopesOK, Replied, Record
    <3>4. Record(u, kd)'.response = Record(u, kd).response
      BY <1>6, <3>1, <3>2, <3>3 DEF Fresh
    <3>5. QED
      BY <2>1, <3>1, <3>2, <3>4 DEF GrantedOnce
  <2>4. NamesPane(t, jd)'
    BY <1>1, <1>6, <2>1 DEF NamesPane, Success, Fresh, Owner
  <2>5. QED
    BY <2>2, <2>3, <2>4
\* A handler that was inside of an attach keeps its pending record.
<1>9. ASSUME NEW d \in Conns, Waits(handler[d])
      PROVE  /\ conn[d].scope \in Scopes /\ handler[d].id \in Ids
             /\ Record(conn[d].scope, handler[d].id).state = "pending"
             /\ Record(conn[d].scope, handler[d].id).request =
                  << handler[d].pane, handler[d].identity >>
  BY <1>9, BusyPlaced DEF TypeInv, Types, HandlersOK, Within, Waits, AskInv, Asking
<1>10. ASSUME NEW d \in Conns
       PROVE  Asking(d)'
  <2>1. CASE d = c /\ found \in {"New", "TooManyPending"} /\
             handler'[c].id = id /\ handler'[c].pane = p /\ handler'[c].identity = i
    <3>1. scopes'[conn'[d].scope].records[handler'[d].id] = Fresh(body, c)
      BY <1>1, <1>3, <1>4, <2>1 DEF s
    <3>2. Record(conn[d].scope, handler[d].id)' = Fresh(body, c)
      BY <3>1 DEF Record
    <3>3. QED
      BY <2>1, <3>2 DEF Asking, Fresh, body
  <2>2. CASE handler'[d] = handler[d]
    BY <1>1, <1>6, <1>9, <2>2, SMTT(30) DEF Asking
  <2>3. CASE ~ Waits(handler'[d])
    BY <2>3 DEF Asking
  <2>4. QED
    BY <1>5, <2>1, <2>2, <2>3
<1>11. ASSUME NEW d \in Conns, NEW e \in Conns
       PROVE  Apart(d, e)'
  <2>1. SUFFICES ASSUME d # e, Waits(handler'[d]), Waits(handler'[e]),
                        conn[d].scope = conn[e].scope, handler'[d].id = handler'[e].id
                 PROVE  FALSE
    BY <1>1 DEF Apart
  <2>2. ASSUME NEW g \in Conns \ {c}, Waits(handler'[g]), Waits(handler'[c]),
               conn[g].scope = s, handler'[g].id = handler'[c].id
        PROVE  FALSE
    <3>1. CASE handler' = handler /\ ~ Waits(handler[c])
      BY <2>2, <3>1
    <3>2. CASE ~ (handler' = handler /\ ~ Waits(handler[c]))
      <4>1. handler'[c].id = id /\ Record(s, id).state = "absent"
        BY <1>3, <1>5, <2>2, <3>2 DEF Record
      <4>2. Waits(handler[g]) /\ handler[g].id = id
        BY <1>5, <2>2, <4>1
      <4>3. QED
        BY <1>9, <2>2, <4>1, <4>2
    <3>3. QED
      BY <3>1, <3>2
  <2>3. CASE d # c /\ e # c
    BY <1>5, <2>1, <2>3 DEF AskInv, Apart
  <2>4. CASE d = c \/ e = c
    BY <2>1, <2>2, <2>4 DEF s
  <2>5. QED
    BY <2>3, <2>4
<1>12. QED
  BY <1>8, <1>10, <1>11 DEF AskInv

\* complete answers the handler's own record; every other record stays, or was
\* done and is forgotten.  What it answers is new to the cache.
LEMMA CompletedAsks ==
    ASSUME TypeInv, AskInv, NEW c \in Conns, Waits(handler[c]),
           NEW response \in Responses, scopes' = Completed(c, response),
           response < nextLease',
           \/ response = Failed /\ nextLease' = nextLease
           \/ response = nextLease /\ nextLease' = nextLease + 1,
           handler' = [handler EXCEPT ![c] = Idle],
           \A d \in Conns : conn'[d].scope = conn[d].scope,
           \A p \in Panes :
              \/ Owner(p)' = Owner(p) /\ pane'[p].identity = pane[p].identity
              \/ /\ response = nextLease
                 /\ Owner(p)'.lease = nextLease /\ Owner(p)'.scope = conn[c].scope
                 /\ p = handler[c].pane /\ pane'[p].identity = handler[c].identity
    PROVE  AskInv'
<1> DEFINE s == conn[c].scope
           id == handler[c].id
<1>1. /\ s \in Scopes /\ id \in Ids
      /\ Finished(scopes[s], scopes'[s], id, response)
      /\ \A t \in Scopes \ {s} : scopes'[t] = scopes[t]
  BY CompletedTyped DEF Waits
<1>2. /\ Record(s, id).state = "pending"
      /\ Record(s, id).request = << handler[c].pane, handler[c].identity >>
      /\ nextLease \in Nat \ {0}
  BY DEF AskInv, Asking, TypeInv, IInv
<1> HIDE DEF s, id
<1>3. ASSUME NEW t \in Scopes, NEW jd \in Ids
      PROVE  /\ scopes'[t].highest = scopes[t].highest
             /\ \/ Record(t, jd)' = Record(t, jd) /\ ~ (t = s /\ jd = id)
                \/ Record(t, jd)' = Absent /\ ((t = s /\ jd = id) \/ Record(t, jd).state = "done")
                \/ t = s /\ jd = id /\ Record(t, jd)' = Answered(Record(t, jd), response)
  BY <1>1, <1>2 DEF Finished, Record
<1>4. ASSUME NEW t \in Scopes, NEW jd \in Ids
      PROVE  /\ RecordOK(t, jd) /\ GrantedOnce(t, jd) /\ NamesPane(t, jd)
             /\ \/ Record(t, jd).response = None
                \/ Record(t, jd).response \in Nat /\ Record(t, jd).response < nextLease
  <2>1. RecordOK(t, jd) /\ GrantedOnce(t, jd) /\ NamesPane(t, jd)
    BY DEF AskInv
  <2>2. Record(t, jd).state = "done" => Record(t, jd).response \in Nat
    BY DEF TypeInv, Types, ScopesOK, Replied, Record, Responses, Leases, Failed
  <2>3. QED
    BY <2>1, <2>2 DEF RecordOK
<1>5. response \in Nat /\ None \notin Responses /\ None # response
  <2>1. None \notin Responses
    BY ConstantsTyped
  <2>2. response \in Nat
    BY DEF Responses, Leases, Failed
  <2>3. QED
    BY <2>1, <2>2
<1>6. ASSUME NEW t \in Scopes, NEW jd \in Ids
      PROVE  (RecordOK(t, jd) /\ GrantedOnce(t, jd) /\ NamesPane(t, jd))'
  <2>1. RecordOK(t, jd)'
    <3>1. CASE Record(t, jd)' = Record(t, jd)
      <4>1. RecordOK(t, jd) /\ scopes'[t].highest = scopes[t].highest
        BY <1>3, <1>4
      <4>2. Record(t, jd).state = "done" => Record(t, jd).response < nextLease'
        <5>1. Record(t, jd).state = "done" => Record(t, jd).response \in Nat
          BY DEF TypeInv, Types, ScopesOK, Replied, Record, Responses, Leases, Failed
        <5>2. QED
          BY <1>2, <4>1, <5>1 DEF RecordOK
      <4>3. QED
        BY <3>1, <4>1, <4>2 DEF RecordOK
    <3>2. CASE Record(t, jd)' = Absent
      BY <3>2 DEF RecordOK, Absent
    <3>3. CASE t = s /\ jd = id /\ Record(t, jd)' = Answered(Record(t, jd), response)
      BY <1>2, <1>3, <1>4, <3>3 DEF RecordOK, Answered
    <3>4. QED
      BY <1>3, <3>1, <3>2, <3>3
  <2>2. CASE ~ Success(t, jd)'
    BY <2>1, <2>2 DEF GrantedOnce, NamesPane
  <2>3. CASE Success(t, jd)' /\ Record(t, jd)' = Record(t, jd)
    <3>1. /\ Success(t, jd)
          /\ Record(t, jd).response \in Nat \ {0} /\ Record(t, jd).response < nextLease
      <4>1. Success(t, jd)
        BY <2>3 DEF Success
      <4>2. Record(t, jd).response \in Leases
        BY <4>1 DEF Success, TypeInv, Types, ScopesOK, Replied, Record, Responses
      <4>3. QED
        BY <1>4, <4>1, <4>2 DEF Leases, RecordOK, Success
    <3>2. Record(t, jd).response # response
      BY <1>2, <3>1 DEF Failed
    <3>3. GrantedOnce(t, jd)'
      <4>1. ASSUME NEW u \in Scopes, NEW kd \in Ids,
                   Record(u, kd)'.response = Record(t, jd).response
            PROVE  u = t /\ kd = jd
        <5>1. Record(t, jd).response # None
          BY <1>5, <3>1 DEF Success, TypeInv, Types, ScopesOK, Replied, Record
        <5>2. Record(u, kd)' = Record(u, kd)
          BY <1>3, <3>2, <4>1, <5>1 DEF Absent, Answered
        <5>3. QED
          BY <1>4, <3>1, <4>1, <5>2 DEF GrantedOnce
      <4>2. QED
        BY <2>3, <4>1 DEF GrantedOnce
    <3>4. NamesPane(t, jd)'
      <4>1. ASSUME NEW p \in Panes, Owner(p)'.lease = Record(t, jd).response
            PROVE  Owner(p)' = Owner(p) /\ pane'[p].identity = pane[p].identity
        BY <3>2, <4>1
      <4>2. QED
        BY <1>4, <2>3, <3>1, <4>1 DEF NamesPane
    <3>5. QED
      BY <2>1, <3>3, <3>4
  <2>4. CASE Success(t, jd)' /\ Record(t, jd)' # Record(t, jd)
    <3>1. /\ t = s /\ jd = id /\ Record(t, jd)' = Answered(Record(t, jd), response)
          /\ response # Failed
      BY <1>3, <2>4 DEF Success, Absent, Answered
    <3>2. response = nextLease /\ Record(t, jd)'.response = nextLease
      BY <3>1 DEF Answered
    <3>3. GrantedOnce(t, jd)'
      <4>1. ASSUME NEW u \in Scopes, NEW kd \in Ids, Record(u, kd)'.response = nextLease
            PROVE  u = s /\ kd = id
        BY <1>2, <1>3, <1>4, <1>5, <3>2, <4>1 DEF Absent
      <4>2. QED
        BY <3>1, <3>2, <4>1 DEF GrantedOnce
    <3>4. NamesPane(t, jd)'
      <4>1. ASSUME NEW p \in Panes, Owner(p)'.lease = nextLease
            PROVE  /\ Owner(p)'.scope = s
                   /\ p = handler[c].pane /\ pane'[p].identity = handler[c].identity
        <5>1. Owner(p).lease # nextLease
          BY <1>2, Constants DEF TypeInv, IInv, Granted
        <5>2. QED
          BY <4>1, <5>1 DEF s
      <4>2. Record(t, jd)'.request = << handler[c].pane, handler[c].identity >>
        BY <1>2, <3>1 DEF Answered
      <4>3. QED
        BY <3>1, <3>2, <4>1, <4>2 DEF NamesPane
    <3>5. QED
      BY <2>1, <3>3, <3>4
  <2>5. QED
    BY <2>2, <2>3, <2>4
<1>7. ASSUME NEW d \in Conns, Waits(handler'[d])
      PROVE  d # c /\ handler'[d] = handler[d] /\ conn'[d].scope = conn[d].scope
  BY <1>7, Constants DEF TypeInv, Types, HandlersOK, Waits
<1>8. ASSUME NEW d \in Conns
      PROVE  Asking(d)'
  <2>1. SUFFICES ASSUME Waits(handler'[d])
                 PROVE  Asking(d)'
    BY DEF Asking
  <2>2. d # c /\ Waits(handler[d])
    BY <1>7, <2>1
  <2>3. conn[d].scope \in Scopes /\ handler[d].id \in Ids
    BY <2>2, BusyPlaced DEF TypeInv, Types, HandlersOK, Within, Waits
  <2>4. ~ (conn[d].scope = s /\ handler[d].id = id)
    BY <2>2 DEF AskInv, Apart, s, id
  <2>5. Asking(d)
    BY DEF AskInv
  <2>6. Record(conn[d].scope, handler[d].id)' = Record(conn[d].scope, handler[d].id)
    <3>1. scopes'[conn[d].scope].records[handler[d].id] = scopes[conn[d].scope].records[handler[d].id]
      BY <1>3, <2>2, <2>3, <2>4, <2>5 DEF Asking, Record
    <3>2. QED
      BY <1>7, <2>1, <3>1 DEF Record
  <2>7. QED
    BY <1>7, <2>1, <2>2, <2>5, <2>6 DEF Asking
<1>9. \A d, e \in Conns : Apart(d, e)'
  BY <1>7 DEF AskInv, Apart
<1>10. QED
  BY <1>6, <1>8, <1>9 DEF AskInv

LEMMA CommitNewAsks ==
    ASSUME TypeInv, AskInv, NEW c \in Conns, NEW notified, NEW accepted, NEW deaf,
           CommitNew(c, notified, accepted, deaf)
    PROVE  AskInv'
<1>1. PICK p \in Panes : p = handler[c].pane
  BY BusyPlaced DEF TypeInv, CommitNew
<1> DEFINE owner == [scope |-> conn[c].scope, lease |-> nextLease, conn |-> Selected(c)]
<1>2. pane' = [pane EXCEPT ![p].owner = owner] /\ pane[p].identity = handler[c].identity
  BY <1>1 DEF CommitNew, Attachable
<1> HIDE DEF owner
<1>3. /\ Owner(p)' = owner /\ \A q \in Panes \ {p} : Owner(q)' = Owner(q)
      /\ \A q \in Panes : pane'[q].identity = pane[q].identity
  BY <1>2 DEF TypeInv, IInv, PaneShape, PaneFields, Owner
<1>4. \A q \in Panes :
         \/ Owner(q)' = Owner(q) /\ pane'[q].identity = pane[q].identity
         \/ /\ Owner(q)'.lease = nextLease /\ Owner(q)'.scope = conn[c].scope
            /\ q = handler[c].pane /\ pane'[q].identity = handler[c].identity
  BY <1>1, <1>2, <1>3 DEF owner
<1>5. nextLease \in Responses /\ nextLease' = nextLease + 1 /\ nextLease < nextLease'
  BY DEF CommitNew, LeaseLeft, TypeInv, IInv, Responses, Leases
<1>6. \A d \in Conns : conn'[d].scope = conn[d].scope
  BY DroppedScope DEF CommitNew
<1>7. Waits(handler[c]) /\ scopes' = Completed(c, nextLease) /\ handler' = [handler EXCEPT ![c] = Idle]
  BY DEF CommitNew, Waits
<1>8. QED
  BY <1>4, <1>5, <1>6, <1>7, CompletedAsks

LEMMA CommitFailedAsks ==
    ASSUME TypeInv, AskInv, NEW c \in Conns, CommitFailed(c)
    PROVE  AskInv'
<1>1. /\ Waits(handler[c]) /\ scopes' = Completed(c, Failed)
      /\ handler' = [handler EXCEPT ![c] = Idle]
      /\ UNCHANGED << conn, pane, nextLease >>
  BY DEF CommitFailed, Waits
<1>2. Failed \in Responses /\ Failed < nextLease'
  BY <1>1, ConstantsTyped DEF TypeInv, IInv, Failed
<1>3. \A q \in Panes : Owner(q)' = Owner(q) /\ pane'[q].identity = pane[q].identity
  BY <1>1 DEF Owner
<1>4. \A d \in Conns : conn'[d].scope = conn[d].scope
  BY <1>1
<1>5. QED
  BY <1>1, <1>2, <1>3, <1>4, CompletedAsks

LEMMA NextAskInv == TypeInv /\ AskInv /\ [Next]_vars => AskInv'
<1> SUFFICES ASSUME TypeInv, AskInv, [Next]_vars PROVE AskInv'
  OBVIOUS
<1>1. CASE \E c \in Conns, id \in Ids, p \in Panes, i \in Identities : BeginAttach(c, id, p, i)
  BY <1>1, BeginAttachAsks
<1>2. CASE \E c \in Conns : CommitFailed(c) \/
             \E notified \in BOOLEAN, accepted, deaf \in SUBSET Conns :
                 CommitNew(c, notified, accepted, deaf)
  BY <1>2, CommitFailedAsks, CommitNewAsks
<1>3. CASE Unasked
  BY <1>3, UnaskedKeeps
<1>4. ASSUME ~ \E c \in Conns, id \in Ids, p \in Panes, i \in Identities : BeginAttach(c, id, p, i),
             ~ \E c \in Conns : CommitFailed(c) \/
                 \E notified \in BOOLEAN, accepted, deaf \in SUBSET Conns :
                     CommitNew(c, notified, accepted, deaf)
      PROVE  Unasked
  <2>1. CASE \E c \in Conns : Commit(c)
    BY <1>4, <2>1, RebindUnasked, InputUnasked DEF Commit
  <2>2. CASE \E c \in Conns, p \in Panes, lease \in Leases : Leased(c, p, lease)
    BY <2>2, InputUnasked, DetachUnasked, StopUnasked DEF Leased
  <2>3. CASE \E c \in Conns : EnqueueInput(c) \/ RefuseInput(c) \/ StartStop(c)
    BY <2>3, InputUnasked, StopUnasked
  <2>4. CASE \E c \in Conns : WriterEnds(c) \/ ReaderEnds(c)
    BY <2>4, LeavingUnasked DEF WriterEnds, ReaderEnds
  <2>5. CASE \E p \in Panes : \/ StartShutdownStop(p) \/ Finalize(p)
                              \/ \E termFailed \in BOOLEAN : DriverFails(p, termFailed)
    BY <2>5, DriverUnasked, FinalizeUnasked
  <2>6. CASE \/ \E notice \in notices, queued \in BOOLEAN : NotifyExit(notice, queued)
             \/ \E c \in Conns : Disconnect(c)
             \/ Shutdown
             \/ UNCHANGED vars
    BY <2>6, DeliveryUnasked
  <2>7. CASE \/ \E c \in Conns, s \in Scopes : Hello(c, s)
             \/ \E p \in Panes, i \in Identities : Publish(p, i)
    BY <2>7, HelloUnasked, PublishUnasked
  <2>8. QED
    BY <1>4, <2>1, <2>2, <2>3, <2>4, <2>5, <2>6, <2>7 DEF Next
<1>5. QED
  BY <1>1, <1>2, <1>3, <1>4

\* A lease belongs to one attach: whatever a retry finds in the cache
\* (RequestScopeState::begin) names the pane, the identity and the scope that
\* the lease was granted for, and no second request was answered with it.
THEOREM LeaseNamesItsRequest == Spec => []OwnerAsked
<1>1. Spec => [](TypeInv /\ AskInv)
  BY InitTypeInv, NextTypeInv, InitAskInv, NextAskInv, PTL DEF Spec
<1>2. QED
  BY <1>1, AskedParts, PTL
-----------------------------------------------------------------------------
(***************************************************************************)
(* Late input.  LateInputBounded is not inductive: an input is late at     *)
(* most once because its lease was held when it was checked, because a     *)
(* lease that is held again (a rebind, a stop that gave up) starts a new   *)
(* count, and because no two panes are ever owned under one lease.         *)
(***************************************************************************)
Started(c) == conn[c].status # "new"

\* An input that was checked is under a granted lease of its own pane alone,
\* and is the first that can be late.
InputOK(c) ==
    handler[c].op = "input" =>
        /\ late[c][handler[c].lease] = 0
        /\ handler[c].lease < nextLease
        /\ \A p \in Panes : Owner(p).lease = handler[c].lease => p = handler[c].pane

\* Who may mutate was not late yet; a lease that was not granted was not used.
OnTime(c, p, lease) == MayMutate(c, p, lease) => late[c][lease] = 0
Unused(c, lease)    == lease >= nextLease => late[c][lease] = 0

OwnerStarted(p)       == Owner(p) # NoOwner => Started(Owner(p).conn)
WaitersStarted(s, id) == \A w \in WaitingOn(Record(s, id)) : Started(w)
Exclusive(p, q)       == p # q /\ Owner(p) # NoOwner => Owner(p).lease # Owner(q).lease

LateInv ==
    /\ \A c \in Conns : InputOK(c)
    /\ \A c \in Conns, p \in Panes, lease \in Leases : OnTime(c, p, lease)
    /\ \A c \in Conns, lease \in Leases : Unused(c, lease)
    /\ \A p \in Panes : OwnerStarted(p)
    /\ \A s \in Scopes, id \in Ids : WaitersStarted(s, id)
    /\ \A p, q \in Panes : Exclusive(p, q)
    /\ LateInputBounded

LEMMA InitLateInv == Init => LateInv
<1> SUFFICES ASSUME Init PROVE LateInv
  OBVIOUS
<1>1. /\ \A c \in Conns : handler[c].op = "idle"
      /\ \A p \in Panes : Owner(p) = NoOwner
      /\ \A c \in Conns, lease \in Leases : late[c][lease] = 0
  BY Constants DEF Init, Owner
<1>2. \A s \in Scopes, id \in Ids : WaitingOn(Record(s, id)) = {}
  <2>1. \A s \in Scopes, id \in Ids : Record(s, id).waiters = << >>
    BY DEF Init, Record, EmptyScope, Absent
  <2>2. QED
    BY <2>1 DEF WaitingOn
<1>3. \A c \in Conns : InputOK(c)
  BY <1>1 DEF InputOK
<1>4. \A p \in Panes : OwnerStarted(p)
  BY <1>1 DEF OwnerStarted
<1>5. \A p, q \in Panes : Exclusive(p, q)
  BY <1>1 DEF Exclusive
<1>6. \A s \in Scopes, id \in Ids : WaitersStarted(s, id)
  BY <1>2 DEF WaitersStarted
<1>7. LateInputBounded
  BY <1>1 DEF LateInputBounded
<1>8. QED
  BY <1>1, <1>3, <1>4, <1>5, <1>6, <1>7 DEF LateInv, OnTime, Unused

\* What a step does to the late counts, to who may mutate, to the inputs in
\* flight and to the waiters.
Overtaken(c, lease) ==
    /\ handler[c].op = "input" /\ handler[c].lease = lease /\ handler'[c].op # "input"
    /\ ~ MayMutate(c, handler[c].pane, lease)
    /\ late'[c][lease] = late[c][lease] + 1

LateCounts ==
    \A c \in Conns, lease \in Leases :
        late'[c][lease] = 0 \/ late'[c][lease] = late[c][lease] \/ Overtaken(c, lease)

StillMay ==
    \A c \in Conns, p \in Panes, lease \in Leases :
        MayMutate(c, p, lease)' => MayMutate(c, p, lease) \/ late'[c][lease] = 0

Checked(c) ==
    /\ MayMutate(c, handler'[c].pane, handler'[c].lease)
    /\ handler'[c].pane \in Panes /\ handler'[c].lease \in Leases
    /\ UNCHANGED << pane, nextLease, late >>

Inputs == \A c \in Conns : handler'[c].op = "input" => handler'[c] = handler[c] \/ Checked(c)

Waiters ==
    \A s \in Scopes, id \in Ids :
        \A w \in WaitingOn(Record(s, id))' : w \in WaitingOn(Record(s, id)) \/ Started(w)

NewOwners ==
    \A p \in Panes :
        \/ Owner(p)' = Owner(p) \/ Owner(p)' = NoOwner
        \/ Owner(p)'.conn \in Conns /\ Started(Owner(p)'.conn)

Effects == LateCounts /\ StillMay /\ Inputs /\ Waiters /\ NewOwners

LEMMA EffectsKeep ==
    ASSUME TypeInv, LateInv, Stepped, Effects, TypeInv'
    PROVE  LateInv'
<1>1. /\ \A c \in Conns : InputOK(c)
      /\ \A c \in Conns, p \in Panes, lease \in Leases : OnTime(c, p, lease)
      /\ \A c \in Conns, lease \in Leases : Unused(c, lease)
      /\ \A p, q \in Panes : Exclusive(p, q)
      /\ LateInputBounded
  BY DEF LateInv
<1>2. /\ \A p \in Panes : Granted(p)
      /\ nextLease \in Nat \ {0}
      /\ \A c \in Conns : handler[c].op = "input" => handler[c].lease \in Leases
      /\ \A c \in Conns, lease \in Leases : late[c][lease] \in Nat
      /\ \A lease \in Leases : lease \in Nat \ {0}
  <2>1. \A lease \in Leases : lease \in Nat \ {0}
    BY DEF Leases
  <2>2. QED
    BY <2>1 DEF TypeInv, IInv, Types, HandlersOK, Within, LateOK
<1>3. nextLease' = nextLease \/ nextLease' = nextLease + 1
  BY DEF Stepped, Kinds, Counting, Taken, Rebound
\* A lease in force after the step is at the pane it was at, or it is new.
<1>4. ASSUME NEW p \in Panes
      PROVE  \/ Owner(p)' = NoOwner
             \/ Owner(p)'.lease = Owner(p).lease /\ Owner(p) # NoOwner
             \/ /\ Owner(p)'.lease = nextLease
                /\ \A q \in Panes \ {p} : Owner(q)' = Owner(q)
  <2>1. CASE Same
    BY <2>1 DEF Same
  <2>2. ASSUME NEW q \in Panes, Lost(q)
        PROVE  Owner(p)' = NoOwner \/ Owner(p)' = Owner(p)
    BY <2>2 DEF Lost
  <2>3. ASSUME NEW c \in Conns, NEW q \in Panes, Taken(c, q)
        PROVE  \/ Owner(p)' = Owner(p)
               \/ /\ Owner(p)'.lease = nextLease
                  /\ \A r \in Panes \ {p} : Owner(r)' = Owner(r)
    BY <2>3 DEF Taken
  <2>4. ASSUME NEW c \in Conns, NEW q \in Panes, Rebound(c, q)
        PROVE  \/ Owner(p)' = Owner(p)
               \/ Owner(p)'.lease = Owner(p).lease /\ Owner(p) # NoOwner
    BY <2>4, PaneLeaseAssumption, Constants DEF Rebound, Usable
  <2>5. QED
    BY <2>1, <2>2, <2>3, <2>4 DEF Stepped, Kinds
<1>5. ASSUME NEW c \in Conns
      PROVE  InputOK(c)'
  <2>1. SUFFICES ASSUME handler'[c].op = "input"
                 PROVE  /\ late'[c][handler'[c].lease] = 0
                        /\ handler'[c].lease < nextLease'
                        /\ \A p \in Panes : Owner(p)'.lease = handler'[c].lease => p = handler'[c].pane
    BY DEF InputOK
  <2>2. CASE handler'[c] = handler[c]
    <3>1. InputOK(c) /\ handler[c].lease \in Leases /\ handler[c].lease \in Nat \ {0}
      BY <1>1, <1>2, <2>1, <2>2
    <3>2. late'[c][handler[c].lease] = 0
      BY <2>1, <2>2, <3>1 DEF Effects, LateCounts, Overtaken, InputOK
    <3>3. handler[c].lease < nextLease'
      BY <1>2, <1>3, <2>1, <2>2, <3>1 DEF InputOK
    <3>4. ASSUME NEW p \in Panes, Owner(p)'.lease = handler[c].lease
          PROVE  p = handler[c].pane
      BY <1>2, <1>4, <2>1, <2>2, <3>1, <3>4, Constants DEF InputOK
    <3>5. QED
      BY <2>2, <3>2, <3>3, <3>4
  <2>3. CASE Checked(c)
    <3> DEFINE p == handler'[c].pane
               lease == handler'[c].lease
    <3>1. /\ MayMutate(c, p, lease) /\ p \in Panes /\ lease \in Leases
          /\ UNCHANGED << pane, nextLease, late >>
      BY <2>3 DEF Checked
    <3> HIDE DEF p, lease
    <3>2. Owner(p).lease = lease /\ Owner(p) # NoOwner /\ lease < nextLease
      BY <1>2, <3>1, Constants DEF MayMutate, HoldsLease, Granted
    <3>3. \A q \in Panes : Owner(q).lease = lease => q = p
      BY <1>1, <3>1, <3>2 DEF Exclusive
    <3>4. late[c][lease] = 0
      BY <1>1, <3>1 DEF OnTime
    <3>5. QED
      BY <3>1, <3>2, <3>3, <3>4 DEF Owner, p, lease
  <2>4. QED
    BY <2>1, <2>2, <2>3 DEF Effects, Inputs
<1>6. ASSUME NEW c \in Conns, NEW lease \in Leases
      PROVE  late'[c][lease] <= 1 /\ (Overtaken(c, lease) => late[c][lease] = 0)
  BY <1>1, <1>2 DEF Effects, LateCounts, Overtaken, InputOK, LateInputBounded
<1>7. ASSUME NEW c \in Conns, NEW p \in Panes, NEW lease \in Leases
      PROVE  OnTime(c, p, lease)'
  <2>1. SUFFICES ASSUME MayMutate(c, p, lease)', late'[c][lease] # 0
                 PROVE  FALSE
    BY DEF OnTime
  <2>2. MayMutate(c, p, lease)
    BY <2>1 DEF Effects, StillMay
  <2>3. Overtaken(c, lease)
    BY <1>1, <2>1, <2>2 DEF Effects, LateCounts, OnTime
  <2>4. p = handler[c].pane
    BY <1>1, <2>2, <2>3 DEF MayMutate, HoldsLease, InputOK, Overtaken
  <2>5. QED
    BY <2>2, <2>3, <2>4 DEF Overtaken
<1>8. ASSUME NEW c \in Conns, NEW lease \in Leases
      PROVE  Unused(c, lease)'
  <2>1. Unused(c, lease) /\ InputOK(c) /\ lease \in Nat
    BY <1>1, <1>2
  <2>2. lease >= nextLease' => lease >= nextLease
    BY <1>2, <1>3, <2>1
  <2>3. QED
    BY <1>2, <2>1, <2>2 DEF Effects, LateCounts, Overtaken, InputOK, Unused
<1>9. ASSUME NEW p \in Panes
      PROVE  OwnerStarted(p)'
  <2>1. \A c \in Conns : Started(c) => Started(c)'
    BY DEF Stepped, ConnKept, Started
  <2>2. OwnerStarted(p) /\ (Owner(p) # NoOwner => Owner(p).conn \in Conns)
    BY DEF LateInv, TypeInv, Types, PanesOK, PaneType, OwnerType, Owner
  <2>3. QED
    BY <2>1, <2>2 DEF Effects, NewOwners, OwnerStarted
<1>10. ASSUME NEW s \in Scopes, NEW id \in Ids
       PROVE  WaitersStarted(s, id)'
  <2>1. \A c \in Conns : Started(c) => Started(c)'
    BY DEF Stepped, ConnKept, Started
  <2>2. WaitingOn(Record(s, id))' \subseteq Conns
    BY DEF TypeInv, Types, ScopesOK, ScopeType, RecordType, Record, WaitingOn
  <2>3. QED
    BY <2>1, <2>2 DEF LateInv, WaitersStarted, Effects, Waiters
<1>11. ASSUME NEW p \in Panes, NEW q \in Panes
       PROVE  Exclusive(p, q)'
  <2>1. SUFFICES ASSUME p # q, Owner(p)' # NoOwner, Owner(p)'.lease = Owner(q)'.lease
                 PROVE  FALSE
    BY DEF Exclusive
  <2>2. \A r \in Panes : Owner(r).lease # nextLease
    BY <1>2, Constants DEF Granted
  <2>3. Owner(p).lease # Owner(q).lease \/ Owner(p) = NoOwner
    BY <1>1, <2>1 DEF Exclusive
  <2>4. Owner(q)' # NoOwner
    <3>1. Owner(p)'.lease # 0
      BY <1>2, <1>4, <2>1 DEF Granted
    <3>2. QED
      BY <2>1, <3>1, Constants
  <2>5. QED
    BY <1>4, <2>1, <2>2, <2>3, <2>4
<1>12. QED
  BY <1>5, <1>6, <1>7, <1>8, <1>9, <1>10, <1>11 DEF LateInv, LateInputBounded

\* A pane whose owner stayed and that did not start running, on a connection
\* that did not open: whoever may mutate it could before.
LEMMA MayBefore ==
    ASSUME NEW c, NEW p, NEW lease, MayMutate(c, p, lease)',
           closing => closing', Owner(p)' = Owner(p),
           pane'[p].life = "running" => pane[p].life = "running",
           Open(c)' => Open(c), conn'[c].scope = conn[c].scope
    PROVE  MayMutate(c, p, lease)
BY DEF MayMutate, HoldsLease

LEMMA NobodyMay ==
    ASSUME NEW c, NEW p, NEW lease \in Leases, Owner(p) = NoOwner
    PROVE  ~ MayMutate(c, p, lease)
BY Constants DEF MayMutate, HoldsLease, Leases

LEMMA DroppedOpen ==
    ASSUME TypeInv, conn' = conn \/ \E cs : conn' = Dropping(cs)
    PROVE  \A c \in Conns : (Open(c)' => Open(c)) /\ conn'[c].scope = conn[c].scope
<1>1. conn \in [Conns -> ConnType]
  BY DEF TypeInv, IInv
<1>2. QED
  BY <1>1 DEF Dropping, ConnType, Open

LEMMA SameLate ==
    ASSUME late' = late
    PROVE  LateCounts
BY DEF LateCounts

LEMMA SameInputs ==
    ASSUME TypeInv, NEW c \in Conns, NEW h, h.op # "input",
           \/ handler' = [handler EXCEPT ![c] = h]
           \/ handler' = handler
    PROVE  Inputs
BY DEF Inputs, TypeInv, Types, HandlersOK

LEMMA SameWaiters ==
    ASSUME scopes' = scopes
    PROVE  Waiters
<1>1. ASSUME NEW s \in Scopes, NEW id \in Ids
      PROVE  WaitingOn(Record(s, id))' = WaitingOn(Record(s, id))
  BY DEF WaitingOn, Record
<1>2. QED
  BY <1>1 DEF Waiters

LEMMA WaitersFrom ==
    ASSUME \A s \in Scopes, id \in Ids : \A w \in WaitingOn(scopes'[s].records[id]) :
              w \in WaitingOn(scopes[s].records[id]) \/ Started(w)
    PROVE  Waiters
<1>1. \A s \in Scopes, id \in Ids :
         WaitingOn(Record(s, id))' = WaitingOn(scopes'[s].records[id])
  BY DEF Record, WaitingOn
<1>2. QED
  BY <1>1 DEF Waiters, Record

\* Steps that touch no pane, count or lease.
LEMMA QuietEffects ==
    ASSUME TypeInv, pane' = pane, late' = late, closing => closing',
           \A c \in Conns : (Open(c)' => Open(c)) /\ conn'[c].scope = conn[c].scope
    PROVE  LateCounts /\ StillMay /\ NewOwners
<1>1. \A p \in Panes : Owner(p)' = Owner(p)
  BY DEF Owner
<1>2. ASSUME NEW c \in Conns, NEW p \in Panes, NEW lease \in Leases, MayMutate(c, p, lease)'
      PROVE  MayMutate(c, p, lease)
  BY <1>1, <1>2, MayBefore
<1>3. QED
  BY <1>1, <1>2, SameLate DEF StillMay, NewOwners

LEMMA HelloEffects ==
    ASSUME TypeInv, LateInv, NEW c \in Conns, NEW s \in Scopes, Hello(c, s)
    PROVE  Effects
<1>1. UNCHANGED << pane, late, closing, scopes, handler >> /\ ~ Started(c)
  BY DEF Hello, Started
<1>2. \A d \in Conns \ {c} : conn'[d] = conn[d]
  BY DEF Hello, TypeInv, IInv
<1>3. StillMay
  <2>1. SUFFICES ASSUME NEW d \in Conns, NEW p \in Panes, NEW lease \in Leases,
                        MayMutate(d, p, lease)'
                 PROVE  MayMutate(d, p, lease)
    BY DEF StillMay
  <2>2. Owner(p)' = Owner(p) /\ Owner(p).conn = d /\ Owner(p).lease = lease
    BY <1>1, <2>1 DEF MayMutate, HoldsLease, Owner
  <2>3. Owner(p) # NoOwner
    BY <2>2, Constants DEF Leases
  <2>4. d # c
    BY <1>1, <2>2, <2>3 DEF LateInv, OwnerStarted
  <2>5. QED
    BY <1>1, <1>2, <2>1, <2>2, <2>4, MayBefore DEF Open
<1>4. Inputs /\ NewOwners
  BY <1>1 DEF Inputs, NewOwners, Owner
<1>5. QED
  BY <1>1, <1>3, <1>4, SameLate, SameWaiters DEF Effects

LEMMA PublishEffects ==
    ASSUME TypeInv, NEW p \in Panes, NEW i \in Identities, Publish(p, i)
    PROVE  Effects
<1>1. UNCHANGED << conn, late, closing, scopes, handler >>
  BY DEF Publish
<1>2. Owner(p)' = NoOwner /\ \A q \in Panes \ {p} : pane'[q] = pane[q]
  BY Constants DEF Publish, TypeInv, IInv, PaneShape, PaneFields, Owner
<1>3. ASSUME NEW c \in Conns, NEW q \in Panes, NEW lease \in Leases, MayMutate(c, q, lease)'
      PROVE  MayMutate(c, q, lease)
  <2>1. CASE q = p
    BY <1>2, <1>3, <2>1, Constants DEF MayMutate, HoldsLease, Leases
  <2>2. CASE q # p
    BY <1>1, <1>2, <1>3, <2>2, MayBefore DEF Owner, Open
  <2>3. QED
    BY <2>1, <2>2
<1>4. Inputs /\ NewOwners
  BY <1>1, <1>2 DEF Inputs, NewOwners, Owner
<1>5. QED
  BY <1>1, <1>3, <1>4, SameLate, SameWaiters DEF Effects, StillMay

LEMMA BeginAttachEffects ==
    ASSUME TypeInv, NEW c \in Conns, NEW id \in Ids, NEW p \in Panes, NEW i \in Identities,
           BeginAttach(c, id, p, i)
    PROVE  Effects
<1> DEFINE s == conn[c].scope
           body == << p, i >>
           new == BeginRequest(scopes[s], id, body, c)
<1>1. UNCHANGED << conn, pane, late, closing >> /\ s \in Scopes /\ Started(c)
  BY ReadyPlaced DEF BeginAttach, TypeInv, Started
<1>2. Began(scopes[s], new, id, body, c)
  BY <1>1, BeginChanges DEF TypeInv, Types, ScopesOK, Requests
<1>3. WaitingOn(Fresh(body, c)) = {c}
  BY FreshTyped DEF Requests
<1>4. scopes'[s] = new /\ \A t \in Scopes \ {s} : scopes'[t] = scopes[t]
  BY <1>1 DEF BeginAttach, TypeInv, Types, ScopesOK
<1> HIDE DEF s, new, body
<1>5. Waiters
  <2>1. SUFFICES ASSUME NEW t \in Scopes, NEW jd \in Ids,
                        NEW w \in WaitingOn(scopes'[t].records[jd])
                 PROVE  w \in WaitingOn(scopes[t].records[jd]) \/ Started(w)
    BY WaitersFrom
  <2>2. QED
    BY <1>1, <1>2, <1>3, <1>4, <2>1 DEF Began
<1>6. Inputs
  <2>1. \A d \in Conns \ {c} : handler'[d] = handler[d]
    BY DEF BeginAttach, Attaching, TypeInv, Types, HandlersOK
  <2>2. handler'[c].op # "input"
    <3>1. handler[c].op # "input" /\ handler \in [Conns -> HandlerType]
      BY Constants DEF BeginAttach, Ready, TypeInv, Types, HandlersOK
    <3>2. \A op, lease : op # "input" /\ handler' = Attaching(c, id, p, i, op, lease) =>
              handler'[c].op # "input"
      BY <3>1 DEF Attaching
    <3>3. \/ handler' = handler
          \/ \E op, lease : op # "input" /\ handler' = Attaching(c, id, p, i, op, lease)
      BY DEF BeginAttach
    <3>4. QED
      BY <3>1, <3>2, <3>3
  <2>3. QED
    BY <2>1, <2>2 DEF Inputs
<1>7. QED
  BY <1>1, <1>5, <1>6, QuietEffects DEF Effects, Open

\* Whoever waited for a completed request waits no longer.
LEMMA CompletedWaiters ==
    ASSUME TypeInv, NEW c \in Conns, Waits(handler[c]), NEW response \in Responses,
           scopes' = Completed(c, response)
    PROVE  Waiters
<1>1. /\ conn[c].scope \in Scopes
      /\ Finished(scopes[conn[c].scope], scopes'[conn[c].scope], handler[c].id, response)
      /\ \A s \in Scopes \ {conn[c].scope} : scopes'[s] = scopes[s]
  BY CompletedTyped DEF Waits
<1>2. /\ WaitingOn(Absent) = {}
      /\ \A record : WaitingOn(Answered(record, response)) = {}
  BY DEF WaitingOn, Absent, Answered
<1>3. \A s \in Scopes, id \in Ids :
         WaitingOn(scopes'[s].records[id]) \in {WaitingOn(scopes[s].records[id]), {}}
  BY <1>1, <1>2 DEF Finished
<1>4. QED
  BY <1>3, WaitersFrom

LEMMA CommitNewEffects ==
    ASSUME TypeInv, LateInv, NEW c \in Conns, NEW notified, NEW accepted, NEW deaf,
           CommitNew(c, notified, accepted, deaf)
    PROVE  Effects
<1>1. PICK p \in Panes : p = handler[c].pane
  BY BusyPlaced DEF TypeInv, CommitNew
<1> DEFINE owner == [scope |-> conn[c].scope, lease |-> nextLease, conn |-> Selected(c)]
<1>2. pane' = [pane EXCEPT ![p].owner = owner] /\ UNCHANGED << late, closing >>
  BY <1>1 DEF CommitNew
<1>3. Selected(c) \in Conns /\ Started(Selected(c))
  <2>1. /\ Selected(c) \in Conns
        /\ \/ Selected(c) = c
           \/ Selected(c) \in WaitingOn(scopes[conn[c].scope].records[handler[c].id])
    BY ListedTyped DEF CommitNew
  <2>2. Started(c) /\ conn[c].scope \in Scopes /\ handler[c].id \in Ids
    BY BusyPlaced DEF CommitNew, Started, TypeInv, Types, HandlersOK, Within
  <2>3. QED
    BY <2>1, <2>2 DEF LateInv, WaitersStarted, Record
<1> HIDE DEF owner
<1>4. /\ Owner(p)' = owner /\ \A q \in Panes \ {p} : Owner(q)' = Owner(q)
      /\ \A q \in Panes : pane'[q].life = pane[q].life
  BY <1>2 DEF TypeInv, IInv, PaneShape, PaneFields, Owner
<1>5. \A d \in Conns : (Open(d)' => Open(d)) /\ conn'[d].scope = conn[d].scope
  BY DroppedOpen DEF CommitNew
<1>6. StillMay
  <2>1. SUFFICES ASSUME NEW d \in Conns, NEW q \in Panes, NEW lease \in Leases,
                        MayMutate(d, q, lease)'
                 PROVE  MayMutate(d, q, lease) \/ late'[d][lease] = 0
    BY DEF StillMay
  <2>2. CASE q = p
    <3>1. lease = nextLease
      BY <1>4, <2>1, <2>2 DEF MayMutate, HoldsLease, owner
    <3>2. late[d][lease] = 0
      BY <3>1 DEF LateInv, Unused, TypeInv, IInv
    <3>3. QED
      BY <1>2, <3>2
  <2>3. CASE q # p
    BY <1>2, <1>4, <1>5, <2>1, <2>3, MayBefore
  <2>4. QED
    BY <2>2, <2>3
<1>7. NewOwners
  BY <1>3, <1>4 DEF NewOwners, owner
<1>8. Inputs
  BY SameInputs, Constants DEF CommitNew
<1>9. Waiters
  BY CompletedWaiters DEF CommitNew, LeaseLeft, Waits, TypeInv, IInv, Responses, Leases
<1>10. QED
  BY <1>2, <1>6, <1>7, <1>8, <1>9, SameLate DEF Effects

LEMMA CommitFailedEffects ==
    ASSUME TypeInv, NEW c \in Conns, CommitFailed(c)
    PROVE  Effects
<1>1. Waiters
  BY CompletedWaiters, ConstantsTyped DEF CommitFailed, Waits
<1>2. Inputs
  BY SameInputs, Constants DEF CommitFailed
<1>3. QED
  BY <1>1, <1>2, QuietEffects DEF CommitFailed, Effects, Open

LEMMA CommitRebindEffects ==
    ASSUME TypeInv, NEW c \in Conns, NEW notified, NEW accepted, CommitRebind(c, notified, accepted)
    PROVE  Effects
<1>1. PICK p \in Panes : p = handler[c].pane
  BY BusyPlaced DEF TypeInv, CommitRebind
<1> DEFINE owner == [scope |-> conn[c].scope, lease |-> handler[c].lease, conn |-> c]
<1>2. /\ pane' = [pane EXCEPT ![p].owner = owner] /\ closing' = closing /\ Open(c)
      /\ Owner(p).scope = conn[c].scope /\ Owner(p).lease = handler[c].lease
      /\ late' = IF Owner(p).conn = c THEN late ELSE [late EXCEPT ![c][handler[c].lease] = 0]
  BY <1>1 DEF CommitRebind, Usable
<1> HIDE DEF owner
<1>3. /\ Owner(p)' = owner /\ \A q \in Panes \ {p} : Owner(q)' = Owner(q)
      /\ \A q \in Panes : pane'[q].life = pane[q].life
  BY <1>2 DEF TypeInv, IInv, PaneShape, PaneFields, Owner
<1>4. \A d \in Conns : (Open(d)' => Open(d)) /\ conn'[d].scope = conn[d].scope
  BY DroppedOpen DEF CommitRebind
<1>5. late \in [Conns -> [Leases -> Nat]] /\ handler[c].lease \in Leases
  BY DEF TypeInv, Types, LateOK, HandlersOK, Within, CommitRebind
<1>6. LateCounts
  BY <1>2, <1>5 DEF LateCounts
<1>7. StillMay
  <2>1. SUFFICES ASSUME NEW d \in Conns, NEW q \in Panes, NEW lease \in Leases,
                        MayMutate(d, q, lease)'
                 PROVE  MayMutate(d, q, lease) \/ late'[d][lease] = 0
    BY DEF StillMay
  <2>2. CASE q = p
    <3>1. d = c /\ lease = handler[c].lease
      BY <1>3, <2>1, <2>2 DEF MayMutate, HoldsLease, owner
    <3>2. CASE Owner(p).conn = c
      BY <1>2, <1>3, <2>1, <2>2, <3>1, <3>2 DEF MayMutate, HoldsLease
    <3>3. CASE Owner(p).conn # c
      BY <1>2, <1>5, <3>1, <3>3
    <3>4. QED
      BY <3>2, <3>3
  <2>3. CASE q # p
    BY <1>2, <1>3, <1>4, <2>1, <2>3, MayBefore
  <2>4. QED
    BY <2>2, <2>3
<1>8. NewOwners
  BY <1>2, <1>3 DEF NewOwners, owner, Open, Started
<1>9. Inputs /\ Waiters
  BY SameInputs, SameWaiters, Constants DEF CommitRebind
<1>10. QED
  BY <1>6, <1>7, <1>8, <1>9 DEF Effects

LEMMA ValidateInputEffects ==
    ASSUME TypeInv, NEW c \in Conns, NEW p \in Panes, NEW lease \in Leases,
           ValidateInput(c, p, lease)
    PROVE  Effects
<1>1. UNCHANGED << conn, pane, closing, scopes, late, nextLease >>
  BY DEF ValidateInput
<1>2. /\ \A d \in Conns \ {c} : handler'[d] = handler[d]
      /\ handler'[c].pane = p /\ handler'[c].lease = lease
  BY DEF ValidateInput, Idle, TypeInv, Types, HandlersOK
<1>3. Inputs
  BY <1>1, <1>2 DEF ValidateInput, Inputs, Checked
<1>4. QED
  BY <1>1, <1>3, SameWaiters, QuietEffects DEF Effects, Open

LEMMA EnqueueInputEffects ==
    ASSUME TypeInv, NEW c \in Conns, EnqueueInput(c)
    PROVE  Effects
<1>1. UNCHANGED << conn, pane, closing, scopes >> /\ handler'[c] = Idle
  BY DEF EnqueueInput, TypeInv, Types, HandlersOK
<1>2. LateCounts
  <2>1. CASE late' = late
    BY <2>1, SameLate
  <2>2. CASE late' # late
    <3>1. /\ late' = [late EXCEPT ![c][handler[c].lease] = @ + 1]
          /\ ~ MayMutate(c, handler[c].pane, handler[c].lease) /\ handler[c].op = "input"
      BY <2>2 DEF EnqueueInput
    <3>2. late \in [Conns -> [Leases -> Nat]] /\ handler[c].lease \in Leases
      BY <3>1 DEF TypeInv, Types, LateOK, HandlersOK, Within
    <3>3. Overtaken(c, handler[c].lease)
      BY <1>1, <3>1, <3>2, Constants DEF Overtaken
    <3>4. QED
      BY <3>1, <3>2, <3>3 DEF LateCounts
  <2>3. QED
    BY <2>1, <2>2
<1>3. StillMay
  BY <1>1 DEF StillMay, MayMutate, HoldsLease, Owner, Open
<1>4. NewOwners
  BY <1>1 DEF NewOwners, Owner
<1>5. Inputs
  BY SameInputs, Constants DEF EnqueueInput
<1>6. QED
  BY <1>1, <1>2, <1>3, <1>4, <1>5, SameWaiters DEF Effects

LEMMA QuietHandlerEffects ==
    ASSUME TypeInv, NEW c \in Conns, CommitSuperseded(c) \/ RefuseInput(c)
    PROVE  Effects
<1>1. UNCHANGED << conn, pane, closing, scopes, late >> /\ handler' = [handler EXCEPT ![c] = Idle]
  BY DEF CommitSuperseded, RefuseInput
<1>2. QED
  BY <1>1, SameInputs, SameWaiters, QuietEffects, Constants DEF Effects, Open

LEMMA DetachEffects ==
    ASSUME TypeInv, NEW c \in Conns, NEW p \in Panes, NEW lease \in Leases, Detach(c, p, lease)
    PROVE  Effects
<1>1. UNCHANGED << conn, closing, scopes, late, handler >>
  BY DEF Detach
<1>2. Owner(p)' = NoOwner /\ \A q \in Panes \ {p} : pane'[q] = pane[q]
  BY DEF Detach, TypeInv, IInv, PaneShape, PaneFields, Owner
<1>3. StillMay
  <2>1. SUFFICES ASSUME NEW d \in Conns, NEW q \in Panes, NEW l \in Leases, MayMutate(d, q, l)'
                 PROVE  MayMutate(d, q, l)
    BY DEF StillMay
  <2>2. q # p
    BY <1>2, <2>1, Constants DEF MayMutate, HoldsLease, Leases
  <2>3. QED
    BY <1>1, <1>2, <2>1, <2>2, MayBefore DEF Owner, Open
<1>4. NewOwners /\ Inputs
  BY <1>1, <1>2 DEF NewOwners, Owner, Inputs
<1>5. QED
  BY <1>1, <1>3, <1>4, SameLate, SameWaiters DEF Effects

\* A stop is requested or started: the pane does not run any more.
LEMMA StoppingEffects ==
    ASSUME TypeInv, NEW p \in Panes, NEW driver,
           \/ pane' = [pane EXCEPT ![p].life = "stopping"]
           \/ pane' = [pane EXCEPT ![p].life = "stopping", ![p].driver = driver],
           UNCHANGED << conn, closing, scopes, late >>
    PROVE  LateCounts /\ StillMay /\ NewOwners /\ Waiters
<1>1. Same
  BY LifeOnly DEF Same
<1>2. pane'[p].life = "stopping" /\ \A q \in Panes \ {p} : pane'[q] = pane[q]
  BY DEF TypeInv, IInv, PaneShape, PaneFields
<1>3. StillMay
  <2>1. SUFFICES ASSUME NEW d \in Conns, NEW q \in Panes, NEW l \in Leases, MayMutate(d, q, l)'
                 PROVE  MayMutate(d, q, l)
    BY DEF StillMay
  <2>2. q # p
    BY <1>2, <2>1 DEF MayMutate
  <2>3. QED
    BY <1>1, <1>2, <2>1, <2>2, MayBefore DEF Same, Open
<1>4. QED
  BY <1>1, <1>3, SameLate, SameWaiters DEF Same, NewOwners

LEMMA StopEffects ==
    ASSUME TypeInv, NEW c \in Conns,
           \/ \E p \in Panes, lease \in Leases : RequestStop(c, p, lease)
           \/ StartStop(c)
    PROVE  Effects
<1>1. ASSUME NEW p \in Panes, NEW lease \in Leases, RequestStop(c, p, lease)
      PROVE  Effects
  <2> DEFINE h == [Idle EXCEPT !.op = "stop", !.pane = p]
  <2>1. handler' = [handler EXCEPT ![c] = h]
    BY <1>1 DEF RequestStop
  <2>2. h.op # "input"
    BY DEF Idle
  <2> HIDE DEF h
  <2>3. Inputs
    BY <2>1, <2>2, SameInputs
  <2>4. QED
    BY <1>1, <2>3, StoppingEffects DEF RequestStop, Effects
<1>2. CASE StartStop(c)
  <2>1. handler[c].pane \in Panes
    BY <1>2, BusyPlaced DEF StartStop, TypeInv
  <2>2. Inputs
    BY <1>2, SameInputs, Constants DEF StartStop
  <2>3. QED
    BY <1>2, <2>1, <2>2, StoppingEffects DEF StartStop, Effects
<1>3. QED
  BY <1>1, <1>2

LEMMA StartShutdownStopEffects ==
    ASSUME TypeInv, NEW p \in Panes, StartShutdownStop(p)
    PROVE  Effects
<1>1. Inputs
  BY DEF StartShutdownStop, Inputs
<1>2. QED
  BY <1>1, StoppingEffects DEF StartShutdownStop, Effects

\* The driver gave up before the pane was signalled: the pane runs again for its
\* owner, whose late inputs are counted anew.
LEMMA DriverFailsEffects ==
    ASSUME TypeInv, NEW p \in Panes, NEW termFailed \in BOOLEAN, DriverFails(p, termFailed)
    PROVE  Effects
<1>1. UNCHANGED << conn, closing, scopes, handler >>
  BY DEF DriverFails
<1>2. Same
  BY LifeOnly DEF DriverFails
<1>3. /\ pane'[p].life = IF termFailed THEN "running" ELSE "stopping"
      /\ \A q \in Panes \ {p} : pane'[q] = pane[q]
  BY DEF DriverFails, TypeInv, IInv, PaneShape, PaneFields
<1>4. /\ late \in [Conns -> [Leases -> Nat]]
      /\ Owner(p) # NoOwner => Owner(p).conn \in Conns /\ Owner(p).lease \in Leases
  BY DEF TypeInv, Types, LateOK, PanesOK, PaneType, OwnerType, Owner
<1>5. LateCounts
  BY <1>4 DEF DriverFails, LateCounts
<1>6. StillMay
  <2>1. SUFFICES ASSUME NEW d \in Conns, NEW q \in Panes, NEW l \in Leases, MayMutate(d, q, l)'
                 PROVE  MayMutate(d, q, l) \/ late'[d][l] = 0
    BY DEF StillMay
  <2>2. CASE q = p
    <3>1. termFailed /\ Owner(p).conn = d /\ Owner(p).lease = l
      BY <1>2, <1>3, <2>1, <2>2 DEF MayMutate, HoldsLease, Same
    <3>2. Owner(p) # NoOwner
      BY <3>1, Constants DEF Leases
    <3>3. QED
      BY <1>4, <3>1, <3>2 DEF DriverFails
  <2>3. CASE q # p
    BY <1>1, <1>2, <1>3, <2>1, <2>3, MayBefore DEF Same, Open
  <2>4. QED
    BY <2>2, <2>3
<1>7. Inputs /\ NewOwners
  BY <1>1, <1>2 DEF Inputs, NewOwners, Same
<1>8. QED
  BY <1>1, <1>5, <1>6, <1>7, SameWaiters DEF Effects

LEMMA FinalizeEffects ==
    ASSUME TypeInv, NEW p \in Panes, Finalize(p)
    PROVE  Effects
<1>1. UNCHANGED << conn, closing, scopes, late >>
  BY DEF Finalize
<1>2. Owner(p)' = NoOwner /\ \A q \in Panes \ {p} : pane'[q] = pane[q]
  BY Constants DEF Finalize, TypeInv, IInv, PaneShape, PaneFields, Owner
<1>3. StillMay
  <2>1. SUFFICES ASSUME NEW d \in Conns, NEW q \in Panes, NEW l \in Leases, MayMutate(d, q, l)'
                 PROVE  MayMutate(d, q, l)
    BY DEF StillMay
  <2>2. q # p
    BY <1>2, <2>1, Constants DEF MayMutate, HoldsLease, Leases
  <2>3. QED
    BY <1>1, <1>2, <2>1, <2>2, MayBefore DEF Owner, Open
<1>4. Inputs
  <2>1. SUFFICES ASSUME NEW c \in Conns, handler'[c].op = "input"
                 PROVE  handler'[c] = handler[c]
    BY DEF Inputs
  <2>2. \/ handler'[c] = [handler[c] EXCEPT !.op = "refused"]
        \/ handler'[c] = Idle
        \/ handler'[c] = handler[c]
    BY DEF Finalize
  <2>3. handler[c] \in HandlerType
    BY DEF TypeInv, Types, HandlersOK
  <2>4. QED
    BY <2>1, <2>2, <2>3, Constants DEF HandlerType
<1>5. NewOwners
  BY <1>2 DEF NewOwners, Owner
<1>6. QED
  BY <1>1, <1>3, <1>4, <1>5, SameLate, SameWaiters DEF Effects

LEMMA DeliveryEffects ==
    ASSUME TypeInv,
           \/ \E notice \in notices, queued \in BOOLEAN : NotifyExit(notice, queued)
           \/ \E c \in Conns : Disconnect(c)
           \/ Shutdown
           \/ UNCHANGED vars
    PROVE  Effects
<1>1. /\ UNCHANGED << scopes, pane, late, handler >>
      /\ conn' = conn \/ \E cs : conn' = Dropping(cs)
      /\ closing' = closing \/ closing' = TRUE
  BY DEF NotifyExit, Disconnect, Shutdown, vars
<1>2. Inputs
  BY <1>1 DEF Inputs
<1>3. closing => closing'
  BY <1>1, Zenon
<1>4. QED
  BY <1>1, <1>2, <1>3, DroppedOpen, QuietEffects, SameWaiters DEF Effects

LEMMA LeavingEffects ==
    ASSUME TypeInv, NEW c \in Conns, NEW status \in {"inactive", "closed"}, Leaving(c, status)
    PROVE  Effects
<1>1. Waiters
  BY LeavingTyped, WaitersFrom DEF Quit
<1>2. \A d \in Conns : (Open(d)' => Open(d)) /\ conn'[d].scope = conn[d].scope
  BY DEF Leaving, TypeInv, IInv, ConnType, Open
<1>3. Inputs
  BY DEF Leaving, Inputs
<1>4. QED
  BY <1>1, <1>2, <1>3, QuietEffects DEF Leaving, Effects

LEMMA NextLateInv == TypeInv /\ LateInv /\ [Next]_vars => LateInv'
<1> SUFFICES ASSUME TypeInv, LateInv, [Next]_vars PROVE LateInv'
  OBVIOUS
<1>1. Effects
  <2>1. CASE \/ \E c \in Conns, s \in Scopes : Hello(c, s)
             \/ \E p \in Panes, i \in Identities : Publish(p, i)
    BY <2>1, HelloEffects, PublishEffects
  <2>2. CASE \E c \in Conns, id \in Ids, p \in Panes, i \in Identities : BeginAttach(c, id, p, i)
    BY <2>2, BeginAttachEffects
  <2>3. CASE \E c \in Conns : Commit(c)
    BY <2>3, CommitNewEffects, CommitFailedEffects, CommitRebindEffects, QuietHandlerEffects
       DEF Commit
  <2>4. CASE \E c \in Conns, p \in Panes, lease \in Leases : Leased(c, p, lease)
    BY <2>4, ValidateInputEffects, DetachEffects, StopEffects DEF Leased
  <2>5. CASE \E c \in Conns : EnqueueInput(c) \/ RefuseInput(c) \/ StartStop(c)
    BY <2>5, EnqueueInputEffects, QuietHandlerEffects, StopEffects
  <2>6. CASE \E c \in Conns : WriterEnds(c) \/ ReaderEnds(c)
    BY <2>6, LeavingEffects DEF WriterEnds, ReaderEnds
  <2>7. CASE \E p \in Panes : \/ StartShutdownStop(p) \/ Finalize(p)
                              \/ \E termFailed \in BOOLEAN : DriverFails(p, termFailed)
    BY <2>7, StartShutdownStopEffects, FinalizeEffects, DriverFailsEffects
  <2>8. CASE \/ \E notice \in notices, queued \in BOOLEAN : NotifyExit(notice, queued)
             \/ \E c \in Conns : Disconnect(c)
             \/ Shutdown
             \/ UNCHANGED vars
    BY <2>8, DeliveryEffects
  <2>9. QED
    BY <2>1, <2>2, <2>3, <2>4, <2>5, <2>6, <2>7, <2>8 DEF Next
<1>2. Stepped
  BY NextStep DEF TypeInv
<1>3. TypeInv'
  BY NextTypeInv
<1>4. QED
  BY <1>1, <1>2, <1>3, EffectsKeep

\* Once a connection lost its pane, one input at most still reaches it: the one
\* its reader thread had checked under the locks and not yet queued
\* (handle_leased_input enqueues after it released them).
THEOREM LateInputAtMostOne == Spec => []LateInputBounded
<1>1. Spec => [](TypeInv /\ LateInv)
  BY InitTypeInv, NextTypeInv, InitLateInv, NextLateInv, PTL DEF Spec
<1>2. LateInv => LateInputBounded
  BY DEF LateInv
<1>3. QED
  BY <1>1, <1>2, PTL
-----------------------------------------------------------------------------
(***************************************************************************)
(* Beliefs.  BeliefSound is inductive with two facts about who can believe *)
(* and own at all: a connection that is not open was told nothing, and a   *)
(* pane that is absent has no owner.                                       *)
(***************************************************************************)
Held(c, p, lease) == Owner(p).conn = c /\ Owner(p).lease = lease
Excused(c, p, lease) == << c, p, lease >> \in notices \cup unheard

Backed(c, p) == Held(c, p, told[c][p]) \/ Excused(c, p, told[c][p])

Sound(c, p)  == Open(c) /\ told[c][p] # 0 => Backed(c, p)
Silent(c, p) == ~ Open(c) => told[c][p] = 0
Unowned(p)   == pane[p].life = "absent" => Owner(p) = NoOwner

BeliefInv ==
    /\ \A c \in Conns, p \in Panes : Sound(c, p) /\ Silent(c, p)
    /\ \A p \in Panes : Unowned(p)

LEMMA BeliefParts == BeliefInv => BeliefSound
BY DEF BeliefInv, BeliefSound, Sound, Backed, Held, Excused

LEMMA InitBeliefInv == Init => BeliefInv
<1> SUFFICES ASSUME Init PROVE BeliefInv
  OBVIOUS
<1>1. /\ \A c \in Conns, p \in Panes : told[c][p] = 0
      /\ \A p \in Panes : Owner(p) = NoOwner
  BY Constants DEF Init, Owner
<1>2. QED
  BY <1>1 DEF BeliefInv, Sound, Silent, Unowned

LEMMA NobodyHolds ==
    ASSUME NEW c \in Conns, NEW p, NEW lease, Owner(p) = NoOwner
    PROVE  ~ Held(c, p, lease)
BY PaneLeaseAssumption DEF Held, NoOwner

\* A belief that a step leaves alone, with what made it sound.
LEMMA StaysSound ==
    ASSUME NEW c, NEW p, Sound(c, p), Open(c)' => Open(c),
           told'[c][p] = told[c][p],
           Held(c, p, told[c][p]) => Backed(c, p)',
           Excused(c, p, told[c][p]) => Backed(c, p)'
    PROVE  Sound(c, p)'
BY DEF Sound, Backed

LEMMA StaysExcused ==
    ASSUME NEW c, NEW p, told'[c][p] = told[c][p], Excused(c, p, told[c][p]),
           << c, p, told[c][p] >> \in notices => << c, p, told[c][p] >> \in notices' \cup unheard',
           << c, p, told[c][p] >> \in unheard => << c, p, told[c][p] >> \in notices' \cup unheard'
    PROVE  Backed(c, p)'
BY DEF Excused, Backed

LEMMA StaysHeld ==
    ASSUME NEW c, NEW p, told'[c][p] = told[c][p], Held(c, p, told[c][p]), Owner(p)' = Owner(p)
    PROVE  Backed(c, p)'
BY DEF Held, Backed

\* Steps that change neither beliefs nor what they rest on.
LEMMA QuietBeliefs ==
    ASSUME BeliefInv, UNCHANGED << told, notices, unheard, conn >>,
           Same, \A p \in Panes : Unowned(p)'
    PROVE  BeliefInv'
<1>1. \A c \in Conns, p \in Panes : Sound(c, p) /\ Silent(c, p)
  BY DEF BeliefInv
<1>2. ASSUME NEW c \in Conns, NEW p \in Panes
      PROVE  Sound(c, p)' /\ Silent(c, p)'
  BY <1>1 DEF Same, Sound, Silent, Backed, Held, Excused, Open
<1>3. QED
  BY <1>2 DEF BeliefInv

LEMMA HelloBelieves ==
    ASSUME TypeInv, BeliefInv, NEW c \in Conns, NEW s \in Scopes, Hello(c, s)
    PROVE  BeliefInv'
<1>1. /\ UNCHANGED << told, notices, unheard, pane >> /\ ~ Open(c)
      /\ \A d \in Conns \ {c} : conn'[d] = conn[d]
      /\ conn'[c].status = "open"
  BY DEF Hello, Open, TypeInv, IInv
<1>2. ASSUME NEW d \in Conns, NEW p \in Panes
      PROVE  Sound(d, p)' /\ Silent(d, p)'
  <2>1. Sound(d, p) /\ Silent(d, p)
    BY DEF BeliefInv
  <2>2. CASE d = c
    BY <1>1, <2>1, <2>2 DEF Sound, Silent, Open
  <2>3. CASE d # c
    BY <1>1, <2>1, <2>3 DEF Sound, Silent, Open, Backed, Held, Excused, Owner
  <2>4. QED
    BY <2>2, <2>3
<1>3. \A p \in Panes : Unowned(p)'
  BY <1>1 DEF BeliefInv, Unowned, Owner
<1>4. QED
  BY <1>2, <1>3 DEF BeliefInv

LEMMA PublishBelieves ==
    ASSUME TypeInv, BeliefInv, NEW p \in Panes, NEW i \in Identities, Publish(p, i)
    PROVE  BeliefInv'
<1>1. Owner(p) = NoOwner
  BY DEF Publish, BeliefInv, Unowned
<1>2. pane'[p].owner = NoOwner /\ \A q \in Panes \ {p} : pane'[q] = pane[q]
  BY Constants DEF Publish, TypeInv, IInv, PaneShape, PaneFields
<1>3. Same /\ \A q \in Panes : Unowned(q)'
  BY <1>1, <1>2 DEF Same, Owner, BeliefInv, Unowned
<1>4. QED
  BY <1>3, QuietBeliefs DEF Publish

\* Nothing about panes or beliefs changes.
LEMMA IdleBelieves ==
    ASSUME BeliefInv, UNCHANGED << told, notices, unheard, conn, pane >>
    PROVE  BeliefInv'
<1>1. Same /\ \A p \in Panes : Unowned(p)'
  BY DEF Same, Owner, BeliefInv, Unowned
<1>2. QED
  BY <1>1, QuietBeliefs

LEMMA LifeBelieves ==
    ASSUME TypeInv, BeliefInv, NEW p \in Panes, NEW life \in {"running", "stopping"}, NEW driver,
           UNCHANGED << told, notices, unheard, conn >>,
           \/ pane' = [pane EXCEPT ![p].life = life]
           \/ pane' = [pane EXCEPT ![p].life = life, ![p].driver = driver]
           \/ pane' = [pane EXCEPT ![p].driver = driver, ![p].life = life]
    PROVE  BeliefInv'
<1>1. Same
  BY LifeOnly
<1>2. pane'[p].life = life /\ \A q \in Panes \ {p} : pane'[q] = pane[q]
  BY DEF TypeInv, IInv, PaneShape, PaneFields
<1>3. \A q \in Panes : Unowned(q)'
  BY <1>1, <1>2 DEF Same, BeliefInv, Unowned
<1>4. QED
  BY <1>1, <1>3, QuietBeliefs

\* A fresh attach: whoever was owner is told or cut off, and the waiters that
\* were not selected are told so unless their queue was full.
LEMMA CommitNewBelieves ==
    ASSUME TypeInv, BeliefInv, NEW c \in Conns, NEW notified \in BOOLEAN,
           NEW accepted \in SUBSET Conns, NEW deaf \in SUBSET Conns,
           CommitNew(c, notified, accepted, deaf)
    PROVE  BeliefInv'
<1>1. PICK p \in Panes : p = handler[c].pane
  BY BusyPlaced DEF TypeInv, CommitNew
<1> DEFINE owner == [scope |-> conn[c].scope, lease |-> nextLease, conn |-> Selected(c)]
           cut == Cut(p, notified)
           keeps == (accepted \cap {Selected(c)}) \cup deaf
<1>2. /\ pane' = [pane EXCEPT ![p].owner = owner] /\ notices' = notices
      /\ pane[p].life # "absent"
      /\ conn' = Dropping(cut)
      /\ \A w \in accepted : Open(w) /\ w \notin cut
      /\ deaf \subseteq accepted
      /\ unheard' = {x \in unheard : x[1] \notin cut /\ ~ (x[1] \in accepted /\ x[2] = p)}
                    \cup (deaf \X {p} \X {nextLease})
  BY <1>1 DEF CommitNew, Attachable
<1>3. ASSUME NEW w \in Conns
      PROVE  told'[w] = IF w \in cut THEN [q \in Panes |-> 0]
                        ELSE IF w \in keeps THEN [told[w] EXCEPT ![p] = nextLease]
                        ELSE IF w \in accepted
                             \/ (notified /\ w = Owner(p).conn /\ told[w][p] = Owner(p).lease)
                        THEN [told[w] EXCEPT ![p] = 0]
                        ELSE told[w]
  BY <1>1 DEF CommitNew
<1>4. /\ Owner(p)' = owner /\ \A q \in Panes \ {p} : Owner(q)' = Owner(q)
      /\ \A q \in Panes : pane'[q].life = pane[q].life
  <2> HIDE DEF owner
  <2>1. QED
    BY <1>2 DEF TypeInv, IInv, PaneShape, PaneFields, Owner
<1>5. ASSUME NEW w \in Conns
      PROVE  Open(w)' <=> Open(w) /\ w \notin cut
  BY <1>2 DEF Dropping, Open, TypeInv, IInv, ConnType
<1>6. told \in [Conns -> BeliefType]
  BY DEF TypeInv, Types, ToldOK
<1>7. cut = IF Owner(p) # NoOwner /\ ~ notified THEN {Owner(p).conn} ELSE {}
  BY DEF Cut
<1> HIDE DEF cut, keeps, owner
<1>8. ASSUME NEW w \in Conns, NEW q \in Panes
      PROVE  Sound(w, q)' /\ Silent(w, q)'
  <2>1. Sound(w, q) /\ Silent(w, q)
    BY DEF BeliefInv
  <2>2. CASE w \in cut
    BY <1>3, <1>5, <2>2 DEF Sound, Silent
  <2>3. CASE w \notin cut /\ q # p
    <3>1. told'[w][q] = told[w][q]
      BY <1>3, <1>6, <2>3 DEF BeliefType
    <3>2. Owner(q)' = Owner(q) /\ (Open(w)' <=> Open(w))
      BY <1>4, <1>5, <2>3
    <3>3. << w, q, told[w][q] >> \in unheard => << w, q, told[w][q] >> \in unheard'
      BY <1>2, <2>3
    <3>4. QED
      BY <1>2, <2>1, <3>1, <3>2, <3>3, StaysSound, StaysExcused, StaysHeld DEF Silent
  <2>4. CASE w \notin cut /\ q = p /\ w \in keeps
    <3>1. told'[w][p] = nextLease /\ Open(w)'
      <4>1. told'[w] = [told[w] EXCEPT ![p] = nextLease] /\ told[w] \in BeliefType
        BY <1>3, <1>6, <2>4
      <4>2. w \in accepted
        BY <1>2, <2>4 DEF keeps
      <4>3. Open(w)'
        BY <1>2, <1>5, <2>4, <4>2
      <4>4. QED
        BY <4>1, <4>3 DEF BeliefType
    <3>2. CASE w \in deaf
      <4>1. << w, p, nextLease >> \in unheard'
        BY <1>2, <3>2
      <4>2. QED
        BY <2>4, <3>1, <4>1 DEF Sound, Silent, Backed, Excused
    <3>3. CASE w = Selected(c)
      BY <1>4, <2>4, <3>1, <3>3 DEF Sound, Silent, Backed, Held, owner
    <3>4. QED
      BY <2>4, <3>2, <3>3 DEF keeps
  <2>5. CASE w \notin cut /\ q = p /\ w \notin keeps /\ told'[w][p] = 0
    BY <2>5 DEF Sound, Silent
  <2>6. CASE w \notin cut /\ q = p /\ w \notin keeps /\ told'[w][p] # 0
    <3>1. /\ w \notin accepted /\ told'[w] = told[w]
          /\ ~ (notified /\ w = Owner(p).conn /\ told[w][p] = Owner(p).lease)
      BY <1>3, <1>6, <2>6 DEF BeliefType
    <3>2. ~ Held(w, p, told[w][p])
      <4>1. Owner(p).conn = w => Owner(p) # NoOwner
        BY PaneLeaseAssumption DEF NoOwner
      <4>2. QED
        BY <1>7, <2>6, <3>1, <4>1 DEF Held
    <3>3. << w, p, told[w][p] >> \in unheard => << w, p, told[w][p] >> \in unheard'
      BY <1>2, <2>6, <3>1
    <3>4. told'[w][p] = told[w][p] /\ (Open(w)' <=> Open(w))
      BY <1>5, <2>6, <3>1
    <3>5. QED
      BY <1>2, <2>1, <2>6, <3>2, <3>3, <3>4, StaysSound, StaysExcused DEF Silent
  <2>7. QED
    BY <2>2, <2>3, <2>4, <2>5, <2>6
<1>9. \A q \in Panes : Unowned(q)'
  BY <1>2, <1>4 DEF BeliefInv, Unowned
<1>10. QED
  BY <1>8, <1>9 DEF BeliefInv

LEMMA CommitRebindBelieves ==
    ASSUME TypeInv, BeliefInv, NEW c \in Conns, NEW notified \in BOOLEAN,
           NEW accepted \in BOOLEAN, CommitRebind(c, notified, accepted)
    PROVE  BeliefInv'
<1>1. PICK p \in Panes : p = handler[c].pane
  BY BusyPlaced DEF TypeInv, CommitRebind
<1> DEFINE lease == handler[c].lease
           owner == [scope |-> conn[c].scope, lease |-> lease, conn |-> c]
           cut == IF Owner(p).conn = c THEN {} ELSE Cut(p, notified)
<1>2. /\ pane' = [pane EXCEPT ![p].owner = owner] /\ notices' = notices
      /\ pane[p].life # "absent"
      /\ conn' = Dropping(cut)
      /\ Open(c) /\ Owner(p).lease = lease
      /\ unheard' = {x \in unheard : x[1] \notin cut /\ ~ (accepted /\ x[1] = c /\ x[2] = p)}
  BY <1>1 DEF CommitRebind, Attachable, Usable
<1>3. ASSUME NEW w \in Conns
      PROVE  told'[w] = IF w \in cut THEN [q \in Panes |-> 0]
                        ELSE IF w = c THEN IF accepted THEN [told[c] EXCEPT ![p] = lease]
                                           ELSE told[c]
                        ELSE IF notified /\ w = Owner(p).conn /\ told[w][p] = Owner(p).lease
                        THEN [told[w] EXCEPT ![p] = 0]
                        ELSE told[w]
  BY <1>1 DEF CommitRebind
<1>4. /\ Owner(p)' = owner /\ \A q \in Panes \ {p} : Owner(q)' = Owner(q)
      /\ \A q \in Panes : pane'[q].life = pane[q].life
  <2> HIDE DEF owner
  <2>1. QED
    BY <1>2 DEF TypeInv, IInv, PaneShape, PaneFields, Owner
<1>5. ASSUME NEW w \in Conns
      PROVE  Open(w)' <=> Open(w) /\ w \notin cut
  BY <1>2 DEF Dropping, Open, TypeInv, IInv, ConnType
<1>6. told \in [Conns -> BeliefType]
  BY DEF TypeInv, Types, ToldOK
<1>7. /\ c \notin cut
      /\ Owner(p).conn # c /\ Owner(p) # NoOwner /\ ~ notified => cut = {Owner(p).conn}
  BY DEF Cut
<1> HIDE DEF cut, owner, lease
<1>8. ASSUME NEW w \in Conns, NEW q \in Panes
      PROVE  Sound(w, q)' /\ Silent(w, q)'
  <2>1. Sound(w, q) /\ Silent(w, q)
    BY DEF BeliefInv
  <2>2. CASE w \in cut
    BY <1>3, <1>5, <2>2 DEF Sound, Silent
  <2>3. CASE w \notin cut /\ q # p
    <3>1. told'[w][q] = told[w][q]
      BY <1>3, <1>6, <2>3 DEF BeliefType
    <3>2. Owner(q)' = Owner(q) /\ (Open(w)' <=> Open(w))
      BY <1>4, <1>5, <2>3
    <3>3. << w, q, told[w][q] >> \in unheard => << w, q, told[w][q] >> \in unheard'
      BY <1>2, <2>3
    <3>4. QED
      BY <1>2, <2>1, <3>1, <3>2, <3>3, StaysSound, StaysExcused, StaysHeld DEF Silent
  <2>4. CASE q = p /\ w = c /\ accepted
    <3>1. told'[c][p] = lease /\ Open(c)'
      <4>1. told'[c] = [told[c] EXCEPT ![p] = lease] /\ told[c] \in BeliefType
        BY <1>3, <1>6, <1>7, <2>4
      <4>2. QED
        BY <1>2, <1>5, <1>7, <4>1 DEF BeliefType
    <3>2. QED
      BY <1>4, <2>4, <3>1 DEF Sound, Silent, Backed, Held, owner
  <2>5. CASE q = p /\ w = c /\ ~ accepted
    <3>1. told'[c][p] = told[c][p] /\ Open(c)'
      BY <1>2, <1>3, <1>5, <1>7, <2>5
    <3>2. << c, p, told[c][p] >> \in unheard => << c, p, told[c][p] >> \in unheard'
      BY <1>2, <1>7, <2>5
    <3>3. Held(c, p, told[c][p]) => Backed(c, p)'
      BY <1>2, <1>4, <3>1 DEF Held, Backed, owner
    <3>4. QED
      BY <1>2, <2>1, <2>5, <3>1, <3>2, <3>3, StaysSound, StaysExcused DEF Silent
  <2>6. CASE w \notin cut /\ q = p /\ w # c
    <3>1. CASE notified /\ w = Owner(p).conn /\ told[w][p] = Owner(p).lease
      <4>1. told'[w] = [told[w] EXCEPT ![p] = 0] /\ told[w] \in BeliefType
        BY <1>3, <1>6, <2>6, <3>1
      <4>2. told'[w][p] = 0
        BY <4>1 DEF BeliefType
      <4>3. QED
        BY <2>6, <4>2 DEF Sound, Silent
    <3>2. CASE ~ (notified /\ w = Owner(p).conn /\ told[w][p] = Owner(p).lease)
      <4>1. told'[w][p] = told[w][p] /\ (Open(w)' <=> Open(w))
        BY <1>3, <1>5, <2>6, <3>2
      <4>2. ~ Held(w, p, told[w][p])
        <5>1. Owner(p).conn = w => Owner(p) # NoOwner
          BY PaneLeaseAssumption DEF NoOwner
        <5>2. QED
          BY <1>7, <2>6, <3>2, <5>1 DEF Held
      <4>3. << w, p, told[w][p] >> \in unheard => << w, p, told[w][p] >> \in unheard'
        BY <1>2, <2>6
      <4>4. QED
        BY <1>2, <2>1, <2>6, <4>1, <4>2, <4>3, StaysSound, StaysExcused DEF Silent
    <3>3. QED
      BY <3>1, <3>2
  <2>7. QED
    BY <2>2, <2>3, <2>4, <2>5, <2>6
<1>9. \A q \in Panes : Unowned(q)'
  BY <1>2, <1>4 DEF BeliefInv, Unowned
<1>10. QED
  BY <1>8, <1>9 DEF BeliefInv

LEMMA DetachBelieves ==
    ASSUME TypeInv, BeliefInv, NEW c \in Conns, NEW p \in Panes, NEW lease \in Leases,
           Detach(c, p, lease)
    PROVE  BeliefInv'
<1>1. UNCHANGED << conn, notices, unheard >> /\ Owner(p).conn = c
  BY DEF Detach, MayMutate, HoldsLease
<1>2. pane'[p].owner = NoOwner /\ \A q \in Panes \ {p} : pane'[q] = pane[q]
  BY DEF Detach, TypeInv, IInv, PaneShape, PaneFields
<1>3. /\ told'[c][p] = 0
      /\ \A w \in Conns, q \in Panes : (w = c /\ q = p) \/ told'[w][q] = told[w][q]
  BY DEF Detach, TypeInv, Types, ToldOK, BeliefType
<1>4. ASSUME NEW w \in Conns, NEW q \in Panes
      PROVE  Sound(w, q)' /\ Silent(w, q)'
  <2>1. Sound(w, q) /\ Silent(w, q)
    BY DEF BeliefInv
  <2>2. CASE w = c /\ q = p
    BY <1>3, <2>2 DEF Sound, Silent
  <2>3. CASE ~ (w = c /\ q = p)
    <3>1. told'[w][q] = told[w][q] /\ (Open(w)' <=> Open(w))
      BY <1>1, <1>3, <2>3 DEF Open
    <3>2. Held(w, q, told[w][q]) => q # p
      BY <1>1, <2>3 DEF Held
    <3>3. QED
      BY <1>1, <1>2, <2>1, <3>1, <3>2, StaysSound, StaysExcused, StaysHeld DEF Silent, Owner
  <2>4. QED
    BY <2>2, <2>3
<1>5. \A q \in Panes : Unowned(q)'
  BY <1>2 DEF BeliefInv, Unowned, Owner
<1>6. QED
  BY <1>4, <1>5 DEF BeliefInv

\* The pane is gone and its owner's PaneExited is on its way.
LEMMA FinalizeBelieves ==
    ASSUME TypeInv, BeliefInv, NEW p \in Panes, Finalize(p)
    PROVE  BeliefInv'
<1>1. /\ UNCHANGED << conn, told, unheard >>
      /\ notices' = IF Owner(p) = NoOwner THEN notices
                    ELSE notices \cup {<< Owner(p).conn, p, Owner(p).lease >>}
  BY DEF Finalize
<1>2. pane'[p] = NoPane /\ \A q \in Panes \ {p} : pane'[q] = pane[q]
  BY DEF Finalize, TypeInv, IInv, PaneShape
<1>3. ASSUME NEW w \in Conns, NEW q \in Panes
      PROVE  Sound(w, q)' /\ Silent(w, q)'
  <2>1. Sound(w, q) /\ Silent(w, q)
    BY DEF BeliefInv
  <2>2. told'[w][q] = told[w][q] /\ (Open(w)' <=> Open(w))
    BY <1>1 DEF Open
  <2>3. Held(w, q, told[w][q]) => Backed(w, q)'
    <3>1. CASE q = p
      <4>1. SUFFICES ASSUME Held(w, p, told[w][p])
                     PROVE  << w, p, told[w][p] >> \in notices'
        BY <2>2, <3>1 DEF Backed, Excused
      <4>2. Owner(p) # NoOwner
        BY <4>1, NobodyHolds
      <4>3. QED
        BY <1>1, <4>1, <4>2 DEF Held
    <3>2. CASE q # p
      BY <1>2, <2>2, <3>2, StaysHeld DEF Owner
    <3>3. QED
      BY <3>1, <3>2
  <2>4. QED
    BY <1>1, <2>1, <2>2, <2>3, StaysSound, StaysExcused DEF Silent
<1>4. \A q \in Panes : Unowned(q)'
  BY <1>2, Constants DEF BeliefInv, Unowned, Owner
<1>5. QED
  BY <1>3, <1>4 DEF BeliefInv

\* A connection that is cut off believes nothing; its unheard messages go with
\* it.
LEMMA GoneBelieves ==
    ASSUME TypeInv, BeliefInv, NEW c \in Conns, UNCHANGED pane,
           ~ Open(c)',
           \A w \in Conns \ {c} : conn'[w] = conn[w],
           told' = Forget({c}), unheard' = {x \in unheard : x[1] # c},
           \A x \in notices : x[1] # c => x \in notices'
    PROVE  BeliefInv'
<1>1. ASSUME NEW w \in Conns, NEW q \in Panes
      PROVE  Sound(w, q)' /\ Silent(w, q)'
  <2>1. Sound(w, q) /\ Silent(w, q)
    BY DEF BeliefInv
  <2>2. CASE w = c
    BY <2>2 DEF Sound, Silent, Forget
  <2>3. CASE w # c
    <3>1. told'[w][q] = told[w][q] /\ (Open(w)' <=> Open(w)) /\ Owner(q)' = Owner(q)
      BY <2>3 DEF Forget, Open, Owner
    <3>2. << w, q, told[w][q] >> \in unheard => << w, q, told[w][q] >> \in unheard'
      BY <2>3
    <3>3. << w, q, told[w][q] >> \in notices => << w, q, told[w][q] >> \in notices'
      BY <2>3
    <3>4. QED
      BY <2>1, <3>1, <3>2, <3>3, StaysSound, StaysExcused, StaysHeld DEF Silent
  <2>4. QED
    BY <2>2, <2>3
<1>2. \A q \in Panes : Unowned(q)'
  BY DEF BeliefInv, Unowned, Owner
<1>3. QED
  BY <1>1, <1>2 DEF BeliefInv

LEMMA DroppedGone ==
    ASSUME TypeInv, NEW c \in Conns, conn' = Dropping({c})
    PROVE  ~ Open(c)' /\ \A w \in Conns \ {c} : conn'[w] = conn[w]
BY DEF Dropping, Open, TypeInv, IInv, ConnType

LEMMA NotifyExitBelieves ==
    ASSUME TypeInv, BeliefInv, NEW notice \in notices, NEW queued \in BOOLEAN,
           NotifyExit(notice, queued)
    PROVE  BeliefInv'
<1>1. PICK c \in Conns, p \in Panes, lease \in Leases : notice = << c, p, lease >>
  BY DEF TypeInv, Types, NoticesOK, Messages
<1>2. UNCHANGED pane /\ notices' = notices \ {notice}
  BY DEF NotifyExit
<1>3. CASE ~ queued
  <2>1. conn' = Dropping({c}) /\ told' = Forget({c}) /\ unheard' = {x \in unheard : x[1] # c}
    BY <1>1, <1>3 DEF NotifyExit
  <2>2. \A x \in notices : x[1] # c => x \in notices'
    BY <1>1, <1>2
  <2>3. QED
    BY <1>2, <2>1, <2>2, DroppedGone, GoneBelieves
<1>4. CASE queued
  <2>1. /\ UNCHANGED << conn, unheard >>
        /\ told' = IF told[c][p] = lease THEN [told EXCEPT ![c][p] = 0] ELSE told
    BY <1>1, <1>4 DEF NotifyExit
  <2>2. \A w \in Conns, q \in Panes :
           told'[w][q] = IF w = c /\ q = p /\ told[c][p] = lease THEN 0 ELSE told[w][q]
    BY <2>1 DEF TypeInv, Types, ToldOK, BeliefType
  <2>3. ASSUME NEW w \in Conns, NEW q \in Panes
        PROVE  Sound(w, q)' /\ Silent(w, q)'
    <3>1. Sound(w, q) /\ Silent(w, q)
      BY DEF BeliefInv
    <3>2. CASE w = c /\ q = p /\ told[c][p] = lease
      BY <2>2, <3>2 DEF Sound, Silent
    <3>3. CASE ~ (w = c /\ q = p /\ told[c][p] = lease)
      <4>1. /\ told'[w][q] = told[w][q] /\ (Open(w)' <=> Open(w))
            /\ Owner(q)' = Owner(q)
        BY <1>2, <2>1, <2>2, <3>3 DEF Open, Owner
      <4>2. << w, q, told[w][q] >> \in notices => << w, q, told[w][q] >> \in notices'
        BY <1>1, <1>2, <3>3
      <4>3. QED
        BY <2>1, <3>1, <4>1, <4>2, StaysSound, StaysExcused, StaysHeld DEF Silent
    <3>4. QED
      BY <3>2, <3>3
  <2>4. \A q \in Panes : Unowned(q)'
    BY <1>2 DEF BeliefInv, Unowned, Owner
  <2>5. QED
    BY <2>3, <2>4 DEF BeliefInv
<1>5. QED
  BY <1>3, <1>4

LEMMA LeavingBelieves ==
    ASSUME TypeInv, BeliefInv, NEW c \in Conns, Disconnect(c) \/ WriterEnds(c) \/ ReaderEnds(c)
    PROVE  BeliefInv'
<1>1. CASE Disconnect(c)
  BY <1>1, DroppedGone, GoneBelieves DEF Disconnect
<1>2. ASSUME NEW status \in {"inactive", "closed"}, Leaving(c, status)
      PROVE  BeliefInv'
  <2>1. ~ Open(c)' /\ \A w \in Conns \ {c} : conn'[w] = conn[w]
    BY <1>2 DEF Leaving, Open, TypeInv, IInv, ConnType
  <2>2. QED
    BY <1>2, <2>1, GoneBelieves DEF Leaving
<1>3. QED
  BY <1>1, <1>2 DEF WriterEnds, ReaderEnds

LEMMA NextBeliefInv == TypeInv /\ BeliefInv /\ [Next]_vars => BeliefInv'
<1> SUFFICES ASSUME TypeInv, BeliefInv, [Next]_vars PROVE BeliefInv'
  OBVIOUS
<1>1. CASE \E c \in Conns, s \in Scopes : Hello(c, s)
  BY <1>1, HelloBelieves
<1>2. CASE \E c \in Conns, id \in Ids, p \in Panes, i \in Identities : BeginAttach(c, id, p, i)
  BY <1>2, IdleBelieves DEF BeginAttach
<1>3. ASSUME NEW c \in Conns, Commit(c)
      PROVE  BeliefInv'
  <2>1. CASE CommitFailed(c) \/ CommitSuperseded(c)
    BY <2>1, IdleBelieves DEF CommitFailed, CommitSuperseded
  <2>2. QED
    BY <1>3, <2>1, CommitNewBelieves, CommitRebindBelieves DEF Commit
<1>4. ASSUME NEW c \in Conns, NEW p \in Panes, NEW lease \in Leases, Leased(c, p, lease)
      PROVE  BeliefInv'
  <2>1. CASE ValidateInput(c, p, lease)
    BY <2>1, IdleBelieves DEF ValidateInput
  <2>2. CASE RequestStop(c, p, lease)
    BY <2>2, LifeBelieves DEF RequestStop
  <2>3. QED
    BY <1>4, <2>1, <2>2, DetachBelieves DEF Leased
<1>5. ASSUME NEW c \in Conns, EnqueueInput(c) \/ RefuseInput(c) \/ StartStop(c)
      PROVE  BeliefInv'
  <2>1. CASE EnqueueInput(c) \/ RefuseInput(c)
    BY <2>1, IdleBelieves DEF EnqueueInput, RefuseInput
  <2>2. CASE StartStop(c)
    <3>1. handler[c].pane \in Panes
      BY <2>2, BusyPlaced DEF StartStop, TypeInv
    <3>2. QED
      BY <2>2, <3>1, LifeBelieves DEF StartStop
  <2>3. QED
    BY <1>5, <2>1, <2>2
<1>6. CASE \E c \in Conns : Disconnect(c) \/ WriterEnds(c) \/ ReaderEnds(c)
  BY <1>6, LeavingBelieves
<1>7. CASE \E p \in Panes, i \in Identities : Publish(p, i)
  BY <1>7, PublishBelieves
<1>8. ASSUME NEW p \in Panes,
             \/ StartShutdownStop(p) \/ Finalize(p)
             \/ \E termFailed \in BOOLEAN : DriverFails(p, termFailed)
      PROVE  BeliefInv'
  <2>1. CASE StartShutdownStop(p)
    BY <2>1, LifeBelieves DEF StartShutdownStop
  <2>2. ASSUME NEW termFailed \in BOOLEAN, DriverFails(p, termFailed)
        PROVE  BeliefInv'
    BY <2>2, LifeBelieves DEF DriverFails
  <2>3. QED
    BY <1>8, <2>1, <2>2, FinalizeBelieves
<1>9. CASE \E notice \in notices, queued \in BOOLEAN : NotifyExit(notice, queued)
  BY <1>9, NotifyExitBelieves
<1>10. CASE Shutdown \/ UNCHANGED vars
  BY <1>10, IdleBelieves DEF Shutdown, vars
<1>11. QED
  BY <1>1, <1>2, <1>3, <1>4, <1>5, <1>6, <1>7, <1>8, <1>9, <1>10 DEF Next

\* A live connection that was told it holds a pane's lease is right about it,
\* unless the message that says otherwise is on its way or did not fit its
\* queue: every path that takes a lease away (takeover, detach, exit) tells the
\* owner or cuts it off.
THEOREM BeliefsAreSound == Spec => []BeliefSound
<1>1. Spec => [](TypeInv /\ BeliefInv)
  BY InitTypeInv, NextTypeInv, InitBeliefInv, NextBeliefInv, PTL DEF Spec
<1>2. QED
  BY <1>1, BeliefParts, PTL
=============================================================================
