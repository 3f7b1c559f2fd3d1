----------------------------- MODULE AgentLife -----------------------------
(***************************************************************************)
(* The life of a chat's agent as the client keeps it: its generation, its  *)
(* status, the state file they are saved in, and the daemon that runs it.  *)
(*                                                                         *)
(* The client is one thread (runtime::run): it restores the saved chats,   *)
(* then takes turns draining daemon events, polling status journals,       *)
(* saving, starting the selected chat, and handling batches of keys, and   *)
(* most of these may run a synchronous request.  It may crash anywhere and be started again; a save may fail   *)
(* before or after its rename; the power may fail.  The daemon spawns,     *)
(* runs and reaps the agents in its own time, and the connection to it may *)
(* be lost with what was on it.                                            *)
(*                                                                         *)
(* Sessions, requests and attachments are abstracted to what the client    *)
(* sees of them here; SessionTable, RequestScope, PaneLease and            *)
(* AttachReplay have their detail.                                         *)
(***************************************************************************)
EXTENDS Integers, Sequences

CONSTANTS Chats,
          Reports,         \* the statuses the agents write to their journals
          LastGeneration,  \* bound: generations allocated
          MaxCrashes,      \* bound: client crashes
          MaxDrops         \* bound: connections lost and daemons dead

ASSUME AgentLifeAssumption ==
    /\ Reports \subseteq {"idle", "running", "finished", "failed"}
    /\ LastGeneration \in Nat
    /\ MaxCrashes \in Nat
    /\ MaxDrops \in Nat

Generations == 1 .. LastGeneration
NoGeneration == 0

\* Thinking stands for Thinking and Waiting, Done for its seen and unseen forms.
ChatStatus == {"idle", "thinking", "done", "failed"}

\* A chat of the project; one that was deleted.
Chat == [generation : Generations \cup {NoGeneration}, status : ChatStatus]
Deleted == [generation |-> NoGeneration, status |-> "deleted"]
Project == [Chats -> Chat \cup {Deleted}]

VARIABLES
    file, stable,    \* the state file, and what a power failure leaves of it
    adopted,         \* the file loaded was not yet what a power failure leaves
    mem,             \* App::project
    dirty, saveError,
    phase,           \* "down", "quit", "restoring", "drain", "tick", "events"
    op,              \* the handler in progress and its chat: [kind, chat]
    todo,            \* chats still to restore
    quitting,        \* should_quit
    attachment,      \* each chat's: "none", "bound" (no lease), "live"
    link,            \* the connection: "up", "lost", "gone" with its daemon
    reattach,        \* pending_reattach
    exits,           \* pending_events, the exits among them
    answer,          \* of the create awaited: "none", "created", "refused"
    session,         \* the daemon's agents: the generation that runs, or none
    entry,           \* its status entries
    creates,         \* creates it has not finished: [chat, generation, here],
                     \* here: on the client's present connection
    wire,            \* the exit sent to the client and not received
    journals,        \* generations whose agent may have written to its journal
    allocated,       \* generations allocated
    crashes, drops,
    overtaken,       \* generations still being spawned when the client was told
                     \* that their chat has no session (history)
    mistaken         \* generations cleared by the exit of an earlier one (history)

disk    == << file, stable, adopted >>
app     == << mem, dirty, saveError >>
control == << phase, op, todo, quitting >>
pty     == << attachment, link, reattach, exits, answer >>
daemon  == << session, entry, creates, wire, journals >>
count   == << allocated, crashes, drops >>
history == << overtaken, mistaken >>
vars    == << disk, app, control, pty, daemon, count, history >>

None == "none"
Idle == [kind |-> "idle", chat |-> None]
ExitCodes == {"done", "failed"}
NoExit == [code |-> None, generation |-> NoGeneration]
NoEntry == [generation |-> NoGeneration, status |-> "unknown"]

Up == phase \in {"restoring", "drain", "tick", "events"}
\* A turn starts by applying the exits received (drain_pty_events), if there are
\* any; one that is received later in the turn waits for the next.
TurnStart(received) == IF received = << >> THEN "tick" ELSE "drain"
Draining == phase = "drain" /\ op = Idle
Drained == phase = "tick" /\ op = Idle
Free == Drained \/ (phase = "events" /\ op = Idle /\ ~ quitting)

Init ==
    \* a file an older version may have left
    /\ file \in [Chats -> {[generation |-> NoGeneration, status |-> s] : s \in {"idle", "thinking"}}]
    /\ stable = file
    /\ adopted = FALSE
    /\ mem = file
    /\ dirty = FALSE /\ saveError = FALSE
    /\ phase = "down" /\ op = Idle /\ todo = {} /\ quitting = FALSE
    /\ attachment = [c \in Chats |-> None]
    /\ link = "gone"
    /\ reattach = {} /\ exits = << >> /\ answer = None
    /\ session = [c \in Chats |-> NoGeneration]
    /\ entry = [c \in Chats |-> NoEntry]
    /\ creates = {}
    /\ wire = [c \in Chats |-> NoExit]
    /\ journals = {}
    /\ allocated = 0 /\ crashes = 0 /\ drops = 0
    /\ overtaken = {} /\ mistaken = {}
-----------------------------------------------------------------------------
(* The project in memory, and the state file.                              *)

Present(c) == mem[c] # Deleted

\* mark_chat_status_by_id and clear_agent_generation.
Marked(p, c, status) == IF p[c] = Deleted THEN p ELSE [p EXCEPT ![c].status = status]
Cleared(p, c) == IF p[c] = Deleted THEN p ELSE [p EXCEPT ![c].generation = NoGeneration]

\* Every change to the project makes it dirty; a call that changes nothing does not.
Becomes(p) ==
    /\ mem' = p
    /\ dirty' = (dirty \/ p # mem)

\* Mutant of Saves: a rename the directory did not sync is taken for a success.
SavesUnsynced(p) ==
    /\ file' = p
    /\ stable' \in {stable, p}
    /\ adopted' = FALSE
    /\ mem' = p /\ dirty' = FALSE /\ saveError' = FALSE

\* StateStore::save and what save_if_dirty_with makes of its result: write a
\* temporary file, sync it, rename it, sync the directory.
Saves(p) ==
    /\ file' = p /\ stable' = p
    /\ adopted' = FALSE
    /\ mem' = p /\ dirty' = FALSE /\ saveError' = FALSE

\* A failure may come before the rename or after it.
SaveFails(p) ==
    /\ file' \in {file, p}
    /\ UNCHANGED << stable, adopted >>
    /\ mem' = p /\ dirty' = TRUE /\ saveError' = TRUE

SaveDue == dirty /\ ~ saveError

\* save_content_if_due, between other things of a turn.
SaveContent ==
    /\ Drained /\ SaveDue
    /\ \/ Saves(mem) /\ UNCHANGED quitting
       \/ SaveFails(mem) /\ quitting' = FALSE
    /\ UNCHANGED << phase, op, todo, pty, daemon, count, history >>
-----------------------------------------------------------------------------
(* Turns of the event loop; starting, restoring.                           *)

\* The next turn, after one in which no key came.
Turn ==
    /\ Drained /\ exits # << >>
    /\ phase' = TurnStart(exits)
    /\ UNCHANGED << disk, app, op, todo, quitting, pty, daemon, count, history >>

\* A status no generation owns is reset at load.
Normalized(p) ==
    [c \in Chats |-> IF p[c].generation = NoGeneration /\ p[c].status = "thinking"
                     THEN [p[c] EXCEPT !.status = "idle"]
                     ELSE p[c]]

Owned(p) == {c \in Chats : p[c].generation # NoGeneration}

\* The repaired state cannot be saved, here after the rename: mult does not start.
LoadFails ==
    /\ phase \in {"down", "quit"}
    /\ Normalized(file) # file
    /\ file' = Normalized(file)
    /\ phase' = "down"
    /\ UNCHANGED << stable, adopted, app, op, todo, quitting, pty, daemon, count, history >>

\* main::run up to runtime::run: the state is loaded, repaired and saved before
\* anything is attached.  A new process has no attachments and its own connection.
Load ==
    /\ phase \in {"down", "quit"}
    /\ mem' = Normalized(file)
    /\ \/ /\ mem' = file
          /\ adopted' = (file # stable)
          /\ UNCHANGED << file, stable >>
       \/ /\ mem' # file
          /\ file' = mem' /\ stable' = mem' /\ adopted' = FALSE
    /\ dirty' = FALSE /\ saveError' = FALSE /\ quitting' = FALSE
    /\ todo' = Owned(mem')
    /\ phase' = IF todo' = {} THEN TurnStart(exits) ELSE "restoring"
    /\ link' \in {"up", "lost"}
    /\ UNCHANGED << attachment, reattach, exits, answer, wire, creates >>
    /\ UNCHANGED << op, session, entry, journals, count, history >>

\* The daemon answers an attach after the creates sent before it on the same
\* connection: one thread serves a connection.
Answerable == link = "up" /\ \A r \in creates : ~ r.here

Attaches(c) ==
    /\ Answerable
    /\ session[c] # NoGeneration
    /\ attachment' = [attachment EXCEPT ![c] = "live"]
    /\ wire' = [wire EXCEPT ![c] = NoExit]
    /\ reattach' = reattach \ {c}

\* The generations of c still being spawned when the daemon says it has no
\* session for c.
BeingCreated(c) == {r.generation : r \in {q \in creates : q.chat = c}}

\* The daemon has no session.
Misses(c) ==
    /\ Answerable
    /\ session[c] = NoGeneration
    /\ attachment' = [attachment EXCEPT ![c] = None]
    /\ overtaken' = overtaken \cup BeingCreated(c)
    /\ wire' = [wire EXCEPT ![c] = NoExit]
    /\ reattach' = reattach \ {c}

\* Any other outcome: not connected, timed out, refused.  A refusal drops the
\* attachment, an uncertain outcome keeps it.
AttachFails(c) ==
    /\ \/ link # "up" /\ UNCHANGED attachment
       \/ link = "up" /\ \E a \in {"bound", None} :
              attachment' = [attachment EXCEPT ![c] = a]
    /\ UNCHANGED << wire, reattach >>

\* Mutant of ChatStatusOf: the status of an agent that exited has no counterpart.
ChatStatusUnmapped(status) ==
    CASE status = "running" -> "thinking"
      [] status = "finished" -> "done"
      [] OTHER -> status

\* chat_status_from_agent_status.
ChatStatusOf(status) ==
    CASE status = "running" -> "thinking"
      [] status \in {"finished", "exited"} -> "done"
      [] OTHER -> status

\* reconcile_agent_status: the daemon's record, if it has one of this generation.
Recovered(c) ==
    entry[c].generation = mem[c].generation /\ entry[c].status # "unknown"

Reconciled(c) ==
    IF Recovered(c) THEN Marked(mem, c, ChatStatusOf(entry[c].status)) ELSE mem

\* What a status query gives: the record, or nothing when it fails.
Queried(c) == {mem} \cup IF link = "up" THEN {Reconciled(c)} ELSE {}

Restored(c) ==
    /\ todo' = todo \ {c}
    /\ phase' = IF todo' = {} THEN TurnStart(exits) ELSE "restoring"

RestoreAttached(c) ==
    /\ phase = "restoring" /\ c \in todo /\ op = Idle
    /\ Attaches(c)
    /\ \E p \in Queried(c) : Becomes(p)
    /\ Restored(c)
    /\ UNCHANGED << disk, saveError, op, quitting, link, exits, answer,
                    session, entry, creates, journals, count, history >>

RestoreMissing(c) ==
    /\ phase = "restoring" /\ c \in todo /\ op = Idle
    /\ Misses(c)
    /\ op' = [kind |-> "missing", chat |-> c]
    /\ UNCHANGED << disk, app, phase, todo, quitting, link, exits, answer,
                    session, entry, creates, journals, count, mistaken >>

\* Mutant of Unrecovered: the status of an agent that is gone is kept.
UnrecoveredKept(c) == mem

\* No record: the chat failed.
Unrecovered(c) == Marked(mem, c, "failed")

\* The second request of a restoration: the final status, if it is still known.
RestoreQuery(c) ==
    /\ op = [kind |-> "missing", chat |-> c]
    /\ \/ link = "up" /\ Recovered(c) /\ Becomes(Cleared(Reconciled(c), c))
       \/ Becomes(Cleared(Unrecovered(c), c))
    /\ op' = Idle
    /\ Restored(c)
    /\ UNCHANGED << disk, saveError, quitting, pty, daemon, count, history >>

RestoreFailed(c) ==
    /\ phase = "restoring" /\ c \in todo /\ op = Idle
    /\ AttachFails(c)
    /\ Becomes(Marked(mem, c, "failed"))
    /\ Restored(c)
    /\ UNCHANGED << disk, saveError, op, quitting, link, exits, answer,
                    session, entry, creates, journals, count, history >>
-----------------------------------------------------------------------------
(* start_or_focus_chat_agent: a key, or the selection of a chat.  A chat    *)
(* whose agent has a live attachment is only focused.                      *)

Startable(c) == Free /\ Present(c) /\ attachment[c] # "live"

\* A recorded generation is reconciled by an attach, never by a launch.
StartAttached(c) ==
    /\ Startable(c) /\ mem[c].generation # NoGeneration
    /\ Attaches(c)
    /\ \E p \in Queried(c) : Becomes(p)
    /\ UNCHANGED << disk, saveError, control, link, exits, answer,
                    session, entry, creates, journals, count, history >>

\* The daemon has no session: that is saved before a successor is allocated.
\* (A failed save cancels a quit, but no quit is pending here.)
StartMissing(c) ==
    /\ Startable(c) /\ mem[c].generation # NoGeneration
    /\ Misses(c)
    /\ \/ /\ Saves(Cleared(Marked(mem, c, "failed"), c))
          /\ op' = [kind |-> "launch", chat |-> c]
       \/ /\ SaveFails(Cleared(Marked(mem, c, "failed"), c))
          /\ op' = Idle
    /\ UNCHANGED << phase, todo, quitting, link, exits, answer,
                    session, entry, creates, journals, count, mistaken >>

StartFailed(c) ==
    /\ Startable(c) /\ mem[c].generation # NoGeneration
    /\ AttachFails(c)
    /\ Becomes(Marked(mem, c, "failed"))
    /\ UNCHANGED << disk, saveError, control, link, exits, answer,
                    session, entry, creates, journals, count, history >>

\* Mutant of MayLaunch: the agent is launched although its generation was not saved.
MayLaunchUnsaved(saved) == TRUE

\* persist_before_agent_launch: the state is clean.
MayLaunch(saved) == saved

Launching(c, saved) == IF MayLaunch(saved) THEN [kind |-> "send", chat |-> c] ELSE Idle

Launches(c) ==
    \/ op = [kind |-> "launch", chat |-> c]
    \/ Startable(c) /\ mem[c].generation = NoGeneration

\* begin_agent_generation and persist_before_agent_launch.
BeginGeneration(c) ==
    /\ Launches(c)
    /\ allocated < LastGeneration
    /\ allocated' = allocated + 1
    /\ \/ Saves([mem EXCEPT ![c].generation = allocated']) /\ op' = Launching(c, TRUE)
       \/ SaveFails([mem EXCEPT ![c].generation = allocated']) /\ op' = Launching(c, FALSE)
    /\ UNCHANGED << phase, todo, quitting, pty, daemon, crashes, drops, history >>

\* No secure generation can be drawn (or the chat has no identity to run under).
GenerationFails(c) ==
    /\ Launches(c)
    /\ Becomes(Marked(mem, c, "failed"))
    /\ op' = Idle
    /\ UNCHANGED << disk, saveError, phase, todo, quitting, pty, daemon, count, history >>

\* start: a chat that is still bound to its pane is attached first, and when that
\* succeeds nothing is created.
SendAttached(c) ==
    /\ op = [kind |-> "send", chat |-> c]
    /\ attachment[c] = "bound"
    /\ Attaches(c)
    /\ Becomes(Marked(mem, c, "idle"))
    /\ op' = Idle
    /\ UNCHANGED << disk, saveError, phase, todo, quitting, link, exits, answer,
                    session, entry, creates, journals, count, history >>

SendMissing(c) ==
    /\ op = [kind |-> "send", chat |-> c]
    /\ attachment[c] = "bound"
    /\ Misses(c)
    /\ UNCHANGED << disk, app, control, link, exits, answer,
                    session, entry, creates, journals, count, mistaken >>

\* The create is on the wire.
SendCreate(c) ==
    /\ op = [kind |-> "send", chat |-> c]
    /\ attachment[c] = None
    /\ link = "up"
    /\ creates' = creates \cup {[chat |-> c, generation |-> mem[c].generation, here |-> TRUE]}
    /\ attachment' = [attachment EXCEPT ![c] = "bound"]
    /\ op' = [kind |-> "create", chat |-> c]
    /\ answer' = None
    /\ UNCHANGED << disk, app, phase, todo, quitting, link, reattach, exits,
                    session, entry, wire, journals, count, history >>

\* The journal cannot be prepared, the client is not connected, or the attach of a
\* bound chat fails.
SendFails(c) ==
    /\ op = [kind |-> "send", chat |-> c]
    /\ \/ UNCHANGED << attachment, wire, reattach >>
       \/ attachment[c] = "bound" /\ AttachFails(c)
    /\ Becomes(Marked(mem, c, "failed"))
    /\ op' = Idle
    /\ UNCHANGED << disk, saveError, phase, todo, quitting, link, exits, answer,
                    session, entry, creates, journals, count, history >>

\* start: created, then attached.
CreateDone(c) ==
    /\ op = [kind |-> "create", chat |-> c]
    /\ answer = "created"
    /\ Attaches(c)
    /\ Becomes(Marked(mem, c, "idle"))
    /\ op' = Idle
    /\ answer' = None
    /\ UNCHANGED << disk, saveError, phase, todo, quitting, link, exits,
                    session, entry, creates, journals, count, history >>

\* Refused, timed out, disconnected and not resumed, or not attached after the
\* create: the generation stays, for the agent may be running.
CreateFails(c) ==
    /\ op = [kind |-> "create", chat |-> c]
    /\ AttachFails(c)
    /\ Becomes(Marked(mem, c, "failed"))
    /\ op' = Idle
    /\ answer' = None
    /\ UNCHANGED << disk, saveError, phase, todo, quitting, link, exits,
                    session, entry, creates, journals, count, history >>
-----------------------------------------------------------------------------
(* Events of the daemon.                                                   *)

\* PaneExited is received, in a drain or while a synchronous request waits; it
\* is an event to apply only if its lease is still the attachment's.
ReceiveExit(c) ==
    /\ Up
    /\ wire[c] # NoExit
    /\ wire' = [wire EXCEPT ![c] = NoExit]
    /\ \/ /\ attachment[c] = "live"
          /\ attachment' = [attachment EXCEPT ![c] = None]
          /\ exits' = Append(exits, [chat |-> c, code |-> wire[c].code,
                                     generation |-> wire[c].generation])
       \/ /\ attachment[c] # "live"
          /\ UNCHANGED << attachment, exits >>
    /\ UNCHANGED << disk, app, control, link, reattach, answer,
                    session, entry, creates, journals, count, history >>

\* apply_pty_event, at the start of the next turn.  The event names the
\* chat: the generation it clears is the one the chat has by then.
ApplyExit ==
    /\ Draining /\ exits # << >>
    /\ LET e == Head(exits)
           c == e.chat
       IN  /\ Becomes(Cleared(Marked(mem, c, e.code), c))
           /\ journals' = journals \ {mem[c].generation}
           /\ mistaken' = mistaken \cup ({mem[c].generation} \ {e.generation, NoGeneration})
    /\ exits' = Tail(exits)
    /\ phase' = TurnStart(exits')
    /\ UNCHANGED << disk, saveError, op, todo, quitting, attachment, link, reattach, answer,
                    session, entry, creates, wire, count, overtaken >>

\* service_reattachments, after a reconnection: in the drain, and before a request.
Reattached(c) ==
    /\ Draining \/ Free
    /\ c \in reattach /\ attachment[c] # None
    /\ Attaches(c)
    /\ UNCHANGED << disk, app, control, link, exits, answer,
                    session, entry, creates, journals, count, history >>

\* The session vanished: the pane is reported as exited.
ReattachMissing(c) ==
    /\ Draining \/ Free
    /\ c \in reattach /\ attachment[c] # None
    /\ Misses(c)
    /\ exits' = Append(exits, [chat |-> c, code |-> "failed",
                               generation |-> mem[c].generation])
    /\ UNCHANGED << disk, app, control, link, answer,
                    session, entry, creates, journals, count, mistaken >>

Final == {"exited", "failed"}

\* drain_mult_agent_status_events: a journal record is sent to the daemon, whose
\* record is shown; refused, the daemon's is asked for.  How far the journal was
\* read is abstracted: a new process reads it from the start.
PollStatus(c) ==
    /\ Drained
    /\ mem[c].generation \in journals
    /\ \/ /\ link = "up"
          /\ entry[c].generation = mem[c].generation
          /\ entry[c].status \notin Final
          /\ \E s \in Reports :
                /\ entry' = [entry EXCEPT ![c].status = s]
                /\ Becomes(Marked(mem, c, ChatStatusOf(s)))
       \/ /\ link # "up" \/ entry[c].generation # mem[c].generation
                         \/ entry[c].status \in Final
          /\ \E p \in Queried(c) : Becomes(p)
          /\ UNCHANGED entry
    /\ UNCHANGED << disk, saveError, control, pty, session, creates, wire, journals, count, history >>
-----------------------------------------------------------------------------
(* A batch of host events: it ends with a forced save.                     *)

OpenBatch ==
    /\ Drained
    /\ phase' = "events"
    /\ UNCHANGED << disk, app, op, todo, quitting, pty, daemon, count, history >>

\* delete_selected: a live pane's stop is sent first; one whose attachment is not
\* reconciled, or that cannot be reached, is kept.
DeleteChat(c) ==
    /\ Free /\ phase = "events"
    /\ Present(c)
    /\ attachment[c] = None \/ (attachment[c] = "live" /\ link = "up")
    /\ Becomes([mem EXCEPT ![c] = Deleted])
    /\ attachment' = [attachment EXCEPT ![c] = None]
    /\ journals' = journals \ {mem[c].generation}
    /\ UNCHANGED << disk, saveError, control, link, reattach, exits, answer,
                    session, entry, creates, wire, count, history >>

Quit ==
    /\ Free /\ phase = "events"
    /\ quitting' = TRUE
    /\ UNCHANGED << disk, app, phase, op, todo, pty, daemon, count, history >>

\* A process that ends leaves the files.  (Its variables are given the values the
\* next one starts from.)
Ends ==
    /\ op' = Idle /\ todo' = {} /\ quitting' = FALSE
    /\ attachment' = [c \in Chats |-> None]
    /\ reattach' = {} /\ exits' = << >> /\ answer' = None
    /\ wire' = [c \in Chats |-> NoExit]

Forgets == mem' = file' /\ dirty' = FALSE /\ saveError' = FALSE

\* The forced save at the end of a batch; a failure cancels a quit.
CloseBatch ==
    /\ phase = "events" /\ op = Idle
    /\ \/ /\ ~ quitting
          /\ \/ dirty /\ Saves(mem)
             \/ ~ dirty /\ UNCHANGED << disk, app >>
       \/ /\ dirty /\ SaveFails(mem)
    /\ phase' = TurnStart(exits) /\ quitting' = FALSE
    /\ UNCHANGED << op, todo, pty, daemon, count, history >>

Unheard == {[r EXCEPT !.here = FALSE] : r \in creates}

\* The same, and the loop sees should_quit.
CloseAndQuit ==
    /\ phase = "events" /\ op = Idle /\ quitting
    /\ \/ dirty /\ Saves(mem)
       \/ ~ dirty /\ UNCHANGED << disk, app >>
    /\ phase' = "quit"
    /\ link' = "lost"
    /\ creates' = Unheard
    /\ Ends
    /\ UNCHANGED << session, entry, journals, count, history >>

\* A signal, or the host terminal is gone: one forced save, whatever it gives.
Leave ==
    /\ op = Idle /\ phase \in {"drain", "tick", "events"}
    /\ \/ dirty /\ file' = mem /\ stable' = mem /\ adopted' = FALSE
       \/ dirty /\ file' \in {file, mem} /\ UNCHANGED << stable, adopted >>
       \/ ~ dirty /\ UNCHANGED disk
    /\ phase' = "down"
    /\ link' = "lost"
    /\ creates' = Unheard
    /\ Ends /\ Forgets
    /\ UNCHANGED << session, entry, journals, count, history >>

Crash ==
    /\ Up /\ crashes < MaxCrashes
    /\ crashes' = crashes + 1
    /\ UNCHANGED disk
    /\ phase' = "down"
    /\ link' = "lost"
    /\ creates' = Unheard
    /\ Ends /\ Forgets
    /\ UNCHANGED << session, entry, journals, allocated, drops, history >>
-----------------------------------------------------------------------------
(* The daemon, the agents and the connection.                              *)

Awaited(r) == op = [kind |-> "create", chat |-> r.chat] /\ mem[r.chat].generation = r.generation

\* create_session: spawned and published, with an entry that has no status yet.
\* From now on the agent may write to the journal of its generation.
Created(r) ==
    /\ session[r.chat] = NoGeneration
    /\ session' = [session EXCEPT ![r.chat] = r.generation]
    /\ entry' = [entry EXCEPT ![r.chat] = [generation |-> r.generation, status |-> "unknown"]]
    /\ creates' = creates \ {r}
    /\ journals' = journals \cup {r.generation}
    /\ answer' = IF Awaited(r) THEN "created" ELSE answer
    /\ UNCHANGED << disk, app, control, attachment, link, reattach, exits,
                    wire, count, history >>

\* Not spawned, or the names are taken.
Refused(r) ==
    /\ creates' = creates \ {r}
    /\ answer' = IF Awaited(r) THEN "refused" ELSE answer
    /\ UNCHANGED << disk, app, control, attachment, link, reattach, exits,
                    session, entry, wire, journals, count, history >>

\* An agent ends, by itself or stopped: its entry becomes final and an attached
\* client is told.
AgentExits(c) ==
    /\ session[c] # NoGeneration
    /\ \E code \in ExitCodes :
          /\ entry' = IF entry[c].generation = session[c] /\ entry[c].status \notin Final
                      THEN [entry EXCEPT ![c].status = IF code = "done" THEN "exited" ELSE "failed"]
                      ELSE entry
          /\ wire' = IF attachment[c] = "live" /\ link = "up"
                     THEN [wire EXCEPT ![c] = [code |-> code, generation |-> session[c]]]
                     ELSE wire
    /\ session' = [session EXCEPT ![c] = NoGeneration]
    /\ UNCHANGED << disk, app, control, pty, creates, journals, count, history >>

Cut == wire' = [c \in Chats |-> NoExit]

Disconnect ==
    /\ Up /\ link = "up" /\ drops < MaxDrops
    /\ drops' = drops + 1
    /\ link' = "lost"
    /\ Cut
    /\ creates' = Unheard
    /\ UNCHANGED << disk, app, control, attachment, reattach, exits, answer,
                    session, entry, journals, allocated, crashes, history >>

DaemonDies ==
    /\ drops < MaxDrops
    /\ drops' = drops + 1
    /\ link' = "gone"
    /\ Cut
    /\ session' = [c \in Chats |-> NoGeneration]
    /\ entry' = [c \in Chats |-> NoEntry]
    /\ creates' = {}
    /\ UNCHANGED << disk, app, control, attachment, reattach, exits, answer, journals,
                    allocated, crashes, history >>

\* A renamed file the directory did not sync may come back as it was before.
PowerFails ==
    /\ crashes < MaxCrashes
    /\ crashes' = crashes + 1
    /\ file' \in {file, stable}
    /\ stable' = file' /\ adopted' = FALSE
    /\ phase' = "down"
    /\ link' = "gone"
    /\ session' = [c \in Chats |-> NoGeneration]
    /\ entry' = [c \in Chats |-> NoEntry]
    /\ creates' = {}
    /\ Ends /\ Forgets
    /\ UNCHANGED << journals, allocated, drops, history >>

\* install_connection: the scope is resumed and the leases kept, or it is a new
\* one; the attachments are queued.  A request that waits survives the first only.
Reconnect ==
    /\ Up /\ link # "up"
    /\ link' = "up"
    /\ reattach' = {c \in Chats : attachment[c] # None}
    /\ \/ link = "lost" /\ UNCHANGED attachment
       \/ /\ op.kind # "create"
          /\ attachment' = [c \in Chats |-> IF attachment[c] = None THEN None ELSE "bound"]
    /\ UNCHANGED << disk, app, control, exits, answer, daemon, count, history >>
-----------------------------------------------------------------------------
Next ==
    \/ Load \/ LoadFails \/ Turn \/ SaveContent \/ ApplyExit \/ OpenBatch \/ Quit
    \/ CloseBatch \/ CloseAndQuit \/ Leave \/ Crash \/ PowerFails \/ Disconnect \/ DaemonDies \/ Reconnect
    \/ \E c \in Chats :
          \/ RestoreAttached(c) \/ RestoreMissing(c) \/ RestoreQuery(c) \/ RestoreFailed(c)
          \/ StartAttached(c) \/ StartMissing(c) \/ StartFailed(c)
          \/ BeginGeneration(c) \/ GenerationFails(c)
          \/ SendAttached(c) \/ SendMissing(c) \/ SendCreate(c) \/ SendFails(c)
          \/ CreateDone(c) \/ CreateFails(c)
          \/ ReceiveExit(c) \/ Reattached(c) \/ ReattachMissing(c) \/ PollStatus(c)
          \/ DeleteChat(c) \/ AgentExits(c)
    \/ \E r \in creates : Created(r) \/ Refused(r)

Spec == Init /\ [][Next]_vars
-----------------------------------------------------------------------------
EntryStatus == {"unknown", "idle", "running", "finished", "exited", "failed"}

\* Every variable keeps its type.
TypeOK ==
    /\ file \in Project /\ stable \in Project /\ mem \in Project
    /\ adopted \in BOOLEAN /\ dirty \in BOOLEAN /\ saveError \in BOOLEAN /\ quitting \in BOOLEAN
    /\ phase \in {"down", "quit", "restoring", "drain", "tick", "events"}
    /\ op \in [kind : {"idle", "missing", "launch", "send", "create"}, chat : Chats \cup {None}]
    /\ todo \subseteq Chats /\ reattach \subseteq Chats
    /\ attachment \in [Chats -> {None, "bound", "live"}]
    /\ link \in {"up", "lost", "gone"}
    /\ answer \in {None, "created", "refused"}
    /\ exits \in Seq([chat : Chats, code : ExitCodes, generation : Generations \cup {NoGeneration}])
    /\ session \in [Chats -> Generations \cup {NoGeneration}]
    /\ entry \in [Chats -> [generation : Generations \cup {NoGeneration}, status : EntryStatus]]
    /\ wire \in [Chats -> [code : ExitCodes, generation : Generations] \cup {NoExit}]
    /\ creates \subseteq [chat : Chats, generation : Generations, here : BOOLEAN]
    /\ journals \subseteq Generations
    /\ overtaken \subseteq Generations /\ mistaken \subseteq Generations
    /\ allocated \in 0 .. LastGeneration
    /\ crashes \in 0 .. MaxCrashes /\ drops \in 0 .. MaxDrops

\* The dirty flag can be trusted: while it is clear, memory, the state file and
\* what a power failure would leave of it are the same (but for a file that was
\* loaded before it was durable), and a quit happens only then.
CleanIsDurable ==
    /\ phase = "quit" => ~ dirty
    /\ phase # "down" /\ ~ dirty => file = mem /\ (stable = mem \/ adopted)

Recorded(c) ==
    session[c] # NoGeneration => file[c].generation = session[c] \/ file[c] = Deleted

\* An agent runs only with its generation in the state file, so that a client
\* started after any crash finds it again and never runs a second one
\* ("durable before the process that carries it starts").  In two cases the client
\* drops the record of an agent that lives: it was told that the chat has no
\* session while a create was still being served, and the exit of an earlier
\* generation was applied after this one had been started.
AgentRecorded == \A c \in Chats :
    session[c] \in overtaken \cup mistaken \/ Recorded(c)

\* The same with the first exception only: no exit clears the record of an agent
\* started after it.
StartedIsRecorded == \A c \in Chats : session[c] \in overtaken \/ Recorded(c)

\* A chat no generation owns does not show a working agent: nothing would ever
\* correct it.
NoGhostThinking ==
    phase # "down" => \A c \in Chats :
        mem[c].generation = NoGeneration => mem[c].status # "thinking"
=============================================================================
