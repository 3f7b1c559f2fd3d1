------------------------------- MODULE PaneStop --------------------------------
(***************************************************************************)
(* The end of one published pane: the threads that stop it, wait for it    *)
(* and finalize it.                                                        *)
(*                                                                         *)
(*   - a reader thread per stop request (handle_stop_request), and the     *)
(*     main thread on shutdown (begin_daemon_shutdown): they look the pane *)
(*     up, record the stop and start a termination driver;                 *)
(*   - the termination drivers (start_stop_if_needed, drive_termination,   *)
(*     wait_for_finalization): SIGTERM, a bounded wait, SIGKILL, a bounded *)
(*     wait, and on failure the pending stops are failed;                  *)
(*   - the PTY reader and the child waiter, whichever comes second         *)
(*     finalizes the pane (maybe_finalize).                                *)
(*                                                                         *)
(* One action is one critical section of the server lock, the pane lock or *)
(* the lifecycle condition variable's lock.  The generation behind the     *)
(* condition variable is kept as one bit per driver: whether it moved      *)
(* since the driver last read it.  Signals and the child are external: a   *)
(* signal is sent or fails, the child and its output end when they like.   *)
(***************************************************************************)
EXTENDS Naturals

CONSTANTS Stops,    \* stop requests (RequestKey), each handled once
          Daemon    \* the main thread, when it shuts the daemon down

ASSUME PaneStopAssumption == Daemon \notin Stops

VARIABLES
    life,      \* lifecycle; Exited is left within the step that enters it
    active,    \* stop_driver_active
    pending,   \* pending_stops
    handler,   \* what each thread that may start a driver is about to do
    driver,    \* the driver each of them started: [stage, at, stale]
    reader,    \* the PTY reader: "reading", "drained" (reader_done), "ended"
    waiter,    \* the waiter: "waiting", "failing", "reaped" (child_exit), "ended"
    answer,    \* the completed StopResult of each request
    exits      \* history: PaneExited messages

vars == << life, active, pending, handler, driver, reader, waiter, answer, exits >>

Starters == Stops \cup {Daemon}

\* A driver before its first step, and one that is done.
NoDriver == [stage |-> "none", at |-> "none", stale |-> FALSE]
Ended    == [NoDriver EXCEPT !.stage = "ended"]
Stage(name)   == [NoDriver EXCEPT !.stage = name]
Waiting(name) == [NoDriver EXCEPT !.stage = name, !.at = "enter"]

Init ==
    /\ life = "running"
    /\ active = FALSE
    /\ pending = {}
    /\ handler = [s \in Starters |-> "new"]
    /\ driver = [s \in Starters |-> NoDriver]
    /\ reader = "reading"
    /\ waiter = "waiting"
    /\ answer = [r \in Stops |-> "none"]
    /\ exits = 0
-----------------------------------------------------------------------------
\* notify_lifecycle, called under the pane lock: every driver that has read
\* the generation sees a newer one.
Notified == [s \in Starters |->
                IF driver[s].at \in {"check", "compare", "sleep"}
                THEN [driver[s] EXCEPT !.stale = TRUE] ELSE driver[s]]

AnswerPending(outcome) == [r \in Stops |-> IF r \in pending THEN outcome ELSE answer[r]]

\* Mutant of Lookup: a pane that is already stopping counts as absent.
LookupRunning(r) ==
    /\ handler[r] = "new"
    /\ handler' = [handler EXCEPT ![r] = IF life = "running" THEN "found" ELSE "missing"]
    /\ UNCHANGED << life, active, pending, driver, reader, waiter, answer, exits >>

\* A new stop request finds the pane, or no session of that ID.
Lookup(r) ==
    /\ handler[r] = "new"
    /\ handler' = [handler EXCEPT ![r] = IF life = "removed" THEN "missing" ELSE "found"]
    /\ UNCHANGED << life, active, pending, driver, reader, waiter, answer, exits >>

\* Under the pane lock: the identity or the lease does not match, or the pane
\* is gone by now.
Refuse(r) ==
    /\ handler[r] = "found"
    /\ \/ handler' = [handler EXCEPT ![r] = "refused"]
       \/ life = "removed" /\ handler' = [handler EXCEPT ![r] = "missing"]
    /\ UNCHANGED << life, active, pending, driver, reader, waiter, answer, exits >>

\* Mutant of Push: a pane that is already stopping is left to its driver.
PushOntoStopping(r) ==
    /\ handler[r] = "found"
    /\ life # "removed"
    /\ pending' = pending \cup {r}
    /\ life' = "stopping"
    /\ handler' = [handler EXCEPT ![r] = IF life = "running" THEN "starting" ELSE "done"]
    /\ UNCHANGED << active, driver, reader, waiter, answer, exits >>

\* Or the stop is recorded.
Push(r) ==
    /\ handler[r] = "found"
    /\ life # "removed"
    /\ pending' = pending \cup {r}
    /\ life' = "stopping"
    /\ handler' = [handler EXCEPT ![r] = "starting"]
    /\ UNCHANGED << active, driver, reader, waiter, answer, exits >>

\* complete_and_deliver of a stop that was not recorded.
Conclude(r) ==
    /\ handler[r] \in {"missing", "refused"}
    /\ answer' = [answer EXCEPT ![r] = IF handler[r] = "missing" THEN "absent" ELSE "rejected"]
    /\ handler' = [handler EXCEPT ![r] = "done"]
    /\ UNCHANGED << life, active, pending, driver, reader, waiter, exits >>

\* begin_daemon_shutdown lists the sessions, then starts their drivers.
BeginShutdown ==
    /\ handler[Daemon] = "new"
    /\ handler' = [handler EXCEPT ![Daemon] = IF life = "removed" THEN "done" ELSE "starting"]
    /\ UNCHANGED << life, active, pending, driver, reader, waiter, answer, exits >>

\* start_stop_if_needed: one driver at a time, and none for a pane that is gone.
StartStop(s) ==
    /\ handler[s] = "starting"
    /\ handler' = [handler EXCEPT ![s] = "done"]
    /\ IF life = "removed" \/ active
       THEN UNCHANGED << life, active, driver >>
       ELSE /\ life' = "stopping"
            /\ active' = TRUE
            /\ driver' = [driver EXCEPT ![s] = Stage("term")]
    /\ UNCHANGED << pending, reader, waiter, answer, exits >>
-----------------------------------------------------------------------------
DriverMoves(d, next) ==
    /\ driver' = [driver EXCEPT ![d] = next]
    /\ UNCHANGED << life, active, pending, handler, reader, waiter, answer, exits >>

\* drive_termination: the two signals, each of which may fail.
Terminate(d) ==
    /\ driver[d].stage = "term"
    /\ \E next \in {Waiting("grace"), Stage("rollback")} : DriverMoves(d, next)

Kill(d) ==
    /\ driver[d].stage = "kill"
    /\ \E next \in {Waiting("reap"), Stage("giveup")} : DriverMoves(d, next)

AfterTimeout(d) == IF driver[d].stage = "grace" THEN Stage("kill") ELSE Stage("giveup")

\* wait_for_finalization: look at the pane, then read the generation.
EnterWait(d) ==
    /\ driver[d].at = "enter"
    /\ DriverMoves(d, IF life = "removed" THEN Ended ELSE [driver[d] EXCEPT !.at = "observe"])

Observe(d) ==
    /\ driver[d].at = "observe"
    /\ DriverMoves(d, [driver[d] EXCEPT !.at = "check"])

\* The loop: the pane again, and the deadline.
Check(d) ==
    /\ driver[d].at = "check"
    /\ DriverMoves(d, IF life = "removed" THEN Ended ELSE [driver[d] EXCEPT !.at = "compare"])

\* Mutant of Compare: it sleeps without comparing the generations.
CompareNothing(d) ==
    /\ driver[d].at = "compare"
    /\ DriverMoves(d, [driver[d] EXCEPT !.at = "sleep", !.stale = FALSE])

\* The generation moved since it was read: look again.  Otherwise sleep; the
\* mutex is released by the same step.
Compare(d) ==
    /\ driver[d].at = "compare"
    /\ DriverMoves(d, IF driver[d].stale
                      THEN [driver[d] EXCEPT !.at = "check", !.stale = FALSE]
                      ELSE [driver[d] EXCEPT !.at = "sleep"])

Wake(d) ==
    /\ driver[d].at = "sleep"
    /\ DriverMoves(d, [driver[d] EXCEPT !.at = "check", !.stale = FALSE])

\* The deadline passed: after the pane was seen, or asleep with no news.
TimeOut(d) ==
    /\ \/ driver[d].at = "check" /\ life # "removed"
       \/ driver[d].at = "sleep" /\ ~ driver[d].stale
    /\ DriverMoves(d, AfterTimeout(d))

\* Mutant of GiveUp: a driver that timed out leaves the stops alone.
GiveUpSilently(d) ==
    /\ driver[d].stage \in {"rollback", "giveup"}
    /\ active' = FALSE
    /\ life' = IF driver[d].stage = "rollback" /\ life = "stopping" THEN "running" ELSE life
    /\ driver' = [Notified EXCEPT ![d] =
                    IF driver[d].stage = "rollback" THEN Stage("failing") ELSE Ended]
    /\ UNCHANGED << pending, handler, reader, waiter, answer, exits >>

\* The driver lets go of the pane.  SIGTERM was never sent: the pane runs on.
GiveUp(d) ==
    /\ driver[d].stage \in {"rollback", "giveup"}
    /\ active' = FALSE
    /\ life' = IF driver[d].stage = "rollback" /\ life = "stopping" THEN "running" ELSE life
    /\ driver' = [Notified EXCEPT ![d] = Stage("failing")]
    /\ UNCHANGED << pending, handler, reader, waiter, answer, exits >>

\* fail_pending_stops, in a critical section of its own.
FailPending ==
    /\ answer' = AnswerPending("failed")
    /\ pending' = {}
    /\ UNCHANGED << life, active, handler, reader, exits >>

FailAfterDrive(d) ==
    /\ driver[d].stage = "failing"
    /\ driver' = [driver EXCEPT ![d] = Ended]
    /\ FailPending
    /\ UNCHANGED waiter
-----------------------------------------------------------------------------
\* The PTY ends, or cannot be read: reader_done.
Drain ==
    /\ reader = "reading"
    /\ reader' = "drained"
    /\ driver' = Notified
    /\ UNCHANGED << life, active, pending, handler, waiter, answer, exits >>

\* The child is reaped: child_exit.
Reap ==
    /\ waiter = "waiting"
    /\ waiter' = "reaped"
    /\ driver' = Notified
    /\ UNCHANGED << life, active, pending, handler, reader, answer, exits >>

\* Mutant of WaitFails: the driver flag is reset with the error.
WaitFailsResettingDriver ==
    /\ waiter = "waiting"
    /\ waiter' = "failing"
    /\ active' = FALSE
    /\ driver' = Notified
    /\ UNCHANGED << life, pending, handler, reader, answer, exits >>

\* The wait fails: record_wait_failure, then the pending stops are failed, and
\* the waiter tries again.
WaitFails ==
    /\ waiter = "waiting"
    /\ waiter' = "failing"
    /\ driver' = Notified
    /\ UNCHANGED << life, active, pending, handler, reader, answer, exits >>

FailAfterWait ==
    /\ waiter = "failing"
    /\ waiter' = "waiting"
    /\ FailPending
    /\ UNCHANGED driver

\* Mutant of Drained: reader_done is set behind the call.
DrainedLate == reader = "ended"

Drained == reader \in {"drained", "ended"}
Reaped  == waiter \in {"reaped", "ended"}

\* Mutant of MayFinalize: the Removed test is missing.
MayFinalizeAgain == Drained /\ Reaped

MayFinalize == life # "removed" /\ Drained /\ Reaped

\* maybe_finalize: the session goes, PaneExited is emitted and every pending
\* stop completes, all in one critical section.
MaybeFinalize ==
    IF MayFinalize
    THEN /\ life' = "removed"
         /\ active' = FALSE
         /\ driver' = Notified
         /\ answer' = AnswerPending("stopped")
         /\ pending' = {}
         /\ exits' = exits + 1
    ELSE UNCHANGED << life, active, driver, answer, pending, exits >>

FinalizeByReader ==
    /\ reader = "drained"
    /\ reader' = "ended"
    /\ MaybeFinalize
    /\ UNCHANGED << handler, waiter >>

FinalizeByWaiter ==
    /\ waiter = "reaped"
    /\ waiter' = "ended"
    /\ MaybeFinalize
    /\ UNCHANGED << handler, reader >>
-----------------------------------------------------------------------------
Handle(r) == Lookup(r) \/ Refuse(r) \/ Push(r) \/ Conclude(r)

Wait(d) == EnterWait(d) \/ Observe(d) \/ Check(d) \/ Compare(d) \/ Wake(d)

Drive(d) == Terminate(d) \/ Kill(d) \/ GiveUp(d) \/ FailAfterDrive(d)

Finalize == FinalizeByReader \/ FinalizeByWaiter

Next ==
    \/ \E r \in Stops : Handle(r)
    \/ BeginShutdown
    \/ \E s \in Starters : StartStop(s) \/ Drive(s) \/ Wait(s) \/ TimeOut(s)
    \/ Drain \/ Reap \/ WaitFails \/ FailAfterWait \/ Finalize

Spec == Init /\ [][Next]_vars

\* Threads that are not waiting for the child run on.  A wait has an absolute
\* deadline, so one that goes round for ever passes it (strong fairness).
\* Nothing is assumed of the child, its output, or the arrival of requests.
FairSpec ==
    /\ Spec
    /\ \A r \in Stops : WF_vars(handler[r] # "new" /\ Handle(r))
    /\ \A s \in Starters :
          WF_vars(StartStop(s)) /\ WF_vars(Drive(s)) /\ WF_vars(Wait(s)) /\ SF_vars(TimeOut(s))
    /\ WF_vars(FailAfterWait) /\ WF_vars(FinalizeByReader) /\ WF_vars(FinalizeByWaiter)
-----------------------------------------------------------------------------
\* A driver that owns stop_driver_active.
Driving(d) == driver[d].stage \in {"term", "grace", "kill", "reap", "rollback", "giveup"}

DriverType ==
    [stage : {"none", "term", "grace", "kill", "reap", "rollback", "giveup", "failing", "ended"},
     at : {"none", "enter", "observe", "check", "compare", "sleep"},
     stale : BOOLEAN]

TypeOK ==
    /\ life \in {"running", "stopping", "removed"}
    /\ active \in BOOLEAN
    /\ pending \subseteq Stops
    /\ handler \in [Starters -> {"new", "found", "missing", "refused", "starting", "done"}]
    /\ driver \in [Starters -> DriverType]
    /\ reader \in {"reading", "drained", "ended"}
    /\ waiter \in {"waiting", "failing", "reaped", "ended"}
    /\ answer \in [Stops -> {"none", "absent", "rejected", "stopped", "failed"}]
    /\ exits \in 0 .. 1

\* Whenever a stop waits for its answer, some thread is still going to give it
\* one: a driver at work, a driver or waiter about to fail the pending stops,
\* or the handler that is about to start a driver.
PendingAttended ==
    pending # {} =>
        \/ \E s \in Starters : Driving(s) \/ driver[s].stage = "failing"
        \/ waiter = "failing"
        \/ \E r \in pending : handler[r] = "starting"

\* record_wait_failure: clearing the flag "could launch a duplicate TERM/KILL
\* driver": at most one driver is between its start and its letting go, and
\* the flag says so as long as the pane exists.
SingleDriver ==
    /\ \A d, e \in Starters : Driving(d) /\ Driving(e) => d = e
    /\ life # "removed" => (active <=> \E d \in Starters : Driving(d))

\* A driver that sleeps although the pane is gone has a notification to wake
\* up to: finalization is never lost between the look and the sleep.
NoLostWakeup ==
    \A d \in Starters : driver[d].at = "sleep" /\ life = "removed" => driver[d].stale

\* docs/DAEMON.md: finalization "emits one definitive PaneExited" although two
\* threads try, and leaves no stop behind.
FinalizedOnce ==
    /\ exits = IF life = "removed" THEN 1 ELSE 0
    /\ life = "removed" => pending = {}

\* The stop contract.
Outcome(r) == IF answer[r] # "none" THEN answer[r]
              ELSE IF r \in pending THEN "accepted" ELSE "new"

Service == INSTANCE StopService WITH gone <- life = "removed", stop <- [r \in Stops |-> Outcome(r)]
ImplementsStopService == Service!Spec

\* A stop the daemon took up is answered, whatever the child, its output and
\* the signals do.
StopAnswered == \A r \in Stops : (handler[r] # "new") ~> (answer[r] # "none")

\* Once the child is reaped and the output drained, in either order and
\* however the two threads interleave, the pane goes.
Finalizes == (Drained /\ Reaped) ~> (life = "removed")
=============================================================================
