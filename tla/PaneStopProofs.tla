---------------------------- MODULE PaneStopProofs ----------------------------
(***************************************************************************)
(* What PaneStop guarantees for any number of stop requests: one inductive *)
(* invariant, the safety properties that follow from it, and the           *)
(* refinement of StopService.                                              *)
(***************************************************************************)
EXTENDS PaneStop, TLAPS

\* A driver is inside wait_for_finalization exactly in its two waiting stages.
WaitStages ==
    \A d \in Starters : driver[d].at # "none" <=> driver[d].stage \in {"grace", "reap"}

\* No thread starts a second driver, and one that has not started yet has none.
FreshDrivers == \A s \in Starters : handler[s] # "done" => driver[s].stage = "none"

\* A driver that compared the generation, or is about to, while the pane is
\* gone, finds or found it moved.
Noticed ==
    \A d \in Starters :
        driver[d].at \in {"compare", "sleep"} /\ life = "removed" => driver[d].stale

\* A stop is unanswered while its handler is busy with it or it is pending,
\* and only a recorded stop is pending.
Accounted(r) ==
    /\ handler[r] \in {"new", "found", "missing", "refused"} => answer[r] = "none" /\ r \notin pending
    /\ handler[r] = "missing" => life = "removed"
    /\ r \in pending => answer[r] = "none"

IInv ==
    /\ TypeOK
    /\ SingleDriver
    /\ PendingAttended
    /\ FinalizedOnce
    /\ WaitStages
    /\ FreshDrivers
    /\ Noticed
    /\ \A r \in Stops : Accounted(r)

LEMMA InitIInv == Init => IInv
<1> SUFFICES ASSUME Init PROVE IInv
  OBVIOUS
<1>1. TypeOK
  <2>1. NoDriver \in DriverType
    BY DEF NoDriver, DriverType
  <2>2. driver \in [Starters -> DriverType]
    BY <2>1 DEF Init
  <2>3. exits \in 0 .. 1
    BY DEF Init
  <2>4. handler \in [Starters -> {"new", "found", "missing", "refused", "starting", "done"}]
    BY DEF Init
  <2>5. answer \in [Stops -> {"none", "absent", "rejected", "stopped", "failed"}]
    BY DEF Init
  <2>6. QED
    BY <2>2, <2>3, <2>4, <2>5 DEF Init, TypeOK
<1>2. \A s \in Starters : driver[s].stage = "none" /\ driver[s].at = "none"
  BY DEF Init, NoDriver
<1>3. SingleDriver /\ PendingAttended /\ FinalizedOnce
  BY <1>2 DEF Init, SingleDriver, PendingAttended, FinalizedOnce, Driving
<1>4. WaitStages /\ FreshDrivers /\ Noticed
  BY <1>2 DEF WaitStages, FreshDrivers, Noticed
<1>5. \A r \in Stops : Accounted(r)
  BY DEF Init, Accounted, Starters
<1>6. QED
  BY <1>1, <1>3, <1>4, <1>5 DEF IInv

\* What a notification does to the drivers.
LEMMA NotifiedFacts ==
    ASSUME TypeOK
    PROVE  /\ Notified \in [Starters -> DriverType]
           /\ \A s \in Starters :
                /\ Notified[s].stage = driver[s].stage
                /\ Notified[s].at = driver[s].at
                /\ Notified[s].at \in {"check", "compare", "sleep"} => Notified[s].stale
<1>1. ASSUME NEW s \in Starters
      PROVE  /\ Notified[s] \in DriverType
             /\ Notified[s].stage = driver[s].stage
             /\ Notified[s].at = driver[s].at
             /\ Notified[s].at \in {"check", "compare", "sleep"} => Notified[s].stale
  <2>1. driver[s] \in DriverType
    BY DEF TypeOK
  <2>2. Notified[s] = IF driver[s].at \in {"check", "compare", "sleep"}
                      THEN [driver[s] EXCEPT !.stale = TRUE] ELSE driver[s]
    BY DEF Notified
  <2>3. CASE driver[s].at \in {"check", "compare", "sleep"}
    BY <2>1, <2>2, <2>3 DEF DriverType
  <2>4. CASE driver[s].at \notin {"check", "compare", "sleep"}
    BY <2>1, <2>2, <2>4
  <2>5. QED
    BY <2>3, <2>4
<1>2. QED
  BY <1>1 DEF Notified

\* The handlers' steps before and after a stop is recorded.
LEMMA HandlerIInv ==
    ASSUME IInv, NEW r \in Stops, Lookup(r) \/ Refuse(r) \/ Push(r) \/ Conclude(r)
    PROVE  IInv'
<1>1. /\ handler \in [Starters -> {"new", "found", "missing", "refused", "starting", "done"}]
      /\ answer \in [Stops -> {"none", "absent", "rejected", "stopped", "failed"}]
      /\ r \in Starters /\ TypeOK /\ Accounted(r) /\ \A q \in Stops : Accounted(q)
  BY DEF IInv, TypeOK, Starters
<1>2. /\ handler[r] \in {"new", "found", "missing", "refused"}
      /\ \A s \in Starters \ {r} : handler'[s] = handler[s]
      /\ driver' = driver /\ active' = active /\ reader' = reader /\ waiter' = waiter
      /\ exits' = exits
  BY <1>1 DEF Lookup, Refuse, Push, Conclude
<1>3. /\ life' = life \/ (life # "removed" /\ life' = "stopping")
      /\ pending' = pending \/ (pending' = pending \cup {r} /\ handler'[r] = "starting" /\ life # "removed")
      /\ handler' \in [Starters -> {"new", "found", "missing", "refused", "starting", "done"}]
      /\ answer' \in [Stops -> {"none", "absent", "rejected", "stopped", "failed"}]
      /\ \A q \in Stops \ {r} : answer'[q] = answer[q]
  BY <1>1 DEF Lookup, Refuse, Push, Conclude
<1>4. TypeOK'
  BY <1>1, <1>2, <1>3 DEF TypeOK
<1>5. SingleDriver' /\ FinalizedOnce' /\ WaitStages' /\ Noticed'
  BY <1>2, <1>3 DEF IInv, SingleDriver, FinalizedOnce, WaitStages, Noticed, Driving
<1>6. PendingAttended'
  <2>1. CASE pending' = pending
    <3>1. \A q \in pending : handler[q] = "starting" => handler'[q] = "starting"
      BY <1>1, <1>2 DEF TypeOK, Starters
    <3>2. QED
      BY <1>2, <2>1, <3>1 DEF IInv, PendingAttended, Driving
  <2>2. CASE pending' = pending \cup {r} /\ handler'[r] = "starting"
    BY <2>2 DEF PendingAttended
  <2>3. QED
    BY <1>3, <2>1, <2>2
<1>7. FreshDrivers'
  <2>1. driver[r].stage = "none"
    BY <1>1, <1>2 DEF IInv, FreshDrivers
  <2>2. QED
    BY <1>2, <2>1 DEF IInv, FreshDrivers
<1>8. ASSUME NEW q \in Stops PROVE Accounted(q)'
  <2>1. CASE q = r
    BY <1>1, <1>2, <2>1 DEF Accounted, Lookup, Refuse, Push, Conclude
  <2>2. CASE q # r
    <3>1. handler'[q] = handler[q] /\ answer'[q] = answer[q] /\ (q \in pending' <=> q \in pending)
      BY <1>2, <1>3, <2>2 DEF Starters
    <3>2. QED
      BY <1>1, <1>3, <3>1 DEF Accounted
  <2>3. QED
    BY <2>1, <2>2
<1>9. QED
  BY <1>4, <1>5, <1>6, <1>7, <1>8 DEF IInv

\* The main thread lists the pane.
LEMMA ShutdownIInv == ASSUME IInv, BeginShutdown PROVE IInv'
<1>1. /\ Daemon \in Starters /\ Daemon \notin Stops /\ handler[Daemon] = "new"
      /\ handler \in [Starters -> {"new", "found", "missing", "refused", "starting", "done"}]
  BY PaneStopAssumption DEF IInv, TypeOK, BeginShutdown, Starters
<1>2. /\ \A r \in Stops : handler'[r] = handler[r]
      /\ handler' \in [Starters -> {"new", "found", "missing", "refused", "starting", "done"}]
      /\ \A s \in Starters : handler'[s] # "done" => handler[s] # "done"
  BY <1>1 DEF BeginShutdown, Starters
<1>3. /\ driver' = driver /\ active' = active /\ reader' = reader /\ waiter' = waiter
      /\ exits' = exits /\ life' = life /\ pending' = pending /\ answer' = answer
  BY DEF BeginShutdown
<1>4. TypeOK'
  BY <1>2, <1>3 DEF IInv, TypeOK
<1>5. SingleDriver' /\ FinalizedOnce' /\ WaitStages' /\ Noticed' /\ FreshDrivers'
  BY <1>2, <1>3 DEF IInv, SingleDriver, FinalizedOnce, WaitStages, Noticed, FreshDrivers, Driving
<1>6. PendingAttended' /\ \A r \in Stops : Accounted(r)'
  BY <1>2, <1>3 DEF IInv, TypeOK, PendingAttended, Accounted, Driving
<1>7. QED
  BY <1>4, <1>5, <1>6 DEF IInv

\* start_stop_if_needed: the flag is down exactly when nobody drives.
LEMMA StartStopIInv == ASSUME IInv, NEW s \in Starters, StartStop(s) PROVE IInv'
<1>1. /\ handler \in [Starters -> {"new", "found", "missing", "refused", "starting", "done"}]
      /\ driver \in [Starters -> DriverType]
      /\ handler[s] = "starting" /\ handler' = [handler EXCEPT ![s] = "done"]
      /\ pending' = pending /\ reader' = reader /\ waiter' = waiter
      /\ answer' = answer /\ exits' = exits
  BY DEF IInv, TypeOK, StartStop
<1>2. \A r \in Stops : Accounted(r)'
  <2>1. \A r \in Stops : /\ handler'[r] # handler[r] => handler'[r] = "done"
                         /\ Accounted(r)
    BY <1>1 DEF IInv, Starters
  <2>2. life = "removed" => life' = "removed"
    BY DEF StartStop
  <2>3. QED
    BY <1>1, <2>1, <2>2 DEF Accounted
<1>3. CASE life = "removed" \/ active
  <2>1. life' = life /\ active' = active /\ driver' = driver
    BY <1>3 DEF StartStop
  <2>2. TypeOK' /\ SingleDriver' /\ FinalizedOnce' /\ WaitStages' /\ Noticed' /\ FreshDrivers'
    BY <1>1, <2>1 DEF IInv, TypeOK, SingleDriver, FinalizedOnce, WaitStages, Noticed,
                      FreshDrivers, Driving
  <2>3. PendingAttended'
    <3>1. pending # {} => life # "removed"
      BY DEF IInv, FinalizedOnce
    <3>2. pending # {} => \E d \in Starters : Driving(d)
      BY <1>3, <3>1 DEF IInv, SingleDriver
    <3>3. QED
      BY <1>1, <2>1, <3>2 DEF PendingAttended, Driving
  <2>4. QED
    BY <1>2, <2>2, <2>3 DEF IInv
<1>4. CASE life # "removed" /\ ~ active
  <2>1. /\ life' = "stopping" /\ active' = TRUE
        /\ driver' = [driver EXCEPT ![s] = Stage("term")]
    BY <1>4 DEF StartStop
  <2>2. /\ Stage("term") \in DriverType
        /\ Stage("term").stage = "term" /\ Stage("term").at = "none"
    BY DEF Stage, NoDriver, DriverType
  <2>3. /\ driver' \in [Starters -> DriverType] /\ driver'[s] = Stage("term")
        /\ \A d \in Starters \ {s} : driver'[d] = driver[d]
    BY <1>1, <2>1, <2>2
  <2>4. \A d \in Starters : ~ Driving(d)
    BY <1>4 DEF IInv, SingleDriver
  <2>5. TypeOK'
    BY <1>1, <2>1, <2>3 DEF IInv, TypeOK
  <2>6. /\ Driving(s)'
        /\ \A d \in Starters \ {s} : ~ Driving(d)'
    BY <2>2, <2>3, <2>4 DEF Driving
  <2>7. SingleDriver' /\ PendingAttended'
    BY <2>1, <2>6 DEF SingleDriver, PendingAttended
  <2>8. FinalizedOnce' /\ WaitStages' /\ Noticed' /\ FreshDrivers'
    BY <1>1, <1>4, <2>1, <2>2, <2>3
       DEF IInv, FinalizedOnce, WaitStages, Noticed, FreshDrivers
  <2>9. QED
    BY <1>2, <2>5, <2>7, <2>8 DEF IInv
<1>5. QED
  BY <1>3, <1>4 DEF IInv, TypeOK

\* A driver's own step keeps the invariant when it goes on driving as long as
\* the pane is there, and does not fall asleep on a pane that is gone.
LEMMA MoveIInv ==
    ASSUME IInv, NEW d \in Starters, NEW next \in DriverType, DriverMoves(d, next), Driving(d),
           next.at # "none" <=> next.stage \in {"grace", "reap"},
           next.at \in {"compare", "sleep"} /\ life = "removed" => next.stale,
           \/ next.stage \in {"term", "grace", "kill", "reap", "rollback", "giveup"}
           \/ life = "removed"
    PROVE  IInv'
<1>1. /\ driver \in [Starters -> DriverType] /\ driver' \in [Starters -> DriverType]
      /\ driver'[d] = next /\ \A e \in Starters \ {d} : driver'[e] = driver[e]
      /\ life' = life /\ active' = active /\ pending' = pending /\ handler' = handler
      /\ reader' = reader /\ waiter' = waiter /\ answer' = answer /\ exits' = exits
  BY DEF IInv, TypeOK, DriverMoves
<1>2. TypeOK' /\ FinalizedOnce' /\ WaitStages' /\ Noticed'
  BY <1>1 DEF IInv, TypeOK, FinalizedOnce, WaitStages, Noticed
<1>3. FreshDrivers'
  <2>1. handler[d] = "done"
    BY DEF IInv, FreshDrivers, Driving
  <2>2. QED
    BY <1>1, <2>1 DEF IInv, FreshDrivers
<1>4. \A e \in Starters : Driving(e)' => Driving(e)
  BY <1>1 DEF Driving
<1>5. life # "removed" => Driving(d)'
  BY <1>1 DEF Driving
<1>6. SingleDriver'
  BY <1>1, <1>4, <1>5 DEF IInv, SingleDriver
<1>7. PendingAttended'
  BY <1>1, <1>5 DEF IInv, FinalizedOnce, PendingAttended
<1>8. \A r \in Stops : Accounted(r)'
  BY <1>1 DEF IInv, Accounted
<1>9. QED
  BY <1>2, <1>3, <1>6, <1>7, <1>8 DEF IInv

\* Signals, the waiting loop and its deadline are moves of that kind.
LEMMA DriverIInv ==
    ASSUME IInv, NEW d \in Starters, Terminate(d) \/ Kill(d) \/ Wait(d) \/ TimeOut(d)
    PROVE  IInv'
<1>1. /\ driver[d] \in DriverType
      /\ driver[d].at # "none" <=> driver[d].stage \in {"grace", "reap"}
      /\ driver[d].at \in {"compare", "sleep"} /\ life = "removed" => driver[d].stale
  BY DEF IInv, TypeOK, WaitStages, Noticed
<1>2. ASSUME NEW name \in {"term", "kill", "rollback", "giveup"}
      PROVE  /\ Stage(name) \in DriverType
             /\ Stage(name).stage = name /\ Stage(name).at = "none"
  BY DEF Stage, NoDriver, DriverType
<1>3. ASSUME NEW name \in {"grace", "reap"}
      PROVE  /\ Waiting(name) \in DriverType
             /\ Waiting(name).stage = name /\ Waiting(name).at = "enter"
  BY DEF Waiting, NoDriver, DriverType
<1>4. Ended \in DriverType /\ Ended.at = "none" /\ Ended.stage = "ended"
  BY DEF Ended, NoDriver, DriverType
<1>5. CASE Terminate(d) \/ Kill(d)
  <2>1. PICK next \in {Waiting("grace"), Waiting("reap"), Stage("rollback"), Stage("giveup")} :
            DriverMoves(d, next)
    BY <1>5 DEF Terminate, Kill
  <2>2. Driving(d)
    BY <1>5 DEF Driving, Terminate, Kill
  <2>3. CASE next \in {Waiting("grace"), Waiting("reap")}
    BY <1>3, <2>1, <2>2, <2>3, MoveIInv
  <2>4. CASE next \in {Stage("rollback"), Stage("giveup")}
    BY <1>2, <2>1, <2>2, <2>4, MoveIInv
  <2>5. QED
    BY <2>1, <2>3, <2>4
<1>6. CASE Wait(d) \/ TimeOut(d)
  <2>1. driver[d].at # "none" /\ driver[d].stage \in {"grace", "reap"} /\ Driving(d)
    BY <1>1, <1>6 DEF Wait, EnterWait, Observe, Check, Compare, Wake, TimeOut, Driving
  <2>2. CASE TimeOut(d)
    <3>1. AfterTimeout(d) \in {Stage("kill"), Stage("giveup")} /\ DriverMoves(d, AfterTimeout(d))
      BY <2>2 DEF TimeOut, AfterTimeout
    <3>2. QED
      BY <1>2, <2>1, <3>1, MoveIInv
  <2>3. CASE life = "removed" /\ DriverMoves(d, Ended)
    BY <1>4, <2>1, <2>3, MoveIInv
  <2>4. ASSUME NEW at \in {"observe", "check", "compare", "sleep"}, NEW stale \in BOOLEAN,
               DriverMoves(d, [driver[d] EXCEPT !.at = at, !.stale = stale]),
               at \in {"compare", "sleep"} /\ life = "removed" => stale
        PROVE  IInv'
    <3> DEFINE next == [driver[d] EXCEPT !.at = at, !.stale = stale]
    <3>1. /\ next \in DriverType /\ next.at = at /\ next.stage = driver[d].stage
          /\ next.stale = stale
      BY <1>1 DEF DriverType
    <3>2. DriverMoves(d, next)
      BY <2>4
    <3> HIDE DEF next
    <3>3. QED
      BY <2>1, <2>4, <3>1, <3>2, MoveIInv
  <2>5. ASSUME NEW at \in {"observe", "check", "compare", "sleep"}
        PROVE  [driver[d] EXCEPT !.at = at] = [driver[d] EXCEPT !.at = at, !.stale = driver[d].stale]
               /\ driver[d].stale \in BOOLEAN
    BY <1>1 DEF DriverType
  <2>6. CASE EnterWait(d)
    <3>1. life # "removed" => DriverMoves(d, [driver[d] EXCEPT !.at = "observe"])
      BY <2>6 DEF EnterWait
    <3>2. life = "removed" => DriverMoves(d, Ended)
      BY <2>6 DEF EnterWait
    <3>3. QED
      BY <2>3, <2>4, <2>5, <3>1, <3>2
  <2>7. CASE Observe(d)
    BY <2>4, <2>5, <2>7 DEF Observe
  <2>8. CASE Check(d)
    <3>1. life # "removed" => DriverMoves(d, [driver[d] EXCEPT !.at = "compare"])
      BY <2>8 DEF Check
    <3>2. life = "removed" => DriverMoves(d, Ended)
      BY <2>8 DEF Check
    <3>3. QED
      BY <2>3, <2>4, <2>5, <3>1, <3>2
  <2>9. CASE Compare(d)
    <3>1. CASE driver[d].stale
      <4>1. DriverMoves(d, [driver[d] EXCEPT !.at = "check", !.stale = FALSE])
        BY <2>9, <3>1 DEF Compare
      <4>2. QED
        BY <2>4, <4>1
    <3>2. CASE ~ driver[d].stale
      <4>1. DriverMoves(d, [driver[d] EXCEPT !.at = "sleep"]) /\ life # "removed"
        BY <1>1, <2>9, <3>2 DEF Compare
      <4>2. QED
        BY <2>4, <2>5, <4>1
    <3>3. QED
      BY <3>1, <3>2
  <2>10. CASE Wake(d)
    BY <2>4, <2>10 DEF Wake
  <2>11. QED
    BY <1>6, <2>2, <2>6, <2>7, <2>8, <2>9, <2>10 DEF Wait
<1>7. QED
  BY <1>5, <1>6

\* A notification by itself changes nothing the invariant speaks of.
LEMMA NotifyKeeps ==
    ASSUME IInv, driver' = Notified, life' = life, active' = active, handler' = handler,
           pending' = pending, answer' = answer, exits' = exits,
           reader' \in {"reading", "drained", "ended"},
           waiter' \in {"waiting", "failing", "reaped", "ended"},
           waiter = "failing" => waiter' = "failing"
    PROVE  IInv'
<1>1. /\ driver' \in [Starters -> DriverType]
      /\ \A s \in Starters :
            /\ driver'[s].stage = driver[s].stage /\ driver'[s].at = driver[s].at
            /\ driver'[s].at \in {"check", "compare", "sleep"} => driver'[s].stale
  BY NotifiedFacts DEF IInv
<1>2. TypeOK' /\ FinalizedOnce'
  BY <1>1 DEF IInv, TypeOK, FinalizedOnce
<1>3. \A s \in Starters : Driving(s)' <=> Driving(s)
  BY <1>1 DEF Driving
<1>4. SingleDriver' /\ PendingAttended'
  BY <1>1, <1>3 DEF IInv, SingleDriver, PendingAttended
<1>5. WaitStages' /\ FreshDrivers' /\ Noticed'
  BY <1>1 DEF IInv, WaitStages, FreshDrivers, Noticed
<1>6. \A r \in Stops : Accounted(r)'
  BY DEF IInv, Accounted
<1>7. QED
  BY <1>2, <1>4, <1>5, <1>6 DEF IInv

LEMMA WaiterIInv == ASSUME IInv, Drain \/ Reap \/ WaitFails PROVE IInv'
<1>1. CASE Drain
  BY <1>1, NotifyKeeps DEF Drain, IInv, TypeOK
<1>2. CASE Reap
  BY <1>2, NotifyKeeps DEF Reap, IInv, TypeOK
<1>3. CASE WaitFails
  BY <1>3, NotifyKeeps DEF WaitFails, IInv, TypeOK
<1>4. QED
  BY <1>1, <1>2, <1>3

\* The driver lets go: the flag falls with the only driver, and it is going to
\* fail whatever is pending by then.
LEMMA GiveUpIInv == ASSUME IInv, NEW d \in Starters, GiveUp(d) PROVE IInv'
<1>1. /\ driver[d].stage \in {"rollback", "giveup"} /\ active' = FALSE
      /\ driver' = [Notified EXCEPT ![d] = Stage("failing")]
      /\ life' = life \/ (life = "stopping" /\ life' = "running")
      /\ pending' = pending /\ handler' = handler /\ reader' = reader
      /\ waiter' = waiter /\ answer' = answer /\ exits' = exits
  BY DEF GiveUp
<1>2. /\ Notified \in [Starters -> DriverType]
      /\ \A s \in Starters :
            /\ Notified[s].stage = driver[s].stage /\ Notified[s].at = driver[s].at
            /\ Notified[s].at \in {"check", "compare", "sleep"} => Notified[s].stale
  BY NotifiedFacts DEF IInv
<1>3. /\ Stage("failing") \in DriverType
      /\ Stage("failing").stage = "failing" /\ Stage("failing").at = "none"
  BY DEF Stage, NoDriver, DriverType
<1>4. /\ driver' \in [Starters -> DriverType] /\ driver'[d] = Stage("failing")
      /\ \A s \in Starters \ {d} : driver'[s] = Notified[s]
  BY <1>1, <1>2, <1>3
<1>5. Driving(d) /\ \A s \in Starters \ {d} : ~ Driving(s)
  BY <1>1 DEF IInv, SingleDriver, Driving
<1>6. \A s \in Starters : ~ Driving(s)'
  BY <1>2, <1>3, <1>4, <1>5 DEF Driving
<1>7. TypeOK'
  BY <1>1, <1>4 DEF IInv, TypeOK
<1>8. SingleDriver' /\ FinalizedOnce'
  BY <1>1, <1>6 DEF IInv, SingleDriver, FinalizedOnce
<1>9. PendingAttended'
  BY <1>3, <1>4 DEF PendingAttended
<1>10. WaitStages' /\ Noticed'
  BY <1>2, <1>3, <1>4 DEF IInv, WaitStages, Noticed
<1>11. FreshDrivers'
  <2>1. handler[d] = "done"
    BY <1>1 DEF IInv, FreshDrivers
  <2>2. QED
    BY <1>1, <1>2, <1>4, <2>1 DEF IInv, FreshDrivers
<1>12. \A r \in Stops : Accounted(r)'
  BY <1>1 DEF IInv, Accounted
<1>13. QED
  BY <1>7, <1>8, <1>9, <1>10, <1>11, <1>12 DEF IInv

\* Whoever takes the pending stops leaves none behind and answers each.
LEMMA AnswerPendingFacts ==
    ASSUME IInv, NEW outcome \in {"stopped", "failed"},
           answer' = AnswerPending(outcome), pending' = {}, handler' = handler,
           life = "removed" => life' = "removed"
    PROVE  /\ answer' \in [Stops -> {"none", "absent", "rejected", "stopped", "failed"}]
           /\ \A r \in Stops : Accounted(r)'
<1>1. answer \in [Stops -> {"none", "absent", "rejected", "stopped", "failed"}]
  BY DEF IInv, TypeOK
<1>2. \A r \in Stops : answer'[r] = IF r \in pending THEN outcome ELSE answer[r]
  BY DEF AnswerPending
<1>3. answer' \in [Stops -> {"none", "absent", "rejected", "stopped", "failed"}]
  <2>1. \A r \in Stops : (IF r \in pending THEN outcome ELSE answer[r])
                          \in {"none", "absent", "rejected", "stopped", "failed"}
    BY <1>1
  <2>2. QED
    BY <2>1 DEF AnswerPending
<1>4. \A r \in Stops : Accounted(r)'
  BY <1>2 DEF IInv, Accounted
<1>5. QED
  BY <1>3, <1>4

LEMMA FailIInv ==
    ASSUME IInv, (\E d \in Starters : FailAfterDrive(d)) \/ FailAfterWait
    PROVE  IInv'
<1>1. /\ answer' = AnswerPending("failed") /\ pending' = {} /\ life' = life
      /\ active' = active /\ handler' = handler /\ reader' = reader /\ exits' = exits
  BY DEF FailAfterDrive, FailAfterWait, FailPending
<1>2. /\ answer' \in [Stops -> {"none", "absent", "rejected", "stopped", "failed"}]
      /\ \A r \in Stops : Accounted(r)'
  BY <1>1, AnswerPendingFacts
<1>3. waiter' \in {"waiting", "failing", "reaped", "ended"}
  BY DEF IInv, TypeOK, FailAfterDrive, FailAfterWait
<1>4. \/ driver' = driver
      \/ \E d \in Starters : driver[d].stage = "failing" /\ driver' = [driver EXCEPT ![d] = Ended]
  BY DEF FailAfterDrive, FailAfterWait
<1>5. Ended \in DriverType /\ Ended.stage = "ended" /\ Ended.at = "none"
  BY DEF Ended, NoDriver, DriverType
<1>6. /\ driver' \in [Starters -> DriverType]
      /\ \A s \in Starters : \/ driver'[s] = driver[s]
                             \/ driver[s].stage = "failing" /\ driver'[s] = Ended
  <2>1. driver \in [Starters -> DriverType]
    BY DEF IInv, TypeOK
  <2>2. CASE driver' = driver
    BY <2>1, <2>2
  <2>3. ASSUME NEW d \in Starters, driver[d].stage = "failing",
               driver' = [driver EXCEPT ![d] = Ended]
        PROVE  /\ driver' \in [Starters -> DriverType]
               /\ \A s \in Starters : \/ driver'[s] = driver[s]
                                      \/ driver[s].stage = "failing" /\ driver'[s] = Ended
    BY <1>5, <2>1, <2>3
  <2>4. QED
    BY <1>4, <2>2, <2>3
<1>7. \A s \in Starters : Driving(s)' <=> Driving(s)
  BY <1>5, <1>6 DEF Driving
<1>8. TypeOK' /\ FinalizedOnce'
  <2>1. TypeOK'
    BY <1>1, <1>2, <1>3, <1>6 DEF IInv, TypeOK
  <2>2. FinalizedOnce'
    BY <1>1 DEF IInv, FinalizedOnce
  <2>3. QED
    BY <2>1, <2>2
<1>9. SingleDriver' /\ PendingAttended'
  BY <1>1, <1>7 DEF IInv, SingleDriver, PendingAttended
<1>10. WaitStages' /\ FreshDrivers' /\ Noticed'
  BY <1>1, <1>5, <1>6 DEF IInv, WaitStages, FreshDrivers, Noticed
<1>11. QED
  BY <1>2, <1>8, <1>9, <1>10 DEF IInv

\* maybe_finalize, by either thread.
LEMMA FinalizeIInv == ASSUME IInv, Finalize PROVE IInv'
<1>1. /\ MaybeFinalize /\ handler' = handler
      /\ reader' \in {"reading", "drained", "ended"}
      /\ waiter' \in {"waiting", "failing", "reaped", "ended"}
      /\ waiter = "failing" => waiter' = "failing"
  BY DEF IInv, TypeOK, Finalize, FinalizeByReader, FinalizeByWaiter
<1>2. CASE MayFinalize
  <2>1. /\ life # "removed" /\ life' = "removed" /\ active' = FALSE /\ driver' = Notified
        /\ answer' = AnswerPending("stopped") /\ pending' = {} /\ exits' = exits + 1
    BY <1>1, <1>2 DEF MaybeFinalize, MayFinalize
  <2>2. /\ driver' \in [Starters -> DriverType]
        /\ \A s \in Starters :
              /\ driver'[s].stage = driver[s].stage /\ driver'[s].at = driver[s].at
              /\ driver'[s].at \in {"check", "compare", "sleep"} => driver'[s].stale
    BY <2>1, NotifiedFacts DEF IInv
  <2>3. /\ answer' \in [Stops -> {"none", "absent", "rejected", "stopped", "failed"}]
        /\ \A r \in Stops : Accounted(r)'
    BY <1>1, <2>1, AnswerPendingFacts
  <2>4. FinalizedOnce' /\ exits' \in 0 .. 1
    BY <2>1 DEF IInv, FinalizedOnce
  <2>5. TypeOK'
    BY <1>1, <2>1, <2>2, <2>3, <2>4 DEF IInv, TypeOK
  <2>6. \A s \in Starters : Driving(s)' <=> Driving(s)
    BY <2>2 DEF Driving
  <2>7. SingleDriver' /\ PendingAttended'
    BY <2>1, <2>6 DEF IInv, SingleDriver, PendingAttended
  <2>8. WaitStages' /\ FreshDrivers' /\ Noticed'
    BY <1>1, <2>2 DEF IInv, WaitStages, FreshDrivers, Noticed
  <2>9. QED
    BY <2>3, <2>4, <2>5, <2>7, <2>8 DEF IInv
<1>3. CASE ~ MayFinalize
  <2>1. /\ life' = life /\ active' = active /\ driver' = driver /\ answer' = answer
        /\ pending' = pending /\ exits' = exits
    BY <1>1, <1>3 DEF MaybeFinalize
  <2>2. TypeOK' /\ FinalizedOnce'
    BY <1>1, <2>1 DEF IInv, TypeOK, FinalizedOnce
  <2>3. SingleDriver' /\ PendingAttended'
    BY <1>1, <2>1 DEF IInv, SingleDriver, PendingAttended, Driving
  <2>4. WaitStages' /\ FreshDrivers' /\ Noticed' /\ \A r \in Stops : Accounted(r)'
    BY <1>1, <2>1 DEF IInv, WaitStages, FreshDrivers, Noticed, Accounted
  <2>5. QED
    BY <2>2, <2>3, <2>4 DEF IInv
<1>4. QED
  BY <1>2, <1>3

LEMMA NextIInv == IInv /\ [Next]_vars => IInv'
<1> SUFFICES ASSUME IInv, [Next]_vars PROVE IInv'
  OBVIOUS
<1>1. ASSUME NEW r \in Stops, Handle(r) PROVE IInv'
  BY <1>1, HandlerIInv DEF Handle
<1>2. ASSUME NEW s \in Starters, StartStop(s) PROVE IInv'
  BY <1>2, StartStopIInv
<1>3. ASSUME NEW s \in Starters, Drive(s) \/ Wait(s) \/ TimeOut(s) PROVE IInv'
  <2>1. CASE Terminate(s) \/ Kill(s) \/ Wait(s) \/ TimeOut(s)
    BY <2>1, DriverIInv
  <2>2. CASE GiveUp(s)
    BY <2>2, GiveUpIInv
  <2>3. CASE FailAfterDrive(s)
    BY <2>3, FailIInv
  <2>4. QED
    BY <1>3, <2>1, <2>2, <2>3 DEF Drive
<1>4. CASE BeginShutdown
  BY <1>4, ShutdownIInv
<1>5. CASE Drain \/ Reap \/ WaitFails
  BY <1>5, WaiterIInv
<1>6. CASE FailAfterWait
  BY <1>6, FailIInv
<1>7. CASE Finalize
  BY <1>7, FinalizeIInv
<1>8. CASE UNCHANGED vars
  <2>1. /\ life' = life /\ active' = active /\ pending' = pending /\ handler' = handler
        /\ driver' = driver /\ reader' = reader /\ waiter' = waiter /\ answer' = answer
        /\ exits' = exits
    BY <1>8 DEF vars
  <2>2. TypeOK' /\ FinalizedOnce'
    BY <2>1 DEF IInv, TypeOK, FinalizedOnce
  <2>3. SingleDriver' /\ PendingAttended'
    BY <2>1 DEF IInv, SingleDriver, PendingAttended, Driving
  <2>4. WaitStages' /\ FreshDrivers' /\ Noticed' /\ \A r \in Stops : Accounted(r)'
    BY <2>1 DEF IInv, WaitStages, FreshDrivers, Noticed, Accounted
  <2>5. QED
    BY <2>2, <2>3, <2>4 DEF IInv
<1>9. QED
  BY <1>1, <1>2, <1>3, <1>4, <1>5, <1>6, <1>7, <1>8 DEF Next

LEMMA Invariance == Spec => []IInv
<1>1. QED
  BY InitIInv, NextIInv, PTL DEF Spec

\* The types of the threads and of the answers.
THEOREM TypeCorrect == Spec => []TypeOK
<1>1. IInv => TypeOK
  BY DEF IInv
<1>2. QED
  BY <1>1, Invariance, PTL

\* fail_pending_stops, maybe_finalize, start_stop_if_needed: no recorded stop
\* is ever without a thread that is going to answer it.
THEOREM StopsAttended == Spec => []PendingAttended
<1>1. IInv => PendingAttended
  BY DEF IInv
<1>2. QED
  BY <1>1, Invariance, PTL

\* stop_driver_active: one termination driver at a time.
THEOREM OneDriver == Spec => []SingleDriver
<1>1. IInv => SingleDriver
  BY DEF IInv
<1>2. QED
  BY <1>1, Invariance, PTL

\* wait_for_finalization: the wakeup of a finalized pane is never lost.
THEOREM WakeupKept == Spec => []NoLostWakeup
<1>1. IInv => NoLostWakeup
  BY DEF IInv, Noticed, NoLostWakeup
<1>2. QED
  BY <1>1, Invariance, PTL

\* maybe_finalize: one PaneExited, and no stop left behind.
THEOREM ExitOnce == Spec => []FinalizedOnce
<1>1. IInv => FinalizedOnce
  BY DEF IInv
<1>2. QED
  BY <1>1, Invariance, PTL
-----------------------------------------------------------------------------
\* The requests the abstract state has accepted are the pending ones.
LEMMA AcceptedArePending ==
    ASSUME IInv PROVE Service!Accepted = pending
<1>1. /\ \A r \in Stops : Accounted(r)
      /\ answer \in [Stops -> {"none", "absent", "rejected", "stopped", "failed"}]
      /\ pending \subseteq Stops
  BY DEF IInv, TypeOK
<1>2. ASSUME NEW r \in Stops PROVE Outcome(r) = "accepted" <=> r \in pending
  BY <1>1 DEF Outcome, Accounted
<1>3. QED
  BY <1>1, <1>2 DEF Service!Accepted

LEMMA InitRefines == Init => Service!Init
  BY DEF Init, Service!Init, Outcome

\* Answering the pending stops is answering the accepted ones.
LEMMA PendingRefines ==
    ASSUME IInv, NEW outcome \in {"stopped", "failed"},
           answer' = AnswerPending(outcome), pending' = {}
    PROVE  [r \in Stops |-> Outcome(r)]' = Service!AnswerAccepted(outcome)
<1>1. \A r \in Stops : Accounted(r)
  BY DEF IInv
<1>2. ASSUME NEW r \in Stops
      PROVE  Outcome(r)' = IF r \in Service!Accepted THEN outcome ELSE Outcome(r)
  <2>1. Service!Accepted = pending
    BY AcceptedArePending
  <2>2. answer'[r] = IF r \in pending THEN outcome ELSE answer[r]
    BY DEF AnswerPending
  <2>3. QED
    BY <1>1, <2>1, <2>2 DEF Outcome, Accounted
<1>3. QED
  BY <1>2 DEF Service!AnswerAccepted

\* A handler's step: the record, a rejection, or nothing visible.
LEMMA HandlerRefines ==
    ASSUME IInv, NEW r \in Stops, Handle(r)
    PROVE  [Service!Next]_Service!vars
<1> DEFINE stop == [q \in Stops |-> Outcome(q)]
<1>1. /\ Accounted(r) /\ handler[r] # "starting" /\ handler[r] # "done"
      /\ answer \in [Stops -> {"none", "absent", "rejected", "stopped", "failed"}]
  BY DEF IInv, TypeOK, Handle, Lookup, Refuse, Push, Conclude
<1>2. stop[r] = "new"
  BY <1>1 DEF Outcome, Accounted, IInv, TypeOK, Handle, Lookup, Refuse, Push, Conclude
<1>3. CASE Lookup(r) \/ Refuse(r)
  <2>1. life' = life /\ answer' = answer /\ pending' = pending
    BY <1>3 DEF Lookup, Refuse
  <2>2. QED
    BY <2>1 DEF Service!vars, Outcome
<1>4. CASE Push(r)
  <2>1. /\ life # "removed" /\ life' # "removed" /\ answer' = answer
        /\ pending' = pending \cup {r} /\ answer[r] = "none"
    BY <1>1, <1>4 DEF Push, Accounted
  <2>2. stop' = [stop EXCEPT ![r] = "accepted"]
    BY <2>1 DEF Outcome
  <2>3. Service!Accept(r)
    BY <1>2, <2>1, <2>2 DEF Service!Accept
  <2>4. QED
    BY <2>3 DEF Service!Next
<1>5. CASE Conclude(r)
  <2> DEFINE result == IF handler[r] = "missing" THEN "absent" ELSE "rejected"
  <2>1. /\ life' = life /\ pending' = pending
        /\ answer' = [answer EXCEPT ![r] = result]
        /\ result = "absent" => life = "removed"
    BY <1>1, <1>5 DEF Conclude, Accounted
  <2>2. stop' = [stop EXCEPT ![r] = result]
    BY <1>1, <2>1 DEF Outcome
  <2>3. Service!FindAbsent(r) \/ Service!Reject(r)
    BY <1>2, <2>1, <2>2 DEF Service!FindAbsent, Service!Reject
  <2>4. QED
    BY <2>3 DEF Service!Next
<1>6. QED
  BY <1>3, <1>4, <1>5 DEF Handle

LEMMA NextRefines == IInv /\ [Next]_vars => [Service!Next]_Service!vars
<1> SUFFICES ASSUME IInv, [Next]_vars PROVE [Service!Next]_Service!vars
  OBVIOUS
<1>1. ASSUME life' = life \/ (life # "removed" /\ life' # "removed"),
             answer' = answer, pending' = pending
      PROVE  [Service!Next]_Service!vars
  BY <1>1 DEF Service!vars, Outcome
<1>2. ASSUME NEW r \in Stops, Handle(r) PROVE [Service!Next]_Service!vars
  BY <1>2, HandlerRefines
<1>3. ASSUME FailPending PROVE [Service!Next]_Service!vars
  <2>1. /\ answer' = AnswerPending("failed") /\ pending' = {} /\ life' = life
    BY <1>3 DEF FailPending
  <2>2. [r \in Stops |-> Outcome(r)]' = Service!AnswerAccepted("failed")
    BY <2>1, PendingRefines
  <2>3. CASE pending # {}
    BY <2>1, <2>2, <2>3, AcceptedArePending DEF Service!Next, Service!Fail
  <2>4. CASE pending = {}
    <3>1. \A r \in Stops : answer'[r] = answer[r]
      BY <2>1, <2>4 DEF AnswerPending
    <3>2. \A r \in Stops : Outcome(r)' = Outcome(r)
      BY <2>1, <2>4, <3>1 DEF Outcome
    <3>3. QED
      BY <2>1, <3>2 DEF Service!vars
  <2>5. QED
    BY <2>3, <2>4
<1>4. ASSUME MaybeFinalize PROVE [Service!Next]_Service!vars
  <2>1. CASE MayFinalize
    <3>1. /\ life # "removed" /\ life' = "removed"
          /\ answer' = AnswerPending("stopped") /\ pending' = {}
      BY <1>4, <2>1 DEF MaybeFinalize, MayFinalize
    <3>2. [r \in Stops |-> Outcome(r)]' = Service!AnswerAccepted("stopped")
      BY <3>1, PendingRefines
    <3>3. QED
      BY <3>1, <3>2 DEF Service!Next, Service!Go
  <2>2. CASE ~ MayFinalize
    BY <1>1, <1>4, <2>2 DEF MaybeFinalize
  <2>3. QED
    BY <2>1, <2>2
<1>5. ASSUME NEW s \in Starters, StartStop(s) \/ Drive(s) \/ Wait(s) \/ TimeOut(s)
      PROVE  [Service!Next]_Service!vars
  <2>1. CASE FailAfterDrive(s)
    BY <1>3, <2>1 DEF FailAfterDrive
  <2>2. CASE StartStop(s) \/ GiveUp(s)
    BY <1>1, <2>2 DEF StartStop, GiveUp
  <2>3. CASE Terminate(s) \/ Kill(s) \/ Wait(s) \/ TimeOut(s)
    BY <1>1, <2>3 DEF Terminate, Kill, Wait, EnterWait, Observe, Check, Compare, Wake, TimeOut,
                      DriverMoves
  <2>4. QED
    BY <1>5, <2>1, <2>2, <2>3 DEF Drive
<1>6. CASE BeginShutdown \/ Drain \/ Reap \/ WaitFails \/ UNCHANGED vars
  BY <1>1, <1>6 DEF BeginShutdown, Drain, Reap, WaitFails, vars
<1>7. CASE FailAfterWait
  BY <1>3, <1>7 DEF FailAfterWait
<1>8. CASE Finalize
  BY <1>4, <1>8 DEF Finalize, FinalizeByReader, FinalizeByWaiter
<1>9. QED
  BY <1>2, <1>5, <1>6, <1>7, <1>8 DEF Next

\* The threads of a pane keep the stop contract, for any number of requests.
THEOREM Refinement == Spec => ImplementsStopService
<1>1. QED
  BY Invariance, InitRefines, NextRefines, PTL DEF Spec, ImplementsStopService, Service!Spec
=============================================================================
