------------------------- MODULE AgentRecordProofs -------------------------
(***************************************************************************)
(* Proofs about AgentLife, continued: for any set of chats and any bounds, *)
(* an agent runs only with its generation recorded, and no chat is shown   *)
(* working with no generation to own it.                                   *)
(***************************************************************************)
EXTENDS AgentLifeProofs

\* The generations for which the record may be dropped while they live.
Exempt == overtaken \cup mistaken

\* The generations of c that run or are being created.
Alive(c) == ({session[c]} \ {NoGeneration}) \cup BeingCreated(c)

\* The generations of c whose exit is on its way or waits to be applied.
Reported == {exits[i] : i \in DOMAIN exits}
Told(c, g) == wire[c].generation = g \/ \E e \in Reported : e.chat = c /\ e.generation = g

Within(p, n) == \A c \in Chats : p[c].generation <= n
Bounded(n) == \A c \in Chats : \A g \in Gens : g \in Alive(c) \/ Told(c, g) => g <= n

\* No generation is numbered above those allocated.
Counted == Within(file, allocated) /\ Within(stable, allocated) /\ Within(mem, allocated)
           /\ Bounded(allocated)

\* A generation is created once.
Once ==
    /\ \A c \in Chats : session[c] \notin BeingCreated(c)
    /\ \A r, q \in creates : r.chat = q.chat /\ r.generation = q.generation => r = q

\* What lives is recorded, in memory and in the state file, or its chat is gone.
Has(p, c, g) == p[c].generation = g \/ p[c] = Deleted
Live == \A c \in Chats : \A g \in Alive(c) :
            g \in Exempt \/ (Has(file, c, g) /\ Has(mem, c, g))

\* What is told to have ended has ended.
Past == \A c \in Chats : \A g \in Gens : Told(c, g) /\ g \in Alive(c) => g \in Exempt

\* The daemon has said that it has no session.
Missing == op.kind = "missing" => Alive(op.chat) \subseteq Exempt

\* A create is about to be sent: its generation is saved, and newer than all.
Sending == op.kind = "send" =>
    /\ allocated # 0
    /\ mem[op.chat].generation = allocated /\ file[op.chat].generation = allocated
    /\ Bounded(allocated - 1)

AgentInv == Counted /\ Once /\ Live /\ Past /\ Missing /\ Sending
-----------------------------------------------------------------------------
(* What lives, and what is told.                                           *)

LEMMA AliveType ==
    ASSUME TypeOK, NEW c \in Chats
    PROVE  Alive(c) \subseteq Generations /\ BeingCreated(c) \subseteq Generations
<1>1. BeingCreated(c) \subseteq Generations
  BY CreatesType
<1>2. QED
  BY <1>1 DEF Alive, TypeOK

LEMMA UnheardKeeps ==
    ASSUME TypeOK, creates' = Unheard, NEW c \in Chats
    PROVE  BeingCreated(c)' = BeingCreated(c)
<1> DEFINE Old(r) == [r EXCEPT !.here = FALSE]
<1>1. \A r \in creates : Old(r).chat = r.chat /\ Old(r).generation = r.generation
  BY DEF TypeOK
<1>2. creates' = {Old(r) : r \in creates}
  BY DEF Unheard
<1> HIDE DEF Old
<1>3. \A g \in BeingCreated(c) : g \in BeingCreated(c)'
  BY <1>1, <1>2 DEF BeingCreated
<1>4. \A g \in BeingCreated(c)' : g \in BeingCreated(c)
  BY <1>1, <1>2 DEF BeingCreated
<1>5. QED
  BY <1>3, <1>4

Shrinks == \A c \in Chats : Alive(c)' \subseteq Alive(c)
Spreads == Exempt \subseteq Exempt'

LEMMA SameAlive ==
    ASSUME UNCHANGED << session, creates >>
    PROVE  \A c \in Chats : Alive(c)' = Alive(c) /\ BeingCreated(c)' = BeingCreated(c)
BY DEF Alive, BeingCreated

\* Only the create that is sent gives a chat a generation it did not have.
LEMMA AliveStep ==
    ASSUME TypeOK, [Next]_vars
    PROVE  Shrinks \/ \E d \in Chats : SendCreate(d)
<1>1. CASE Load
  BY <1>1, SameAlive DEF Load, TurnStart, Shrinks, daemon
<1>2. CASE LoadFails
  BY <1>2, SameAlive DEF LoadFails, Shrinks, daemon
<1>3. CASE SaveContent
  BY <1>3, SameAlive DEF SaveContent, Shrinks, daemon
<1>4. CASE ApplyExit
  BY <1>4, SameAlive DEF ApplyExit, Draining, TurnStart, Shrinks, daemon
<1>5. CASE OpenBatch
  BY <1>5, SameAlive DEF OpenBatch, Shrinks, daemon
<1>6. CASE Quit
  BY <1>6, SameAlive DEF Quit, Shrinks, daemon
<1>7. CASE CloseBatch
  BY <1>7, SameAlive DEF CloseBatch, TurnStart, Shrinks, daemon
<1>8. CASE CloseAndQuit
  BY <1>8, UnheardKeeps DEF CloseAndQuit, Shrinks, Alive
<1>9. CASE Leave
  BY <1>9, UnheardKeeps DEF Leave, Shrinks, Alive
<1>10. CASE Crash
  BY <1>10, UnheardKeeps DEF Crash, Shrinks, Alive
<1>11. CASE PowerFails
  BY <1>11 DEF PowerFails, Shrinks, Alive, BeingCreated
<1>12. CASE Disconnect
  BY <1>12, UnheardKeeps DEF Disconnect, Shrinks, Alive
<1>13. CASE DaemonDies
  BY <1>13 DEF DaemonDies, Shrinks, Alive, BeingCreated
<1>14. CASE Reconnect
  BY <1>14, SameAlive DEF Reconnect, Shrinks, daemon
<1>15. ASSUME NEW c \in Chats, RestoreAttached(c) PROVE Shrinks \/ \E d \in Chats : SendCreate(d)
  BY <1>15, SameAlive DEF RestoreAttached, Shrinks, daemon
<1>16. ASSUME NEW c \in Chats, RestoreMissing(c) PROVE Shrinks \/ \E d \in Chats : SendCreate(d)
  BY <1>16, SameAlive DEF RestoreMissing, Shrinks, daemon
<1>17. ASSUME NEW c \in Chats, RestoreQuery(c) PROVE Shrinks \/ \E d \in Chats : SendCreate(d)
  BY <1>17, SameAlive DEF RestoreQuery, Shrinks, daemon
<1>18. ASSUME NEW c \in Chats, RestoreFailed(c) PROVE Shrinks \/ \E d \in Chats : SendCreate(d)
  BY <1>18, SameAlive DEF RestoreFailed, Shrinks, daemon
<1>19. ASSUME NEW c \in Chats, StartAttached(c) PROVE Shrinks \/ \E d \in Chats : SendCreate(d)
  BY <1>19, SameAlive DEF StartAttached, Shrinks, daemon
<1>20. ASSUME NEW c \in Chats, StartMissing(c) PROVE Shrinks \/ \E d \in Chats : SendCreate(d)
  BY <1>20, SameAlive DEF StartMissing, Shrinks, daemon
<1>21. ASSUME NEW c \in Chats, StartFailed(c) PROVE Shrinks \/ \E d \in Chats : SendCreate(d)
  BY <1>21, SameAlive DEF StartFailed, Shrinks, daemon
<1>22. ASSUME NEW c \in Chats, BeginGeneration(c) PROVE Shrinks \/ \E d \in Chats : SendCreate(d)
  BY <1>22, SameAlive DEF BeginGeneration, Launches, Shrinks, daemon
<1>23. ASSUME NEW c \in Chats, SendCreate(c) PROVE Shrinks \/ \E d \in Chats : SendCreate(d)
  BY <1>23
<1>24. ASSUME NEW c \in Chats, SendFails(c) PROVE Shrinks \/ \E d \in Chats : SendCreate(d)
  BY <1>24, SameAlive DEF SendFails, Shrinks, daemon
<1>25. ASSUME NEW c \in Chats, CreateDone(c) PROVE Shrinks \/ \E d \in Chats : SendCreate(d)
  BY <1>25, SameAlive DEF CreateDone, Shrinks, daemon
<1>26. ASSUME NEW c \in Chats, CreateFails(c) PROVE Shrinks \/ \E d \in Chats : SendCreate(d)
  BY <1>26, SameAlive DEF CreateFails, Shrinks, daemon
<1>27. ASSUME NEW c \in Chats, ReceiveExit(c) PROVE Shrinks \/ \E d \in Chats : SendCreate(d)
  BY <1>27, SameAlive DEF ReceiveExit, Shrinks, daemon
<1>28. ASSUME NEW c \in Chats, Reattached(c) PROVE Shrinks \/ \E d \in Chats : SendCreate(d)
  BY <1>28, SameAlive DEF Reattached, Draining, Shrinks, daemon
<1>29. ASSUME NEW c \in Chats, ReattachMissing(c) PROVE Shrinks \/ \E d \in Chats : SendCreate(d)
  BY <1>29, SameAlive DEF ReattachMissing, Draining, Shrinks, daemon
<1>30. ASSUME NEW c \in Chats, PollStatus(c) PROVE Shrinks \/ \E d \in Chats : SendCreate(d)
  BY <1>30, SameAlive DEF PollStatus, Shrinks, daemon
<1>31. ASSUME NEW c \in Chats, DeleteChat(c) PROVE Shrinks \/ \E d \in Chats : SendCreate(d)
  BY <1>31, SameAlive DEF DeleteChat, Shrinks, daemon
<1>32. ASSUME NEW c \in Chats, AgentExits(c) PROVE Shrinks \/ \E d \in Chats : SendCreate(d)
  BY <1>32 DEF AgentExits, Shrinks, Alive, BeingCreated, TypeOK
<1>33. ASSUME NEW r \in creates, Created(r) PROVE Shrinks \/ \E d \in Chats : SendCreate(d)
  <2>1. r.chat \in Chats /\ r.generation \in Generations
    BY DEF TypeOK
  <2>2. \A c \in Chats : BeingCreated(c)' \subseteq BeingCreated(c)
    BY <1>33 DEF Created, BeingCreated
  <2>3. \A c \in Chats : session'[c] = session[c] \/ (c = r.chat /\ session'[c] = r.generation)
    BY <1>33, <2>1 DEF Created, TypeOK
  <2>4. r.generation \in BeingCreated(r.chat)
    BY DEF BeingCreated
  <2>5. QED
    BY <2>2, <2>3, <2>4 DEF Shrinks, Alive
<1>34. ASSUME NEW r \in creates, Refused(r) PROVE Shrinks \/ \E d \in Chats : SendCreate(d)
  BY <1>34 DEF Refused, Shrinks, Alive, BeingCreated
<1>35. CASE UNCHANGED vars
  BY <1>35, SameAlive DEF Shrinks, disk, app, control, pty, daemon, count, history, vars
<1>36. CASE Turn
  BY <1>36, SameAlive DEF Turn, Shrinks, daemon
<1>37. ASSUME NEW c \in Chats, GenerationFails(c) PROVE Shrinks \/ \E d \in Chats : SendCreate(d)
  BY <1>37, SameAlive DEF GenerationFails, Shrinks, daemon
<1>38. ASSUME NEW c \in Chats, SendAttached(c) PROVE Shrinks \/ \E d \in Chats : SendCreate(d)
  BY <1>38, SameAlive DEF SendAttached, Shrinks, daemon
<1>39. ASSUME NEW c \in Chats, SendMissing(c) PROVE Shrinks \/ \E d \in Chats : SendCreate(d)
  BY <1>39, SameAlive DEF SendMissing, Shrinks, daemon
<1>40. QED
  BY <1>1, <1>2, <1>3, <1>4, <1>5, <1>6, <1>7, <1>8, <1>9, <1>10, <1>11, <1>12, <1>13, <1>14, <1>15, <1>16, <1>17, <1>18, <1>19, <1>20, <1>21, <1>22, <1>23, <1>24, <1>25, <1>26, <1>27, <1>28, <1>29, <1>30, <1>31, <1>32, <1>33, <1>34, <1>35, <1>36, <1>37, <1>38, <1>39 DEF Next

LEMMA SpreadsStep ==
    ASSUME TypeOK, [Next]_vars
    PROVE  Spreads
<1>1. CASE Load
  BY <1>1 DEF Load, TurnStart, Spreads, Exempt, history
<1>2. CASE LoadFails
  BY <1>2 DEF LoadFails, Spreads, Exempt, history
<1>3. CASE SaveContent
  BY <1>3 DEF SaveContent, Spreads, Exempt, history
<1>4. CASE ApplyExit
  BY <1>4 DEF ApplyExit, Draining, TurnStart, Spreads, Exempt, history
<1>5. CASE OpenBatch
  BY <1>5 DEF OpenBatch, Spreads, Exempt, history
<1>6. CASE Quit
  BY <1>6 DEF Quit, Spreads, Exempt, history
<1>7. CASE CloseBatch
  BY <1>7 DEF CloseBatch, TurnStart, Spreads, Exempt, history
<1>8. CASE CloseAndQuit
  BY <1>8 DEF CloseAndQuit, Spreads, Exempt, history
<1>9. CASE Leave
  BY <1>9 DEF Leave, Spreads, Exempt, history
<1>10. CASE Crash
  BY <1>10 DEF Crash, Spreads, Exempt, history
<1>11. CASE PowerFails
  BY <1>11 DEF PowerFails, Spreads, Exempt, history
<1>12. CASE Disconnect
  BY <1>12 DEF Disconnect, Spreads, Exempt, history
<1>13. CASE DaemonDies
  BY <1>13 DEF DaemonDies, Spreads, Exempt, history
<1>14. CASE Reconnect
  BY <1>14 DEF Reconnect, Spreads, Exempt, history
<1>15. ASSUME NEW c \in Chats, RestoreAttached(c) PROVE Spreads
  BY <1>15 DEF RestoreAttached, Spreads, Exempt, history
<1>16. ASSUME NEW c \in Chats, RestoreMissing(c) PROVE Spreads
  BY <1>16 DEF RestoreMissing, Spreads, Exempt, history, Misses
<1>17. ASSUME NEW c \in Chats, RestoreQuery(c) PROVE Spreads
  BY <1>17 DEF RestoreQuery, Spreads, Exempt, history
<1>18. ASSUME NEW c \in Chats, RestoreFailed(c) PROVE Spreads
  BY <1>18 DEF RestoreFailed, Spreads, Exempt, history
<1>19. ASSUME NEW c \in Chats, StartAttached(c) PROVE Spreads
  BY <1>19 DEF StartAttached, Spreads, Exempt, history
<1>20. ASSUME NEW c \in Chats, StartMissing(c) PROVE Spreads
  BY <1>20 DEF StartMissing, Spreads, Exempt, history, Misses
<1>21. ASSUME NEW c \in Chats, StartFailed(c) PROVE Spreads
  BY <1>21 DEF StartFailed, Spreads, Exempt, history
<1>22. ASSUME NEW c \in Chats, BeginGeneration(c) PROVE Spreads
  BY <1>22 DEF BeginGeneration, Launches, Spreads, Exempt, history
<1>23. ASSUME NEW c \in Chats, SendCreate(c) PROVE Spreads
  BY <1>23 DEF SendCreate, Spreads, Exempt, history
<1>24. ASSUME NEW c \in Chats, SendFails(c) PROVE Spreads
  BY <1>24 DEF SendFails, Spreads, Exempt, history
<1>25. ASSUME NEW c \in Chats, CreateDone(c) PROVE Spreads
  BY <1>25 DEF CreateDone, Spreads, Exempt, history
<1>26. ASSUME NEW c \in Chats, CreateFails(c) PROVE Spreads
  BY <1>26 DEF CreateFails, Spreads, Exempt, history
<1>27. ASSUME NEW c \in Chats, ReceiveExit(c) PROVE Spreads
  BY <1>27 DEF ReceiveExit, Spreads, Exempt, history
<1>28. ASSUME NEW c \in Chats, Reattached(c) PROVE Spreads
  BY <1>28 DEF Reattached, Draining, Spreads, Exempt, history
<1>29. ASSUME NEW c \in Chats, ReattachMissing(c) PROVE Spreads
  BY <1>29 DEF ReattachMissing, Draining, Spreads, Exempt, history, Misses
<1>30. ASSUME NEW c \in Chats, PollStatus(c) PROVE Spreads
  BY <1>30 DEF PollStatus, Spreads, Exempt, history
<1>31. ASSUME NEW c \in Chats, DeleteChat(c) PROVE Spreads
  BY <1>31 DEF DeleteChat, Spreads, Exempt, history
<1>32. ASSUME NEW c \in Chats, AgentExits(c) PROVE Spreads
  BY <1>32 DEF AgentExits, Spreads, Exempt, history
<1>33. ASSUME NEW r \in creates, Created(r) PROVE Spreads
  BY <1>33 DEF Created, Spreads, Exempt, history
<1>34. ASSUME NEW r \in creates, Refused(r) PROVE Spreads
  BY <1>34 DEF Refused, Spreads, Exempt, history
<1>35. CASE UNCHANGED vars
  BY <1>35 DEF Spreads, Exempt, disk, app, control, pty, daemon, count, history, vars
<1>36. CASE Turn
  BY <1>36 DEF Turn, Spreads, Exempt, history
<1>37. ASSUME NEW c \in Chats, GenerationFails(c) PROVE Spreads
  BY <1>37 DEF GenerationFails, Spreads, Exempt, history, Misses
<1>38. ASSUME NEW c \in Chats, SendAttached(c) PROVE Spreads
  BY <1>38 DEF SendAttached, Spreads, Exempt, history, Misses
<1>39. ASSUME NEW c \in Chats, SendMissing(c) PROVE Spreads
  BY <1>39 DEF SendMissing, Spreads, Exempt, history, Misses
<1>40. QED
  BY <1>1, <1>2, <1>3, <1>4, <1>5, <1>6, <1>7, <1>8, <1>9, <1>10, <1>11, <1>12, <1>13, <1>14, <1>15, <1>16, <1>17, <1>18, <1>19, <1>20, <1>21, <1>22, <1>23, <1>24, <1>25, <1>26, <1>27, <1>28, <1>29, <1>30, <1>31, <1>32, <1>33, <1>34, <1>35, <1>36, <1>37, <1>38, <1>39 DEF Next

LEMMA SentAlive ==
    ASSUME TypeOK, NEW c \in Chats, SendCreate(c), NEW d \in Chats
    PROVE  /\ Alive(d)' = IF d = c THEN Alive(d) \cup {mem[c].generation} ELSE Alive(d)
           /\ BeingCreated(d)' = IF d = c THEN BeingCreated(d) \cup {mem[c].generation}
                                          ELSE BeingCreated(d)
<1> DEFINE r == [chat |-> c, generation |-> mem[c].generation, here |-> TRUE]
<1>1. creates' = creates \cup {r} /\ session' = session
  BY DEF SendCreate
<1>2. r.chat = c /\ r.generation = mem[c].generation
  OBVIOUS
<1> HIDE DEF r
<1>3. {q \in creates' : q.chat = d} = {q \in creates : q.chat = d} \cup (IF d = c THEN {r} ELSE {})
  BY <1>1, <1>2
<1>4. BeingCreated(d)' = BeingCreated(d) \cup (IF d = c THEN {mem[c].generation} ELSE {})
  BY <1>2, <1>3 DEF BeingCreated
<1>5. QED
  BY <1>1, <1>4 DEF Alive

LEMMA QueueMembers ==
    ASSUME NEW T, NEW q \in Seq(T)
    PROVE  LET M(s) == {s[i] : i \in DOMAIN s}
           IN  /\ q # << >> => Head(q) \in M(q) /\ M(Tail(q)) \subseteq M(q)
               /\ \A e \in T : M(Append(q, e)) \subseteq M(q) \cup {e}
<1>1. ASSUME q # << >> PROVE q[1] = Head(q) /\ 1 \in DOMAIN q
                             /\ \A i \in DOMAIN Tail(q) : i + 1 \in DOMAIN q /\ Tail(q)[i] = q[i + 1]
  BY <1>1
<1>2. ASSUME NEW e \in T, NEW i \in DOMAIN Append(q, e)
      PROVE  (i \in DOMAIN q /\ Append(q, e)[i] = q[i]) \/ Append(q, e)[i] = e
  OBVIOUS
<1>3. QED
  BY <1>1, <1>2

LEMMA ReportedMeans ==
    ASSUME TypeOK
    PROVE  /\ Reported \subseteq ExitRecord
           /\ exits' = << >> => Reported' = {}
           /\ exits # << >> => Head(exits) \in Reported
           /\ exits # << >> /\ exits' = Tail(exits) => Reported' \subseteq Reported
           /\ \A e \in ExitRecord : exits' = Append(exits, e) => Reported' \subseteq Reported \cup {e}
<1>1. exits \in Seq(ExitRecord)
  BY ExitsMean DEF Exits
<1> HIDE DEF ExitRecord
<1>2. Reported \subseteq ExitRecord
  BY <1>1 DEF Reported
<1>3. exits' = << >> => Reported' = {}
  BY DEF Reported
<1>4. exits # << >> => Head(exits) \in Reported
  BY <1>1, QueueMembers DEF Reported
<1>5. exits # << >> /\ exits' = Tail(exits) => Reported' \subseteq Reported
  BY <1>1, QueueMembers DEF Reported
<1>6. \A e \in ExitRecord : exits' = Append(exits, e) => Reported' \subseteq Reported \cup {e}
  BY <1>1, QueueMembers DEF Reported
<1>7. QED
  BY <1>2, <1>3, <1>4, <1>5, <1>6

\* Where the exits a client is told of come from.
ToldFrom ==
    \A c \in Chats : \A g \in Gens : Told(c, g)' =>
        \/ Told(c, g) \/ g = NoGeneration
        \/ AgentExits(c) /\ g = session[c]
        \/ ReattachMissing(c) /\ g = mem[c].generation

LEMMA SameTold ==
    ASSUME Reported' \subseteq Reported,
           \A c \in Chats : wire'[c].generation \in {wire[c].generation, NoGeneration}
    PROVE  ToldFrom
BY DEF ToldFrom, Told

LEMMA ToldStep ==
    ASSUME TypeOK, [Next]_vars
    PROVE  ToldFrom
<1>1. CASE Load
  BY <1>1, SameTold DEF Load, TurnStart, pty, daemon, Reported
<1>2. CASE LoadFails
  BY <1>2, SameTold DEF LoadFails, pty, daemon, Reported
<1>3. CASE SaveContent
  BY <1>3, SameTold DEF SaveContent, pty, daemon, Reported
<1>4. CASE ApplyExit
  BY <1>4, SameTold, ReportedMeans DEF ApplyExit, Draining, TurnStart
<1>5. CASE OpenBatch
  BY <1>5, SameTold DEF OpenBatch, pty, daemon, Reported
<1>6. CASE Quit
  BY <1>6, SameTold DEF Quit, pty, daemon, Reported
<1>7. CASE CloseBatch
  BY <1>7, SameTold DEF CloseBatch, TurnStart, pty, daemon, Reported
<1>8. CASE CloseAndQuit
  BY <1>8, SameTold, ReportedMeans DEF CloseAndQuit, Ends, NoExit
<1>9. CASE Leave
  BY <1>9, SameTold, ReportedMeans DEF Leave, Ends, NoExit
<1>10. CASE Crash
  BY <1>10, SameTold, ReportedMeans DEF Crash, Ends, NoExit
<1>11. CASE PowerFails
  BY <1>11, SameTold, ReportedMeans DEF PowerFails, Ends, NoExit
<1>12. CASE Disconnect
  BY <1>12, SameTold DEF Disconnect, Cut, NoExit, Reported
<1>13. CASE DaemonDies
  BY <1>13, SameTold DEF DaemonDies, Cut, NoExit, Reported
<1>14. CASE Reconnect
  BY <1>14, SameTold DEF Reconnect, pty, daemon, Reported
<1>15. ASSUME NEW c \in Chats, RestoreAttached(c) PROVE ToldFrom
  BY <1>15, SameTold DEF RestoreAttached, Attaches, NoExit, Reported, TypeOK
<1>16. ASSUME NEW c \in Chats, RestoreMissing(c) PROVE ToldFrom
  BY <1>16, SameTold DEF RestoreMissing, Misses, NoExit, Reported, TypeOK
<1>17. ASSUME NEW c \in Chats, RestoreQuery(c) PROVE ToldFrom
  BY <1>17, SameTold DEF RestoreQuery, pty, daemon, Reported
<1>18. ASSUME NEW c \in Chats, RestoreFailed(c) PROVE ToldFrom
  BY <1>18, SameTold DEF RestoreFailed, AttachFails, Reported
<1>19. ASSUME NEW c \in Chats, StartAttached(c) PROVE ToldFrom
  BY <1>19, SameTold DEF StartAttached, Attaches, NoExit, Reported, TypeOK
<1>20. ASSUME NEW c \in Chats, StartMissing(c) PROVE ToldFrom
  BY <1>20, SameTold DEF StartMissing, Misses, NoExit, Reported, TypeOK
<1>21. ASSUME NEW c \in Chats, StartFailed(c) PROVE ToldFrom
  BY <1>21, SameTold DEF StartFailed, AttachFails, Reported
<1>22. ASSUME NEW c \in Chats, BeginGeneration(c) PROVE ToldFrom
  BY <1>22, SameTold DEF BeginGeneration, Launches, pty, daemon, Reported
<1>23. ASSUME NEW c \in Chats, SendCreate(c) PROVE ToldFrom
  BY <1>23, SameTold DEF SendCreate, pty, daemon, Reported
<1>24. ASSUME NEW c \in Chats, SendFails(c) PROVE ToldFrom
  BY <1>24, SameTold DEF SendFails, AttachFails, daemon, Reported
<1>25. ASSUME NEW c \in Chats, CreateDone(c) PROVE ToldFrom
  BY <1>25, SameTold DEF CreateDone, Attaches, NoExit, Reported, TypeOK
<1>26. ASSUME NEW c \in Chats, CreateFails(c) PROVE ToldFrom
  BY <1>26, SameTold DEF CreateFails, AttachFails, Reported
<1>27. ASSUME NEW c \in Chats, ReceiveExit(c) PROVE ToldFrom
  <2> DEFINE e == [chat |-> c, code |-> wire[c].code, generation |-> wire[c].generation]
  <2>1. e \in ExitRecord /\ e.chat = c /\ e.generation = wire[c].generation
    BY <1>27, Constants DEF ReceiveExit, TypeOK, ExitRecord, Gens
  <2>2. exits' = exits \/ exits' = Append(exits, e)
    BY <1>27 DEF ReceiveExit
  <2> HIDE DEF e
  <2>3. Reported' \subseteq Reported \cup {e}
    BY <2>1, <2>2, ReportedMeans DEF Reported
  <2>4. \A d \in Chats : wire'[d].generation \in {wire[d].generation, NoGeneration}
    BY <1>27 DEF ReceiveExit, TypeOK, NoExit
  <2>5. QED
    BY <2>1, <2>3, <2>4 DEF ToldFrom, Told
<1>28. ASSUME NEW c \in Chats, Reattached(c) PROVE ToldFrom
  BY <1>28, SameTold DEF Reattached, Draining, Attaches, NoExit, Reported, TypeOK
<1>29. ASSUME NEW c \in Chats, ReattachMissing(c) PROVE ToldFrom
  <2> DEFINE e == [chat |-> c, code |-> "failed", generation |-> mem[c].generation]
  <2>1. e \in ExitRecord /\ e.chat = c /\ e.generation = mem[c].generation
    BY DeletedIsNoChat DEF TypeOK, ExitRecord, ExitCodes, Project, Chat, Gens
  <2>2. exits' = Append(exits, e)
    BY <1>29 DEF ReattachMissing, Draining
  <2> HIDE DEF e
  <2>3. Reported' \subseteq Reported \cup {e}
    BY <2>1, <2>2, ReportedMeans
  <2>4. \A d \in Chats : wire'[d].generation \in {wire[d].generation, NoGeneration}
    BY <1>29 DEF ReattachMissing, Draining, Misses, TypeOK, NoExit
  <2>5. QED
    BY <1>29, <2>1, <2>3, <2>4 DEF ToldFrom, Told
<1>30. ASSUME NEW c \in Chats, PollStatus(c) PROVE ToldFrom
  BY <1>30, SameTold DEF PollStatus, pty, daemon, Reported
<1>31. ASSUME NEW c \in Chats, DeleteChat(c) PROVE ToldFrom
  BY <1>31, SameTold DEF DeleteChat, pty, daemon, Reported
<1>32. ASSUME NEW c \in Chats, AgentExits(c) PROVE ToldFrom
  <2>1. \A d \in Chats : wire'[d].generation = wire[d].generation
                          \/ (d = c /\ wire'[d].generation = session[c])
    BY <1>32 DEF AgentExits, TypeOK
  <2>2. Reported' = Reported
    BY <1>32 DEF AgentExits, pty, Reported
  <2>3. QED
    BY <1>32, <2>1, <2>2 DEF ToldFrom, Told
<1>33. ASSUME NEW r \in creates, Created(r) PROVE ToldFrom
  BY <1>33, SameTold DEF Created, pty, daemon, Reported
<1>34. ASSUME NEW r \in creates, Refused(r) PROVE ToldFrom
  BY <1>34, SameTold DEF Refused, pty, daemon, Reported
<1>35. CASE UNCHANGED vars
  BY <1>35, SameTold DEF Reported, disk, app, control, pty, daemon, count, history, vars
<1>36. CASE Turn
  BY <1>36, SameTold DEF Turn, pty, daemon, Reported
<1>37. ASSUME NEW c \in Chats, GenerationFails(c) PROVE ToldFrom
  BY <1>37, SameTold DEF GenerationFails, pty, daemon, Reported
<1>38. ASSUME NEW c \in Chats, SendAttached(c) PROVE ToldFrom
  BY <1>38, SameTold DEF SendAttached, Attaches, NoExit, Reported, TypeOK
<1>39. ASSUME NEW c \in Chats, SendMissing(c) PROVE ToldFrom
  BY <1>39, SameTold DEF SendMissing, Misses, NoExit, Reported, TypeOK
<1>40. QED
  BY <1>1, <1>2, <1>3, <1>4, <1>5, <1>6, <1>7, <1>8, <1>9, <1>10, <1>11, <1>12, <1>13, <1>14, <1>15, <1>16, <1>17, <1>18, <1>19, <1>20, <1>21, <1>22, <1>23, <1>24, <1>25, <1>26, <1>27, <1>28, <1>29, <1>30, <1>31, <1>32, <1>33, <1>34, <1>35, <1>36, <1>37, <1>38, <1>39 DEF Next
-----------------------------------------------------------------------------
(* What is recorded.                                                       *)

Like(p, q, c) == p[c].generation = q[c].generation /\ (p[c] = Deleted <=> q[c] = Deleted)

\* p keeps the record of what lives, or there is nothing of the chat to record.
Traced(p) ==
    \A c \in Chats :
        /\ Alive(c)' \subseteq Exempt' \/ p[c] = Deleted \/ Like(p, mem, c) \/ Like(p, file, c)
        /\ p[c].generation <= allocated'

Recording == Traced(mem') /\ Traced(file') /\ Within(stable', allocated')

LEMMA Numbers ==
    ASSUME TypeOK
    PROVE  /\ allocated \in Nat
           /\ \A c \in Chats : mem[c].generation \in Nat /\ file[c].generation \in Nat
                               /\ stable[c].generation \in Nat
<1>1. ASSUME NEW p \in Project, NEW c \in Chats PROVE p[c].generation \in Nat
  <2>1. p[c] = Deleted \/ p[c] \in Chat
    BY DEF Project
  <2>2. ASSUME p[c] \in Chat PROVE p[c].generation \in Generations \cup {NoGeneration}
    BY <2>2 DEF Chat
  <2>3. ASSUME p[c] = Deleted PROVE p[c].generation = NoGeneration
    BY <2>3, DeletedIsNoChat
  <2>4. NoGeneration \in Nat /\ \A g \in Generations : g \in Nat
    BY Constants
  <2>5. QED
    BY <2>1, <2>2, <2>3, <2>4
<1>2. QED
  BY <1>1, AgentLifeAssumption DEF TypeOK

LEMMA GrowsStep == ASSUME TypeOK, [Next]_vars PROVE allocated <= allocated' /\ allocated' \in Nat
<1>1. CASE Load
  BY <1>1, Numbers DEF Load, TurnStart, count
<1>2. CASE LoadFails
  BY <1>2, Numbers DEF LoadFails, count
<1>3. CASE SaveContent
  BY <1>3, Numbers DEF SaveContent, count
<1>4. CASE ApplyExit
  BY <1>4, Numbers DEF ApplyExit, Draining, TurnStart, count
<1>5. CASE OpenBatch
  BY <1>5, Numbers DEF OpenBatch, count
<1>6. CASE Quit
  BY <1>6, Numbers DEF Quit, count
<1>7. CASE CloseBatch
  BY <1>7, Numbers DEF CloseBatch, TurnStart, count
<1>8. CASE CloseAndQuit
  BY <1>8, Numbers DEF CloseAndQuit, count
<1>9. CASE Leave
  BY <1>9, Numbers DEF Leave, count
<1>10. CASE Crash
  BY <1>10, Numbers DEF Crash, count
<1>11. CASE PowerFails
  BY <1>11, Numbers DEF PowerFails, count
<1>12. CASE Disconnect
  BY <1>12, Numbers DEF Disconnect, count
<1>13. CASE DaemonDies
  BY <1>13, Numbers DEF DaemonDies, count
<1>14. CASE Reconnect
  BY <1>14, Numbers DEF Reconnect, count
<1>15. ASSUME NEW c \in Chats, RestoreAttached(c) PROVE allocated <= allocated' /\ allocated' \in Nat
  BY <1>15, Numbers DEF RestoreAttached, count
<1>16. ASSUME NEW c \in Chats, RestoreMissing(c) PROVE allocated <= allocated' /\ allocated' \in Nat
  BY <1>16, Numbers DEF RestoreMissing, count
<1>17. ASSUME NEW c \in Chats, RestoreQuery(c) PROVE allocated <= allocated' /\ allocated' \in Nat
  BY <1>17, Numbers DEF RestoreQuery, count
<1>18. ASSUME NEW c \in Chats, RestoreFailed(c) PROVE allocated <= allocated' /\ allocated' \in Nat
  BY <1>18, Numbers DEF RestoreFailed, count
<1>19. ASSUME NEW c \in Chats, StartAttached(c) PROVE allocated <= allocated' /\ allocated' \in Nat
  BY <1>19, Numbers DEF StartAttached, count
<1>20. ASSUME NEW c \in Chats, StartMissing(c) PROVE allocated <= allocated' /\ allocated' \in Nat
  BY <1>20, Numbers DEF StartMissing, count
<1>21. ASSUME NEW c \in Chats, StartFailed(c) PROVE allocated <= allocated' /\ allocated' \in Nat
  BY <1>21, Numbers DEF StartFailed, count
<1>22. ASSUME NEW c \in Chats, BeginGeneration(c) PROVE allocated <= allocated' /\ allocated' \in Nat
  BY <1>22, Numbers DEF BeginGeneration, Launches, count
<1>23. ASSUME NEW c \in Chats, SendCreate(c) PROVE allocated <= allocated' /\ allocated' \in Nat
  BY <1>23, Numbers DEF SendCreate, count
<1>24. ASSUME NEW c \in Chats, SendFails(c) PROVE allocated <= allocated' /\ allocated' \in Nat
  BY <1>24, Numbers DEF SendFails, count
<1>25. ASSUME NEW c \in Chats, CreateDone(c) PROVE allocated <= allocated' /\ allocated' \in Nat
  BY <1>25, Numbers DEF CreateDone, count
<1>26. ASSUME NEW c \in Chats, CreateFails(c) PROVE allocated <= allocated' /\ allocated' \in Nat
  BY <1>26, Numbers DEF CreateFails, count
<1>27. ASSUME NEW c \in Chats, ReceiveExit(c) PROVE allocated <= allocated' /\ allocated' \in Nat
  BY <1>27, Numbers DEF ReceiveExit, count
<1>28. ASSUME NEW c \in Chats, Reattached(c) PROVE allocated <= allocated' /\ allocated' \in Nat
  BY <1>28, Numbers DEF Reattached, Draining, count
<1>29. ASSUME NEW c \in Chats, ReattachMissing(c) PROVE allocated <= allocated' /\ allocated' \in Nat
  BY <1>29, Numbers DEF ReattachMissing, Draining, count
<1>30. ASSUME NEW c \in Chats, PollStatus(c) PROVE allocated <= allocated' /\ allocated' \in Nat
  BY <1>30, Numbers DEF PollStatus, count
<1>31. ASSUME NEW c \in Chats, DeleteChat(c) PROVE allocated <= allocated' /\ allocated' \in Nat
  BY <1>31, Numbers DEF DeleteChat, count
<1>32. ASSUME NEW c \in Chats, AgentExits(c) PROVE allocated <= allocated' /\ allocated' \in Nat
  BY <1>32, Numbers DEF AgentExits, count
<1>33. ASSUME NEW r \in creates, Created(r) PROVE allocated <= allocated' /\ allocated' \in Nat
  BY <1>33, Numbers DEF Created, count
<1>34. ASSUME NEW r \in creates, Refused(r) PROVE allocated <= allocated' /\ allocated' \in Nat
  BY <1>34, Numbers DEF Refused, count
<1>35. CASE UNCHANGED vars
  BY <1>35, Numbers DEF disk, app, control, pty, daemon, count, history, vars
<1>36. CASE Turn
  BY <1>36, Numbers DEF Turn, count
<1>37. ASSUME NEW c \in Chats, GenerationFails(c) PROVE allocated <= allocated' /\ allocated' \in Nat
  BY <1>37, Numbers DEF GenerationFails, count
<1>38. ASSUME NEW c \in Chats, SendAttached(c) PROVE allocated <= allocated' /\ allocated' \in Nat
  BY <1>38, Numbers DEF SendAttached, count
<1>39. ASSUME NEW c \in Chats, SendMissing(c) PROVE allocated <= allocated' /\ allocated' \in Nat
  BY <1>39, Numbers DEF SendMissing, count
<1>40. QED
  BY <1>1, <1>2, <1>3, <1>4, <1>5, <1>6, <1>7, <1>8, <1>9, <1>10, <1>11, <1>12, <1>13, <1>14, <1>15, <1>16, <1>17, <1>18, <1>19, <1>20, <1>21, <1>22, <1>23, <1>24, <1>25, <1>26, <1>27, <1>28, <1>29, <1>30, <1>31, <1>32, <1>33, <1>34, <1>35, <1>36, <1>37, <1>38, <1>39 DEF Next

LEMMA TracedSame ==
    ASSUME TypeOK, [Next]_vars, Counted
    PROVE  Traced(mem) /\ Traced(file) /\ Within(stable, allocated')
<1>1. allocated <= allocated' /\ allocated' \in Nat
  BY GrowsStep
<1>2. \A c \in Chats : /\ mem[c].generation <= allocated'
                       /\ file[c].generation <= allocated'
                       /\ stable[c].generation <= allocated'
  BY <1>1, Numbers DEF Counted, Within
<1>3. QED
  BY <1>2 DEF Traced, Like, Within

LEMMA TracedChange ==
    ASSUME TypeOK, [Next]_vars, Counted, NEW p, NEW c \in Chats,
           \A d \in Chats \ {c} : p[d] = mem[d],
           \/ Like(p, mem, c)
           \/ p[c] = Deleted
           \/ Alive(c)' \subseteq Exempt' /\ p[c].generation <= allocated'
    PROVE  Traced(p)
<1>1. Traced(mem) /\ 0 <= allocated'
  BY TracedSame, GrowsStep
<1>2. \A d \in Chats \ {c} : p[d] = Deleted \/ Like(p, mem, d)
  BY DEF Like
<1>3. \A d \in Chats \ {c} : p[d].generation <= allocated'
  BY <1>1 DEF Traced
<1>4. p[c].generation <= allocated'
  BY <1>1, DeletedIsNoChat, Constants DEF Traced, Like
<1>5. QED
  BY <1>2, <1>3, <1>4 DEF Traced

\* A change of statuses only.
LEMMA TracedStatuses ==
    ASSUME TypeOK, [Next]_vars, Counted, NEW p, NEW q, q = mem \/ q = file, SameGenerations(q, p)
    PROVE  Traced(p)
<1>1. Traced(mem) /\ Traced(file)
  BY TracedSame
<1>2. \A c \in Chats : Like(p, q, c)
  BY DEF Like, SameGenerations
<1>3. \A c \in Chats : p[c].generation <= allocated'
  BY <1>1, <1>2 DEF Traced, Like
<1>4. QED
  BY <1>2, <1>3 DEF Traced

LEMMA RecordingSave ==
    ASSUME TypeOK, [Next]_vars, Counted, NEW p, Traced(p), Saves(p) \/ SaveFails(p)
    PROVE  Recording
<1>1. Traced(file) /\ Within(stable, allocated')
  BY TracedSame
<1>2. Within(p, allocated')
  BY DEF Traced, Within
<1>3. mem' = p /\ (file' = file \/ file' = p) /\ (stable' = stable \/ stable' = p)
  BY DEF Saves, SaveFails
<1>4. QED
  BY <1>1, <1>2, <1>3 DEF Recording

LEMMA RecordingChange ==
    ASSUME TypeOK, [Next]_vars, Counted, Traced(mem'), UNCHANGED disk
    PROVE  Recording
BY TracedSame DEF Recording, disk

LEMMA OnlyOne ==
    ASSUME TypeOK, Live, NEW c \in Chats, mem[c] # Deleted
    PROVE  \A g \in Alive(c) : g \in Exempt \/ g = mem[c].generation
BY DEF Live, Has

\* A chat with no generation has nothing that lives.
LEMMA NothingLives ==
    ASSUME TypeOK, Live, NEW c \in Chats, mem[c] # Deleted, mem[c].generation = NoGeneration
    PROVE  Alive(c) \subseteq Exempt
BY OnlyOne, AliveType, Constants

LEMMA MissesMeans ==
    ASSUME TypeOK, NEW c \in Chats, Misses(c), UNCHANGED << session, creates >>
    PROVE  Alive(c)' \subseteq Exempt'
<1>1. Alive(c)' = BeingCreated(c)
  BY SameAlive DEF Alive, Misses
<1>2. QED
  BY <1>1 DEF Misses, Exempt

\* No step drops the record of what lives, but for the exceptions it notes.
LEMMA RecordingStep ==
    ASSUME TypeOK, Shape, Counted, Live, Past, Missing, [Next]_vars
    PROVE  Recording
<1>1. CASE Load
  <2>1. file \in Project
    BY DEF TypeOK
  <2>2. Traced(Normalized(file))
    BY <2>1, NormalizedMeans, TracedStatuses
  <2>3. Within(Normalized(file), allocated')
    BY <2>2 DEF Traced, Within
  <2>4. QED
    BY <1>1, <2>2, <2>3, TracedSame DEF Load, TurnStart, Recording
<1>2. CASE LoadFails
  <2>1. file \in Project
    BY DEF TypeOK
  <2>2. Traced(Normalized(file))
    BY <2>1, NormalizedMeans, TracedStatuses
  <2>3. QED
    BY <1>2, <2>2, TracedSame DEF LoadFails, Recording, app
<1>3. CASE SaveContent
  <2>1. Saves(mem) \/ SaveFails(mem) \/ UNCHANGED << disk, app >>
    BY <1>3 DEF SaveContent
  <2>2. QED
    BY <2>1, TracedSame, RecordingSave, RecordingChange DEF app
<1>4. CASE ApplyExit
  <2>1. PICK e \in Reported, c \in Chats : e = Head(exits) /\ e.chat = c
                                       /\ e.generation \in Gens /\ e.code \in ChatStatus
    <3>1. Head(exits) \in Reported /\ Head(exits) \in ExitRecord
      BY <1>4, ReportedMeans, ExitsMean DEF ApplyExit, Draining, TurnStart
    <3>2. QED
      BY <3>1 DEF ExitRecord, ExitCodes, ChatStatus
  <2> DEFINE q == Marked(mem, c, e.code)
             p == Cleared(q, c)
  <2>2. mem' = p /\ mistaken' = mistaken \cup ({mem[c].generation} \ {e.generation, NoGeneration})
        /\ overtaken' = overtaken /\ session' = session /\ creates' = creates
    BY <1>4, <2>1 DEF ApplyExit, Draining, TurnStart, Becomes
  <2>3. mem \in Project
    BY DEF TypeOK
  <2>4. q \in Project /\ SameGenerations(mem, q) /\ \A d \in Chats \ {c} : q[d] = mem[d]
    BY <2>1, <2>3, MarkedMeans
  <2>5. /\ \A d \in Chats \ {c} : p[d] = mem[d]
        /\ p[c].generation = NoGeneration
        /\ p[c] = Deleted <=> mem[c] = Deleted
    BY <2>1, <2>4, ClearedMeans DEF SameGenerations
  <2>6. ASSUME mem[c] # Deleted PROVE Alive(c)' \subseteq Exempt'
    <3>1. \A g \in Alive(c) : g \in Exempt \/ g = mem[c].generation
      BY <2>1, <2>6, OnlyOne
    <3>2. ASSUME mem[c].generation = e.generation, mem[c].generation \in Alive(c)
          PROVE  mem[c].generation \in Exempt
      BY <3>2, <2>1 DEF Past, Told
    <3>3. ASSUME mem[c].generation # e.generation, mem[c].generation \in Alive(c)
          PROVE  mem[c].generation \in Exempt'
      BY <3>3, <2>1, <2>2, AliveType, Constants DEF Exempt
    <3>4. Alive(c)' = Alive(c) /\ Exempt \subseteq Exempt'
      BY <2>1, <2>2, SameAlive DEF Exempt
    <3>5. QED
      BY <3>1, <3>2, <3>3, <3>4
  <2>7. p[c].generation <= allocated'
    BY <2>5, Constants, GrowsStep
  <2>8. Traced(p)
    BY <2>1, <2>5, <2>6, <2>7, TracedChange
  <2>9. QED
    BY <1>4, <2>2, <2>8, RecordingChange DEF ApplyExit, Draining, TurnStart
<1>5. CASE OpenBatch
  BY <1>5, TracedSame DEF OpenBatch, Recording, disk, app
<1>6. CASE Quit
  BY <1>6, TracedSame DEF Quit, Recording, disk, app
<1>7. CASE CloseBatch
  <2>1. Saves(mem) \/ SaveFails(mem) \/ UNCHANGED << disk, app >>
    BY <1>7 DEF CloseBatch, TurnStart
  <2>2. QED
    BY <2>1, TracedSame, RecordingSave, RecordingChange DEF app
<1>8. CASE CloseAndQuit
  <2>1. Saves(mem) \/ SaveFails(mem) \/ UNCHANGED << disk, app >>
    BY <1>8 DEF CloseAndQuit
  <2>2. QED
    BY <2>1, TracedSame, RecordingSave, RecordingChange DEF app
<1>9. CASE Leave
  <2>1. file' \in {file, mem} /\ stable' \in {stable, mem} /\ mem' = file'
    BY <1>9 DEF Leave, Forgets, disk
  <2>2. Within(mem, allocated')
    BY TracedSame DEF Traced, Within
  <2>3. QED
    BY <2>1, <2>2, TracedSame DEF Recording
<1>10. CASE Crash
  <2>1. file' \in {file, mem} /\ stable' \in {stable, mem} /\ mem' = file'
    BY <1>10 DEF Crash, Forgets, disk
  <2>2. Within(mem, allocated')
    BY TracedSame DEF Traced, Within
  <2>3. QED
    BY <2>1, <2>2, TracedSame DEF Recording
<1>11. CASE PowerFails
  <2>1. file' \in {file, stable} /\ stable' = file' /\ mem' = file'
    BY <1>11 DEF PowerFails, Forgets
  <2>2. \A c \in Chats : Alive(c)' = {}
    BY <1>11 DEF PowerFails, Alive, BeingCreated
  <2>3. Within(file, allocated') /\ Within(stable, allocated')
    BY TracedSame DEF Traced, Within
  <2>4. QED
    BY <2>1, <2>2, <2>3 DEF Recording, Traced, Within
<1>12. CASE Disconnect
  BY <1>12, TracedSame DEF Disconnect, Recording, disk, app
<1>13. CASE DaemonDies
  BY <1>13, TracedSame DEF DaemonDies, Recording, disk, app
<1>14. CASE Reconnect
  BY <1>14, TracedSame DEF Reconnect, Recording, disk, app
<1>15. ASSUME NEW c \in Chats, RestoreAttached(c) PROVE Recording
  <2>1. SameGenerations(mem, mem')
    BY <1>15, QueriedMeans DEF RestoreAttached, Becomes
  <2>2. QED
    BY <1>15, <2>1, TracedStatuses, RecordingChange DEF RestoreAttached
<1>16. ASSUME NEW c \in Chats, RestoreMissing(c) PROVE Recording
  BY <1>16, TracedSame DEF RestoreMissing, Recording, disk, app
<1>17. ASSUME NEW c \in Chats, RestoreQuery(c) PROVE Recording
  <2>1. mem \in Project
    BY DEF TypeOK
  <2>2. PICK q : /\ mem' = Cleared(q, c)
                 /\ q = Reconciled(c) \/ q = Unrecovered(c)
    BY <1>17 DEF RestoreQuery, Becomes
  <2>3. q \in Project /\ \A d \in Chats \ {c} : q[d] = mem[d]
    <3>1. CASE q = Reconciled(c)
      BY <3>1, ReconciledMeans
    <3>2. CASE q = Unrecovered(c)
      <4>1. q = Marked(mem, c, "failed") /\ "failed" \in ChatStatus
        BY <3>2 DEF Unrecovered, ChatStatus
      <4>2. QED
        BY <4>1, <2>1, MarkedMeans
    <3>3. QED
      BY <2>2, <3>1, <3>2
  <2>4. (\A d \in Chats \ {c} : mem'[d] = mem[d]) /\ mem'[c].generation = NoGeneration
    BY <2>2, <2>3, ClearedMeans
  <2>5. Alive(c)' \subseteq Exempt'
    BY <1>17, SameAlive DEF RestoreQuery, Missing, daemon, history, Exempt
  <2>6. Traced(mem')
    BY <2>4, <2>5, Constants, GrowsStep, TracedChange
  <2>7. QED
    BY <1>17, <2>6, RecordingChange DEF RestoreQuery
<1>18. ASSUME NEW c \in Chats, RestoreFailed(c) PROVE Recording
  <2>1. mem \in Project
    BY DEF TypeOK
  <2>2. SameGenerations(mem, mem')
    BY <1>18, <2>1, MarkedMeans DEF RestoreFailed, Becomes, ChatStatus
  <2>3. QED
    BY <1>18, <2>2, TracedStatuses, RecordingChange DEF RestoreFailed
<1>19. ASSUME NEW c \in Chats, StartAttached(c) PROVE Recording
  <2>1. SameGenerations(mem, mem')
    BY <1>19, QueriedMeans DEF StartAttached, Becomes
  <2>2. QED
    BY <1>19, <2>1, TracedStatuses, RecordingChange DEF StartAttached
<1>20. ASSUME NEW c \in Chats, StartMissing(c) PROVE Recording
  <2>1. mem \in Project
    BY DEF TypeOK
  <2> DEFINE q == Marked(mem, c, "failed")
             p == Cleared(q, c)
  <2>2. Saves(p) \/ SaveFails(p)
    BY <1>20 DEF StartMissing
  <2>3. q \in Project /\ \A d \in Chats \ {c} : q[d] = mem[d]
    BY <2>1, MarkedMeans DEF ChatStatus
  <2>4. (\A d \in Chats \ {c} : p[d] = mem[d]) /\ p[c].generation = NoGeneration
    BY <2>3, ClearedMeans
  <2>5. Alive(c)' \subseteq Exempt'
    BY <1>20, MissesMeans DEF StartMissing
  <2>6. Traced(p)
    BY <2>4, <2>5, Constants, GrowsStep, TracedChange
  <2> HIDE DEF p
  <2>7. QED
    BY <2>2, <2>6, RecordingSave
<1>21. ASSUME NEW c \in Chats, StartFailed(c) PROVE Recording
  <2>1. mem \in Project
    BY DEF TypeOK
  <2>2. SameGenerations(mem, mem')
    BY <1>21, <2>1, MarkedMeans DEF StartFailed, Becomes, ChatStatus
  <2>3. QED
    BY <1>21, <2>2, TracedStatuses, RecordingChange DEF StartFailed
<1>22. ASSUME NEW c \in Chats, BeginGeneration(c) PROVE Recording
  <2>1. mem \in Project
    BY DEF TypeOK
  <2>2. PICK g \in Generations : g = allocated'
    BY <1>22, AgentLifeAssumption DEF BeginGeneration, Launches, TypeOK, Generations
  <2> DEFINE p == [mem EXCEPT ![c].generation = g]
  <2>3. mem[c] # Deleted /\ mem[c].generation = NoGeneration
    BY <1>22 DEF BeginGeneration, Launches, Startable, Present, Shape
  <2>4. Saves(p) \/ SaveFails(p)
    BY <1>22, <2>2 DEF BeginGeneration, Launches
  <2>5. (\A d \in Chats \ {c} : p[d] = mem[d]) /\ p[c].generation = allocated'
    <3>1. (\A d \in Chats \ {c} : p[d] = mem[d]) /\ p[c] = [mem[c] EXCEPT !.generation = g]
      BY <2>1 DEF Project
    <3>2. mem[c] \in Chat
      BY <2>1, <2>3 DEF Project
    <3> HIDE DEF p
    <3>3. p[c].generation = g
      BY <3>1, <3>2 DEF Chat
    <3>4. QED
      BY <2>2, <3>1, <3>3
  <2>6. Alive(c)' \subseteq Exempt'
    BY <1>22, <2>3, NothingLives, SameAlive DEF BeginGeneration, Launches, daemon, history, Exempt
  <2> HIDE DEF p
  <2>7. Traced(p)
    BY <2>5, <2>6, GrowsStep, TracedChange
  <2>8. QED
    BY <2>4, <2>7, RecordingSave
<1>23. ASSUME NEW c \in Chats, SendCreate(c) PROVE Recording
  BY <1>23, TracedSame DEF SendCreate, Recording, disk, app
<1>24. ASSUME NEW c \in Chats, SendFails(c) PROVE Recording
  <2>1. mem \in Project
    BY DEF TypeOK
  <2>2. SameGenerations(mem, mem')
    BY <1>24, <2>1, MarkedMeans DEF SendFails, Becomes, ChatStatus
  <2>3. QED
    BY <1>24, <2>2, TracedStatuses, RecordingChange DEF SendFails
<1>25. ASSUME NEW c \in Chats, CreateDone(c) PROVE Recording
  <2>1. mem \in Project
    BY DEF TypeOK
  <2>2. SameGenerations(mem, mem')
    BY <1>25, <2>1, MarkedMeans DEF CreateDone, Becomes, ChatStatus
  <2>3. QED
    BY <1>25, <2>2, TracedStatuses, RecordingChange DEF CreateDone
<1>26. ASSUME NEW c \in Chats, CreateFails(c) PROVE Recording
  <2>1. mem \in Project
    BY DEF TypeOK
  <2>2. SameGenerations(mem, mem')
    BY <1>26, <2>1, MarkedMeans DEF CreateFails, Becomes, ChatStatus
  <2>3. QED
    BY <1>26, <2>2, TracedStatuses, RecordingChange DEF CreateFails
<1>27. ASSUME NEW c \in Chats, ReceiveExit(c) PROVE Recording
  BY <1>27, TracedSame DEF ReceiveExit, Recording, disk, app
<1>28. ASSUME NEW c \in Chats, Reattached(c) PROVE Recording
  BY <1>28, TracedSame DEF Reattached, Draining, Recording, disk, app
<1>29. ASSUME NEW c \in Chats, ReattachMissing(c) PROVE Recording
  BY <1>29, TracedSame DEF ReattachMissing, Draining, Recording, disk, app
<1>30. ASSUME NEW c \in Chats, PollStatus(c) PROVE Recording
  <2>1. mem \in Project
    BY DEF TypeOK
  <2>2. \A s \in Reports : ChatStatusOf(s) \in ChatStatus
    BY AgentLifeAssumption DEF ChatStatusOf, ChatStatus
  <2>3. SameGenerations(mem, mem')
    BY <1>30, <2>1, <2>2, MarkedMeans, QueriedMeans DEF PollStatus, Becomes
  <2>4. QED
    BY <1>30, <2>3, TracedStatuses, RecordingChange DEF PollStatus
<1>31. ASSUME NEW c \in Chats, DeleteChat(c) PROVE Recording
  <2>1. mem \in Project
    BY DEF TypeOK
  <2>2. (\A d \in Chats \ {c} : mem'[d] = mem[d]) /\ mem'[c] = Deleted
    BY <1>31, <2>1 DEF DeleteChat, Becomes, Project
  <2>3. Traced(mem')
    BY <2>2, TracedChange
  <2>4. QED
    BY <1>31, <2>3, RecordingChange DEF DeleteChat
<1>32. ASSUME NEW c \in Chats, AgentExits(c) PROVE Recording
  BY <1>32, TracedSame DEF AgentExits, Recording, disk, app
<1>33. ASSUME NEW r \in creates, Created(r) PROVE Recording
  BY <1>33, TracedSame DEF Created, Recording, disk, app
<1>34. ASSUME NEW r \in creates, Refused(r) PROVE Recording
  BY <1>34, TracedSame DEF Refused, Recording, disk, app
<1>35. CASE UNCHANGED vars
  BY <1>35, TracedSame DEF Recording, disk, app, control, pty, daemon, count, history, vars
<1>36. CASE Turn
  BY <1>36, TracedSame DEF Turn, Recording, disk, app
<1>37. ASSUME NEW c \in Chats, GenerationFails(c) PROVE Recording
  <2>1. mem \in Project
    BY DEF TypeOK
  <2>2. SameGenerations(mem, mem')
    BY <1>37, <2>1, MarkedMeans, BecomesType DEF GenerationFails, Becomes, ChatStatus
  <2>3. QED
    BY <1>37, <2>1, <2>2, TracedStatuses, RecordingChange DEF GenerationFails
<1>38. ASSUME NEW c \in Chats, SendAttached(c) PROVE Recording
  <2>1. mem \in Project
    BY DEF TypeOK
  <2>2. SameGenerations(mem, mem')
    BY <1>38, <2>1, MarkedMeans, BecomesType DEF SendAttached, Becomes, ChatStatus
  <2>3. QED
    BY <1>38, <2>1, <2>2, TracedStatuses, RecordingChange DEF SendAttached
<1>39. ASSUME NEW c \in Chats, SendMissing(c) PROVE Recording
  BY <1>39, TracedSame DEF SendMissing, Recording, disk, app
<1>40. QED
  BY <1>1, <1>2, <1>3, <1>4, <1>5, <1>6, <1>7, <1>8, <1>9, <1>10, <1>11, <1>12, <1>13, <1>14, <1>15, <1>16, <1>17, <1>18, <1>19, <1>20, <1>21, <1>22, <1>23, <1>24, <1>25, <1>26, <1>27, <1>28, <1>29, <1>30, <1>31, <1>32, <1>33, <1>34, <1>35, <1>36, <1>37, <1>38, <1>39 DEF Next
-----------------------------------------------------------------------------
(* The invariant.                                                          *)

LEMMA LiveStep ==
    ASSUME TypeOK, Shape, AgentInv, [Next]_vars
    PROVE  Live'
<1> USE DEF AgentInv
<1>1. Traced(mem') /\ Traced(file') /\ Spreads
  BY RecordingStep, SpreadsStep DEF Recording
<1>2. ASSUME NEW c \in Chats, NEW g \in Alive(c)', g \notin Exempt',
             Has(file, c, g), Has(mem, c, g), NEW p, Traced(p)
      PROVE  Has(p, c, g)
  BY <1>2 DEF Traced, Like, Has
<1>3. CASE Shrinks
  <2>1. ASSUME NEW c \in Chats, NEW g \in Alive(c)', g \notin Exempt'
        PROVE  Has(file, c, g) /\ Has(mem, c, g)
    BY <1>1, <1>3, <2>1 DEF Shrinks, Spreads, Live
  <2>2. \A c \in Chats : \A g \in Alive(c)' :
            g \in Exempt' \/ (Has(file', c, g) /\ Has(mem', c, g))
    BY <1>1, <1>2, <2>1
  <2>3. QED
    BY <2>2 DEF Live, Has
<1>4. ASSUME NEW c \in Chats, SendCreate(c) PROVE Live'
  <2>1. /\ mem' = mem /\ file' = file
        /\ mem[c].generation = allocated /\ file[c].generation = allocated
    BY <1>4 DEF SendCreate, disk, app, Sending
  <2>2. ASSUME NEW d \in Chats, NEW g \in Alive(d)'
        PROVE  g \in Alive(d) \/ (d = c /\ g = allocated)
    BY <1>4, <2>1, <2>2, SentAlive
  <2>3. \A d \in Chats : \A g \in Alive(d)' :
            g \in Exempt' \/ (Has(file, d, g) /\ Has(mem, d, g))
    BY <1>1, <2>1, <2>2 DEF Live, Has, Spreads
  <2>4. QED
    BY <2>1, <2>3 DEF Live, Has
<1>5. QED
  BY <1>3, <1>4, AliveStep

LEMMA CountedStep ==
    ASSUME TypeOK, Shape, AgentInv, [Next]_vars
    PROVE  Counted'
<1> USE DEF AgentInv
<1>1. Within(mem', allocated') /\ Within(file', allocated') /\ Within(stable', allocated')
  BY RecordingStep DEF Recording, Traced, Within
<1>2. allocated \in Nat /\ allocated' \in Nat /\ allocated <= allocated'
      /\ Gens \subseteq Nat /\ NoGeneration = 0
  BY GrowsStep, Numbers, Constants DEF Gens
<1>3. ASSUME NEW c \in Chats, NEW g \in Gens, g \in Alive(c)' PROVE g <= allocated
  <2>1. CASE g \in Alive(c)
    BY <2>1 DEF Counted, Bounded
  <2>2. CASE g = mem[c].generation
    BY <2>2 DEF Counted, Within
  <2>3. QED
    BY <1>3, <2>1, <2>2, AliveStep, SentAlive DEF Shrinks
<1>4. ASSUME NEW c \in Chats, NEW g \in Gens, Told(c, g)' PROVE g <= allocated
  <2>1. CASE Told(c, g)
    BY <2>1 DEF Counted, Bounded
  <2>2. CASE g = NoGeneration
    BY <1>2, <2>2
  <2>3. CASE g = mem[c].generation
    BY <2>3 DEF Counted, Within
  <2>4. CASE AgentExits(c) /\ g = session[c]
    <3>1. g \in Alive(c)
      BY <2>4 DEF Alive, AgentExits
    <3>2. QED
      BY <3>1 DEF Counted, Bounded
  <2>5. QED
    BY <1>4, <2>1, <2>2, <2>3, <2>4, ToldStep DEF ToldFrom
<1>5. \A c \in Chats : \A g \in Gens : g \in Alive(c)' \/ Told(c, g)' => g <= allocated'
  <2>1. ASSUME NEW c \in Chats, NEW g \in Gens, g \in Alive(c)' \/ Told(c, g)'
        PROVE  g <= allocated'
    <3>1. g <= allocated /\ g \in Nat
      BY <1>2, <1>3, <1>4, <2>1
    <3>2. QED
      BY <1>2, <3>1
  <2>2. QED
    BY <2>1
<1>6. Bounded(allocated)'
  BY <1>5 DEF Bounded
<1>7. QED
  BY <1>1, <1>6 DEF Counted, Within

LEMMA PastStep ==
    ASSUME TypeOK, Shape, AgentInv, [Next]_vars
    PROVE  Past'
<1> USE DEF AgentInv
<1> SUFFICES ASSUME NEW c \in Chats, NEW g \in Gens, Told(c, g)', g \in Alive(c)'
             PROVE  g \in Exempt'
  BY DEF Past
<1>1. Spreads
  BY SpreadsStep
<1>2. CASE Told(c, g)
  <2>1. CASE Shrinks
    BY <1>1, <1>2, <2>1 DEF Shrinks, Spreads, Past
  <2>2. ASSUME NEW d \in Chats, SendCreate(d) PROVE g \in Exempt'
    <3>1. g <= allocated - 1 /\ mem[d].generation = allocated /\ g \in Nat /\ allocated \in Nat
      BY <1>2, <2>2, Constants, Numbers DEF SendCreate, Sending, Bounded, Gens
    <3>2. g \in Alive(c)
      BY <2>2, <3>1, SentAlive
    <3>3. QED
      BY <1>1, <1>2, <3>2 DEF Spreads, Past
  <2>3. QED
    BY <2>1, <2>2, AliveStep
<1>3. CASE g = NoGeneration
  <2>1. \A r \in creates' : r.chat \in Chats /\ r.generation \in Generations
    BY TypeStep DEF TypeOK
  <2>2. NoGeneration \notin Alive(c)'
    BY <2>1, Constants DEF Alive, BeingCreated
  <2>3. QED
    BY <1>3, <2>2
<1>4. CASE AgentExits(c) /\ g = session[c]
  <2>1. session'[c] = NoGeneration /\ BeingCreated(c)' = BeingCreated(c)
    BY <1>4 DEF AgentExits, TypeOK, BeingCreated
  <2>2. g \in BeingCreated(c)
    BY <2>1 DEF Alive
  <2>3. QED
    BY <1>4, <2>2 DEF Once
<1>5. CASE ReattachMissing(c)
  BY <1>5, MissesMeans DEF ReattachMissing
<1>6. QED
  BY <1>2, <1>3, <1>4, <1>5, ToldStep DEF ToldFrom

LEMMA SameOnce ==
    ASSUME Once, UNCHANGED << session, creates >>
    PROVE  Once'
BY DEF Once, BeingCreated

LEMMA UnheardOnce ==
    ASSUME TypeOK, Once, creates' = Unheard
    PROVE  \A r, q \in creates' : r.chat = q.chat /\ r.generation = q.generation => r = q
<1> DEFINE Old(r) == [r EXCEPT !.here = FALSE]
<1>1. \A r \in creates : Old(r).chat = r.chat /\ Old(r).generation = r.generation
  BY DEF TypeOK
<1>2. creates' = {Old(r) : r \in creates}
  BY DEF Unheard
<1> HIDE DEF Old
<1>3. QED
  BY <1>1, <1>2 DEF Once

LEMMA OnceStep ==
    ASSUME TypeOK, Shape, Once, Sending, [Next]_vars
    PROVE  Once'
<1>1. CASE Load
  BY <1>1, SameOnce DEF Load, TurnStart, daemon
<1>2. CASE LoadFails
  BY <1>2, SameOnce DEF LoadFails, daemon
<1>3. CASE SaveContent
  BY <1>3, SameOnce DEF SaveContent, daemon
<1>4. CASE ApplyExit
  BY <1>4, SameOnce DEF ApplyExit, Draining, TurnStart, daemon
<1>5. CASE OpenBatch
  BY <1>5, SameOnce DEF OpenBatch, daemon
<1>6. CASE Quit
  BY <1>6, SameOnce DEF Quit, daemon
<1>7. CASE CloseBatch
  BY <1>7, SameOnce DEF CloseBatch, TurnStart, daemon
<1>8. CASE CloseAndQuit
  BY <1>8, UnheardOnce, UnheardKeeps DEF CloseAndQuit, Once
<1>9. CASE Leave
  BY <1>9, UnheardOnce, UnheardKeeps DEF Leave, Once
<1>10. CASE Crash
  BY <1>10, UnheardOnce, UnheardKeeps DEF Crash, Once
<1>11. CASE PowerFails
  BY <1>11 DEF PowerFails, Once, BeingCreated
<1>12. CASE Disconnect
  BY <1>12, UnheardOnce, UnheardKeeps DEF Disconnect, Once
<1>13. CASE DaemonDies
  BY <1>13 DEF DaemonDies, Once, BeingCreated
<1>14. CASE Reconnect
  BY <1>14, SameOnce DEF Reconnect, daemon
<1>15. ASSUME NEW c \in Chats, RestoreAttached(c) PROVE Once'
  BY <1>15, SameOnce DEF RestoreAttached, daemon
<1>16. ASSUME NEW c \in Chats, RestoreMissing(c) PROVE Once'
  BY <1>16, SameOnce DEF RestoreMissing, daemon
<1>17. ASSUME NEW c \in Chats, RestoreQuery(c) PROVE Once'
  BY <1>17, SameOnce DEF RestoreQuery, daemon
<1>18. ASSUME NEW c \in Chats, RestoreFailed(c) PROVE Once'
  BY <1>18, SameOnce DEF RestoreFailed, daemon
<1>19. ASSUME NEW c \in Chats, StartAttached(c) PROVE Once'
  BY <1>19, SameOnce DEF StartAttached, daemon
<1>20. ASSUME NEW c \in Chats, StartMissing(c) PROVE Once'
  BY <1>20, SameOnce DEF StartMissing, daemon
<1>21. ASSUME NEW c \in Chats, StartFailed(c) PROVE Once'
  BY <1>21, SameOnce DEF StartFailed, daemon
<1>22. ASSUME NEW c \in Chats, BeginGeneration(c) PROVE Once'
  BY <1>22, SameOnce DEF BeginGeneration, Launches, daemon
<1>23. ASSUME NEW c \in Chats, SendCreate(c) PROVE Once'
  <2>1. mem[c].generation = allocated /\ Bounded(allocated - 1) /\ allocated \in Nat
    BY <1>23, Numbers DEF SendCreate, Sending
  <2>2. mem[c].generation \notin Alive(c)
    BY <2>1, AliveType, Constants DEF Bounded, Gens
  <2>3. mem[c].generation # NoGeneration
    BY <1>23 DEF SendCreate, Sending, NoGeneration
  <2>4. mem[c].generation \notin BeingCreated(c) /\ mem[c].generation # session[c]
    BY <2>2, <2>3 DEF Alive
  <2>5. \A d \in Chats : session'[d] \notin BeingCreated(d)'
    BY <1>23, <2>4, SentAlive DEF SendCreate, Once
  <2> DEFINE new == [chat |-> c, generation |-> mem[c].generation, here |-> TRUE]
  <2>6. creates' = creates \cup {new} /\ new.chat = c /\ new.generation = mem[c].generation
    BY <1>23 DEF SendCreate
  <2> HIDE DEF new
  <2>7. \A r \in creates : ~ (r.chat = c /\ r.generation = mem[c].generation)
    BY <2>4 DEF BeingCreated
  <2>8. \A r, q \in creates' : r.chat = q.chat /\ r.generation = q.generation => r = q
    BY <2>6, <2>7 DEF Once
  <2>9. QED
    BY <2>5, <2>8 DEF Once
<1>24. ASSUME NEW c \in Chats, SendFails(c) PROVE Once'
  BY <1>24, SameOnce DEF SendFails, daemon
<1>25. ASSUME NEW c \in Chats, CreateDone(c) PROVE Once'
  BY <1>25, SameOnce DEF CreateDone, daemon
<1>26. ASSUME NEW c \in Chats, CreateFails(c) PROVE Once'
  BY <1>26, SameOnce DEF CreateFails, daemon
<1>27. ASSUME NEW c \in Chats, ReceiveExit(c) PROVE Once'
  BY <1>27, SameOnce DEF ReceiveExit, daemon
<1>28. ASSUME NEW c \in Chats, Reattached(c) PROVE Once'
  BY <1>28, SameOnce DEF Reattached, Draining, daemon
<1>29. ASSUME NEW c \in Chats, ReattachMissing(c) PROVE Once'
  BY <1>29, SameOnce DEF ReattachMissing, Draining, daemon
<1>30. ASSUME NEW c \in Chats, PollStatus(c) PROVE Once'
  BY <1>30, SameOnce DEF PollStatus, daemon
<1>31. ASSUME NEW c \in Chats, DeleteChat(c) PROVE Once'
  BY <1>31, SameOnce DEF DeleteChat, daemon
<1>32. ASSUME NEW c \in Chats, AgentExits(c) PROVE Once'
  <2>1. \A d \in Chats : BeingCreated(d)' = BeingCreated(d) /\ NoGeneration \notin BeingCreated(d)
    BY <1>32, AliveType, Constants DEF AgentExits, BeingCreated
  <2>2. \A d \in Chats : session'[d] \in {session[d], NoGeneration}
    BY <1>32 DEF AgentExits, TypeOK
  <2>3. QED
    BY <1>32, <2>1, <2>2 DEF AgentExits, Once
<1>33. ASSUME NEW r \in creates, Created(r) PROVE Once'
  <2>1. \A d \in Chats : session'[d] = session[d] \/ (d = r.chat /\ session'[d] = r.generation)
    BY <1>33 DEF Created, TypeOK
  <2>2. \A d \in Chats : BeingCreated(d)' \subseteq BeingCreated(d)
    BY <1>33 DEF Created, BeingCreated
  <2>3. r.generation \notin BeingCreated(r.chat)'
    BY <1>33 DEF Created, BeingCreated, Once
  <2>4. QED
    BY <1>33, <2>1, <2>2, <2>3 DEF Created, Once
<1>34. ASSUME NEW r \in creates, Refused(r) PROVE Once'
  BY <1>34 DEF Refused, Once, BeingCreated
<1>35. CASE UNCHANGED vars
  BY <1>35, SameOnce DEF disk, app, control, pty, daemon, count, history, vars
<1>36. CASE Turn
  BY <1>36, SameOnce DEF Turn, daemon
<1>37. ASSUME NEW c \in Chats, GenerationFails(c) PROVE Once'
  BY <1>37, SameOnce DEF GenerationFails, daemon
<1>38. ASSUME NEW c \in Chats, SendAttached(c) PROVE Once'
  BY <1>38, SameOnce DEF SendAttached, daemon
<1>39. ASSUME NEW c \in Chats, SendMissing(c) PROVE Once'
  BY <1>39, SameOnce DEF SendMissing, daemon
<1>40. QED
  BY <1>1, <1>2, <1>3, <1>4, <1>5, <1>6, <1>7, <1>8, <1>9, <1>10, <1>11, <1>12, <1>13, <1>14, <1>15, <1>16, <1>17, <1>18, <1>19, <1>20, <1>21, <1>22, <1>23, <1>24, <1>25, <1>26, <1>27, <1>28, <1>29, <1>30, <1>31, <1>32, <1>33, <1>34, <1>35, <1>36, <1>37, <1>38, <1>39 DEF Next

\* Where a handler comes from.
OpFrom ==
    /\ op'.kind = "missing" => op' = op \/ \E c \in Chats : RestoreMissing(c) /\ op'.chat = c
    /\ op'.kind = "send" =>
          \/ op' = op /\ UNCHANGED << file, mem, allocated >>
          \/ \E c \in Chats : BeginGeneration(c) /\ op'.chat = c

LEMMA OpIdle == ASSUME op' = Idle PROVE OpFrom
BY DEF OpFrom, Idle

LEMMA OpSame == ASSUME UNCHANGED << op, file, mem, allocated >> PROVE OpFrom
BY DEF OpFrom

LEMMA OpStaysIdle == ASSUME op = Idle, op' = op PROVE OpFrom
BY DEF OpFrom, Idle

LEMMA OpStep ==
    ASSUME TypeOK, Shape, [Next]_vars
    PROVE  OpFrom
<1>1. CASE Load
  BY <1>1, OpStaysIdle DEF Load, TurnStart, Shape
<1>2. CASE LoadFails
  BY <1>2, OpStaysIdle DEF LoadFails, Shape
<1>3. CASE SaveContent
  BY <1>3, OpStaysIdle DEF SaveContent, Drained
<1>4. CASE ApplyExit
  BY <1>4, OpStaysIdle DEF ApplyExit, Draining, TurnStart, control
<1>5. CASE OpenBatch
  BY <1>5, OpStaysIdle DEF OpenBatch, Drained
<1>6. CASE Quit
  BY <1>6, OpStaysIdle DEF Quit, control, Startable, Free, Drained
<1>7. CASE CloseBatch
  BY <1>7, OpStaysIdle DEF CloseBatch, TurnStart
<1>8. CASE CloseAndQuit
  BY <1>8, OpIdle DEF CloseAndQuit, Ends
<1>9. CASE Leave
  BY <1>9, OpIdle DEF Leave, Ends
<1>10. CASE Crash
  BY <1>10, OpIdle DEF Crash, Ends
<1>11. CASE PowerFails
  BY <1>11, OpIdle DEF PowerFails, Ends
<1>12. CASE Disconnect
  BY <1>12, OpSame DEF Disconnect, control, disk, app, count
<1>13. CASE DaemonDies
  BY <1>13, OpSame DEF DaemonDies, control, disk, app, count
<1>14. CASE Reconnect
  BY <1>14, OpSame DEF Reconnect, control, disk, app, count
<1>15. ASSUME NEW c \in Chats, RestoreAttached(c) PROVE OpFrom
  BY <1>15, OpStaysIdle DEF RestoreAttached
<1>16. ASSUME NEW c \in Chats, RestoreMissing(c) PROVE OpFrom
  BY <1>16 DEF RestoreMissing, OpFrom, Idle
<1>17. ASSUME NEW c \in Chats, RestoreQuery(c) PROVE OpFrom
  BY <1>17, OpIdle DEF RestoreQuery
<1>18. ASSUME NEW c \in Chats, RestoreFailed(c) PROVE OpFrom
  BY <1>18, OpStaysIdle DEF RestoreFailed
<1>19. ASSUME NEW c \in Chats, StartAttached(c) PROVE OpFrom
  BY <1>19, OpStaysIdle DEF StartAttached, control, Startable, Free, Drained
<1>20. ASSUME NEW c \in Chats, StartMissing(c) PROVE OpFrom
  BY <1>20 DEF StartMissing, OpFrom, Idle
<1>21. ASSUME NEW c \in Chats, StartFailed(c) PROVE OpFrom
  BY <1>21, OpStaysIdle DEF StartFailed, control, Startable, Free, Drained
<1>22. ASSUME NEW c \in Chats, BeginGeneration(c) PROVE OpFrom
  <2>1. op' = Idle \/ op' = [kind |-> "send", chat |-> c]
    BY <1>22 DEF BeginGeneration, Launches, Launching
  <2>2. QED
    BY <1>22, <2>1 DEF OpFrom, Idle
<1>23. ASSUME NEW c \in Chats, SendCreate(c) PROVE OpFrom
  BY <1>23 DEF SendCreate, OpFrom, Idle
<1>24. ASSUME NEW c \in Chats, SendFails(c) PROVE OpFrom
  BY <1>24, OpIdle DEF SendFails
<1>25. ASSUME NEW c \in Chats, CreateDone(c) PROVE OpFrom
  BY <1>25, OpIdle DEF CreateDone
<1>26. ASSUME NEW c \in Chats, CreateFails(c) PROVE OpFrom
  BY <1>26, OpIdle DEF CreateFails
<1>27. ASSUME NEW c \in Chats, ReceiveExit(c) PROVE OpFrom
  BY <1>27, OpSame DEF ReceiveExit, control, disk, app, count
<1>28. ASSUME NEW c \in Chats, Reattached(c) PROVE OpFrom
  BY <1>28, OpStaysIdle DEF Reattached, Draining, control, Startable, Free, Drained
<1>29. ASSUME NEW c \in Chats, ReattachMissing(c) PROVE OpFrom
  BY <1>29, OpStaysIdle DEF ReattachMissing, Draining, control, Startable, Free, Drained
<1>30. ASSUME NEW c \in Chats, PollStatus(c) PROVE OpFrom
  BY <1>30, OpStaysIdle DEF PollStatus, control, Drained
<1>31. ASSUME NEW c \in Chats, DeleteChat(c) PROVE OpFrom
  BY <1>31, OpStaysIdle DEF DeleteChat, control, Startable, Free, Drained
<1>32. ASSUME NEW c \in Chats, AgentExits(c) PROVE OpFrom
  BY <1>32, OpSame DEF AgentExits, control, disk, app, count
<1>33. ASSUME NEW r \in creates, Created(r) PROVE OpFrom
  BY <1>33, OpSame DEF Created, control, disk, app, count
<1>34. ASSUME NEW r \in creates, Refused(r) PROVE OpFrom
  BY <1>34, OpSame DEF Refused, control, disk, app, count
<1>35. CASE UNCHANGED vars
  BY <1>35, OpSame DEF disk, app, control, pty, daemon, count, history, vars
<1>36. CASE Turn
  BY <1>36, OpStaysIdle DEF Turn, Drained
<1>37. ASSUME NEW c \in Chats, GenerationFails(c) PROVE OpFrom
  BY <1>37, OpIdle DEF GenerationFails
<1>38. ASSUME NEW c \in Chats, SendAttached(c) PROVE OpFrom
  BY <1>38, OpIdle DEF SendAttached
<1>39. ASSUME NEW c \in Chats, SendMissing(c) PROVE OpFrom
  BY <1>39, OpSame DEF SendMissing, disk, app, control, count
<1>40. QED
  BY <1>1, <1>2, <1>3, <1>4, <1>5, <1>6, <1>7, <1>8, <1>9, <1>10, <1>11, <1>12, <1>13, <1>14, <1>15, <1>16, <1>17, <1>18, <1>19, <1>20, <1>21, <1>22, <1>23, <1>24, <1>25, <1>26, <1>27, <1>28, <1>29, <1>30, <1>31, <1>32, <1>33, <1>34, <1>35, <1>36, <1>37, <1>38, <1>39 DEF Next

LEMMA MissingStep ==
    ASSUME TypeOK, Shape, AgentInv, [Next]_vars
    PROVE  Missing'
<1> USE DEF AgentInv
<1> SUFFICES ASSUME op'.kind = "missing", NEW c \in Chats, op'.chat = c
             PROVE  Alive(c)' \subseteq Exempt'
  <2>1. op'.kind = "missing" => op'.chat \in Chats
    BY ShapeStep DEF Shape
  <2>2. QED
    BY <2>1 DEF Missing, Alive, BeingCreated
<1>1. CASE op' = op
  <2>1. Alive(c) \subseteq Exempt
    BY <1>1 DEF Missing
  <2>2. Shrinks /\ Spreads
    BY AliveStep, SpreadsStep DEF SendCreate
  <2>3. QED
    BY <1>1, <2>1, <2>2 DEF Shrinks, Spreads
<1>2. CASE RestoreMissing(c)
  BY <1>2, MissesMeans DEF RestoreMissing
<1>3. QED
  BY <1>1, <1>2, OpStep DEF OpFrom

LEMMA SendingStep ==
    ASSUME TypeOK, Shape, AgentInv, [Next]_vars
    PROVE  Sending'
<1> USE DEF AgentInv
<1> SUFFICES ASSUME op'.kind = "send"
             PROVE  /\ allocated' # 0
                    /\ mem'[op'.chat].generation = allocated'
                    /\ file'[op'.chat].generation = allocated'
                    /\ Bounded(allocated - 1)'
  BY DEF Sending
<1>1. CASE op' = op /\ UNCHANGED << file, mem, allocated >>
  <2>1. /\ allocated # 0 /\ Bounded(allocated - 1)
        /\ mem[op.chat].generation = allocated /\ file[op.chat].generation = allocated
    BY <1>1 DEF Sending
  <2>2. Shrinks
    BY AliveStep DEF SendCreate
  <2>3. op # Idle /\ allocated \in Nat /\ NoGeneration = 0
    BY <1>1, Numbers, Constants DEF Idle
  <2>4. ASSUME NEW c \in Chats, NEW g \in Gens, g \in Alive(c)' PROVE g <= allocated - 1
    BY <2>1, <2>2, <2>4 DEF Shrinks, Bounded
  <2>5. ASSUME NEW c \in Chats, NEW g \in Gens, Told(c, g)' PROVE g <= allocated - 1
    <3>1. CASE Told(c, g)
      BY <2>1, <3>1 DEF Bounded
    <3>2. CASE g = NoGeneration
      BY <2>1, <2>3, <3>2
    <3>3. CASE AgentExits(c) /\ g = session[c]
      BY <2>1, <3>3 DEF Bounded, Alive, AgentExits
    <3>4. CASE ReattachMissing(c)
      BY <2>3, <3>4 DEF ReattachMissing, Draining, Free, Drained
    <3>5. QED
      BY <2>5, <3>1, <3>2, <3>3, <3>4, ToldStep DEF ToldFrom
  <2>6. Bounded(allocated - 1)'
    BY <1>1, <2>4, <2>5 DEF Bounded
  <2>7. QED
    BY <1>1, <2>1, <2>6
<1>2. ASSUME NEW c \in Chats, BeginGeneration(c), op'.chat = c
      PROVE  /\ allocated' # 0
             /\ mem'[op'.chat].generation = allocated'
             /\ file'[op'.chat].generation = allocated'
             /\ Bounded(allocated - 1)'
  <2>1. allocated' = allocated + 1 /\ allocated \in Nat
    BY <1>2, Numbers DEF BeginGeneration, Launches
  <2>2. file' = mem' /\ mem' = [mem EXCEPT ![c].generation = allocated']
    BY <1>2 DEF BeginGeneration, Launches, Launching, MayLaunch, Idle, Saves
  <2>3. mem[c] \in Chat /\ mem \in Project
    BY <1>2 DEF BeginGeneration, Launches, Startable, Present, Shape, TypeOK, Project
  <2>4. mem'[c] = [mem[c] EXCEPT !.generation = allocated']
    BY <2>2, <2>3 DEF Project
  <2>5. mem'[c].generation = allocated'
    BY <2>3, <2>4 DEF Chat
  <2>6. UNCHANGED << session, creates, wire, exits >>
    BY <1>2 DEF BeginGeneration, Launches, daemon, pty
  <2>7. \A d \in Chats : Alive(d)' = Alive(d) /\ \A g \in Gens : Told(d, g)' <=> Told(d, g)
    BY <2>6, SameAlive DEF Told, Reported
  <2>8. \A d \in Chats : \A g \in Gens : g \in Alive(d)' \/ Told(d, g)' => g <= allocated' - 1
    BY <2>1, <2>7 DEF Counted, Bounded
  <2>9. Bounded(allocated - 1)'
    BY <2>8 DEF Bounded
  <2>10. QED
    BY <1>2, <2>1, <2>2, <2>5, <2>9
<1>3. QED
  BY <1>1, <1>2, OpStep DEF OpFrom

LEMMA AgentInvStep == TypeOK /\ Shape /\ AgentInv /\ [Next]_vars => AgentInv'
BY LiveStep, CountedStep, PastStep, OnceStep, MissingStep, SendingStep DEF AgentInv

LEMMA InitAgentInv == Init => AgentInv
<1> SUFFICES ASSUME Init PROVE AgentInv
  OBVIOUS
<1>1. \A c \in Chats : Alive(c) = {} /\ BeingCreated(c) = {}
  BY DEF Init, Alive, BeingCreated
<1>2. Reported = {}
  BY DEF Init, Reported
<1>3. \A c \in Chats : \A g \in Gens : Told(c, g) => g = 0
  BY <1>2 DEF Init, Told, NoExit, NoGeneration
<1>4. \A c \in Chats : file[c].generation = 0
  <2>1. ASSUME NEW c \in Chats PROVE file[c] \in {[generation |-> NoGeneration, status |-> s] : s \in {"idle", "thinking"}}
    BY DEF Init
  <2>2. \A s : [generation |-> NoGeneration, status |-> s].generation = 0
    BY DEF NoGeneration
  <2>3. QED
    BY <2>1, <2>2
<1>5. Counted
  BY <1>1, <1>3, <1>4 DEF Init, Counted, Within, Bounded
<1>6. Once /\ Live /\ Past
  BY <1>1 DEF Init, Once, Live, Past
<1>7. Missing /\ Sending
  BY DEF Init, Missing, Sending, Idle
<1>8. QED
  BY <1>5, <1>6, <1>7 DEF AgentInv

\* start_or_focus_chat_agent saves a generation before it sends the create: whatever
\* crashes, fails or is lost, a running agent is in the state file with its generation,
\* but for the two cases named in AgentRecorded.
THEOREM AgentIsRecorded == Spec => []AgentRecorded
<1>1. AgentInv => AgentRecorded
  BY DEF AgentInv, Live, Alive, Has, Exempt, AgentRecorded, Recorded
<1>2. TypeOK /\ Shape /\ AgentInv /\ [Next]_vars => AgentInv'
  BY AgentInvStep
<1>3. QED
  BY <1>1, <1>2, InitAgentInv, TypeCorrect, AlwaysShape, PTL DEF Spec
-----------------------------------------------------------------------------
(* No chat is shown working with no generation to own it.                  *)

NoGhost(p) == \A c \in Chats : p[c].generation = NoGeneration => p[c].status # "thinking"

\* The daemon's status entries: a running agent has its own, and what an agent that
\* is gone leaves is final.
EntryInv ==
    /\ \A c \in Chats :
          /\ session[c] # NoGeneration => entry[c].generation = session[c]
          /\ session[c] = NoGeneration => entry[c] = NoEntry \/ entry[c].status \in Final
    /\ op.kind = "missing" => entry[op.chat].status \in Final \cup {"unknown"}

LEMMA EntryFrame ==
    ASSUME EntryInv, UNCHANGED << session, entry >>, op' = op \/ op'.kind # "missing"
    PROVE  EntryInv'
BY DEF EntryInv

LEMMA EntryStep ==
    ASSUME TypeOK, Shape, EntryInv, [Next]_vars
    PROVE  EntryInv'
<1>1. CASE Load
  BY <1>1, EntryFrame DEF Load, TurnStart, daemon, control, Idle
<1>2. CASE LoadFails
  BY <1>2, EntryFrame DEF LoadFails, daemon, control, Idle
<1>3. CASE SaveContent
  BY <1>3, EntryFrame DEF SaveContent, daemon, control, Idle
<1>4. CASE ApplyExit
  BY <1>4, EntryFrame DEF ApplyExit, Draining, TurnStart, daemon, control, Idle
<1>5. CASE OpenBatch
  BY <1>5, EntryFrame DEF OpenBatch, daemon, control, Idle
<1>6. CASE Quit
  BY <1>6, EntryFrame DEF Quit, daemon, control, Idle
<1>7. CASE CloseBatch
  BY <1>7, EntryFrame DEF CloseBatch, TurnStart, daemon, control, Idle
<1>8. CASE CloseAndQuit
  BY <1>8, EntryFrame DEF CloseAndQuit, daemon, control, Idle, Ends
<1>9. CASE Leave
  BY <1>9, EntryFrame DEF Leave, daemon, control, Idle, Ends
<1>10. CASE Crash
  BY <1>10, EntryFrame DEF Crash, daemon, control, Idle, Ends
<1>11. CASE PowerFails
  <2>1. \A c \in Chats : session'[c] = NoGeneration /\ entry'[c] = NoEntry
    BY <1>11 DEF PowerFails
  <2>2. op' = op \/ op' = Idle
    BY <1>11 DEF PowerFails, Ends, control
  <2>3. op'.kind = "missing" => op'.chat \in Chats
    BY ShapeStep DEF Shape
  <2>4. QED
    BY <2>1, <2>2, <2>3 DEF EntryInv, NoEntry, Idle
<1>12. CASE Disconnect
  BY <1>12, EntryFrame DEF Disconnect, daemon, control, Idle
<1>13. CASE DaemonDies
  <2>1. \A c \in Chats : session'[c] = NoGeneration /\ entry'[c] = NoEntry
    BY <1>13 DEF DaemonDies
  <2>2. op' = op \/ op' = Idle
    BY <1>13 DEF DaemonDies, Ends, control
  <2>3. op'.kind = "missing" => op'.chat \in Chats
    BY ShapeStep DEF Shape
  <2>4. QED
    BY <2>1, <2>2, <2>3 DEF EntryInv, NoEntry, Idle
<1>14. CASE Reconnect
  BY <1>14, EntryFrame DEF Reconnect, daemon, control, Idle
<1>15. ASSUME NEW c \in Chats, RestoreAttached(c) PROVE EntryInv'
  BY <1>15, EntryFrame DEF RestoreAttached, daemon, control, Idle
<1>16. ASSUME NEW c \in Chats, RestoreMissing(c) PROVE EntryInv'
  <2>1. entry[c] = NoEntry \/ entry[c].status \in Final
    BY <1>16 DEF RestoreMissing, Misses, EntryInv
  <2>2. op'.chat = c /\ UNCHANGED << session, entry >>
    BY <1>16 DEF RestoreMissing
  <2>3. QED
    BY <2>1, <2>2 DEF EntryInv, NoEntry
<1>17. ASSUME NEW c \in Chats, RestoreQuery(c) PROVE EntryInv'
  BY <1>17, EntryFrame DEF RestoreQuery, daemon, control, Idle
<1>18. ASSUME NEW c \in Chats, RestoreFailed(c) PROVE EntryInv'
  BY <1>18, EntryFrame DEF RestoreFailed, daemon, control, Idle
<1>19. ASSUME NEW c \in Chats, StartAttached(c) PROVE EntryInv'
  BY <1>19, EntryFrame DEF StartAttached, daemon, control, Idle
<1>20. ASSUME NEW c \in Chats, StartMissing(c) PROVE EntryInv'
  BY <1>20, EntryFrame DEF StartMissing, daemon, control, Idle
<1>21. ASSUME NEW c \in Chats, StartFailed(c) PROVE EntryInv'
  BY <1>21, EntryFrame DEF StartFailed, daemon, control, Idle
<1>22. ASSUME NEW c \in Chats, BeginGeneration(c) PROVE EntryInv'
  <2>1. op' = Idle \/ op' = [kind |-> "send", chat |-> c]
    BY <1>22 DEF BeginGeneration, Launches, Launching
  <2>2. UNCHANGED << session, entry >>
    BY <1>22 DEF BeginGeneration, Launches, daemon
  <2>3. QED
    BY <2>1, <2>2, EntryFrame DEF Idle
<1>23. ASSUME NEW c \in Chats, SendCreate(c) PROVE EntryInv'
  BY <1>23, EntryFrame DEF SendCreate, daemon, control, Idle
<1>24. ASSUME NEW c \in Chats, SendFails(c) PROVE EntryInv'
  BY <1>24, EntryFrame DEF SendFails, daemon, control, Idle
<1>25. ASSUME NEW c \in Chats, CreateDone(c) PROVE EntryInv'
  BY <1>25, EntryFrame DEF CreateDone, daemon, control, Idle
<1>26. ASSUME NEW c \in Chats, CreateFails(c) PROVE EntryInv'
  BY <1>26, EntryFrame DEF CreateFails, daemon, control, Idle
<1>27. ASSUME NEW c \in Chats, ReceiveExit(c) PROVE EntryInv'
  BY <1>27, EntryFrame DEF ReceiveExit, daemon, control, Idle
<1>28. ASSUME NEW c \in Chats, Reattached(c) PROVE EntryInv'
  BY <1>28, EntryFrame DEF Reattached, Draining, daemon, control, Idle
<1>29. ASSUME NEW c \in Chats, ReattachMissing(c) PROVE EntryInv'
  BY <1>29, EntryFrame DEF ReattachMissing, Draining, daemon, control, Idle
<1>30. ASSUME NEW c \in Chats, PollStatus(c) PROVE EntryInv'
  <2>1. mem[c].generation # NoGeneration
    BY <1>30, Constants DEF PollStatus, TypeOK
  <2>2. op' = op /\ op = Idle /\ session' = session
    BY <1>30 DEF PollStatus, control, Drained
  <2>3. CASE entry' = entry
    BY <2>2, <2>3, EntryFrame
  <2>4. CASE /\ entry[c].generation = mem[c].generation
             /\ entry[c].status \notin Final
             /\ \E s \in Reports : entry' = [entry EXCEPT ![c].status = s]
    <3>1. session[c] # NoGeneration
      BY <2>1, <2>4 DEF EntryInv, NoEntry
    <3>2. entry'[c].generation = entry[c].generation
          /\ \A d \in Chats \ {c} : entry'[d] = entry[d]
      BY <2>4 DEF TypeOK
    <3>3. QED
      BY <2>2, <3>1, <3>2 DEF EntryInv, Idle
  <2>5. QED
    BY <1>30, <2>3, <2>4 DEF PollStatus
<1>31. ASSUME NEW c \in Chats, DeleteChat(c) PROVE EntryInv'
  BY <1>31, EntryFrame DEF DeleteChat, daemon, control, Idle
<1>32. ASSUME NEW c \in Chats, AgentExits(c) PROVE EntryInv'
  <2>1. \A d \in Chats \ {c} : session'[d] = session[d] /\ entry'[d] = entry[d]
    BY <1>32 DEF AgentExits, TypeOK
  <2>2. session'[c] = NoGeneration /\ op' = op
    BY <1>32 DEF AgentExits, TypeOK, control
  <2>3. entry'[c].status \in Final
    BY <1>32 DEF AgentExits, TypeOK, EntryInv, Final
  <2>4. op.kind = "missing" => op.chat \in Chats
    BY DEF Shape
  <2>5. QED
    BY <2>1, <2>2, <2>3, <2>4 DEF EntryInv
<1>33. ASSUME NEW r \in creates, Created(r) PROVE EntryInv'
  <2>1. r.chat \in Chats /\ r.generation # NoGeneration
    BY Constants DEF TypeOK
  <2>2. \A d \in Chats \ {r.chat} : session'[d] = session[d] /\ entry'[d] = entry[d]
    BY <1>33 DEF Created, TypeOK
  <2>3. /\ session'[r.chat] = r.generation
        /\ entry'[r.chat].generation = r.generation /\ entry'[r.chat].status = "unknown"
    BY <1>33, <2>1 DEF Created, TypeOK
  <2>4. op' = op /\ (op.kind = "missing" => op.chat \in Chats)
    BY <1>33 DEF Created, control, Shape
  <2>5. QED
    BY <2>1, <2>2, <2>3, <2>4 DEF EntryInv
<1>34. ASSUME NEW r \in creates, Refused(r) PROVE EntryInv'
  BY <1>34, EntryFrame DEF Refused, daemon, control, Idle
<1>35. CASE UNCHANGED vars
  BY <1>35, EntryFrame DEF disk, app, control, pty, daemon, count, history, vars
<1>36. CASE Turn
  BY <1>36, EntryFrame DEF Turn, daemon, control, Idle
<1>37. ASSUME NEW c \in Chats, GenerationFails(c) PROVE EntryInv'
  BY <1>37, EntryFrame DEF GenerationFails, daemon, control, Idle
<1>38. ASSUME NEW c \in Chats, SendAttached(c) PROVE EntryInv'
  BY <1>38, EntryFrame DEF SendAttached, daemon, control, Idle
<1>39. ASSUME NEW c \in Chats, SendMissing(c) PROVE EntryInv'
  BY <1>39, EntryFrame DEF SendMissing, daemon, control, Idle
<1>40. QED
  BY <1>1, <1>2, <1>3, <1>4, <1>5, <1>6, <1>7, <1>8, <1>9, <1>10, <1>11, <1>12, <1>13, <1>14, <1>15, <1>16, <1>17, <1>18, <1>19, <1>20, <1>21, <1>22, <1>23, <1>24, <1>25, <1>26, <1>27, <1>28, <1>29, <1>30, <1>31, <1>32, <1>33, <1>34, <1>35, <1>36, <1>37, <1>38, <1>39 DEF Next

LEMMA GhostMarked ==
    ASSUME TypeOK, NEW c \in Chats, NEW s \in ChatStatus, NoGhost(mem),
           s # "thinking" \/ mem[c].generation # NoGeneration
    PROVE  /\ NoGhost(Marked(mem, c, s))
           /\ Marked(mem, c, s) \in Project
           /\ s # "thinking" => Marked(mem, c, s)[c].status # "thinking"
<1> DEFINE p == Marked(mem, c, s)
<1>1. mem \in Project
  BY DEF TypeOK
<1>2. /\ p \in Project
      /\ \A d \in Chats : p[d].generation = mem[d].generation
      /\ \A d \in Chats \ {c} : p[d] = mem[d]
      /\ mem[c] # Deleted => p[c].status = s
  BY <1>1, MarkedMeans DEF SameGenerations
<1>3. mem[c] = Deleted => p[c] = mem[c]
  BY DEF Marked
<1> HIDE DEF p
<1>4. p[c].generation = NoGeneration => p[c].status # "thinking"
  BY <1>2, <1>3 DEF Deleted
<1>5. NoGhost(p)
  BY <1>2, <1>4 DEF NoGhost
<1>6. s # "thinking" => p[c].status # "thinking"
  BY <1>2, <1>3 DEF Deleted
<1>7. QED
  BY <1>2, <1>5, <1>6 DEF p

LEMMA GhostCleared ==
    ASSUME NEW p \in Project, NEW c \in Chats, NoGhost(p), p[c].status # "thinking"
    PROVE  NoGhost(Cleared(p, c))
BY ClearedMeans DEF NoGhost

\* A query about a chat that has a generation.
LEMMA GhostQueried ==
    ASSUME TypeOK, NEW c \in Chats, NoGhost(mem), mem[c].generation # NoGeneration,
           NEW p \in Queried(c)
    PROVE  NoGhost(p)
BY QueriedMeans DEF NoGhost, SameGenerations

LEMMA GhostKept ==
    ASSUME NoGhostThinking, mem' = mem, phase # "down" \/ phase' = "down"
    PROVE  NoGhostThinking'
BY DEF NoGhostThinking

LEMMA GhostStep ==
    ASSUME TypeOK, Shape, EntryInv, NoGhostThinking, [Next]_vars
    PROVE  NoGhostThinking'
<1>1. CASE Load
  <2>1. file \in Project /\ mem' = Normalized(file)
    BY <1>1 DEF Load, TurnStart, TypeOK
  <2>2. QED
    BY <2>1, NormalizedMeans DEF NoGhostThinking
<1>2. CASE LoadFails
  BY <1>2 DEF LoadFails, NoGhostThinking
<1>3. CASE SaveContent
  BY <1>3, GhostKept DEF SaveContent, Drained, Saves, SaveFails, app
<1>4. CASE ApplyExit
  <2>1. NoGhost(mem)
    BY <1>4 DEF NoGhostThinking, NoGhost, ApplyExit, Draining, TurnStart
  <2>2. PICK c \in Chats, s \in ExitCodes : mem' = Cleared(Marked(mem, c, s), c)
    BY <1>4, ExitsMean DEF ApplyExit, Draining, TurnStart, ExitRecord, Becomes
  <2>3. s \in ChatStatus /\ s # "thinking"
    BY DEF ExitCodes, ChatStatus
  <2>4. QED
    BY <2>1, <2>2, <2>3, GhostMarked, GhostCleared DEF NoGhostThinking, NoGhost
<1>5. CASE OpenBatch
  BY <1>5, GhostKept DEF OpenBatch, Drained, Free, app
<1>6. CASE Quit
  BY <1>6, GhostKept DEF Quit, Drained, Free, app
<1>7. CASE CloseBatch
  BY <1>7, GhostKept DEF CloseBatch, TurnStart, Drained, Saves, SaveFails, app
<1>8. CASE CloseAndQuit
  BY <1>8, GhostKept DEF CloseAndQuit, Drained, Saves, SaveFails, app
<1>9. CASE Leave
  BY <1>9 DEF Leave, NoGhostThinking
<1>10. CASE Crash
  BY <1>10 DEF Crash, NoGhostThinking
<1>11. CASE PowerFails
  BY <1>11 DEF PowerFails, NoGhostThinking
<1>12. CASE Disconnect
  BY <1>12, GhostKept DEF Disconnect, app, control
<1>13. CASE DaemonDies
  BY <1>13, GhostKept DEF DaemonDies, app, control
<1>14. CASE Reconnect
  BY <1>14, GhostKept DEF Reconnect, app, control
<1>15. ASSUME NEW c \in Chats, RestoreAttached(c) PROVE NoGhostThinking'
  <2>1. NoGhost(mem)
    BY <1>15 DEF NoGhostThinking, NoGhost, RestoreAttached
  <2>2. mem[c].generation # NoGeneration
    BY <1>15 DEF RestoreAttached, Shape
  <2>3. QED
    BY <1>15, <2>1, <2>2, GhostQueried DEF RestoreAttached, Becomes, NoGhostThinking, NoGhost
<1>16. ASSUME NEW c \in Chats, RestoreMissing(c) PROVE NoGhostThinking'
  BY <1>16, GhostKept DEF RestoreMissing, app, control, Restored, TurnStart
<1>17. ASSUME NEW c \in Chats, RestoreQuery(c) PROVE NoGhostThinking'
  <2>1. NoGhost(mem)
    BY <1>17 DEF NoGhostThinking, NoGhost, RestoreQuery, Shape
  <2>2. CASE Recovered(c) /\ mem' = Cleared(Reconciled(c), c)
    <3> DEFINE s == ChatStatusOf(entry[c].status)
    <3>1. entry[c].status \in Final
      BY <1>17, <2>2 DEF RestoreQuery, EntryInv, Recovered
    <3>2. s \in {"done", "failed"}
      BY <3>1 DEF Final, ChatStatusOf
    <3>3. s \in ChatStatus /\ s # "thinking"
      BY <3>2 DEF ChatStatus
    <3>4. mem' = Cleared(Marked(mem, c, s), c)
      BY <2>2 DEF Reconciled
    <3>5. QED
      BY <2>1, <3>3, <3>4, GhostMarked, GhostCleared DEF NoGhostThinking, NoGhost
  <2>3. CASE mem' = Cleared(Unrecovered(c), c)
    <3>1. mem' = Cleared(Marked(mem, c, "failed"), c) /\ "failed" \in ChatStatus
      BY <2>3 DEF Unrecovered, ChatStatus
    <3>2. QED
      BY <2>1, <3>1, GhostMarked, GhostCleared DEF NoGhostThinking, NoGhost
  <2>4. QED
    BY <1>17, <2>2, <2>3 DEF RestoreQuery, Becomes
<1>18. ASSUME NEW c \in Chats, RestoreFailed(c) PROVE NoGhostThinking'
  <2>1. NoGhost(mem)
    BY <1>18 DEF NoGhostThinking, NoGhost, RestoreFailed
  <2>2. mem' = Marked(mem, c, "failed") /\ "failed" \in ChatStatus
    BY <1>18 DEF RestoreFailed, Becomes, ChatStatus
  <2>3. QED
    BY <2>1, <2>2, GhostMarked DEF NoGhostThinking, NoGhost
<1>19. ASSUME NEW c \in Chats, StartAttached(c) PROVE NoGhostThinking'
  <2>1. NoGhost(mem)
    BY <1>19 DEF NoGhostThinking, NoGhost, StartAttached, Startable, Free, Drained
  <2>2. QED
    BY <1>19, <2>1, GhostQueried DEF StartAttached, Becomes, NoGhostThinking, NoGhost
<1>20. ASSUME NEW c \in Chats, StartMissing(c) PROVE NoGhostThinking'
  <2>1. NoGhost(mem)
    BY <1>20 DEF NoGhostThinking, NoGhost, StartMissing, Startable, Free, Drained
  <2>2. mem' = Cleared(Marked(mem, c, "failed"), c) /\ "failed" \in ChatStatus
    BY <1>20 DEF StartMissing, Saves, SaveFails, ChatStatus
  <2>3. QED
    BY <2>1, <2>2, GhostMarked, GhostCleared DEF NoGhostThinking, NoGhost
<1>21. ASSUME NEW c \in Chats, StartFailed(c) PROVE NoGhostThinking'
  <2>1. NoGhost(mem)
    BY <1>21 DEF NoGhostThinking, NoGhost, StartFailed, Startable, Free, Drained
  <2>2. mem' = Marked(mem, c, "failed") /\ "failed" \in ChatStatus
    BY <1>21 DEF StartFailed, Becomes, ChatStatus
  <2>3. QED
    BY <2>1, <2>2, GhostMarked DEF NoGhostThinking, NoGhost
<1>22. ASSUME NEW c \in Chats, BeginGeneration(c) PROVE NoGhostThinking'
  <2>1. NoGhost(mem)
    BY <1>22 DEF NoGhostThinking, NoGhost, BeginGeneration, Launches, Startable, Free, Drained, Shape, Idle
  <2>2. PICK g \in Generations : mem' = [mem EXCEPT ![c].generation = g]
    <3>1. allocated' \in Generations
      BY <1>22, AgentLifeAssumption DEF BeginGeneration, Launches, TypeOK, Generations
    <3>2. mem' = [mem EXCEPT ![c].generation = allocated']
      BY <1>22 DEF BeginGeneration, Launches, Saves, SaveFails
    <3>3. QED
      BY <3>1, <3>2
  <2>3. mem \in Project /\ mem[c] # Deleted
    BY <1>22 DEF BeginGeneration, Launches, Startable, Present, Shape, TypeOK
  <2>4. (\A d \in Chats \ {c} : mem'[d] = mem[d]) /\ mem'[c] = [mem[c] EXCEPT !.generation = g]
    BY <2>2, <2>3 DEF Project
  <2>5. mem'[c].generation = g
    BY <2>3, <2>4 DEF Project, Chat
  <2>6. QED
    BY <2>1, <2>4, <2>5, Constants DEF NoGhostThinking, NoGhost
<1>23. ASSUME NEW c \in Chats, SendCreate(c) PROVE NoGhostThinking'
  BY <1>23, GhostKept DEF SendCreate, app, control, Shape, Idle
<1>24. ASSUME NEW c \in Chats, SendFails(c) PROVE NoGhostThinking'
  <2>1. NoGhost(mem)
    BY <1>24 DEF NoGhostThinking, NoGhost, SendFails, Shape, Idle
  <2>2. mem' = Marked(mem, c, "failed") /\ "failed" \in ChatStatus
    BY <1>24 DEF SendFails, Becomes, ChatStatus
  <2>3. QED
    BY <2>1, <2>2, GhostMarked DEF NoGhostThinking, NoGhost
<1>25. ASSUME NEW c \in Chats, CreateDone(c) PROVE NoGhostThinking'
  <2>1. NoGhost(mem)
    BY <1>25 DEF NoGhostThinking, NoGhost, CreateDone, Shape, Idle
  <2>2. mem' = Marked(mem, c, "idle") /\ "idle" \in ChatStatus
    BY <1>25 DEF CreateDone, Becomes, ChatStatus
  <2>3. QED
    BY <2>1, <2>2, GhostMarked DEF NoGhostThinking, NoGhost
<1>26. ASSUME NEW c \in Chats, CreateFails(c) PROVE NoGhostThinking'
  <2>1. NoGhost(mem)
    BY <1>26 DEF NoGhostThinking, NoGhost, CreateFails, Shape, Idle
  <2>2. mem' = Marked(mem, c, "failed") /\ "failed" \in ChatStatus
    BY <1>26 DEF CreateFails, Becomes, ChatStatus
  <2>3. QED
    BY <2>1, <2>2, GhostMarked DEF NoGhostThinking, NoGhost
<1>27. ASSUME NEW c \in Chats, ReceiveExit(c) PROVE NoGhostThinking'
  BY <1>27, GhostKept DEF ReceiveExit, app, control
<1>28. ASSUME NEW c \in Chats, Reattached(c) PROVE NoGhostThinking'
  BY <1>28, GhostKept DEF Reattached, Draining, app, control
<1>29. ASSUME NEW c \in Chats, ReattachMissing(c) PROVE NoGhostThinking'
  BY <1>29, GhostKept DEF ReattachMissing, Draining, app, control
<1>30. ASSUME NEW c \in Chats, PollStatus(c) PROVE NoGhostThinking'
  <2>1. NoGhost(mem)
    BY <1>30 DEF NoGhostThinking, NoGhost, PollStatus, Drained
  <2>2. mem[c].generation # NoGeneration
    BY <1>30, Constants DEF PollStatus, TypeOK
  <2>3. \A s \in Reports : ChatStatusOf(s) \in ChatStatus
    BY AgentLifeAssumption DEF ChatStatusOf, ChatStatus
  <2>4. NoGhost(mem')
    BY <1>30, <2>1, <2>2, <2>3, GhostMarked, GhostQueried DEF PollStatus, Becomes
  <2>5. QED
    BY <2>4 DEF NoGhostThinking, NoGhost
<1>31. ASSUME NEW c \in Chats, DeleteChat(c) PROVE NoGhostThinking'
  <2>1. NoGhost(mem)
    BY <1>31 DEF NoGhostThinking, NoGhost, DeleteChat, Free, Drained
  <2>2. (\A d \in Chats \ {c} : mem'[d] = mem[d]) /\ mem'[c] = Deleted
    BY <1>31 DEF DeleteChat, Becomes, TypeOK, Project
  <2>3. QED
    BY <2>1, <2>2 DEF NoGhostThinking, NoGhost, Deleted
<1>32. ASSUME NEW c \in Chats, AgentExits(c) PROVE NoGhostThinking'
  BY <1>32, GhostKept DEF AgentExits, app, control
<1>33. ASSUME NEW r \in creates, Created(r) PROVE NoGhostThinking'
  BY <1>33, GhostKept DEF Created, app, control
<1>34. ASSUME NEW r \in creates, Refused(r) PROVE NoGhostThinking'
  BY <1>34, GhostKept DEF Refused, app, control
<1>35. CASE UNCHANGED vars
  BY <1>35, GhostKept DEF disk, app, control, pty, daemon, count, history, vars
<1>36. CASE Turn
  BY <1>36, GhostKept DEF Turn, Drained, app
<1>37. ASSUME NEW c \in Chats, GenerationFails(c) PROVE NoGhostThinking'
  <2>1. NoGhost(mem)
    BY <1>37 DEF NoGhostThinking, NoGhost, GenerationFails, Launches, Startable, Free, Drained, Shape, Idle
  <2>2. mem' = Marked(mem, c, "failed") /\ "failed" \in ChatStatus
    BY <1>37 DEF GenerationFails, Becomes, ChatStatus
  <2>3. QED
    BY <2>1, <2>2, GhostMarked DEF NoGhostThinking, NoGhost
<1>38. ASSUME NEW c \in Chats, SendAttached(c) PROVE NoGhostThinking'
  <2>1. NoGhost(mem)
    BY <1>38 DEF NoGhostThinking, NoGhost, SendAttached, Shape, Idle
  <2>2. mem' = Marked(mem, c, "idle") /\ "idle" \in ChatStatus
    BY <1>38 DEF SendAttached, Becomes, ChatStatus
  <2>3. QED
    BY <2>1, <2>2, GhostMarked DEF NoGhostThinking, NoGhost
<1>39. ASSUME NEW c \in Chats, SendMissing(c) PROVE NoGhostThinking'
  BY <1>39, GhostKept DEF SendMissing, app, control, Shape, Idle
<1>40. QED
  BY <1>1, <1>2, <1>3, <1>4, <1>5, <1>6, <1>7, <1>8, <1>9, <1>10, <1>11, <1>12, <1>13, <1>14, <1>15, <1>16, <1>17, <1>18, <1>19, <1>20, <1>21, <1>22, <1>23, <1>24, <1>25, <1>26, <1>27, <1>28, <1>29, <1>30, <1>31, <1>32, <1>33, <1>34, <1>35, <1>36, <1>37, <1>38, <1>39 DEF Next

\* Whatever the saved file held, once loaded a chat with no generation is never shown
\* as working: reconcile_agent_status, apply_pty_event and the load see to it.
THEOREM GhostFree == Spec => []NoGhostThinking
<1>1. Init => EntryInv /\ NoGhostThinking
  BY DEF Init, EntryInv, NoGhostThinking, Idle
<1>2. TypeOK /\ Shape /\ EntryInv /\ NoGhostThinking /\ [Next]_vars
          => EntryInv' /\ NoGhostThinking'
  BY EntryStep, GhostStep
<1>3. QED
  BY <1>1, <1>2, TypeCorrect, AlwaysShape, PTL DEF Spec
=============================================================================
