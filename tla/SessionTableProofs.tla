------------------------- MODULE SessionTableProofs -------------------------
(***************************************************************************)
(* What SessionTable guarantees for any number of creates, identities,     *)
(* numbers and agent generations: no reservation is leaked or given away,  *)
(* the two indexes agree, a drained daemon leaves no child behind, final   *)
(* statuses stay, and the daemon implements SessionDirectory.              *)
(***************************************************************************)
EXTENDS SessionTable, TLAPS

USE SessionTableAssumption DEF SessionIds

LEMMA EntryTypes ==
    /\ NoEntry \in Entries
    /\ \A a \in Metadata \cup {None} : Register(a) \in Entries /\ Register(a).metadata = a
                                       /\ Register(a).status = None
    /\ \A e \in Entries, a \in Metadata, how \in {"ok", "bad"} :
          RecordExit(e, a, how) \in Entries
    /\ \A e \in Entries, u \in Updates : Stored(e, u) \in Entries
<1>1. NoEntry \in Entries
  BY DEF NoEntry, Entries
<1>2. \A a \in Metadata \cup {None} : Register(a) \in Entries /\ Register(a).metadata = a
                                      /\ Register(a).status = None
  BY DEF Register, NoEntry, Entries
<1>3. \A e \in Entries, a \in Metadata, how \in {"ok", "bad"} : RecordExit(e, a, how) \in Entries
  BY DEF RecordExit, Entries
<1>4. \A e \in Entries, u \in Updates : Stored(e, u) \in Entries
  BY DEF Stored, Entries
<1>5. QED
  BY <1>1, <1>2, <1>3, <1>4

\* A request is known from the moment its handler begins.
Asked ==
    \A r \in Creates :
        /\ stage[r] # "new" => body[r] \in Bodies
        /\ number[r] # None => stage[r] # "new"

Typed == TypeOK /\ Asked

LEMMA InitTyped == Init => Typed
<1> SUFFICES ASSUME Init PROVE Typed
  OBVIOUS
<1>1. agents \in [Identities -> Entries]
  BY EntryTypes DEF Init
<1>2. QED
  BY <1>1 DEF Init, Typed, TypeOK, Asked, Stages

\* What a reservation does: it takes an unused number for a free identity, or
\* it leaves the table and the handler goes elsewhere.
Taken(r) ==
    /\ main = "serving"
    /\ ~ NameTaken(body[r].identity)
    /\ \E s \in SessionIds : Unused(s) /\ Take(r, s)
    /\ nextId' \in SessionIds
    /\ UNCHANGED << body, found, main, child >>

Declined(r) ==
    /\ nextId' \in SessionIds
    /\ \E next \in {"numeric again", "done"} : stage' = [stage EXCEPT ![r] = next]
    /\ outcome' \in [Creates -> Answers \cup {None}]
    /\ UNCHANGED << sessions, byIdentity, reserved, reservedNames, agents, request, main, child >>

LEMMA ReserveKinds ==
    ASSUME TypeOK, NEW r \in Creates, Reserve(r), body[r] \in Bodies
    PROVE  Taken(r) \/ Declined(r)
<1> USE DEF TypeOK
<1>1. body[r].wanted # None => body[r].wanted \in SessionIds
  BY DEF Bodies
<1>2. CASE main # "serving"
  BY <1>2 DEF Reserve, Answer, Go, Answers, Declined, table, request
<1>3. CASE main = "serving" /\ NameTaken(body[r].identity)
  BY <1>3 DEF Reserve, Collide, Go, Declined, table, request
<1>4. CASE main = "serving" /\ ~ NameTaken(body[r].identity) /\ body[r].wanted # None
  <2>1. CASE Unused(body[r].wanted)
    BY <1>1, <1>4, <2>1 DEF Reserve, Taken
  <2>2. CASE ~ Unused(body[r].wanted)
    BY <1>4, <2>2 DEF Reserve, Collide, Go, Declined, table, request
  <2>3. QED
    BY <2>1, <2>2
<1>5. CASE main = "serving" /\ ~ NameTaken(body[r].identity) /\ body[r].wanted = None
  <2>1. CASE Allocatable # {}
    <3>1. PICK s \in Allocatable : Take(r, s) /\ nextId' = s + 1
      BY <1>5, <2>1 DEF Reserve
    <3>2. s \in SessionIds /\ Unused(s) /\ s + 1 \in SessionIds
      BY <3>1 DEF Allocatable
    <3>3. QED
      BY <1>5, <2>1, <3>1, <3>2 DEF Reserve, Taken
  <2>2. CASE Allocatable = {}
    BY <1>5, <2>2 DEF Reserve, Answer, Go, Answers, Declined, request
  <2>3. QED
    BY <2>1, <2>2
<1>6. QED
  BY <1>2, <1>3, <1>4, <1>5

LEMMA TypedInductive == Typed /\ [Next]_vars => Typed'
<1> SUFFICES ASSUME Typed, [Next]_vars PROVE Typed'
  OBVIOUS
<1> USE DEF Typed, Asked, TypeOK
<1>1. ASSUME NEW r \in Creates, Begin(r) PROVE Typed'
  <2>1. PICK b \in Bodies : body' = [body EXCEPT ![r] = b]
    BY <1>1 DEF Begin, Bodies
  <2>2. QED
    BY <1>1, <2>1 DEF Begin, Go, Stages, table
<1>2. ASSUME NEW r \in Creates, FindNumeric(r) PROVE Typed'
  <2>1. body[r].wanted # None => sessions[body[r].wanted] \in Creates \cup {None}
    BY <1>2 DEF FindNumeric, Bodies
  <2>2. QED
    BY <1>2, <2>1 DEF FindNumeric, Go, Stages, table
<1>3. ASSUME NEW r \in Creates, FindIdentity(r) PROVE Typed'
  BY <1>3, ZenonT(40) DEF FindIdentity, Go, Stages, Answer, Answers, table, request, Existing
<1>4. ASSUME NEW r \in Creates, FindIdentityAgain(r) PROVE Typed'
  BY <1>4 DEF FindIdentityAgain, Go, Stages, Answer, Answers, table, request, Existing
<1>5. ASSUME NEW r \in Creates, Reserve(r) PROVE Typed'
  <2>1. body[r] \in Bodies /\ stage[r] # "new" /\ stage[r] = "reserve"
    BY <1>5 DEF Reserve
  <2>2. CASE Declined(r)
    BY <2>1, <2>2, ZenonT(40) DEF Declined, Stages, request
  <2>3. CASE Taken(r)
    <3>1. PICK s \in SessionIds : Take(r, s)
      BY <2>3 DEF Taken
    <3>2. reserved' \subseteq SessionIds /\ reservedNames' \subseteq Identities
      BY <2>1, <3>1 DEF Take, Bodies
    <3>3. number' \in [Creates -> SessionIds \cup {None}] /\ stage' \in [Creates -> Stages]
      BY <3>1 DEF Take, Go, Stages
    <3>4. \A q \in Creates : (stage[q] # "new" => stage'[q] # "new")
                              /\ (number'[q] # None => stage'[q] # "new")
                              /\ (stage'[q] # "new" => stage[q] # "new")
      BY <2>1, <3>1 DEF Take, Go
    <3>5. QED
      BY <2>1, <2>3, <3>1, <3>2, <3>3, <3>4 DEF Taken, Take
  <2>4. QED
    BY <1>5, <2>1, <2>2, <2>3, ReserveKinds DEF Bodies
<1>6. ASSUME NEW r \in Creates, Spawn(r) PROVE Typed'
  BY <1>6, ZenonT(40) DEF Spawn, Go, Stages, Answers, table, request
<1>7. ASSUME NEW r \in Creates, Publish(r) PROVE Typed'
  <2>1. body[r] \in Bodies /\ stage[r] # "new"
    BY <1>7 DEF Publish
  <2>2. CASE MayPublish(r)
    <3>1. number[r] \in SessionIds
      BY <2>2 DEF MayPublish, StillReserved
    <3>2. Register(body[r].agent) \in Entries
      BY <2>1, EntryTypes DEF Bodies
    <3>3. agents' \in [Identities -> Entries]
      BY <1>7, <2>2, <3>2 DEF Publish
    <3>4. byIdentity' \in [Identities -> SessionIds \cup {None}]
      BY <1>7, <2>2, <3>1 DEF Publish
    <3>5. sessions' \in [SessionIds -> Creates \cup {None}]
      BY <1>7, <2>2 DEF Publish
    <3>6. stage' \in [Creates -> Stages] /\ outcome' \in [Creates -> Answers \cup {None}]
      BY <1>7, <2>2 DEF Publish, Answer, Go, Stages, Answers
    <3>7. Asked'
      BY <1>7, <2>1, <2>2 DEF Publish, Answer, Go, request
    <3>8. QED
      BY <1>7, <2>2, <3>3, <3>4, <3>5, <3>6, <3>7 DEF Publish, request
  <2>3. CASE ~ MayPublish(r)
    BY <1>7, <2>1, <2>3, ZenonT(40) DEF Publish, Go, Stages, Answers, table, request
  <2>4. QED
    BY <2>2, <2>3
<1>8. ASSUME NEW r \in Creates, Cleanup(r) \/ Release(r) PROVE Typed'
  BY <1>8, ZenonT(40) DEF Cleanup, Release, Go, Stages, table, request
<1>9. ASSUME NEW r \in Creates, Exit(r) PROVE Typed'
  BY <1>9 DEF Exit, table, request
<1>10. ASSUME NEW r \in Creates, Finalize(r) PROVE Typed'
  <2>1. body[r] \in Bodies
    BY <1>10 DEF Finalize
  <2>2. agents' \in [Identities -> Entries]
    BY <1>10, <2>1, EntryTypes DEF Finalize, Bodies
  <2>3. QED
    BY <1>10, <2>2 DEF Finalize, request
<1>11. ASSUME NEW u \in Updates, UpdateAgentStatus(u) PROVE Typed'
  BY <1>11, EntryTypes DEF UpdateAgentStatus, request
<1>12. ASSUME BeginShutdown \/ Drained \/ DrainExpires PROVE Typed'
  BY <1>12 DEF BeginShutdown, Drained, DrainExpires, table, request
<1>13. CASE UNCHANGED vars
  BY <1>13 DEF vars, table, request
<1>14. QED
  BY <1>1, <1>2, <1>3, <1>4, <1>5, <1>6, <1>7, <1>8, <1>9, <1>10, <1>11, <1>12, <1>13
     DEF Next, Work
-----------------------------------------------------------------------------
\* The table.  A create that holds a reservation can still be published, two
\* of them hold different names, nothing else is reserved, and the indexes
\* name the same finished creates.
Held(r) == Reserving(r) => number[r] \in SessionIds /\ StillReserved(r)

Apart(r, q) ==
    Reserving(r) /\ Reserving(q) /\ r # q =>
        number[r] # number[q] /\ body[r].identity # body[q].identity

Accounted ==
    /\ \A s \in reserved : \E r \in Creates : Reserving(r) /\ number[r] = s
    /\ \A i \in reservedNames : \E r \in Creates : Reserving(r) /\ body[r].identity = i

Placed(s) ==
    sessions[s] # None =>
        /\ stage[sessions[s]] = "done"
        /\ number[sessions[s]] = s
        /\ byIdentity[body[sessions[s]].identity] = s

Indexed(i) ==
    byIdentity[i] # None =>
        /\ sessions[byIdentity[i]] # None
        /\ body[sessions[byIdentity[i]]].identity = i

TableInv ==
    /\ \A r \in Creates : Held(r)
    /\ \A r, q \in Creates : Apart(r, q)
    /\ Accounted
    /\ \A s \in SessionIds : Placed(s)
    /\ \A i \in Identities : Indexed(i)

LEMMA InitTable == Init => TableInv
BY DEF Init, TableInv, Held, Apart, Accounted, Placed, Indexed, Reserving

\* A handler that goes on without touching the table.
Moves(r, next) ==
    /\ UNCHANGED << sessions, byIdentity, reserved, reservedNames, number >>
    /\ stage[r] # "done"
    /\ stage' = [stage EXCEPT ![r] = next]
    /\ next \in {"spawn", "publish", "cleanup", "release"} <=> Reserving(r)
    /\ \/ body' = body
       \/ ~ Reserving(r) /\ \E b : body' = [body EXCEPT ![r] = b]

LEMMA MovesKeepTable ==
    ASSUME Typed, TableInv, NEW r \in Creates, NEW next, Moves(r, next)
    PROVE  TableInv'
<1> USE DEF Typed, TypeOK
<1>1. \A q \in Creates : Reserving(q)' <=> Reserving(q)
  BY DEF Moves, Reserving
<1>2. \A q \in Creates : Reserving(q) \/ stage[q] = "done" => body'[q] = body[q]
  BY DEF Moves
<1>3. \A q \in Creates : stage[q] = "done" => stage'[q] = "done"
  BY DEF Moves
<1>4. \A q \in Creates : Held(q)'
  BY <1>1, <1>2 DEF TableInv, Held, StillReserved, Moves
<1>5. \A q, p \in Creates : Apart(q, p)'
  BY <1>1, <1>2 DEF TableInv, Apart, Moves
<1>6. Accounted'
  BY <1>1, <1>2 DEF TableInv, Accounted, Moves
<1>7. \A s \in SessionIds : Placed(s)'
  BY <1>2, <1>3 DEF TableInv, Placed, Moves
<1>8. \A i \in Identities : Indexed(i)'
  BY <1>2 DEF TableInv, Placed, Indexed, Moves
<1>9. QED
  BY <1>4, <1>5, <1>6, <1>7, <1>8 DEF TableInv

LEMMA TakenKeepsTable ==
    ASSUME Typed, TableInv, NEW r \in Creates, stage[r] = "reserve", Taken(r)
    PROVE  TableInv'
<1> USE DEF Typed, TypeOK
<1>1. PICK s \in SessionIds : Unused(s) /\ Take(r, s)
  BY DEF Taken
<1>2. body[r] \in Bodies /\ body' = body /\ sessions' = sessions /\ byIdentity' = byIdentity
  BY <1>1 DEF Asked, Taken, Take
<1>3. \A q \in Creates \ {r} : (Reserving(q)' <=> Reserving(q)) /\ number'[q] = number[q]
                              /\ stage'[q] = stage[q]
  BY <1>1 DEF Take, Go, Reserving
<1>4. Reserving(r)' /\ number'[r] = s /\ ~ Reserving(r)
  BY <1>1 DEF Take, Go, Reserving
<1>5. ~ NameTaken(body[r].identity)
  BY DEF Taken
<1>6. \A q \in Creates : Reserving(q) => number[q] # s /\ body[q].identity # body[r].identity
  BY <1>1, <1>5 DEF TableInv, Held, StillReserved, Unused, NameTaken
<1>7. \A q \in Creates : Held(q)'
  <2>1. Held(r)'
    BY <1>1, <1>2, <1>4, <1>5 DEF Held, StillReserved, Unused, NameTaken, Take
  <2>2. \A q \in Creates \ {r} : Held(q)'
    BY <1>1, <1>2, <1>3 DEF TableInv, Held, StillReserved, Take
  <2>3. QED
    BY <2>1, <2>2
<1>8. \A q, p \in Creates : Apart(q, p)'
  BY <1>2, <1>3, <1>4, <1>6 DEF TableInv, Apart
<1>9. Accounted'
  <2>1. \A t \in reserved' : \E q \in Creates : Reserving(q)' /\ number'[q] = t
    BY <1>1, <1>3, <1>4 DEF TableInv, Accounted, Take
  <2>2. \A i \in reservedNames' : \E q \in Creates : Reserving(q)' /\ body'[q].identity = i
    BY <1>1, <1>2, <1>3, <1>4 DEF TableInv, Accounted, Take
  <2>3. QED
    BY <2>1, <2>2 DEF Accounted
<1>10. \A t \in SessionIds : Placed(t)'
  BY <1>2, <1>3 DEF TableInv, Placed
<1>11. \A i \in Identities : Indexed(i)'
  BY <1>2 DEF TableInv, Indexed
<1>12. QED
  BY <1>7, <1>8, <1>9, <1>10, <1>11 DEF TableInv

\* The table entries a publication writes.
Entered(r) ==
    /\ UNCHANGED request
    /\ stage' = [stage EXCEPT ![r] = "done"]
    /\ reserved' = reserved \ {number[r]}
    /\ reservedNames' = reservedNames \ {body[r].identity}
    /\ byIdentity' = [byIdentity EXCEPT ![body[r].identity] = number[r]]
    /\ sessions' = [sessions EXCEPT ![number[r]] = r]

LEMMA EnteredKeepsTable ==
    ASSUME Typed, TableInv, NEW r \in Creates, Reserving(r), Entered(r)
    PROVE  TableInv'
<1> USE DEF Typed, TypeOK
<1>1. body[r] \in Bodies /\ body[r].identity \in Identities /\ number[r] \in SessionIds
  BY DEF Asked, Bodies, Reserving, TableInv, Held
<1>2. StillReserved(r)
  BY DEF TableInv, Held
<1>3. \A q \in Creates \ {r} : (Reserving(q)' <=> Reserving(q)) /\ stage'[q] = stage[q]
  BY DEF Entered, Reserving
<1>4. ~ Reserving(r)' /\ stage'[r] = "done"
  BY DEF Entered, Reserving
<1>5. body' = body /\ number' = number
  BY DEF Entered, request
<1>6. \A q \in Creates \ {r} : Reserving(q) =>
          number[q] # number[r] /\ body[q].identity # body[r].identity
  BY DEF TableInv, Apart
<1>7. \A q \in Creates : Held(q)'
  <2> SUFFICES ASSUME NEW q \in Creates \ {r}, Reserving(q)
               PROVE  number[q] \in SessionIds /\ StillReserved(q)'
    BY <1>3, <1>4, <1>5 DEF Held
  <2>1. number[q] \in SessionIds /\ StillReserved(q)
    BY DEF TableInv, Held
  <2>2. QED
    BY <1>1, <1>5, <1>6, <2>1 DEF StillReserved, Entered
<1>8. \A q, p \in Creates : Apart(q, p)'
  BY <1>3, <1>4, <1>5 DEF TableInv, Apart
<1>9. Accounted'
  <2>1. \A t \in reserved' : \E q \in Creates : Reserving(q)' /\ number'[q] = t
    BY <1>3, <1>5 DEF TableInv, Accounted, Entered
  <2>2. \A i \in reservedNames' : \E q \in Creates : Reserving(q)' /\ body'[q].identity = i
    BY <1>3, <1>5 DEF TableInv, Accounted, Entered
  <2>3. QED
    BY <2>1, <2>2 DEF Accounted
<1>10. \A t \in SessionIds : Placed(t)'
  <2> SUFFICES ASSUME NEW t \in SessionIds PROVE Placed(t)'
    OBVIOUS
  <2>1. CASE t = number[r]
    BY <1>1, <1>4, <1>5, <2>1 DEF Placed, Entered
  <2>2. CASE t # number[r] /\ sessions[t] # None
    <3>1. sessions'[t] = sessions[t] /\ sessions[t] \in Creates
      BY <1>1, <2>2 DEF Entered
    <3>2. Placed(t) /\ stage[sessions[t]] = "done"
      BY <2>2 DEF TableInv, Placed
    <3>3. byIdentity[body[sessions[t]].identity] = t
      BY <2>2, <3>2 DEF Placed
    <3>4. body[sessions[t]].identity # body[r].identity
      BY <1>2, <2>2, <3>3 DEF StillReserved
    <3>5. byIdentity'[body[sessions[t]].identity] = t
      BY <1>1, <3>1, <3>2, <3>3, <3>4 DEF Entered, Asked, Bodies
    <3>6. QED
      BY <1>3, <1>4, <1>5, <2>2, <3>1, <3>2, <3>5 DEF Placed
  <2>3. CASE t # number[r] /\ sessions[t] = None
    BY <1>1, <2>3 DEF Placed, Entered
  <2>4. QED
    BY <2>1, <2>2, <2>3
<1>11. \A i \in Identities : Indexed(i)'
  <2> SUFFICES ASSUME NEW i \in Identities PROVE Indexed(i)'
    OBVIOUS
  <2>1. CASE i = body[r].identity
    BY <1>1, <1>5, <2>1 DEF Indexed, Entered
  <2>2. CASE i # body[r].identity /\ byIdentity[i] # None
    <3>1. byIdentity'[i] = byIdentity[i] /\ byIdentity[i] \in SessionIds
      BY <1>1, <2>2 DEF Entered
    <3>2. Indexed(i)
      BY DEF TableInv
    <3>3. byIdentity[i] # number[r]
      BY <1>2, <2>2, <3>2 DEF Indexed, StillReserved
    <3>4. QED
      BY <1>1, <1>5, <2>2, <3>1, <3>2, <3>3 DEF Indexed, Entered
  <2>3. CASE i # body[r].identity /\ byIdentity[i] = None
    BY <1>1, <2>3 DEF Indexed, Entered
  <2>4. QED
    BY <2>1, <2>2, <2>3
<1>12. QED
  BY <1>7, <1>8, <1>9, <1>10, <1>11 DEF TableInv
LEMMA ReleaseKeepsTable ==
    ASSUME Typed, TableInv, NEW r \in Creates, Release(r)
    PROVE  TableInv'
<1> USE DEF Typed, TypeOK
<1>1. \A q \in Creates \ {r} : (Reserving(q)' <=> Reserving(q)) /\ stage'[q] = stage[q]
  BY DEF Release, Go, Reserving
<1>2. ~ Reserving(r)' /\ Reserving(r) /\ stage[r] # "done"
  BY DEF Release, Go, Reserving
<1>3. body' = body /\ number' = number /\ sessions' = sessions /\ byIdentity' = byIdentity
  BY DEF Release, request
<1>4. \A q \in Creates \ {r} : Reserving(q) =>
          number[q] # number[r] /\ body[q].identity # body[r].identity
  BY <1>2 DEF TableInv, Apart
<1>5. \A q \in Creates : Held(q)'
  <2> SUFFICES ASSUME NEW q \in Creates \ {r}, Reserving(q)
               PROVE  number[q] \in SessionIds /\ StillReserved(q)'
    BY <1>1, <1>2, <1>3 DEF Held
  <2>1. number[q] \in SessionIds /\ StillReserved(q)
    BY DEF TableInv, Held
  <2>2. QED
    BY <1>3, <1>4, <2>1 DEF StillReserved, Release
<1>6. \A q, p \in Creates : Apart(q, p)'
  BY <1>1, <1>2, <1>3 DEF TableInv, Apart
<1>7. Accounted'
  <2>1. \A t \in reserved' : \E q \in Creates : Reserving(q)' /\ number'[q] = t
    BY <1>1, <1>3 DEF TableInv, Accounted, Release
  <2>2. \A i \in reservedNames' : \E q \in Creates : Reserving(q)' /\ body'[q].identity = i
    BY <1>1, <1>3 DEF TableInv, Accounted, Release
  <2>3. QED
    BY <2>1, <2>2 DEF Accounted
<1>8. \A t \in SessionIds : Placed(t)'
  BY <1>1, <1>2, <1>3 DEF TableInv, Placed
<1>9. \A i \in Identities : Indexed(i)'
  BY <1>3 DEF TableInv, Indexed
<1>10. QED
  BY <1>5, <1>6, <1>7, <1>8, <1>9 DEF TableInv

LEMMA FinalizeKeepsTable ==
    ASSUME Typed, TableInv, NEW r \in Creates, Finalize(r)
    PROVE  TableInv'
<1> USE DEF Typed, TypeOK
<1>1. \A q \in Creates : Reserving(q)' <=> Reserving(q)
  BY DEF Finalize, Reserving
<1>2. body' = body /\ number' = number /\ stage' = stage /\ reserved' = reserved
      /\ reservedNames' = reservedNames
  BY DEF Finalize, request
<1>3. number[r] \in SessionIds
  BY DEF Finalize
<1>4. \A t \in SessionIds : sessions'[t] = IF t = number[r] THEN None ELSE sessions[t]
  BY <1>3 DEF Finalize
<1>5. \A i \in Identities : byIdentity'[i] = IF byIdentity[i] = number[r] THEN None ELSE byIdentity[i]
  BY DEF Finalize
<1>6. \A q \in Creates : Held(q)'
  <2> SUFFICES ASSUME NEW q \in Creates, Reserving(q)
               PROVE  number[q] \in SessionIds /\ StillReserved(q)'
    BY <1>1, <1>2 DEF Held
  <2>1. number[q] \in SessionIds /\ StillReserved(q) /\ body[q].identity \in Identities
    BY DEF TableInv, Held, Asked, Bodies, Reserving
  <2>2. QED
    BY <1>2, <1>4, <1>5, <2>1 DEF StillReserved
<1>7. \A q, p \in Creates : Apart(q, p)'
  BY <1>1, <1>2 DEF TableInv, Apart
<1>8. Accounted'
  BY <1>1, <1>2 DEF TableInv, Accounted
<1>9. \A t \in SessionIds : Placed(t)'
  <2> SUFFICES ASSUME NEW t \in SessionIds, sessions'[t] # None PROVE Placed(t)'
    BY DEF Placed
  <2>1. sessions'[t] = sessions[t] /\ t # number[r] /\ sessions[t] \in Creates
    BY <1>4
  <2>2. Placed(t) /\ body[sessions[t]] \in Bodies
    BY <2>1 DEF TableInv, Placed, Asked
  <2>3. QED
    BY <1>2, <1>5, <2>1, <2>2 DEF Placed, Bodies
<1>10. \A i \in Identities : Indexed(i)'
  BY <1>2, <1>4, <1>5 DEF TableInv, Indexed
<1>11. QED
  BY <1>6, <1>7, <1>8, <1>9, <1>10 DEF TableInv

LEMMA SameTable ==
    ASSUME TableInv, UNCHANGED << sessions, byIdentity, reserved, reservedNames >>,
           UNCHANGED << number, body, stage >>
    PROVE  TableInv'
BY DEF TableInv, Held, Apart, Accounted, Placed, Indexed, Reserving, StillReserved

\* What a create does to the table, by kinds.
Kinds(r) ==
    \/ \E next : Moves(r, next)
    \/ stage[r] = "reserve" /\ Taken(r)
    \/ Publish(r) /\ MayPublish(r)
    \/ Release(r)
    \/ Finalize(r)

LEMMA CreateKinds ==
    ASSUME Typed, NEW r \in Creates, Begin(r) \/ Work(r) \/ Finalize(r)
    PROVE  Kinds(r)
<1> USE DEF Typed, TypeOK
<1>1. CASE Begin(r)
  <2>1. \E b : body' = [body EXCEPT ![r] = b]
    BY <1>1 DEF Begin
  <2>2. Moves(r, "numeric")
    BY <1>1, <2>1 DEF Begin, Go, Moves, Reserving, table
  <2>3. QED
    BY <2>2 DEF Kinds
<1>2. CASE FindNumeric(r)
  BY <1>2 DEF FindNumeric, Kinds, Go, Moves, Reserving, table
<1>3. CASE FindIdentity(r)
  BY <1>3 DEF FindIdentity, Answer, Kinds, Go, Moves, Reserving, table, request
<1>4. CASE FindIdentityAgain(r)
  BY <1>4 DEF FindIdentityAgain, Answer, Kinds, Go, Moves, Reserving, table, request
<1>5. CASE Reserve(r)
  <2>1. stage[r] = "reserve" /\ body[r] \in Bodies
    BY <1>5 DEF Reserve, Asked
  <2>2. Taken(r) \/ Declined(r)
    BY <1>5, <2>1, ReserveKinds
  <2>3. CASE Declined(r)
    BY <2>1, <2>3 DEF Declined, Kinds, Moves, Reserving, request
  <2>4. QED
    BY <2>1, <2>2, <2>3 DEF Kinds
<1>6. CASE Spawn(r)
  BY <1>6 DEF Spawn, Kinds, Go, Moves, Reserving, table, request
<1>7. CASE Publish(r)
  <2>1. CASE MayPublish(r)
    BY <1>7, <2>1 DEF Kinds
  <2>2. CASE ~ MayPublish(r)
    BY <1>7, <2>2 DEF Publish, Kinds, Go, Moves, Reserving, table, request
  <2>3. QED
    BY <2>1, <2>2
<1>8. CASE Cleanup(r)
  BY <1>8 DEF Cleanup, Kinds, Go, Moves, Reserving, table, request
<1>9. QED
  BY <1>1, <1>2, <1>3, <1>4, <1>5, <1>6, <1>7, <1>8 DEF Work, Kinds

LEMMA TableInductive == Typed /\ TableInv /\ [Next]_vars => TableInv'
<1> SUFFICES ASSUME Typed, TableInv, [Next]_vars PROVE TableInv'
  OBVIOUS
<1>1. ASSUME NEW r \in Creates, Begin(r) \/ Work(r) \/ Finalize(r) PROVE TableInv'
  <2>1. CASE Publish(r) /\ MayPublish(r)
    BY <2>1, EnteredKeepsTable DEF Publish, Answer, Go, Entered, Reserving
  <2>2. QED
    BY <1>1, <2>1, CreateKinds, MovesKeepTable, TakenKeepsTable, ReleaseKeepsTable,
       FinalizeKeepsTable DEF Kinds
<1>2. ASSUME NEW r \in Creates, Exit(r) PROVE TableInv'
  BY <1>2, SameTable DEF Exit, table, request
<1>3. ASSUME NEW u \in Updates, UpdateAgentStatus(u) PROVE TableInv'
  BY <1>3, SameTable DEF UpdateAgentStatus, request
<1>4. CASE BeginShutdown \/ Drained \/ DrainExpires
  BY <1>4, SameTable DEF BeginShutdown, Drained, DrainExpires, table, request
<1>5. CASE UNCHANGED vars
  BY <1>5, SameTable DEF vars, table, request
<1>6. QED
  BY <1>1, <1>2, <1>3, <1>4, <1>5 DEF Next

\* Spec => []TypeOK.
THEOREM TypeCorrect == Spec => []TypeOK
<1>1. Spec => []Typed
  BY InitTyped, TypedInductive, PTL DEF Spec
<1>2. Typed => TypeOK
  BY DEF Typed
<1>3. QED
  BY <1>1, <1>2, PTL

LEMMA TableAlways == Spec => [](Typed /\ TableInv)
BY InitTyped, TypedInductive, InitTable, TableInductive, PTL DEF Spec

\* No failure path leaks a reservation or gives another create's away, the two
\* indexes agree, and publishing is refused by shutdown alone.
THEOREM TableIsCoherent == Spec => []TableCoherent
<1>1. Typed /\ TableInv => TableCoherent
  <2> SUFFICES ASSUME Typed, TableInv PROVE TableCoherent
    OBVIOUS
  <2> USE DEF Typed, TypeOK
  <2>1. \A s \in SessionIds :
          sessions[s] # None => byIdentity[body[sessions[s]].identity] = s
    BY DEF TableInv, Placed
  <2>2. \A i \in Identities :
          byIdentity[i] # None =>
             sessions[byIdentity[i]] # None /\ body[sessions[byIdentity[i]]].identity = i
    BY DEF TableInv, Indexed
  <2>3. reserved = {number[r] : r \in {q \in Creates : Reserving(q)}}
    BY DEF TableInv, Accounted, Held, StillReserved
  <2>4. reservedNames = {body[r].identity : r \in {q \in Creates : Reserving(q)}}
    BY DEF TableInv, Accounted, Held, StillReserved
  <2>5. \A r \in Creates : stage[r] = "publish" => StillReserved(r)
    BY DEF TableInv, Held, Reserving
  <2>6. QED
    BY <2>1, <2>2, <2>3, <2>4, <2>5 DEF TableCoherent
<1>2. QED
  BY <1>1, TableAlways, PTL
-----------------------------------------------------------------------------
\* Where a running child can be: its handler still has it, or it is published.
Living(r) == child[r] = "running" => stage[r] \in {"publish", "cleanup"} \/ Published(r)

ChildInv == (\A r \in Creates : Living(r)) /\ DrainedLeavesNoChild

LEMMA InitChild == Init => ChildInv
BY DEF Init, ChildInv, Living, DrainedLeavesNoChild

LEMMA ChildInductive == Typed /\ TableInv /\ ChildInv /\ [Next]_vars => ChildInv'
<1> SUFFICES ASSUME Typed, TableInv, ChildInv, [Next]_vars PROVE ChildInv'
  OBVIOUS
<1> USE DEF Typed, TypeOK, ChildInv, Living, DrainedLeavesNoChild, Published
<1>1. ASSUME Running, NEW r \in Creates, Begin(r) \/ Work(r) \/ Finalize(r) PROVE ChildInv'
  <2>1. main' = main /\ main # "drained"
    BY <1>1 DEF Running, Begin, Work, Finalize, FindNumeric, FindIdentity, FindIdentityAgain,
                Reserve, Spawn, Publish, Cleanup, Release
  <2>2. CASE UNCHANGED << child, sessions, number >> /\ stage[r] \notin {"publish", "cleanup"}
             /\ \A q \in Creates \ {r} : stage'[q] = stage[q]
    BY <2>1, <2>2
  <2>3. CASE Begin(r) \/ FindNumeric(r) \/ FindIdentity(r) \/ FindIdentityAgain(r) \/ Release(r)
    BY <2>2, <2>3, ZenonT(40) DEF Begin, FindNumeric, FindIdentity, FindIdentityAgain, Release, Answer, Go,
                      table, request
  <2>4. CASE Reserve(r)
    <3>1. stage[r] = "reserve" /\ body[r] \in Bodies
      BY <2>4 DEF Reserve, Asked
    <3>2. ~ Published(r)
      BY <3>1 DEF TableInv, Placed
    <3>3. Taken(r) \/ Declined(r)
      BY <2>4, <3>1, ReserveKinds
    <3>4. UNCHANGED << child, sessions >>
          /\ \A q \in Creates \ {r} : stage'[q] = stage[q] /\ number'[q] = number[q]
      BY <3>3 DEF Taken, Declined, Take, Go, request
    <3>5. QED
      BY <2>1, <3>1, <3>2, <3>4
  <2>5. CASE Spawn(r)
    BY <2>1, <2>5 DEF Spawn, Go, table, request
  <2>6. CASE Publish(r)
    <3>1. number[r] \in SessionIds /\ sessions[number[r]] = None
      BY <2>6 DEF Publish, TableInv, Held, StillReserved, Reserving
    <3>2. CASE MayPublish(r)
      BY <2>1, <2>6, <3>1, <3>2 DEF Publish, Answer, Go, request
    <3>3. CASE ~ MayPublish(r)
      BY <2>1, <2>6, <3>3 DEF Publish, Go, table, request
    <3>4. QED
      BY <3>2, <3>3
  <2>7. CASE Cleanup(r)
    BY <2>1, <2>7 DEF Cleanup, Go, table, request
  <2>8. CASE Finalize(r)
    BY <2>1, <2>8 DEF Finalize, request
  <2>9. QED
    BY <1>1, <2>3, <2>4, <2>5, <2>6, <2>7, <2>8 DEF Work
<1>2. ASSUME NEW r \in Creates, Exit(r) PROVE ChildInv'
  BY <1>2 DEF Exit, table, request
<1>3. ASSUME NEW u \in Updates, UpdateAgentStatus(u) PROVE ChildInv'
  BY <1>3 DEF UpdateAgentStatus, request
<1>4. CASE BeginShutdown \/ DrainExpires
  BY <1>4 DEF BeginShutdown, DrainExpires, table, request
<1>5. CASE Drained
  <2>1. \A r \in Creates : ~ Reserving(r) /\ ~ Published(r)
    BY <1>5 DEF Drained, IsDrained, TableInv, Held, StillReserved
  <2>2. \A r \in Creates : child[r] # "running"
    BY <2>1 DEF Reserving
  <2>3. QED
    BY <1>5, <2>2 DEF Drained, table, request
<1>6. CASE UNCHANGED vars
  BY <1>6 DEF vars, table, request
<1>7. QED
  BY <1>1, <1>2, <1>3, <1>4, <1>5, <1>6 DEF Next

\* A daemon that drained leaves no process behind, however its creates, their
\* spawns and its shutdown interleave.
THEOREM NoChildSurvivesTheDrain == Spec => []DrainedLeavesNoChild
<1>1. Spec => []ChildInv
  BY InitTyped, TypedInductive, InitTable, TableInductive, InitChild, ChildInductive,
     PTL DEF Spec
<1>2. ChildInv => DrainedLeavesNoChild
  BY DEF ChildInv
<1>3. QED
  BY <1>1, <1>2, PTL
-----------------------------------------------------------------------------
\* The agent status entries: a tombstone is final, a live session's entry is
\* its own, and a status was sent by the generation it stands under.
Entry(i) ==
    /\ byIdentity[i] = None /\ agents[i].metadata # None => IsFinal(agents[i])
    /\ byIdentity[i] # None => agents[i].metadata = body[sessions[byIdentity[i]]].agent
    /\ agents[i].status # None =>
          agents[i].sent.generation = agents[i].metadata.generation

EntryInv == \A i \in Identities : Entry(i)

LEMMA InitEntry == Init => EntryInv
BY DEF Init, EntryInv, Entry, NoEntry

LEMMA PreconditionOk ==
    ASSUME NEW i \in Identities, NEW m \in Metadata, Precondition(i, m) = "Ok"
    PROVE  agents[i].metadata # None /\ agents[i].metadata.generation = m.generation
<1>1. \A c : Missing(i, c) # "Ok"
  BY DEF Missing
<1>2. QED
  BY <1>1 DEF Precondition

\* What a step of a create does to the entries.
LEMMA EntryOfCreate ==
    ASSUME Typed, TableInv, EntryInv, NEW r \in Creates, Begin(r) \/ Work(r) \/ Finalize(r)
    PROVE  EntryInv'
<1> USE DEF Typed, TypeOK
<1>1. CASE /\ UNCHANGED << agents, byIdentity, sessions >>
           /\ \A q \in Creates : stage[q] = "done" => body'[q] = body[q]
  <2> SUFFICES ASSUME NEW i \in Identities PROVE Entry(i)'
    BY DEF EntryInv
  <2>1. Entry(i) /\ Indexed(i)
    BY DEF EntryInv, TableInv
  <2>2. byIdentity[i] # None => body'[sessions[byIdentity[i]]] = body[sessions[byIdentity[i]]]
    BY <1>1, <2>1 DEF TableInv, Placed, Indexed
  <2>3. QED
    BY <1>1, <2>1, <2>2 DEF Entry, IsFinal
<1>2. CASE Begin(r) \/ FindNumeric(r) \/ FindIdentity(r) \/ FindIdentityAgain(r) \/ Spawn(r)
           \/ Cleanup(r) \/ Release(r)
  BY <1>1, <1>2 DEF Begin, FindNumeric, FindIdentity, FindIdentityAgain, Spawn, Cleanup, Release,
                    table, request
<1>3. CASE Reserve(r)
  <2>1. Taken(r) \/ Declined(r)
    BY <1>3, ReserveKinds DEF Reserve, Asked
  <2>2. QED
    BY <1>1, <2>1 DEF Taken, Take, Declined, request
<1>4. CASE Publish(r) /\ ~ MayPublish(r)
  BY <1>1, <1>4 DEF Publish, table, request
<1>5. CASE Publish(r) /\ MayPublish(r)
  <2>1. body[r] \in Bodies /\ body[r].identity \in Identities /\ number[r] \in SessionIds
        /\ StillReserved(r)
    BY <1>5 DEF Publish, Asked, Bodies, TableInv, Held, Reserving
  <2>2. body' = body
    BY <1>5 DEF Publish, request
  <2>3. ASSUME NEW i \in Identities PROVE Entry(i)'
    <3>1. CASE i = body[r].identity
      <4>1. agents'[i] = Register(body[r].agent) /\ byIdentity'[i] = number[r]
            /\ sessions'[number[r]] = r
        BY <1>5, <2>1, <3>1 DEF Publish
      <4>2. agents'[i].metadata = body[r].agent /\ agents'[i].status = None
        BY <2>1, <4>1, EntryTypes DEF Bodies
      <4>3. QED
        BY <2>1, <2>2, <4>1, <4>2 DEF Entry
    <3>2. CASE i # body[r].identity
      <4>1. agents'[i] = agents[i] /\ byIdentity'[i] = byIdentity[i]
        BY <1>5, <2>1, <3>2 DEF Publish
      <4>2. Entry(i) /\ Indexed(i)
        BY DEF EntryInv, TableInv
      <4>3. byIdentity[i] # None => sessions'[byIdentity[i]] = sessions[byIdentity[i]]
        BY <1>5, <2>1, <4>2 DEF Publish, Indexed, StillReserved
      <4>4. QED
        BY <2>2, <4>1, <4>2, <4>3 DEF Entry, IsFinal
    <3>3. QED
      BY <3>1, <3>2
  <2>4. QED
    BY <2>3 DEF EntryInv
<1>6. CASE Finalize(r)
  <2>1. body[r] \in Bodies /\ body[r].identity \in Identities /\ number[r] \in SessionIds
        /\ sessions[number[r]] = r
    BY <1>6 DEF Finalize, Asked, Bodies
  <2>2. byIdentity[body[r].identity] = number[r] /\ number[r] # None
    BY <2>1 DEF TableInv, Placed
  <2>3. body' = body
    BY <1>6 DEF Finalize, request
  <2>4. ASSUME NEW i \in Identities PROVE Entry(i)'
    <3>1. Entry(i) /\ Indexed(i) /\ agents[i] \in Entries
      BY DEF EntryInv, TableInv
    <3>2. CASE i = body[r].identity
      <4>1. byIdentity'[i] = None /\ agents[i].metadata = body[r].agent
        BY <1>6, <2>1, <2>2, <3>1, <3>2 DEF Finalize, Entry
      <4>2. CASE body[r].agent = None
        BY <1>6, <3>1, <4>1, <4>2 DEF Finalize, Entry, IsFinal
      <4>3. CASE body[r].agent # None
        <5>1. agents'[i] = RecordExit(agents[i], agents[i].metadata, child[r])
          BY <1>6, <2>1, <3>2, <4>1, <4>3 DEF Finalize
        <5>2. /\ agents'[i].status \in Final /\ agents'[i].metadata = agents[i].metadata
              /\ \/ agents'[i].sent = agents[i].metadata
                 \/ agents'[i].sent = agents[i].sent /\ agents'[i].status = agents[i].status
          <6>1. CASE IsFinal(agents[i])
            BY <5>1, <6>1 DEF RecordExit, IsFinal
          <6>2. CASE ~ IsFinal(agents[i])
            <7>1. agents'[i] = [agents[i] EXCEPT
                                   !.status = IF child[r] = "ok" THEN "exited" ELSE "failed",
                                   !.sent = agents[i].metadata]
              BY <5>1, <6>2 DEF RecordExit
            <7>2. QED
              BY <3>1, <7>1 DEF Entries
          <6>3. QED
            BY <6>1, <6>2
        <5>3. QED
          BY <3>1, <4>1, <5>2 DEF Entry, IsFinal
      <4>4. QED
        BY <4>2, <4>3
    <3>3. CASE i # body[r].identity
      <4>1. agents'[i] = agents[i]
        BY <1>6, <3>3 DEF Finalize
      <4>2. byIdentity[i] # number[r]
        BY <2>1, <2>2, <3>1, <3>3 DEF Indexed
      <4>3. byIdentity'[i] = byIdentity[i]
            /\ (byIdentity[i] # None => sessions'[byIdentity[i]] = sessions[byIdentity[i]])
        BY <1>6, <2>1, <4>2 DEF Finalize
      <4>4. QED
        BY <2>3, <3>1, <4>1, <4>3 DEF Entry, IsFinal
    <3>4. QED
      BY <3>2, <3>3
  <2>5. QED
    BY <2>4 DEF EntryInv
<1>7. QED
  BY <1>2, <1>3, <1>4, <1>5, <1>6 DEF Work

LEMMA EntryInductive == Typed /\ TableInv /\ EntryInv /\ [Next]_vars => EntryInv'
<1> SUFFICES ASSUME Typed, TableInv, EntryInv, [Next]_vars PROVE EntryInv'
  OBVIOUS
<1>1. ASSUME NEW r \in Creates, Begin(r) \/ Work(r) \/ Finalize(r) PROVE EntryInv'
  BY <1>1, EntryOfCreate
<1>2. ASSUME NEW u \in Updates, UpdateAgentStatus(u) PROVE EntryInv'
  <2> USE DEF Typed, TypeOK
  <2>1. u.identity \in Identities /\ u.metadata \in Metadata /\ u.status \in Statuses
    OBVIOUS
  <2>2. agents[u.identity].metadata # None
        /\ agents[u.identity].metadata.generation = u.metadata.generation
    BY <1>2, <2>1, PreconditionOk DEF UpdateAgentStatus
  <2>3. ASSUME NEW i \in Identities PROVE Entry(i)'
    <3>1. Entry(i) /\ agents[i] \in Entries
      BY DEF EntryInv
    <3>2. UNCHANGED << byIdentity, sessions, body >>
      BY <1>2 DEF UpdateAgentStatus, request
    <3>3. CASE i = u.identity
      <4>1. agents'[i] = Stored(agents[i], u)
        BY <1>2, <3>3 DEF UpdateAgentStatus
      <4>2. CASE IsFinal(agents[i])
        BY <3>1, <3>2, <4>1, <4>2 DEF Stored, Entry
      <4>3. CASE ~ IsFinal(agents[i])
        <5>1. agents'[i].metadata = agents[i].metadata /\ agents'[i].sent = u.metadata
          BY <3>1, <4>1, <4>3 DEF Stored, Entries
        <5>2. byIdentity[i] # None
          BY <2>2, <3>1, <3>3, <4>3 DEF Entry
        <5>3. QED
          BY <2>2, <3>1, <3>2, <3>3, <5>1, <5>2 DEF Entry
      <4>4. QED
        BY <4>2, <4>3
    <3>4. CASE i # u.identity
      BY <1>2, <3>1, <3>2, <3>4 DEF UpdateAgentStatus, Entry, IsFinal
    <3>5. QED
      BY <3>3, <3>4
  <2>4. QED
    BY <2>3 DEF EntryInv
<1>3. CASE UNCHANGED << agents, byIdentity, sessions, body >>
  BY <1>3 DEF EntryInv, Entry, IsFinal
<1>4. ASSUME NEW r \in Creates, Exit(r) PROVE EntryInv'
  BY <1>3, <1>4 DEF Exit, table, request
<1>5. CASE BeginShutdown \/ Drained \/ DrainExpires \/ UNCHANGED vars
  BY <1>3, <1>5 DEF BeginShutdown, Drained, DrainExpires, vars, table, request
<1>6. QED
  BY <1>1, <1>2, <1>4, <1>5 DEF Next

LEMMA EntryAlways == Spec => [](Typed /\ TableInv /\ EntryInv)
BY InitTyped, TypedInductive, InitTable, TableInductive, InitEntry, EntryInductive, PTL DEF Spec

\* A tombstone says how its agent ended, a live entry is its session's, and a
\* query is answered only with a status its own generation sent.
THEOREM StatusEntriesHold == Spec => []StatusEntries
<1>1. EntryInv => StatusEntries
  <2> SUFFICES ASSUME EntryInv PROVE StatusEntries
    OBVIOUS
  <2>1. ASSUME NEW i \in Identities, NEW m \in Metadata, QueryOutcome(i, m).status # None
        PROVE  agents[i].sent.generation = m.generation
    <3>1. Precondition(i, m) = "Ok" /\ agents[i].status # None
      BY <2>1 DEF QueryOutcome
    <3>2. QED
      BY <3>1, PreconditionOk DEF EntryInv, Entry
  <2>2. QED
    BY <2>1 DEF EntryInv, Entry, StatusEntries
<1>2. QED
  BY <1>1, EntryAlways, PTL

\* One step leaves a final status alone or publishes the identity anew.
FinalKept ==
    \A i \in Identities :
        IsFinal(agents[i]) =>
           \/ agents'[i] = agents[i]
           \/ byIdentity[i] = None /\ byIdentity'[i] # None

\* docs/DAEMON.md: "Failed and exited states are final".
THEOREM FinalStatusStays == Spec => FinalStays
<1>1. Typed /\ TableInv /\ EntryInv /\ [Next]_vars => FinalKept
  <2> SUFFICES ASSUME Typed, TableInv, EntryInv, [Next]_vars PROVE FinalKept
    OBVIOUS
  <2> USE DEF Typed, TypeOK, FinalKept
  <2>1. CASE agents' = agents
    BY <2>1
  <2>2. ASSUME NEW r \in Creates, Publish(r), MayPublish(r) PROVE FinalKept
    <3>1. body[r].identity \in Identities /\ number[r] \in SessionIds /\ StillReserved(r)
      BY <2>2 DEF Publish, Asked, Bodies, TableInv, Held, Reserving
    <3>2. QED
      BY <2>2, <3>1 DEF Publish, StillReserved
  <2>3. ASSUME NEW r \in Creates, Finalize(r) PROVE FinalKept
    BY <2>3 DEF Finalize, RecordExit
  <2>4. ASSUME NEW u \in Updates, UpdateAgentStatus(u) PROVE FinalKept
    BY <2>4 DEF UpdateAgentStatus, Stored
  <2>5. ASSUME NEW r \in Creates, Reserve(r) PROVE agents' = agents
    BY <2>5, ReserveKinds DEF Reserve, Asked, Taken, Take, Declined
  <2>6. ASSUME NEW r \in Creates, Begin(r) \/ Work(r), ~ (Publish(r) /\ MayPublish(r))
        PROVE  agents' = agents
    BY <2>5, <2>6 DEF Begin, Work, FindNumeric, FindIdentity, FindIdentityAgain, Spawn, Publish,
                      Cleanup, Release, table
  <2>7. QED
    BY <2>1, <2>2, <2>3, <2>4, <2>6 DEF Next, Exit, BeginShutdown, Drained, DrainExpires,
                                        vars, table
<1>2. FinalKept => [\A i \in Identities :
          IsFinal(agents[i]) =>
             \/ agents'[i] = agents[i]
             \/ byIdentity[i] = None /\ byIdentity'[i] # None]_vars
  BY DEF FinalKept
<1>3. QED
  BY <1>1, <1>2, EntryAlways, PTL DEF Spec, FinalStays-----------------------------------------------------------------------------
\* The contract.  A step changes what at most one create holds, or closes.
Kept(r) == Holding(r)' = Holding(r)

LEMMA HoldingNothing ==
    ASSUME Typed, TableInv, NEW r \in Creates
    PROVE  /\ Holding(r) = Directory!Nothing <=> ~ (Reserving(r) \/ Published(r))
           /\ Holding(r).session # None <=> Reserving(r) \/ Published(r)
           /\ Reserving(r) => ~ Published(r)
<1>1. Reserving(r) => ~ Published(r)
  BY DEF TableInv, Held, StillReserved, Published
<1>2. Reserving(r) \/ Published(r) => number[r] # None
  BY DEF TableInv, Held, Published
<1>3. QED
  BY <1>1, <1>2 DEF Holding, Directory!Nothing

\* Handlers that go on without touching the table hold what they held.
LEMMA MovesKeepHoldings ==
    ASSUME Typed, TableInv, NEW r \in Creates, NEW next, Moves(r, next)
    PROVE  \A q \in Creates : Kept(q)
<1> SUFFICES ASSUME NEW q \in Creates PROVE Kept(q)
  OBVIOUS
<1>1. Reserving(q)' = Reserving(q)
  BY DEF Typed, TypeOK, Moves, Reserving
<1>2. Published(q)' = Published(q)
  BY DEF Moves, Published
<1>3. Reserving(q) \/ Published(q) => body'[q] = body[q]
  <2>1. Published(q) => stage[q] = "done"
    BY DEF Typed, TypeOK, TableInv, Placed, Published
  <2>2. QED
    BY <2>1 DEF Typed, TypeOK, Moves
<1>4. QED
  BY <1>1, <1>2, <1>3 DEF Kept, Holding, Moves

\* A reservation is a claim on two names nobody holds.
LEMMA TakenClaims ==
    ASSUME Typed, TableInv, NEW r \in Creates, stage[r] = "reserve", Taken(r)
    PROVE  \E i \in Identities, s \in SessionIds : Directory!Claim(r, i, s)
<1> USE DEF Typed, TypeOK
<1>1. PICK s \in SessionIds : Unused(s) /\ Take(r, s)
  BY DEF Taken
<1>2. body[r].identity \in Identities
  BY DEF Asked, Bodies
<1> DEFINE i == body[r].identity
<1>3. ~ Reserving(r) /\ ~ Published(r)
  BY DEF Reserving, Published, TableInv, Placed
<1>4. Holding(r) = Directory!Nothing
  BY <1>3, HoldingNothing
<1>5. \A q \in Creates : Holding(q).identity # i /\ Holding(q).session # s
  <2> SUFFICES ASSUME NEW q \in Creates PROVE Holding(q).identity # i /\ Holding(q).session # s
    OBVIOUS
  <2>1. CASE Reserving(q)
    <3>1. number[q] # s /\ body[q].identity # i
      BY <1>1, <2>1 DEF TableInv, Held, StillReserved, Unused, NameTaken, Taken
    <3>2. QED
      BY <2>1, <3>1 DEF Holding
  <2>2. CASE Published(q)
    <3>1. number[q] \in SessionIds /\ sessions[number[q]] = q /\ q # None
      BY <2>2 DEF Published
    <3>2. number[q] # s /\ byIdentity[body[q].identity] = number[q]
      BY <1>1, <3>1 DEF TableInv, Placed, Unused
    <3>3. body[q].identity # i
      BY <3>1, <3>2 DEF NameTaken, Taken
    <3>4. QED
      BY <2>2, <3>2, <3>3 DEF Holding
  <2>3. CASE ~ Reserving(q) /\ ~ Published(q)
    BY <1>2, <2>3 DEF Holding
  <2>4. QED
    BY <2>1, <2>2, <2>3
<1>6. \A q \in Creates \ {r} : Kept(q)
  BY <1>1 DEF Taken, Take, Go, Kept, Holding, Reserving, Published
<1>7. Holding(r)' = [identity |-> i, session |-> s, phase |-> "claimed"]
  <2>1. Reserving(r)' /\ number'[r] = s /\ body'[r] = body[r] /\ sessions'[s] = None /\ r # None
    BY <1>1 DEF Taken, Take, Go, Reserving, Unused
  <2>2. QED
    BY <2>1 DEF Holding, Published
<1>8. [q \in Creates |-> Holding(q)]' =
        [[q \in Creates |-> Holding(q)] EXCEPT ![r] = [identity |-> i, session |-> s, phase |-> "claimed"]]
  BY <1>6, <1>7 DEF Kept
<1>9. Directory!Claim(r, i, s)
  BY <1>4, <1>5, <1>8 DEF Directory!Claim, Directory!Free, Taken
<1>10. QED
  BY <1>1, <1>2, <1>9

LEMMA PublishOpens ==
    ASSUME Typed, TableInv, NEW r \in Creates, Publish(r), MayPublish(r)
    PROVE  Directory!Open(r)
<1> USE DEF Typed, TypeOK
<1>1. Reserving(r) /\ number[r] \in SessionIds /\ StillReserved(r) /\ r # None
  BY DEF Publish, Reserving, TableInv, Held
<1>2. Holding(r) = [identity |-> body[r].identity, session |-> number[r], phase |-> "claimed"]
  BY <1>1, HoldingNothing DEF Holding
<1>3. body' = body /\ number' = number /\ main' = main /\ main = "serving"
  BY DEF Publish, MayPublish, request
<1>4. sessions'[number[r]] = r /\ Published(r)'
  BY <1>1, <1>3 DEF Publish, Published
<1>5. Holding(r)' = [Holding(r) EXCEPT !.phase = "open"]
  <2>1. Holding(r)' = [identity |-> body[r].identity, session |-> number[r], phase |-> "open"]
    BY <1>3, <1>4 DEF Holding
  <2>2. [[identity |-> body[r].identity, session |-> number[r], phase |-> "claimed"]
           EXCEPT !.phase = "open"]
        = [identity |-> body[r].identity, session |-> number[r], phase |-> "open"]
    OBVIOUS
  <2>3. QED
    BY <1>2, <2>1, <2>2, Zenon
<1>6. \A q \in Creates \ {r} : Kept(q)
  <2> SUFFICES ASSUME NEW q \in Creates \ {r} PROVE Kept(q)
    OBVIOUS
  <2>1. Reserving(q)' = Reserving(q)
    BY DEF Publish, Answer, Go, Reserving
  <2>2. Published(q)' = Published(q)
    BY <1>1, <1>3, <1>4 DEF Published, Publish, StillReserved
  <2>3. QED
    BY <1>3, <2>1, <2>2 DEF Kept, Holding
<1>7. [q \in Creates |-> Holding(q)]' =
        [[q \in Creates |-> Holding(q)] EXCEPT ![r] = [Holding(r) EXCEPT !.phase = "open"]]
  BY <1>5, <1>6 DEF Kept
<1>8. QED
  <2>1. Holding(r).phase = "claimed"
    BY <1>1, <1>2
  <2>2. QED
    BY <1>3, <1>7, <2>1 DEF Directory!Open

LEMMA Drops ==
    ASSUME Typed, TableInv, NEW r \in Creates, Release(r) \/ Finalize(r)
    PROVE  Directory!Drop(r)
<1> USE DEF Typed, TypeOK
<1>1. body' = body /\ number' = number /\ main' = main
  BY DEF Release, Finalize, request
<1>2. \A q \in Creates \ {r} : Kept(q)
  <2> SUFFICES ASSUME NEW q \in Creates \ {r} PROVE Kept(q)
    OBVIOUS
  <2>1. Reserving(q)' = Reserving(q)
    BY DEF Release, Finalize, Go, Reserving
  <2>2. Published(q)' = Published(q)
    BY <1>1 DEF Published, Release, Finalize
  <2>3. QED
    BY <1>1, <2>1, <2>2 DEF Kept, Holding
<1>3. Reserving(r) \/ Published(r)
  BY DEF Release, Finalize, Reserving, Published
<1>4. ~ Reserving(r)' /\ ~ Published(r)'
  <2>1. CASE Release(r)
    <3>1. Reserving(r) /\ ~ Published(r) /\ sessions' = sessions
      BY <2>1, HoldingNothing DEF Release, Reserving
    <3>2. QED
      BY <1>1, <2>1, <3>1 DEF Release, Go, Reserving, Published
  <2>2. CASE Finalize(r)
    <3>1. ~ Reserving(r) /\ number[r] \in SessionIds /\ r # None
      BY <2>2, HoldingNothing DEF Finalize, Published
    <3>2. QED
      BY <1>1, <2>2, <3>1 DEF Finalize, Reserving, Published
  <2>3. QED
    BY <2>1, <2>2
<1>5. Holding(r)' = Directory!Nothing
  BY <1>4 DEF Holding, Directory!Nothing
<1>6. [q \in Creates |-> Holding(q)]' =
        [[q \in Creates |-> Holding(q)] EXCEPT ![r] = Directory!Nothing]
  BY <1>2, <1>5 DEF Kept
<1>7. QED
  BY <1>1, <1>3, <1>6, HoldingNothing DEF Directory!Drop

LEMMA DirectoryInit == Init => Directory!Init
<1> SUFFICES ASSUME Init PROVE Directory!Init
  OBVIOUS
<1>1. \A r \in Creates : Holding(r) = Directory!Nothing
  BY DEF Init, Holding, Reserving, Published, Directory!Nothing
<1>2. QED
  BY <1>1 DEF Init, Directory!Init

LEMMA DirectoryStep == Typed /\ TableInv /\ [Next]_vars => [Directory!Next]_(Directory!vars)
<1> SUFFICES ASSUME Typed, TableInv, [Next]_vars
             PROVE  Directory!Next \/ UNCHANGED Directory!vars
  OBVIOUS
<1>1. ASSUME \A q \in Creates : Kept(q), main' = main PROVE UNCHANGED Directory!vars
  BY <1>1 DEF Kept, Directory!vars
<1>2. ASSUME NEW r \in Creates, Begin(r) \/ Work(r) \/ Finalize(r)
      PROVE  Directory!Next \/ UNCHANGED Directory!vars
  <2>1. main' = main
    BY <1>2 DEF Begin, Work, Finalize, FindNumeric, FindIdentity, FindIdentityAgain,
                Reserve, Spawn, Publish, Cleanup, Release
  <2>2. CASE \E next : Moves(r, next)
    BY <1>1, <2>1, <2>2, MovesKeepHoldings
  <2>3. CASE stage[r] = "reserve" /\ Taken(r)
    BY <2>3, TakenClaims DEF Directory!Next
  <2>4. CASE Publish(r) /\ MayPublish(r)
    BY <2>4, PublishOpens DEF Directory!Next
  <2>5. CASE Release(r) \/ Finalize(r)
    BY <2>5, Drops DEF Directory!Next
  <2>6. QED
    BY <1>2, <2>2, <2>3, <2>4, <2>5, CreateKinds DEF Kinds
<1>3. CASE UNCHANGED << sessions, number, body, stage >> /\ (main' = main \/ main' # "serving")
  <2>1. \A q \in Creates : Kept(q)
    BY <1>3 DEF Kept, Holding, Reserving, Published
  <2>2. CASE main' = main
    BY <1>1, <2>1, <2>2
  <2>3. CASE main = "serving" /\ main' # "serving"
    BY <2>1, <2>3 DEF Kept, Directory!Next, Directory!Close
  <2>4. CASE main # "serving" /\ main' # "serving"
    BY <2>1, <2>4 DEF Kept, Directory!vars
  <2>5. QED
    BY <1>3, <2>2, <2>3, <2>4
<1>4. QED
  BY <1>2, <1>3 DEF Next, Exit, UpdateAgentStatus, BeginShutdown, Drained, DrainExpires,
                    vars, table, request

\* The daemon's creates, failures, finalizations and shutdown implement the
\* contract: no identity and no number has two creations at any time.
THEOREM Refinement == Spec => ImplementsDirectory
BY TableAlways, DirectoryInit, DirectoryStep, PTL DEF Spec, ImplementsDirectory, Directory!Spec
=============================================================================
