-------------------------- MODULE AgentLifeProofs --------------------------
(***************************************************************************)
(* Proofs about AgentLife, for any set of chats and any bounds: its types, *)
(* that the dirty flag can be trusted, that an agent runs only with its    *)
(* generation recorded, and that no chat is left working with no owner.    *)
(***************************************************************************)
EXTENDS AgentLife, TLAPS

Gens == Generations \cup {NoGeneration}

LEMMA Constants ==
    /\ Generations \subseteq Nat /\ NoGeneration \notin Generations /\ NoGeneration = 0
    /\ LastGeneration \in Nat
    /\ Reports \subseteq EntryStatus
BY AgentLifeAssumption DEF Generations, NoGeneration, EntryStatus
-----------------------------------------------------------------------------
(* The project: what the mutators of the model return.                     *)

\* q is p with other statuses.
SameGenerations(p, q) ==
    \A d \in Chats : /\ q[d].generation = p[d].generation
                     /\ q[d] = Deleted <=> p[d] = Deleted

LEMMA DeletedIsNoChat == Deleted \notin Chat /\ Deleted.generation = NoGeneration
BY DEF Deleted, Chat, ChatStatus

LEMMA MarkedMeans ==
    ASSUME NEW p \in Project, NEW c \in Chats, NEW s \in ChatStatus
    PROVE  /\ Marked(p, c, s) \in Project
           /\ SameGenerations(p, Marked(p, c, s))
           /\ \A d \in Chats \ {c} : Marked(p, c, s)[d] = p[d]
           /\ p[c] # Deleted => Marked(p, c, s)[c].status = s
<1>1. CASE p[c] = Deleted
  BY <1>1 DEF Marked, SameGenerations
<1>2. CASE p[c] # Deleted
  <2> DEFINE q == [p EXCEPT ![c].status = s]
  <2>1. p[c] \in Chat
    BY <1>2 DEF Project
  <2>2. q[c] = [p[c] EXCEPT !.status = s] /\ \A d \in Chats \ {c} : q[d] = p[d]
    BY DEF Project
  <2>3. q[c] \in Chat /\ q[c].generation = p[c].generation /\ q[c].status = s
    BY <2>1, <2>2 DEF Chat
  <2>4. q \in Project
    BY <2>2, <2>3 DEF Project
  <2>5. q[c] # Deleted
    BY <2>3, DeletedIsNoChat
  <2>6. QED
    BY <1>2, <2>2, <2>3, <2>4, <2>5 DEF Marked, SameGenerations
<1>3. QED
  BY <1>1, <1>2

LEMMA ClearedMeans ==
    ASSUME NEW p \in Project, NEW c \in Chats
    PROVE  /\ Cleared(p, c) \in Project
           /\ \A d \in Chats \ {c} : Cleared(p, c)[d] = p[d]
           /\ Cleared(p, c)[c].generation = NoGeneration
           /\ Cleared(p, c)[c] = Deleted <=> p[c] = Deleted
           /\ Cleared(p, c)[c].status = p[c].status
<1>1. CASE p[c] = Deleted
  BY <1>1, DeletedIsNoChat DEF Cleared
<1>2. CASE p[c] # Deleted
  <2> DEFINE q == [p EXCEPT ![c].generation = NoGeneration]
  <2>1. p[c] \in Chat
    BY <1>2 DEF Project
  <2>2. q[c] = [p[c] EXCEPT !.generation = NoGeneration] /\ \A d \in Chats \ {c} : q[d] = p[d]
    BY DEF Project
  <2>3. q[c] \in Chat /\ q[c].generation = NoGeneration /\ q[c].status = p[c].status
    BY <2>1, <2>2 DEF Chat
  <2>4. q \in Project
    BY <2>2, <2>3 DEF Project
  <2>5. q[c] # Deleted
    BY <2>3, DeletedIsNoChat
  <2>6. QED
    BY <1>2, <2>2, <2>3, <2>4, <2>5 DEF Cleared
<1>3. QED
  BY <1>1, <1>2

LEMMA NormalizedMeans ==
    ASSUME NEW p \in Project
    PROVE  /\ Normalized(p) \in Project
           /\ SameGenerations(p, Normalized(p))
           /\ \A d \in Chats : Normalized(p)[d].generation = NoGeneration
                                  => Normalized(p)[d].status # "thinking"
<1> DEFINE q == Normalized(p)
<1>1. ASSUME NEW d \in Chats
      PROVE  /\ q[d] \in Chat \cup {Deleted}
             /\ q[d].generation = p[d].generation
             /\ q[d] = Deleted <=> p[d] = Deleted
             /\ q[d].generation = NoGeneration => q[d].status # "thinking"
  <2>1. CASE p[d].generation = NoGeneration /\ p[d].status = "thinking"
    <3>1. p[d] \in Chat
      BY <2>1 DEF Project, Deleted
    <3>2. q[d] = [p[d] EXCEPT !.status = "idle"]
      BY <2>1 DEF Normalized
    <3>3. q[d] \in Chat /\ q[d].generation = p[d].generation /\ q[d].status = "idle"
      BY <3>1, <3>2 DEF Chat, ChatStatus
    <3>4. QED
      BY <3>1, <3>3, DeletedIsNoChat
  <2>2. CASE ~ (p[d].generation = NoGeneration /\ p[d].status = "thinking")
    BY <2>2 DEF Normalized, Project
  <2>3. QED
    BY <2>1, <2>2
<1>2. q \in Project
  BY <1>1 DEF Project, Normalized
<1>3. QED
  BY <1>1, <1>2 DEF SameGenerations

LEMMA AllocatedMeans ==
    ASSUME NEW p \in Project, NEW c \in Chats, p[c] # Deleted, NEW g \in Generations
    PROVE  LET q == [p EXCEPT ![c].generation = g]
           IN  /\ q \in Project
               /\ q[c].generation = g /\ q[c] # Deleted
               /\ \A d \in Chats \ {c} : q[d] = p[d]
<1> DEFINE q == [p EXCEPT ![c].generation = g]
<1>1. p[c] \in Chat
  BY DEF Project
<1>2. q[c] = [p[c] EXCEPT !.generation = g] /\ \A d \in Chats \ {c} : q[d] = p[d]
  BY DEF Project
<1>3. q[c] \in Chat /\ q[c].generation = g
  BY <1>1, <1>2 DEF Chat
<1>4. q \in Project
  BY <1>2, <1>3 DEF Project
<1>5. QED
  BY <1>2, <1>3, <1>4, DeletedIsNoChat

LEMMA ReconciledMeans ==
    ASSUME TypeOK, NEW c \in Chats
    PROVE  /\ Reconciled(c) \in Project
           /\ SameGenerations(mem, Reconciled(c))
           /\ \A d \in Chats \ {c} : Reconciled(c)[d] = mem[d]
           /\ Recovered(c) /\ mem[c] # Deleted
                 => Reconciled(c)[c].status = ChatStatusOf(entry[c].status)
<1>1. CASE Recovered(c)
  <2>1. entry[c].status \in EntryStatus \ {"unknown"}
    BY <1>1 DEF TypeOK, Recovered
  <2>2. ChatStatusOf(entry[c].status) \in ChatStatus
    BY <2>1 DEF EntryStatus, ChatStatus, ChatStatusOf
  <2>3. Reconciled(c) = Marked(mem, c, ChatStatusOf(entry[c].status))
    BY <1>1 DEF Reconciled
  <2>4. mem \in Project
    BY DEF TypeOK
  <2>5. QED
    BY <2>2, <2>3, <2>4, MarkedMeans
<1>2. CASE ~ Recovered(c)
  BY <1>2 DEF Reconciled, TypeOK, SameGenerations
<1>3. QED
  BY <1>1, <1>2

LEMMA QueriedMeans ==
    ASSUME TypeOK, NEW c \in Chats, NEW p \in Queried(c)
    PROVE  /\ p \in Project
           /\ SameGenerations(mem, p)
           /\ \A d \in Chats \ {c} : p[d] = mem[d]
<1>1. p = mem \/ p = Reconciled(c)
  BY DEF Queried
<1>2. QED
  BY <1>1, ReconciledMeans DEF TypeOK, SameGenerations
-----------------------------------------------------------------------------
(* Types.                                                                  *)

\* Where the client is: the handler in progress, and the chats to restore.
Shape ==
    /\ phase \in {"down", "quit"} => op = Idle
    /\ phase = "restoring" => \A c \in todo : mem[c].generation # NoGeneration
    /\ op.kind # "idle" => op.chat \in Chats
    /\ op.kind = "missing" => phase = "restoring"
    /\ op.kind = "launch" =>
          mem[op.chat].generation = NoGeneration /\ mem[op.chat] # Deleted
    /\ op.kind = "send" => mem[op.chat].generation # NoGeneration

LEMMA InitType == Init => TypeOK /\ Shape
<1> SUFFICES ASSUME Init PROVE TypeOK /\ Shape
  OBVIOUS
<1>1. file \in Project
  <2>1. \A s \in {"idle", "thinking"} : [generation |-> NoGeneration, status |-> s] \in Chat
    BY DEF Chat, ChatStatus
  <2>2. QED
    BY <2>1 DEF Init, Project
<1>2. NoEntry \in [generation : Gens, status : EntryStatus]
  BY DEF NoEntry, Gens, EntryStatus
<1>3. /\ exits \in Seq([chat : Chats, code : ExitCodes, generation : Gens])
      /\ entry \in [Chats -> [generation : Gens, status : EntryStatus]]
      /\ wire \in [Chats -> [code : ExitCodes, generation : Generations] \cup {NoExit}]
  BY <1>2 DEF Init
<1>4. TypeOK
  <2>1. op \in [kind : {"idle", "missing", "launch", "send", "create"}, chat : Chats \cup {None}]
    BY DEF Init, Idle
  <2>2. allocated \in 0 .. LastGeneration /\ crashes \in 0 .. MaxCrashes /\ drops \in 0 .. MaxDrops
    BY AgentLifeAssumption DEF Init
  <2>3. attachment \in [Chats -> {None, "bound", "live"}] /\ session \in [Chats -> Gens]
    BY DEF Init, Gens
  <2>4. /\ exits \in Seq([chat : Chats, code : ExitCodes, generation : Gens])
        /\ wire \in [Chats -> [code : ExitCodes, generation : Generations] \cup {NoExit}]
        /\ entry \in [Chats -> [generation : Gens, status : EntryStatus]]
    BY <1>3
  <2>5. QED
    BY <1>1, <2>1, <2>2, <2>3, <2>4 DEF Init, TypeOK, Gens
<1>5. Shape
  BY DEF Init, Shape, Idle
<1>6. QED
  BY <1>4, <1>5

\* The project stays one through a save and through a change.
LEMMA SavesType ==
    ASSUME TypeOK, NEW p \in Project, Saves(p) \/ SaveFails(p)
    PROVE  /\ file' \in Project /\ stable' \in Project /\ mem' = p
           /\ adopted' \in BOOLEAN /\ dirty' \in BOOLEAN /\ saveError' \in BOOLEAN
BY DEF TypeOK, Saves, SaveFails

LEMMA BecomesType ==
    ASSUME TypeOK, NEW p \in Project, Becomes(p)
    PROVE  mem' = p /\ dirty' \in BOOLEAN
BY DEF TypeOK, Becomes

\* A chat's attachment, its exits and its creates keep their types.
ExitRecord == [chat : Chats, code : ExitCodes, generation : Gens]
Exits == Seq(ExitRecord)
Wires == [Chats -> [code : ExitCodes, generation : Generations] \cup {NoExit}]
Attachments == [Chats -> {None, "bound", "live"}]
Creates == [chat : Chats, generation : Generations, here : BOOLEAN]
Ops == [kind : {"idle", "missing", "launch", "send", "create"}, chat : Chats \cup {None}]

LEMMA Queue ==
    ASSUME NEW S, NEW q \in Seq(S)
    PROVE  /\ << >> \in Seq(S)
           /\ q # << >> => Head(q) \in S /\ Tail(q) \in Seq(S)
           /\ \A e \in S : Append(q, e) \in Seq(S)
OBVIOUS

LEMMA NoExits == << >> \in Exits
BY DEF Exits

LEMMA ExitsMean ==
    ASSUME TypeOK
    PROVE  /\ exits \in Exits
           /\ exits # << >> => Head(exits) \in ExitRecord /\ Tail(exits) \in Exits
           /\ \A e \in ExitRecord : Append(exits, e) \in Exits
<1>1. exits \in Exits
  BY DEF TypeOK, Exits, ExitRecord, Gens
<1> HIDE DEF ExitRecord
<1>2. QED
  BY <1>1, Queue DEF Exits

LEMMA OpType == \A c \in Chats : \A k \in {"missing", "launch", "send", "create"} :
                    [kind |-> k, chat |-> c] \in Ops /\ Idle \in Ops
BY DEF Ops, Idle

LEMMA CreatesType ==
    ASSUME TypeOK
    PROVE  /\ Unheard \in SUBSET Creates
           /\ \A c \in Chats : BeingCreated(c) \in SUBSET Generations
<1>1. ASSUME NEW r \in creates PROVE [r EXCEPT !.here = FALSE] \in Creates
  <2>1. r \in Creates
    BY DEF TypeOK, Creates
  <2>2. QED
    BY <2>1 DEF Creates
<1>2. \A r \in creates : r.generation \in Generations
  BY DEF TypeOK
<1>3. QED
  BY <1>1, <1>2 DEF Unheard, BeingCreated

LEMMA EndsType ==
    ASSUME TypeOK, Ends
    PROVE  /\ op' \in Ops /\ todo' \subseteq Chats /\ quitting' \in BOOLEAN
           /\ attachment' \in Attachments /\ reattach' \subseteq Chats
           /\ exits' \in Exits /\ answer' \in {None, "created", "refused"}
           /\ wire' \in Wires
<1>1. op' \in Ops
  BY DEF Ends, Ops, Idle
<1>2. exits' \in Exits
  BY NoExits DEF Ends
<1>3. wire' \in Wires /\ attachment' \in Attachments
  BY DEF Ends, Wires, Attachments
<1>4. QED
  BY <1>1, <1>2, <1>3 DEF Ends

LEMMA AttachesType ==
    ASSUME TypeOK, NEW c \in Chats, Attaches(c) \/ Misses(c) \/ AttachFails(c)
    PROVE  attachment' \in Attachments /\ wire' \in Wires /\ reattach' \subseteq Chats
<1>1. CASE Attaches(c)
  BY <1>1 DEF TypeOK, Attaches, Attachments, Wires
<1>2. CASE Misses(c)
  BY <1>2 DEF TypeOK, Misses, Attachments, Wires
<1>3. CASE AttachFails(c)
  BY <1>3 DEF TypeOK, AttachFails, Attachments, Wires
<1>4. QED
  BY <1>1, <1>2, <1>3

LEMMA TypeStep == TypeOK /\ Shape /\ [Next]_vars => TypeOK'
<1> SUFFICES ASSUME TypeOK, Shape, [Next]_vars PROVE TypeOK'
  OBVIOUS
<1> USE Constants
<1>1. CASE Load
  <2>1. mem \in Project /\ file \in Project /\ stable \in Project
    BY DEF TypeOK
  <2>2. Normalized(file) \in Project /\ Owned(Normalized(file)) \subseteq Chats
    BY <2>1, NormalizedMeans DEF Owned
  <2>3. QED
    BY <1>1, <2>1, <2>2 DEF TypeOK, Exits, ExitRecord, Wires, Attachments, Creates, Ops, Gens, Load, Restored, TurnStart, disk, app, control, pty, daemon, count, history, vars
<1>2. CASE LoadFails
  <2>1. mem \in Project /\ file \in Project /\ stable \in Project
    BY DEF TypeOK
  <2>2. Normalized(file) \in Project
    BY <2>1, NormalizedMeans
  <2>3. QED
    BY <1>2, <2>1, <2>2 DEF TypeOK, Exits, ExitRecord, Wires, Attachments, Creates, Ops, Gens, LoadFails, Restored, TurnStart, disk, app, control, pty, daemon, count, history, vars
<1>3. CASE SaveContent
  <2>1. mem \in Project /\ file \in Project /\ stable \in Project
    BY DEF TypeOK
  <2>2. /\ file' \in Project /\ stable' \in Project /\ mem' \in Project
         /\ adopted' \in BOOLEAN /\ dirty' \in BOOLEAN /\ saveError' \in BOOLEAN
    BY <1>3, <2>1, SavesType DEF SaveContent
  <2>3. QED
    BY <1>3, <2>1, <2>2, ZenonT(40) DEF TypeOK, Exits, ExitRecord, Wires, Attachments, Creates, Ops, Gens, SaveContent, Restored, TurnStart, disk, app, control, pty, daemon, count, history, vars
<1>4. CASE ApplyExit
  <2>1. mem \in Project /\ file \in Project /\ stable \in Project
    BY DEF TypeOK
  <2>2. Head(exits) \in ExitRecord /\ Tail(exits) \in Exits
    BY <1>4, ExitsMean DEF ApplyExit, Draining, TurnStart
  <2>3. LET c == Head(exits).chat IN Cleared(Marked(mem, c, Head(exits).code), c) \in Project
    BY <2>1, <2>2, MarkedMeans, ClearedMeans DEF ExitRecord, ExitCodes, ChatStatus
  <2>4. mem' \in Project /\ dirty' \in BOOLEAN
    BY <1>4, <2>3, BecomesType DEF ApplyExit, Draining, TurnStart
  <2>5. mem[Head(exits).chat].generation \in Gens
    BY <2>1, <2>2, DeletedIsNoChat DEF Project, Chat, Gens, ExitRecord
  <2>6. QED
    BY <1>4, <2>1, <2>2, <2>3, <2>4, <2>5, ZenonT(40) DEF TypeOK, Exits, ExitRecord, Wires, Attachments, Creates, Ops, Gens, ApplyExit, Draining, Restored, TurnStart, disk, app, control, pty, daemon, count, history, vars
<1>5. CASE OpenBatch
  BY <1>5 DEF TypeOK, Exits, ExitRecord, Wires, Attachments, Creates, Ops, Gens, OpenBatch, disk, app, control, pty, daemon, count, history, vars
<1>6. CASE Quit
  BY <1>6 DEF TypeOK, Exits, ExitRecord, Wires, Attachments, Creates, Ops, Gens, Quit, disk, app, control, pty, daemon, count, history, vars
<1>7. CASE CloseBatch
  <2>1. mem \in Project /\ file \in Project /\ stable \in Project
    BY DEF TypeOK
  <2>2. /\ file' \in Project /\ stable' \in Project /\ mem' \in Project
         /\ adopted' \in BOOLEAN /\ dirty' \in BOOLEAN /\ saveError' \in BOOLEAN
    BY <1>7, <2>1, SavesType DEF CloseBatch, TurnStart, TypeOK, disk, app
  <2>3. QED
    BY <1>7, <2>1, <2>2 DEF TypeOK, Exits, ExitRecord, Wires, Attachments, Creates, Ops, Gens, CloseBatch, Restored, TurnStart, disk, app, control, pty, daemon, count, history, vars
<1>8. CASE CloseAndQuit
  <2>1. mem \in Project /\ file \in Project /\ stable \in Project
    BY DEF TypeOK
  <2>2. /\ file' \in Project /\ stable' \in Project /\ mem' \in Project
         /\ adopted' \in BOOLEAN /\ dirty' \in BOOLEAN /\ saveError' \in BOOLEAN
    BY <1>8, <2>1, SavesType DEF CloseAndQuit, TypeOK, disk, app
  <2>3. Unheard \in SUBSET Creates
    BY CreatesType
  <2>4. /\ op' \in Ops /\ todo' \subseteq Chats /\ quitting' \in BOOLEAN
         /\ attachment' \in Attachments /\ reattach' \subseteq Chats
         /\ exits' \in Exits /\ answer' \in {None, "created", "refused"}
         /\ wire' \in Wires
    BY <1>8, EndsType DEF CloseAndQuit
  <2>5. QED
    BY <1>8, <2>1, <2>2, <2>3, <2>4 DEF TypeOK, Exits, ExitRecord, Wires, Attachments, Creates, Ops, Gens, CloseAndQuit, Restored, TurnStart, disk, app, control, pty, daemon, count, history, vars
<1>9. CASE Leave
  <2>1. mem \in Project /\ file \in Project /\ stable \in Project
    BY DEF TypeOK
  <2>2. /\ file' \in Project /\ stable' \in Project /\ mem' \in Project
         /\ adopted' \in BOOLEAN /\ dirty' \in BOOLEAN /\ saveError' \in BOOLEAN
    BY <1>9, <2>1 DEF Leave, Forgets, disk, TypeOK
  <2>3. Unheard \in SUBSET Creates
    BY CreatesType
  <2>4. /\ op' \in Ops /\ todo' \subseteq Chats /\ quitting' \in BOOLEAN
         /\ attachment' \in Attachments /\ reattach' \subseteq Chats
         /\ exits' \in Exits /\ answer' \in {None, "created", "refused"}
         /\ wire' \in Wires
    BY <1>9, EndsType DEF Leave
  <2>5. [c \in Chats |-> NoEntry] \in [Chats -> [generation : Gens, status : EntryStatus]]
    BY DEF NoEntry, Gens, EntryStatus
  <2>6. QED
    BY <1>9, <2>1, <2>2, <2>3, <2>4, <2>5 DEF TypeOK, Exits, ExitRecord, Wires, Attachments, Creates, Ops, Gens, Leave, Restored, TurnStart, disk, app, control, pty, daemon, count, history, vars
<1>10. CASE Crash
  <2>1. mem \in Project /\ file \in Project /\ stable \in Project
    BY DEF TypeOK
  <2>2. /\ file' \in Project /\ stable' \in Project /\ mem' \in Project
         /\ adopted' \in BOOLEAN /\ dirty' \in BOOLEAN /\ saveError' \in BOOLEAN
    BY <1>10, <2>1 DEF Crash, Forgets, disk, TypeOK
  <2>3. Unheard \in SUBSET Creates
    BY CreatesType
  <2>4. /\ op' \in Ops /\ todo' \subseteq Chats /\ quitting' \in BOOLEAN
         /\ attachment' \in Attachments /\ reattach' \subseteq Chats
         /\ exits' \in Exits /\ answer' \in {None, "created", "refused"}
         /\ wire' \in Wires
    BY <1>10, EndsType DEF Crash
  <2>5. [c \in Chats |-> NoEntry] \in [Chats -> [generation : Gens, status : EntryStatus]]
    BY DEF NoEntry, Gens, EntryStatus
  <2>6. QED
    BY AgentLifeAssumption, <1>10, <2>1, <2>2, <2>3, <2>4, <2>5 DEF TypeOK, Exits, ExitRecord, Wires, Attachments, Creates, Ops, Gens, Crash, Restored, TurnStart, disk, app, control, pty, daemon, count, history, vars
<1>11. CASE PowerFails
  <2>1. mem \in Project /\ file \in Project /\ stable \in Project
    BY DEF TypeOK
  <2>2. /\ file' \in Project /\ stable' \in Project /\ mem' \in Project
         /\ adopted' \in BOOLEAN /\ dirty' \in BOOLEAN /\ saveError' \in BOOLEAN
    BY <1>11, <2>1 DEF PowerFails, Forgets, disk, TypeOK
  <2>3. Unheard \in SUBSET Creates
    BY CreatesType
  <2>4. /\ op' \in Ops /\ todo' \subseteq Chats /\ quitting' \in BOOLEAN
         /\ attachment' \in Attachments /\ reattach' \subseteq Chats
         /\ exits' \in Exits /\ answer' \in {None, "created", "refused"}
         /\ wire' \in Wires
    BY <1>11, EndsType DEF PowerFails
  <2>5. [c \in Chats |-> NoEntry] \in [Chats -> [generation : Gens, status : EntryStatus]]
    BY DEF NoEntry, Gens, EntryStatus
  <2>6. QED
    BY AgentLifeAssumption, <1>11, <2>1, <2>2, <2>3, <2>4, <2>5 DEF TypeOK, Exits, ExitRecord, Wires, Attachments, Creates, Ops, Gens, PowerFails, Restored, TurnStart, disk, app, control, pty, daemon, count, history, vars
<1>12. CASE Disconnect
  <2>1. Unheard \in SUBSET Creates
    BY CreatesType
  <2>2. wire' \in Wires
    BY <1>12 DEF Disconnect, Cut, Wires
  <2>3. QED
    BY AgentLifeAssumption, <1>12, <2>1, <2>2 DEF TypeOK, Exits, ExitRecord, Wires, Attachments, Creates, Ops, Gens, Disconnect, Restored, TurnStart, disk, app, control, pty, daemon, count, history, vars
<1>13. CASE DaemonDies
  <2>1. [c \in Chats |-> NoEntry] \in [Chats -> [generation : Gens, status : EntryStatus]]
    BY DEF NoEntry, Gens, EntryStatus
  <2>2. wire' \in Wires
    BY <1>13 DEF DaemonDies, Cut, Wires
  <2>3. QED
    BY AgentLifeAssumption, <1>13, <2>1, <2>2 DEF TypeOK, Exits, ExitRecord, Wires, Attachments, Creates, Ops, Gens, DaemonDies, Restored, TurnStart, disk, app, control, pty, daemon, count, history, vars
<1>14. CASE Reconnect
  BY <1>14 DEF TypeOK, Exits, ExitRecord, Wires, Attachments, Creates, Ops, Gens, Reconnect, disk, app, control, pty, daemon, count, history, vars
<1>15. ASSUME NEW c \in Chats, RestoreAttached(c) PROVE TypeOK'
  <2>1. attachment' \in Attachments /\ wire' \in Wires /\ reattach' \subseteq Chats
    BY <1>15, AttachesType DEF RestoreAttached
  <2>2. mem' \in Project /\ dirty' \in BOOLEAN
    BY <1>15, QueriedMeans, BecomesType DEF RestoreAttached
  <2>3. QED
    BY <1>15, <2>1, <2>2 DEF TypeOK, Exits, ExitRecord, Wires, Attachments, Creates, Ops, Gens, RestoreAttached, Restored, TurnStart, disk, app, control, pty, daemon, count, history, vars
<1>16. ASSUME NEW c \in Chats, RestoreMissing(c) PROVE TypeOK'
  <2>1. attachment' \in Attachments /\ wire' \in Wires /\ reattach' \subseteq Chats
    BY <1>16, AttachesType DEF RestoreMissing
  <2>2. \A d \in Chats : BeingCreated(d) \in SUBSET Generations
    BY CreatesType
  <2>3. op' \in Ops
    BY <1>16, OpType DEF RestoreMissing
  <2>4. QED
    BY <1>16, <2>1, <2>2, <2>3 DEF TypeOK, Exits, ExitRecord, Wires, Attachments, Creates, Ops, Gens, RestoreMissing, Misses, Restored, TurnStart, disk, app, control, pty, daemon, count, history, vars
<1>17. ASSUME NEW c \in Chats, RestoreQuery(c) PROVE TypeOK'
  <2>1. mem \in Project /\ file \in Project /\ stable \in Project
    BY DEF TypeOK
  <2>2. Cleared(Reconciled(c), c) \in Project /\ Cleared(Unrecovered(c), c) \in Project
    BY <1>17, <2>1, ReconciledMeans, MarkedMeans, ClearedMeans DEF Unrecovered, ChatStatus
  <2>3. mem' \in Project /\ dirty' \in BOOLEAN
    BY <1>17, <2>2, BecomesType DEF RestoreQuery
  <2>4. op' \in Ops
    BY <1>17, OpType DEF RestoreQuery
  <2>5. QED
    BY <1>17, <2>1, <2>2, <2>3, <2>4 DEF TypeOK, Exits, ExitRecord, Wires, Attachments, Creates, Ops, Gens, RestoreQuery, Restored, TurnStart, disk, app, control, pty, daemon, count, history, vars
<1>18. ASSUME NEW c \in Chats, RestoreFailed(c) PROVE TypeOK'
  <2>1. mem \in Project /\ file \in Project /\ stable \in Project
    BY DEF TypeOK
  <2>2. mem' \in Project /\ dirty' \in BOOLEAN
    BY <1>18, <2>1, MarkedMeans, BecomesType DEF RestoreFailed, ChatStatus
  <2>3. attachment' \in Attachments /\ wire' \in Wires /\ reattach' \subseteq Chats
    BY <1>18, AttachesType DEF RestoreFailed
  <2>4. QED
    BY <1>18, <2>1, <2>2, <2>3 DEF TypeOK, Exits, ExitRecord, Wires, Attachments, Creates, Ops, Gens, RestoreFailed, Restored, TurnStart, disk, app, control, pty, daemon, count, history, vars
<1>19. ASSUME NEW c \in Chats, StartAttached(c) PROVE TypeOK'
  <2>1. attachment' \in Attachments /\ wire' \in Wires /\ reattach' \subseteq Chats
    BY <1>19, AttachesType DEF StartAttached
  <2>2. mem' \in Project /\ dirty' \in BOOLEAN
    BY <1>19, QueriedMeans, BecomesType DEF StartAttached
  <2>3. QED
    BY <1>19, <2>1, <2>2 DEF TypeOK, Exits, ExitRecord, Wires, Attachments, Creates, Ops, Gens, StartAttached, Restored, TurnStart, disk, app, control, pty, daemon, count, history, vars
<1>20. ASSUME NEW c \in Chats, StartMissing(c) PROVE TypeOK'
  <2>1. mem \in Project /\ file \in Project /\ stable \in Project
    BY DEF TypeOK
  <2>2. Cleared(Marked(mem, c, "failed"), c) \in Project
    BY <1>20, <2>1, MarkedMeans, ClearedMeans DEF ChatStatus
  <2>3. /\ file' \in Project /\ stable' \in Project /\ mem' \in Project
         /\ adopted' \in BOOLEAN /\ dirty' \in BOOLEAN /\ saveError' \in BOOLEAN
    BY <1>20, <2>2, SavesType DEF StartMissing
  <2>4. attachment' \in Attachments /\ wire' \in Wires /\ reattach' \subseteq Chats
    BY <1>20, AttachesType DEF StartMissing
  <2>5. \A d \in Chats : BeingCreated(d) \in SUBSET Generations
    BY CreatesType
  <2>6. op' \in Ops
    BY <1>20, OpType DEF StartMissing
  <2>7. QED
    BY <1>20, <2>1, <2>2, <2>3, <2>4, <2>5, <2>6 DEF TypeOK, Exits, ExitRecord, Wires, Attachments, Creates, Ops, Gens, StartMissing, Misses, Restored, TurnStart, disk, app, control, pty, daemon, count, history, vars
<1>21. ASSUME NEW c \in Chats, StartFailed(c) PROVE TypeOK'
  <2>1. mem \in Project /\ file \in Project /\ stable \in Project
    BY DEF TypeOK
  <2>2. mem' \in Project /\ dirty' \in BOOLEAN
    BY <1>21, <2>1, MarkedMeans, BecomesType DEF StartFailed, ChatStatus
  <2>3. attachment' \in Attachments /\ wire' \in Wires /\ reattach' \subseteq Chats
    BY <1>21, AttachesType DEF StartFailed
  <2>4. QED
    BY <1>21, <2>1, <2>2, <2>3 DEF TypeOK, Exits, ExitRecord, Wires, Attachments, Creates, Ops, Gens, StartFailed, Restored, TurnStart, disk, app, control, pty, daemon, count, history, vars
<1>22. ASSUME NEW c \in Chats, BeginGeneration(c) PROVE TypeOK'
  <2>1. mem \in Project /\ file \in Project /\ stable \in Project
    BY DEF TypeOK
  <2>2. mem[c] # Deleted
    BY <1>22 DEF BeginGeneration, Launches, Startable, Present, Shape
  <2>3. allocated' \in Generations /\ allocated' \in 0 .. LastGeneration
    BY <1>22 DEF BeginGeneration, Launches, TypeOK, Generations
  <2>4. [mem EXCEPT ![c].generation = allocated'] \in Project
    BY <2>1, <2>2, <2>3, AllocatedMeans
  <2>5. /\ file' \in Project /\ stable' \in Project /\ mem' \in Project
         /\ adopted' \in BOOLEAN /\ dirty' \in BOOLEAN /\ saveError' \in BOOLEAN
    BY <1>22, <2>4, SavesType DEF BeginGeneration, Launches
  <2>6. op' \in Ops
    BY <1>22, OpType DEF BeginGeneration, Launches, Launching
  <2>7. QED
    BY <1>22, <2>1, <2>2, <2>3, <2>4, <2>5, <2>6 DEF TypeOK, Exits, ExitRecord, Wires, Attachments, Creates, Ops, Gens, BeginGeneration, Launches, Restored, TurnStart, disk, app, control, pty, daemon, count, history, vars
<1>23. ASSUME NEW c \in Chats, SendCreate(c) PROVE TypeOK'
  <2>1. mem[c].generation \in Generations
    BY <1>23, DeletedIsNoChat DEF SendCreate, TypeOK, Shape, Project, Chat
  <2>2. op' \in Ops
    BY <1>23, OpType DEF SendCreate
  <2>3. [chat |-> c, generation |-> mem[c].generation, here |-> TRUE] \in Creates
    BY <1>23, <2>1 DEF Creates
  <2>4. creates' \in SUBSET Creates
    BY <1>23, <2>3 DEF SendCreate, TypeOK, Creates
  <2>5. attachment' \in Attachments
    BY <1>23 DEF SendCreate, TypeOK, Attachments
  <2>6. QED
    BY <1>23, <2>1, <2>2, <2>3, <2>4, <2>5 DEF TypeOK, Exits, ExitRecord, Wires, Attachments, Creates, Ops, Gens, SendCreate, Restored, TurnStart, disk, app, control, pty, daemon, count, history, vars
<1>24. ASSUME NEW c \in Chats, SendFails(c) PROVE TypeOK'
  <2>1. mem \in Project /\ file \in Project /\ stable \in Project
    BY DEF TypeOK
  <2>2. mem' \in Project /\ dirty' \in BOOLEAN
    BY <1>24, <2>1, MarkedMeans, BecomesType DEF SendFails, ChatStatus
  <2>3. op' \in Ops
    BY <1>24, OpType DEF SendFails
  <2>4. attachment' \in Attachments /\ wire' \in Wires /\ reattach' \subseteq Chats
    BY <1>24, AttachesType DEF SendFails, TypeOK, Attachments, Wires
  <2>5. QED
    BY <1>24, <2>1, <2>2, <2>3, <2>4 DEF TypeOK, Exits, ExitRecord, Wires, Attachments, Creates, Ops, Gens, SendFails, Restored, TurnStart, disk, app, control, pty, daemon, count, history, vars
<1>25. ASSUME NEW c \in Chats, CreateDone(c) PROVE TypeOK'
  <2>1. mem \in Project /\ file \in Project /\ stable \in Project
    BY DEF TypeOK
  <2>2. mem' \in Project /\ dirty' \in BOOLEAN
    BY <1>25, <2>1, MarkedMeans, BecomesType DEF CreateDone, ChatStatus
  <2>3. attachment' \in Attachments /\ wire' \in Wires /\ reattach' \subseteq Chats
    BY <1>25, AttachesType DEF CreateDone
  <2>4. op' \in Ops
    BY <1>25, OpType DEF CreateDone
  <2>5. QED
    BY <1>25, <2>1, <2>2, <2>3, <2>4 DEF TypeOK, Exits, ExitRecord, Wires, Attachments, Creates, Ops, Gens, CreateDone, Restored, TurnStart, disk, app, control, pty, daemon, count, history, vars
<1>26. ASSUME NEW c \in Chats, CreateFails(c) PROVE TypeOK'
  <2>1. mem \in Project /\ file \in Project /\ stable \in Project
    BY DEF TypeOK
  <2>2. mem' \in Project /\ dirty' \in BOOLEAN
    BY <1>26, <2>1, MarkedMeans, BecomesType DEF CreateFails, ChatStatus
  <2>3. attachment' \in Attachments /\ wire' \in Wires /\ reattach' \subseteq Chats
    BY <1>26, AttachesType DEF CreateFails
  <2>4. op' \in Ops
    BY <1>26, OpType DEF CreateFails
  <2>5. QED
    BY <1>26, <2>1, <2>2, <2>3, <2>4 DEF TypeOK, Exits, ExitRecord, Wires, Attachments, Creates, Ops, Gens, CreateFails, Restored, TurnStart, disk, app, control, pty, daemon, count, history, vars
<1>27. ASSUME NEW c \in Chats, ReceiveExit(c) PROVE TypeOK'
  <2>1. wire[c] \in [code : ExitCodes, generation : Generations]
    BY <1>27 DEF ReceiveExit, TypeOK
  <2>2. [chat |-> c, code |-> wire[c].code, generation |-> wire[c].generation]
         \in ExitRecord
    BY <1>27, <2>1 DEF Gens, ExitRecord
  <2>3. exits' \in Exits
    BY <1>27, <2>2, ExitsMean DEF ReceiveExit
  <2>4. wire' \in Wires /\ attachment' \in Attachments
    BY <1>27 DEF ReceiveExit, TypeOK, Wires, Attachments
  <2>5. QED
    BY <1>27, <2>1, <2>2, <2>3, <2>4 DEF TypeOK, Exits, ExitRecord, Wires, Attachments, Creates, Ops, Gens, ReceiveExit, Restored, TurnStart, disk, app, control, pty, daemon, count, history, vars
<1>28. ASSUME NEW c \in Chats, Reattached(c) PROVE TypeOK'
  <2>1. attachment' \in Attachments /\ wire' \in Wires /\ reattach' \subseteq Chats
    BY <1>28, AttachesType DEF Reattached, Draining
  <2>2. QED
    BY <1>28, <2>1 DEF TypeOK, Exits, ExitRecord, Wires, Attachments, Creates, Ops, Gens, Reattached, Draining, Restored, TurnStart, disk, app, control, pty, daemon, count, history, vars
<1>29. ASSUME NEW c \in Chats, ReattachMissing(c) PROVE TypeOK'
  <2>1. mem \in Project /\ file \in Project /\ stable \in Project
    BY DEF TypeOK
  <2>2. attachment' \in Attachments /\ wire' \in Wires /\ reattach' \subseteq Chats
    BY <1>29, AttachesType DEF ReattachMissing, Draining
  <2>3. \A d \in Chats : BeingCreated(d) \in SUBSET Generations
    BY CreatesType
  <2>4. [chat |-> c, code |-> "failed", generation |-> mem[c].generation]
         \in ExitRecord
    BY <1>29, <2>1, DeletedIsNoChat DEF Gens, ExitCodes, Project, Chat, ExitRecord
  <2>5. exits' \in Exits
    BY <1>29, <2>4, ExitsMean DEF ReattachMissing, Draining
  <2>6. overtaken' \in SUBSET Generations
    BY <1>29, <2>3 DEF ReattachMissing, Draining, Misses, TypeOK
  <2>7. QED
    BY <1>29, <2>1, <2>2, <2>3, <2>4, <2>5, <2>6 DEF TypeOK, Exits, ExitRecord, Wires, Attachments, Creates, Ops, Gens, ReattachMissing, Draining, Restored, TurnStart, disk, app, control, pty, daemon, count, history, vars
<1>30. ASSUME NEW c \in Chats, PollStatus(c) PROVE TypeOK'
  <2>1. mem \in Project /\ file \in Project /\ stable \in Project
    BY DEF TypeOK
  <2>2. \A t \in Reports : ChatStatusOf(t) \in ChatStatus
    BY AgentLifeAssumption DEF ChatStatusOf, ChatStatus
  <2>3. mem' \in Project /\ dirty' \in BOOLEAN
    BY <1>30, <2>1, <2>2, MarkedMeans, QueriedMeans, BecomesType DEF PollStatus
  <2>4. \A t \in Reports : [entry[c] EXCEPT !.status = t] \in [generation : Gens, status : EntryStatus]
    BY <1>30 DEF TypeOK, Gens
  <2>5. entry' \in [Chats -> [generation : Gens, status : EntryStatus]]
    BY <1>30, <2>4 DEF PollStatus, TypeOK, Gens
  <2>6. QED
    BY <1>30, <2>1, <2>2, <2>3, <2>4, <2>5 DEF TypeOK, Exits, ExitRecord, Wires, Attachments, Creates, Ops, Gens, PollStatus, Restored, TurnStart, disk, app, control, pty, daemon, count, history, vars
<1>31. ASSUME NEW c \in Chats, DeleteChat(c) PROVE TypeOK'
  <2>1. mem \in Project /\ file \in Project /\ stable \in Project
    BY DEF TypeOK
  <2>2. [mem EXCEPT ![c] = Deleted] \in Project
    BY <1>31, <2>1 DEF Project
  <2>3. mem' \in Project /\ dirty' \in BOOLEAN
    BY <1>31, <2>2, BecomesType DEF DeleteChat
  <2>4. QED
    BY <1>31, <2>1, <2>2, <2>3, ZenonT(40) DEF TypeOK, Exits, ExitRecord, Wires, Attachments, Creates, Ops, Gens, DeleteChat, Restored, TurnStart, disk, app, control, pty, daemon, count, history, vars
<1>32. ASSUME NEW c \in Chats, AgentExits(c) PROVE TypeOK'
  <2>1. session[c] \in Generations
    BY <1>32 DEF AgentExits, TypeOK
  <2>2. \A t \in EntryStatus : [entry[c] EXCEPT !.status = t] \in [generation : Gens, status : EntryStatus]
    BY <1>32 DEF TypeOK, Gens
  <2>3. entry' \in [Chats -> [generation : Gens, status : EntryStatus]]
    BY <1>32, <2>2 DEF AgentExits, TypeOK, Gens, EntryStatus
  <2>4. wire' \in Wires
    BY <1>32, <2>1 DEF AgentExits, TypeOK, Wires, ExitCodes
  <2>5. QED
    BY <1>32, <2>1, <2>2, <2>3, <2>4 DEF TypeOK, Exits, ExitRecord, Wires, Attachments, Creates, Ops, Gens, AgentExits, Restored, TurnStart, disk, app, control, pty, daemon, count, history, vars
<1>33. ASSUME NEW r \in creates, Created(r) PROVE TypeOK'
  <2>1. r \in Creates
    BY <1>33 DEF TypeOK, Creates
  <2>2. [generation |-> r.generation, status |-> "unknown"] \in [generation : Gens, status : EntryStatus]
    BY <2>1 DEF Creates, Gens, EntryStatus
  <2>3. creates' \in SUBSET Creates
    BY <1>33 DEF Created, TypeOK, Creates
  <2>4. session' \in [Chats -> Gens] /\ journals' \subseteq Generations
    BY <1>33, <2>1 DEF Created, TypeOK, Creates, Gens
  <2>5. entry' \in [Chats -> [generation : Gens, status : EntryStatus]]
    BY <1>33, <2>1, <2>2 DEF Created, TypeOK, Gens, Creates
  <2>6. QED
    BY <1>33, <2>1, <2>2, <2>3, <2>4, <2>5 DEF TypeOK, Exits, ExitRecord, Wires, Attachments, Creates, Ops, Gens, Created, Restored, TurnStart, disk, app, control, pty, daemon, count, history, vars
<1>34. ASSUME NEW r \in creates, Refused(r) PROVE TypeOK'
  BY <1>34 DEF TypeOK, Exits, ExitRecord, Wires, Attachments, Creates, Ops, Gens, Refused, disk, app, control, pty, daemon, count, history, vars
<1>35. CASE UNCHANGED vars
  BY <1>35 DEF TypeOK, Exits, ExitRecord, Wires, Attachments, Creates, Ops, Gens, disk, app, control, pty, daemon, count, history, vars
<1>36. CASE Turn
  BY <1>36 DEF TypeOK, Exits, ExitRecord, Wires, Attachments, Creates, Ops, Gens, Turn, TurnStart, Restored, disk, app, control, pty, daemon, count, history, vars
<1>37. ASSUME NEW c \in Chats, GenerationFails(c) PROVE TypeOK'
  <2>1. mem \in Project /\ file \in Project /\ stable \in Project
    BY DEF TypeOK
  <2>2. mem' \in Project /\ dirty' \in BOOLEAN
    BY <1>37, <2>1, MarkedMeans, BecomesType DEF GenerationFails, ChatStatus
  <2>3. op' \in Ops
    BY <1>37, OpType DEF GenerationFails
  <2>4. QED
    BY <1>37, <2>1, <2>2, <2>3 DEF TypeOK, Exits, ExitRecord, Wires, Attachments, Creates, Ops, Gens, GenerationFails, Restored, disk, app, control, pty, daemon, count, history, vars
<1>38. ASSUME NEW c \in Chats, SendAttached(c) PROVE TypeOK'
  <2>1. mem \in Project /\ file \in Project /\ stable \in Project
    BY DEF TypeOK
  <2>2. mem' \in Project /\ dirty' \in BOOLEAN
    BY <1>38, <2>1, MarkedMeans, BecomesType DEF SendAttached, ChatStatus
  <2>3. op' \in Ops
    BY <1>38, OpType DEF SendAttached
  <2>4. attachment' \in Attachments /\ wire' \in Wires /\ reattach' \subseteq Chats
    BY <1>38, AttachesType DEF SendAttached
  <2>5. QED
    BY <1>38, <2>1, <2>2, <2>3, <2>4 DEF TypeOK, Exits, ExitRecord, Wires, Attachments, Creates, Ops, Gens, SendAttached, Restored, disk, app, control, pty, daemon, count, history, vars
<1>39. ASSUME NEW c \in Chats, SendMissing(c) PROVE TypeOK'
  <2>1. attachment' \in Attachments /\ wire' \in Wires /\ reattach' \subseteq Chats
    BY <1>39, AttachesType DEF SendMissing
  <2>2. \A d \in Chats : BeingCreated(d) \in SUBSET Generations
    BY CreatesType
  <2>3. op' \in Ops
    BY <1>39, OpType DEF SendMissing, control
  <2>4. overtaken' \in SUBSET Generations
    BY <1>39, <2>2 DEF SendMissing, Misses, TypeOK
  <2>5. QED
    BY <1>39, <2>1, <2>3, <2>4 DEF TypeOK, Exits, ExitRecord, Wires, Attachments, Creates, Ops, Gens, SendMissing, disk, app, control, pty, daemon, count, history, vars
<1>40. QED
  BY <1>1, <1>2, <1>3, <1>4, <1>5, <1>6, <1>7, <1>8, <1>9, <1>10, <1>11, <1>12, <1>13, <1>14, <1>15, <1>16, <1>17, <1>18, <1>19, <1>20, <1>21, <1>22, <1>23, <1>24, <1>25, <1>26, <1>27, <1>28, <1>29, <1>30, <1>31, <1>32, <1>33, <1>34, <1>35, <1>36, <1>37, <1>38, <1>39 DEF Next

LEMMA ShapeStep == TypeOK /\ Shape /\ [Next]_vars => Shape'
<1> SUFFICES ASSUME TypeOK, Shape, [Next]_vars PROVE Shape'
  OBVIOUS
<1> USE Constants
<1>1. CASE Load
  <2>1. \A d \in Owned(mem') : mem'[d].generation # NoGeneration
    BY <1>1 DEF Load, TurnStart, Owned
  <2>2. QED
    BY <1>1, <2>1 DEF Shape, TypeOK, Idle, Load, TurnStart, disk, app, control, pty, daemon, count, history, vars
<1>2. CASE LoadFails
  BY <1>2 DEF Shape, TypeOK, Idle, LoadFails, disk, app, control, pty, daemon, count, history, vars
<1>3. CASE SaveContent
  BY <1>3 DEF Shape, TypeOK, Idle, SaveContent, Drained, Saves, SaveFails, disk, app, control, pty, daemon, count, history, vars
<1>4. CASE ApplyExit
  BY <1>4 DEF Shape, TypeOK, Idle, ApplyExit, Draining, TurnStart, Up, disk, app, control, pty, daemon, count, history, vars
<1>5. CASE OpenBatch
  BY <1>5 DEF Shape, TypeOK, Idle, OpenBatch, Drained, disk, app, control, pty, daemon, count, history, vars
<1>6. CASE Quit
  BY <1>6 DEF Shape, TypeOK, Idle, Quit, Free, Drained, disk, app, control, pty, daemon, count, history, vars
<1>7. CASE CloseBatch
  BY <1>7 DEF Shape, TypeOK, Idle, CloseBatch, TurnStart, Saves, SaveFails, disk, app, control, pty, daemon, count, history, vars
<1>8. CASE CloseAndQuit
  BY <1>8 DEF Shape, TypeOK, Idle, CloseAndQuit, Ends, disk, app, control, pty, daemon, count, history, vars
<1>9. CASE Leave
  BY <1>9 DEF Shape, TypeOK, Idle, Leave, Ends, Forgets, disk, app, control, pty, daemon, count, history, vars
<1>10. CASE Crash
  BY <1>10 DEF Shape, TypeOK, Idle, Crash, Ends, Forgets, disk, app, control, pty, daemon, count, history, vars
<1>11. CASE PowerFails
  BY <1>11 DEF Shape, TypeOK, Idle, PowerFails, Ends, Forgets, disk, app, control, pty, daemon, count, history, vars
<1>12. CASE Disconnect
  BY <1>12 DEF Shape, TypeOK, Idle, Disconnect, disk, app, control, pty, daemon, count, history, vars
<1>13. CASE DaemonDies
  BY <1>13 DEF Shape, TypeOK, Idle, DaemonDies, disk, app, control, pty, daemon, count, history, vars
<1>14. CASE Reconnect
  BY <1>14 DEF Shape, TypeOK, Idle, Reconnect, disk, app, control, pty, daemon, count, history, vars
<1>15. ASSUME NEW c \in Chats, RestoreAttached(c) PROVE Shape'
  <2>1. SameGenerations(mem, mem')
    BY <1>15, QueriedMeans, BecomesType DEF RestoreAttached
  <2>2. QED
    BY <1>15, <2>1 DEF Shape, TypeOK, Idle, RestoreAttached, Restored, TurnStart, SameGenerations, disk, app, control, pty, daemon, count, history, vars
<1>16. ASSUME NEW c \in Chats, RestoreMissing(c) PROVE Shape'
  BY <1>16 DEF Shape, TypeOK, Idle, RestoreMissing, Restored, TurnStart, SameGenerations, disk, app, control, pty, daemon, count, history, vars
<1>17. ASSUME NEW c \in Chats, RestoreQuery(c) PROVE Shape'
  <2>1. mem \in Project
    BY DEF TypeOK
  <2>2. \A d \in Chats \ {c} : mem'[d].generation = mem[d].generation
    
    <3>1. Marked(mem, c, "failed") \in Project /\ Reconciled(c) \in Project
      BY <1>17, <2>1, MarkedMeans, ReconciledMeans DEF ChatStatus
    <3>2. mem' = Cleared(Reconciled(c), c) \/ mem' = Cleared(Marked(mem, c, "failed"), c)
      BY <1>17 DEF RestoreQuery, Becomes, Unrecovered
    <3>3. \A d \in Chats \ {c} : /\ Reconciled(c)[d] = mem[d]
                                /\ Marked(mem, c, "failed")[d] = mem[d]
      BY <1>17, <2>1, MarkedMeans, ReconciledMeans DEF ChatStatus
    <3>4. QED
      BY <1>17, <3>1, <3>2, <3>3, ClearedMeans
  <2>3. QED
    BY <1>17, <2>1, <2>2 DEF Shape, TypeOK, Idle, RestoreQuery, Restored, TurnStart, SameGenerations, disk, app, control, pty, daemon, count, history, vars
<1>18. ASSUME NEW c \in Chats, RestoreFailed(c) PROVE Shape'
  <2>1. mem \in Project
    BY DEF TypeOK
  <2>2. SameGenerations(mem, mem')
    BY <1>18, <2>1, MarkedMeans, BecomesType DEF RestoreFailed, ChatStatus
  <2>3. QED
    BY <1>18, <2>1, <2>2 DEF Shape, TypeOK, Idle, RestoreFailed, Restored, TurnStart, SameGenerations, disk, app, control, pty, daemon, count, history, vars
<1>19. ASSUME NEW c \in Chats, StartAttached(c) PROVE Shape'
  BY <1>19 DEF Shape, TypeOK, Idle, StartAttached, Startable, Free, Drained, disk, app, control, pty, daemon, count, history, vars
<1>20. ASSUME NEW c \in Chats, StartMissing(c) PROVE Shape'
  <2>1. mem \in Project
    BY DEF TypeOK
  <2>2. mem' = Cleared(Marked(mem, c, "failed"), c)
    BY <1>20 DEF StartMissing, Saves, SaveFails
  <2>3. Marked(mem, c, "failed") \in Project /\ Marked(mem, c, "failed")[c] # Deleted
    BY <1>20, <2>1, MarkedMeans, ZenonT(40) DEF StartMissing, Startable, Present, SameGenerations, ChatStatus
  <2>4. mem'[c].generation = NoGeneration /\ mem'[c] # Deleted
    BY <1>20, <2>2, <2>3, ClearedMeans
  <2>5. QED
    BY <1>20, <2>1, <2>2, <2>3, <2>4 DEF Shape, TypeOK, Idle, StartMissing, Startable, Free, Drained, disk, app, control, pty, daemon, count, history, vars
<1>21. ASSUME NEW c \in Chats, StartFailed(c) PROVE Shape'
  BY <1>21 DEF Shape, TypeOK, Idle, StartFailed, Startable, Free, Drained, disk, app, control, pty, daemon, count, history, vars
<1>22. ASSUME NEW c \in Chats, BeginGeneration(c) PROVE Shape'
  <2>1. mem \in Project
    BY DEF TypeOK
  <2>2. mem[c] # Deleted
    BY <1>22 DEF BeginGeneration, Launches, Startable, Present, Shape
  <2>3. allocated' \in Generations
    BY <1>22 DEF BeginGeneration, Launches, TypeOK, Generations
  <2>4. mem' = [mem EXCEPT ![c].generation = allocated']
    BY <1>22 DEF BeginGeneration, Launches, Saves, SaveFails
  <2>5. mem'[c].generation # NoGeneration
    BY <2>1, <2>2, <2>3, <2>4, AllocatedMeans
  <2>6. \A d \in Chats \ {c} : mem'[d] = mem[d]
    BY <2>1, <2>2, <2>3, <2>4, AllocatedMeans
  <2>7. op' = Idle \/ op' = [kind |-> "send", chat |-> c]
    BY <1>22 DEF BeginGeneration, Launches, Launching
  <2>8. phase' = phase /\ todo' = todo /\ phase \notin {"down", "quit"}
    BY <1>22 DEF BeginGeneration, Launches, Startable, Free, Drained, Shape, Idle
  <2>9. \A d \in todo : mem'[d].generation = mem[d].generation \/ mem'[d].generation # NoGeneration
    BY <2>5, <2>6 DEF TypeOK
  <2>10. QED
    BY <1>22, <2>1, <2>2, <2>3, <2>4, <2>5, <2>6, <2>7, <2>8, <2>9 DEF Shape, TypeOK, Idle
<1>23. ASSUME NEW c \in Chats, SendCreate(c) PROVE Shape'
  BY <1>23 DEF Shape, TypeOK, Idle, SendCreate, disk, app, control, pty, daemon, count, history, vars
<1>24. ASSUME NEW c \in Chats, SendFails(c) PROVE Shape'
  <2>1. mem \in Project
    BY DEF TypeOK
  <2>2. SameGenerations(mem, mem')
    BY <1>24, <2>1, MarkedMeans, BecomesType DEF SendFails, ChatStatus
  <2>3. QED
    BY <1>24, <2>1, <2>2 DEF Shape, TypeOK, Idle, SendFails, SameGenerations, disk, app, control, pty, daemon, count, history, vars
<1>25. ASSUME NEW c \in Chats, CreateDone(c) PROVE Shape'
  <2>1. mem \in Project
    BY DEF TypeOK
  <2>2. SameGenerations(mem, mem')
    BY <1>25, <2>1, MarkedMeans, BecomesType DEF CreateDone, ChatStatus
  <2>3. QED
    BY <1>25, <2>1, <2>2 DEF Shape, TypeOK, Idle, CreateDone, SameGenerations, disk, app, control, pty, daemon, count, history, vars
<1>26. ASSUME NEW c \in Chats, CreateFails(c) PROVE Shape'
  <2>1. mem \in Project
    BY DEF TypeOK
  <2>2. SameGenerations(mem, mem')
    BY <1>26, <2>1, MarkedMeans, BecomesType DEF CreateFails, ChatStatus
  <2>3. QED
    BY <1>26, <2>1, <2>2 DEF Shape, TypeOK, Idle, CreateFails, SameGenerations, disk, app, control, pty, daemon, count, history, vars
<1>27. ASSUME NEW c \in Chats, ReceiveExit(c) PROVE Shape'
  BY <1>27 DEF Shape, TypeOK, Idle, ReceiveExit, disk, app, control, pty, daemon, count, history, vars
<1>28. ASSUME NEW c \in Chats, Reattached(c) PROVE Shape'
  BY <1>28 DEF Shape, TypeOK, Idle, Reattached, Draining, Startable, Free, Drained, disk, app, control, pty, daemon, count, history, vars
<1>29. ASSUME NEW c \in Chats, ReattachMissing(c) PROVE Shape'
  BY <1>29 DEF Shape, TypeOK, Idle, ReattachMissing, Draining, Startable, Free, Drained, disk, app, control, pty, daemon, count, history, vars
<1>30. ASSUME NEW c \in Chats, PollStatus(c) PROVE Shape'
  BY <1>30 DEF Shape, TypeOK, Idle, PollStatus, Drained, disk, app, control, pty, daemon, count, history, vars
<1>31. ASSUME NEW c \in Chats, DeleteChat(c) PROVE Shape'
  BY <1>31 DEF Shape, TypeOK, Idle, DeleteChat, Startable, Free, Drained, disk, app, control, pty, daemon, count, history, vars
<1>32. ASSUME NEW c \in Chats, AgentExits(c) PROVE Shape'
  BY <1>32 DEF Shape, TypeOK, Idle, AgentExits, disk, app, control, pty, daemon, count, history, vars
<1>33. ASSUME NEW r \in creates, Created(r) PROVE Shape'
  BY <1>33 DEF Shape, TypeOK, Idle, Created, disk, app, control, pty, daemon, count, history, vars
<1>34. ASSUME NEW r \in creates, Refused(r) PROVE Shape'
  BY <1>34 DEF Shape, TypeOK, Idle, Refused, disk, app, control, pty, daemon, count, history, vars
<1>35. CASE UNCHANGED vars
  BY <1>35 DEF Shape, disk, app, control, pty, daemon, count, history, vars
<1>36. CASE Turn
  BY <1>36 DEF Shape, TypeOK, Idle, Turn, TurnStart, Drained, disk, app, control, pty, daemon, count, history, vars
<1>37. ASSUME NEW c \in Chats, GenerationFails(c) PROVE Shape'
  <2>1. mem \in Project
    BY DEF TypeOK
  <2>2. SameGenerations(mem, mem')
    BY <1>37, <2>1, MarkedMeans, BecomesType DEF GenerationFails, Becomes, ChatStatus
  <2>3. QED
    BY <1>37, <2>1, <2>2 DEF Shape, TypeOK, Idle, GenerationFails, SameGenerations, disk, app, control, pty, daemon, count, history, vars
<1>38. ASSUME NEW c \in Chats, SendAttached(c) PROVE Shape'
  <2>1. mem \in Project
    BY DEF TypeOK
  <2>2. SameGenerations(mem, mem')
    BY <1>38, <2>1, MarkedMeans, BecomesType DEF SendAttached, Becomes, ChatStatus
  <2>3. QED
    BY <1>38, <2>1, <2>2 DEF Shape, TypeOK, Idle, SendAttached, SameGenerations, disk, app, control, pty, daemon, count, history, vars
<1>39. ASSUME NEW c \in Chats, SendMissing(c) PROVE Shape'
  BY <1>39 DEF Shape, TypeOK, Idle, SendMissing, disk, app, control, pty, daemon, count, history, vars
<1>40. QED
  BY <1>1, <1>2, <1>3, <1>4, <1>5, <1>6, <1>7, <1>8, <1>9, <1>10, <1>11, <1>12, <1>13, <1>14, <1>15, <1>16, <1>17, <1>18, <1>19, <1>20, <1>21, <1>22, <1>23, <1>24, <1>25, <1>26, <1>27, <1>28, <1>29, <1>30, <1>31, <1>32, <1>33, <1>34, <1>35, <1>36, <1>37, <1>38, <1>39 DEF Next

\* Every variable of the client, its file and the daemon keeps its type, through
\* crashes, failed saves and lost connections.
THEOREM TypeCorrect == Spec => []TypeOK
<1>1. TypeOK /\ Shape /\ [Next]_vars => (TypeOK /\ Shape)'
  BY TypeStep, ShapeStep
<1>2. QED
  BY <1>1, InitType, PTL DEF Spec

LEMMA AlwaysShape == Spec => []Shape
<1>1. TypeOK /\ Shape /\ [Next]_vars => (TypeOK /\ Shape)'
  BY TypeStep, ShapeStep
<1>2. QED
  BY <1>1, InitType, PTL DEF Spec
-----------------------------------------------------------------------------
(* The dirty flag.                                                         *)

Running == phase \notin {"down", "quit"}

\* A change, with the disk as it is.
LEMMA ChangeKeepsClean ==
    ASSUME TypeOK, CleanIsDurable, NEW p, Becomes(p), UNCHANGED disk,
           phase # "down", phase' # "quit"
    PROVE  CleanIsDurable'
<1>1. CASE dirty
  BY <1>1 DEF Becomes, CleanIsDurable
<1>2. CASE ~ dirty /\ p # mem
  BY <1>2 DEF Becomes, CleanIsDurable
<1>3. CASE ~ dirty /\ p = mem
  <2>1. mem' = mem
    BY <1>3 DEF Becomes
  <2>2. QED
    BY <1>3, <2>1 DEF CleanIsDurable, disk
<1>4. QED
  BY <1>1, <1>2, <1>3

LEMMA SaveKeepsClean ==
    ASSUME NEW p, Saves(p) \/ (SaveFails(p) /\ phase' # "quit")
    PROVE  CleanIsDurable'
BY DEF CleanIsDurable, Saves, SaveFails

LEMMA CleanStep == TypeOK /\ Shape /\ CleanIsDurable /\ [Next]_vars => CleanIsDurable'
<1> SUFFICES ASSUME TypeOK, Shape, CleanIsDurable, [Next]_vars PROVE CleanIsDurable'
  OBVIOUS
<1>1. CASE Load
  BY <1>1 DEF CleanIsDurable, Load, TurnStart, disk, app, control, pty, daemon, count, history, vars
<1>2. CASE LoadFails
  BY <1>2 DEF CleanIsDurable, LoadFails, disk, app, control, pty, daemon, count, history, vars
<1>3. CASE SaveContent
  BY <1>3, SaveKeepsClean DEF SaveContent, disk, app, control, Drained
<1>4. CASE ApplyExit
  BY <1>4, ChangeKeepsClean DEF ApplyExit, Draining, TurnStart, disk, control
<1>5. CASE OpenBatch
  BY <1>5 DEF CleanIsDurable, OpenBatch, disk, app, control, pty, daemon, count, history, vars, Drained
<1>6. CASE Quit
  BY <1>6 DEF CleanIsDurable, Quit, disk, app, control, pty, daemon, count, history, vars, Free, Drained
<1>7. CASE CloseBatch
  BY <1>7, SaveKeepsClean DEF CloseBatch, TurnStart, disk, app, control, CleanIsDurable
<1>8. CASE CloseAndQuit
  BY <1>8, SaveKeepsClean DEF CloseAndQuit, disk, app, control, CleanIsDurable
<1>9. CASE Leave
  BY <1>9 DEF CleanIsDurable, Leave, disk, app, control, pty, daemon, count, history, vars
<1>10. CASE Crash
  BY <1>10 DEF CleanIsDurable, Crash, disk, app, control, pty, daemon, count, history, vars
<1>11. CASE PowerFails
  BY <1>11 DEF CleanIsDurable, PowerFails, disk, app, control, pty, daemon, count, history, vars
<1>12. CASE Disconnect
  BY <1>12 DEF CleanIsDurable, Disconnect, disk, app, control, pty, daemon, count, history, vars
<1>13. CASE DaemonDies
  BY <1>13 DEF CleanIsDurable, DaemonDies, disk, app, control, pty, daemon, count, history, vars
<1>14. CASE Reconnect
  BY <1>14 DEF CleanIsDurable, Reconnect, disk, app, control, pty, daemon, count, history, vars
<1>15. ASSUME NEW c \in Chats, RestoreAttached(c) PROVE CleanIsDurable'
  BY <1>15, ChangeKeepsClean DEF RestoreAttached, disk, control, Restored, TurnStart
<1>16. ASSUME NEW c \in Chats, RestoreMissing(c) PROVE CleanIsDurable'
  BY <1>16 DEF CleanIsDurable, RestoreMissing, disk, app, control, pty, daemon, count, history, vars, Restored, TurnStart
<1>17. ASSUME NEW c \in Chats, RestoreQuery(c) PROVE CleanIsDurable'
  BY <1>17, ChangeKeepsClean DEF RestoreQuery, disk, control, Restored, TurnStart, Idle, Shape
<1>18. ASSUME NEW c \in Chats, RestoreFailed(c) PROVE CleanIsDurable'
  BY <1>18, ChangeKeepsClean DEF RestoreFailed, disk, control, Restored, TurnStart
<1>19. ASSUME NEW c \in Chats, StartAttached(c) PROVE CleanIsDurable'
  BY <1>19, ChangeKeepsClean DEF StartAttached, disk, control, Startable, Free, Drained
<1>20. ASSUME NEW c \in Chats, StartMissing(c) PROVE CleanIsDurable'
  BY <1>20, SaveKeepsClean DEF StartMissing, disk, app, control, Startable, Free, Drained, Shape, Idle
<1>21. ASSUME NEW c \in Chats, StartFailed(c) PROVE CleanIsDurable'
  BY <1>21, ChangeKeepsClean DEF StartFailed, disk, control, Startable, Free, Drained
<1>22. ASSUME NEW c \in Chats, BeginGeneration(c) PROVE CleanIsDurable'
  <2>1. phase' = phase /\ phase # "quit"
    BY <1>22 DEF BeginGeneration, Launches, Startable, Free, Drained, Shape, Idle
  <2> DEFINE p == [mem EXCEPT ![c].generation = allocated']
  <2>2. Saves(p) \/ SaveFails(p)
    BY <1>22 DEF BeginGeneration, Launches
  <2> HIDE DEF p
  <2>3. QED
    BY <2>1, <2>2, SaveKeepsClean
<1>23. ASSUME NEW c \in Chats, SendCreate(c) PROVE CleanIsDurable'
  BY <1>23 DEF CleanIsDurable, SendCreate, disk, app, control, pty, daemon, count, history, vars
<1>24. ASSUME NEW c \in Chats, SendFails(c) PROVE CleanIsDurable'
  BY <1>24, ChangeKeepsClean DEF SendFails, disk, control, Idle, Shape
<1>25. ASSUME NEW c \in Chats, CreateDone(c) PROVE CleanIsDurable'
  BY <1>25, ChangeKeepsClean DEF CreateDone, disk, control, Idle, Shape
<1>26. ASSUME NEW c \in Chats, CreateFails(c) PROVE CleanIsDurable'
  BY <1>26, ChangeKeepsClean DEF CreateFails, disk, control, Idle, Shape
<1>27. ASSUME NEW c \in Chats, ReceiveExit(c) PROVE CleanIsDurable'
  BY <1>27 DEF CleanIsDurable, ReceiveExit, disk, app, control, pty, daemon, count, history, vars
<1>28. ASSUME NEW c \in Chats, Reattached(c) PROVE CleanIsDurable'
  BY <1>28 DEF CleanIsDurable, Reattached, Draining, disk, app, control, pty, daemon, count, history, vars
<1>29. ASSUME NEW c \in Chats, ReattachMissing(c) PROVE CleanIsDurable'
  BY <1>29 DEF CleanIsDurable, ReattachMissing, Draining, disk, app, control, pty, daemon, count, history, vars
<1>30. ASSUME NEW c \in Chats, PollStatus(c) PROVE CleanIsDurable'
  BY <1>30, ChangeKeepsClean DEF PollStatus, disk, control, Drained
<1>31. ASSUME NEW c \in Chats, DeleteChat(c) PROVE CleanIsDurable'
  BY <1>31, ChangeKeepsClean DEF DeleteChat, disk, control, Startable, Free, Drained
<1>32. ASSUME NEW c \in Chats, AgentExits(c) PROVE CleanIsDurable'
  BY <1>32 DEF CleanIsDurable, AgentExits, disk, app, control, pty, daemon, count, history, vars
<1>33. ASSUME NEW r \in creates, Created(r) PROVE CleanIsDurable'
  BY <1>33 DEF CleanIsDurable, Created, disk, app, control, pty, daemon, count, history, vars
<1>34. ASSUME NEW r \in creates, Refused(r) PROVE CleanIsDurable'
  BY <1>34 DEF CleanIsDurable, Refused, disk, app, control, pty, daemon, count, history, vars
<1>35. CASE UNCHANGED vars
  BY <1>35 DEF CleanIsDurable, disk, app, control, pty, daemon, count, history, vars
<1>36. CASE Turn
  BY <1>36 DEF CleanIsDurable, Turn, TurnStart, Drained, disk, app
<1>37. ASSUME NEW c \in Chats, GenerationFails(c) PROVE CleanIsDurable'
  BY <1>37, ChangeKeepsClean DEF GenerationFails, Launches, Startable, Free, Drained, disk, control, Idle, Shape
<1>38. ASSUME NEW c \in Chats, SendAttached(c) PROVE CleanIsDurable'
  BY <1>38, ChangeKeepsClean DEF SendAttached, disk, control, Idle, Shape
<1>39. ASSUME NEW c \in Chats, SendMissing(c) PROVE CleanIsDurable'
  BY <1>39 DEF CleanIsDurable, SendMissing, disk, app, control
<1>40. QED
  BY <1>1, <1>2, <1>3, <1>4, <1>5, <1>6, <1>7, <1>8, <1>9, <1>10, <1>11, <1>12, <1>13, <1>14, <1>15, <1>16, <1>17, <1>18, <1>19, <1>20, <1>21, <1>22, <1>23, <1>24, <1>25, <1>26, <1>27, <1>28, <1>29, <1>30, <1>31, <1>32, <1>33, <1>34, <1>35, <1>36, <1>37, <1>38, <1>39 DEF Next

\* save_if_dirty_with and every mutator: while the flag is clear, what is shown, the
\* file and what a power failure leaves of it agree, and a quit leaves nothing unsaved.
THEOREM CleanIsSaved == Spec => []CleanIsDurable
<1>1. Init => CleanIsDurable
  BY DEF Init, CleanIsDurable
<1>2. TypeOK /\ Shape /\ CleanIsDurable /\ [Next]_vars => CleanIsDurable'
  BY CleanStep
<1>3. QED
  BY <1>1, <1>2, TypeCorrect, AlwaysShape, PTL DEF Spec
=============================================================================
