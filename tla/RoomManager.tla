---------------------------- MODULE RoomManager ----------------------------
(***************************************************************************)
(* Rooms (room/mod.rs): the owner map from documents to room tasks, for    *)
(* several documents and sockets.  A socket looks into the map, reads the  *)
(* database without the map's lock, looks again, spawns, sends its join    *)
(* and waits for the answer; tasks end and leave the map by themselves, or *)
(* are displaced by a control, a departure or the shutdown.  What a room   *)
(* does with its document is Room's.                                       *)
(***************************************************************************)
EXTENDS Naturals, Sequences, FiniteSets, FiniteSetTheorems, TLAPS

CONSTANTS
    Documents, Sockets, Tasks,
    MaxResident,   \* max_resident_rooms
    RoomQueue,     \* ROOM_QUEUE_CAPACITY
    ControlQueue,  \* CONTROL_QUEUE_CAPACITY
    MaxEvents      \* bound: deletions, restorations, revocations, faults

None == "none"

RoomManagerAssumption ==
    /\ {MaxResident, RoomQueue, ControlQueue} \subseteq Nat \ {0} /\ MaxEvents \in Nat
    /\ None \notin Tasks

VARIABLES
    live,     \* live[d]: the document exists and is not deleted
    map,      \* the owner map: a task or None
    task,     \* task[t]: its document, where it is, the join it is answering
    conns,    \* conns[t]: its sockets
    rx,       \* rx[t]: joins in its queue
    control,  \* control[t]: its priority queue
    why,      \* why[t]: what took its entry out of the map
    socket,   \* socket[s]: where it is, its document and its task
    owed,     \* documents deleted whose control is to come
    events

tasks == <<task, conns, rx, control, why>>
roomsVars == <<live, map, tasks, socket, owed, events>>

Unused == [doc |-> None, at |-> "unused", admit |-> None, wedged |-> FALSE]
Idle == [at |-> "idle", doc |-> None, task |-> None]

\* Some documents of the database are deleted when the server starts.
RoomsInit ==
    /\ live \in [Documents -> BOOLEAN] /\ map = [d \in Documents |-> None]
    /\ task = [t \in Tasks |-> Unused] /\ conns = [t \in Tasks |-> {}]
    /\ rx = [t \in Tasks |-> <<>>] /\ control = [t \in Tasks |-> <<>>]
    /\ why = [t \in Tasks |-> None] /\ socket = [s \in Sockets |-> Idle]
    /\ owed = {} /\ events = 0

Event == events < MaxEvents /\ events' = events + 1
Running(t) == task[t].at \in {"hydrate", "open", "dead", "refusing", "closing"}
Closed(t) == task[t].at \in {"returned", "ended"}          \* tx.is_closed()
Mapped(t) == \E d \in Documents : map[d] = t
Resident == {d \in Documents : map[d] # None}
Entry(d) == IF map[d] # None /\ ~Closed(map[d]) THEN map[d] ELSE None

\* A closed entry is removed on the way.
Pruned(d) == IF Entry(d) = None THEN [map EXCEPT ![d] = None] ELSE map
Full(m) == Cardinality({d \in Documents : m[d] # None}) >= MaxResident

----------------------------------------------------------------------------
(* join *)

\* entry_tx, the first look.
Look(s, d) ==
    /\ socket[s] = Idle /\ map' = Pruned(d)
    /\ socket' = [socket EXCEPT ![s] =
           IF Entry(d) # None THEN [at |-> "send", doc |-> d, task |-> Entry(d)]
           ELSE IF Full(map') THEN Idle
           ELSE [at |-> "read", doc |-> d, task |-> None]]
    /\ UNCHANGED <<live, tasks, owed, events>>

Read(s) ==
    /\ socket[s].at = "read"
    /\ socket' = [socket EXCEPT ![s] = IF live[@.doc] THEN [@ EXCEPT !.at = "insert"] ELSE Idle]
    /\ UNCHANGED <<live, map, tasks, owed, events>>

Spawn(s, d, t, rest) ==
    /\ task[t] = Unused /\ task' = [task EXCEPT ![t] = [@ EXCEPT !.doc = d, !.at = "hydrate"]]
    /\ map' = [rest EXCEPT ![d] = t]
    /\ socket' = [socket EXCEPT ![s] = [@ EXCEPT !.at = "send", !.task = t]]

\* Mutant: what the first look found is trusted.
InsertEntryUnseen(s) ==
    /\ socket[s].at = "insert" /\ \E t \in Tasks : Spawn(s, socket[s].doc, t, map)
    /\ UNCHANGED <<live, conns, rx, control, why, owed, events>>

\* entry_tx, the second look.
InsertEntry(s) ==
    LET d == socket[s].doc
    IN  /\ socket[s].at = "insert"
        /\ \/ /\ Entry(d) # None /\ UNCHANGED <<map, task>>
              /\ socket' = [socket EXCEPT ![s] = [@ EXCEPT !.at = "send", !.task = Entry(d)]]
           \/ /\ Entry(d) = None /\ Full(Pruned(d)) /\ map' = Pruned(d)
              /\ socket' = [socket EXCEPT ![s] = Idle] /\ UNCHANGED task
           \/ /\ Entry(d) = None /\ ~Full(Pruned(d))
              /\ \E t \in Tasks : Spawn(s, d, t, Pruned(d))
        /\ UNCHANGED <<live, conns, rx, control, why, owed, events>>

\* tx.try_send: refused when the queue is full or the task gone.
Send(s) ==
    LET t == socket[s].task
    IN  /\ socket[s].at = "send"
        /\ IF Closed(t) \/ Len(rx[t]) >= RoomQueue
           THEN socket' = [socket EXCEPT ![s] = Idle] /\ UNCHANGED rx
           ELSE /\ socket' = [socket EXCEPT ![s] = [@ EXCEPT !.at = "wait"]]
                /\ rx' = [rx EXCEPT ![t] = Append(@, s)]
        /\ UNCHANGED <<live, map, task, conns, control, why, owed, events>>

\* ROOM_REPLY_TIMEOUT, or the task dropped the answer.
JoinEnds(s) ==
    /\ socket[s].at = "wait" /\ socket' = [socket EXCEPT ![s] = Idle]
    /\ UNCHANGED <<live, map, tasks, owed, events>>

----------------------------------------------------------------------------
(* The room's task *)

Polls(t) == ~task[t].wedged /\ why[t] # "aborted"

\* The read at the start may fail.
Hydrate(t) ==
    /\ task[t].at = "hydrate" /\ Polls(t)
    /\ \/ live[task[t].doc] /\ task' = [task EXCEPT ![t].at = "open"] /\ UNCHANGED events
       \/ ~live[task[t].doc] /\ task' = [task EXCEPT ![t].at = "refusing"] /\ UNCHANGED events
       \/ live[task[t].doc] /\ Event /\ task' = [task EXCEPT ![t].at = "refusing"]
    /\ UNCHANGED <<live, map, conns, rx, control, why, socket, owed>>

\* The socket waits for an answer of the task.
Waits(t, s) == socket[s].at = "wait" /\ socket[s].task = t

\* The control queue comes first.
Listens(t) == control[t] = <<>> /\ task[t].admit = None /\ rx[t] # <<>>

\* RoomMsg::Join: the socket is in, then the answer is sent.
AdmitBegins(t) ==
    LET s == Head(rx[t])
    IN  /\ task[t].at = "open" /\ Polls(t) /\ Listens(t)
        /\ Waits(t, s) /\ rx' = [rx EXCEPT ![t] = Tail(@)]
        /\ task' = [task EXCEPT ![t].admit = s] /\ conns' = [conns EXCEPT ![t] = @ \cup {s}]
        /\ UNCHANGED <<live, map, control, why, socket, owed, events>>

\* A socket whose answer is not heard is taken out again.
AdmitEnds(t) ==
    LET s == task[t].admit
    IN  /\ s # None /\ Polls(t) /\ task' = [task EXCEPT ![t].admit = None]
        /\ IF Waits(t, s) THEN socket' = [socket EXCEPT ![s].at = "joined"] /\ UNCHANGED conns
           ELSE conns' = [conns EXCEPT ![t] = @ \ {s}] /\ UNCHANGED socket
        /\ UNCHANGED <<live, map, rx, control, why, owed, events>>

\* A join that is refused, or whose socket no longer waits.
Refuse(t) ==
    LET s == Head(rx[t])
    IN  /\ Polls(t)
        /\ \/ task[t].at = "refusing" /\ rx[t] # <<>>
           \/ task[t].at = "dead" /\ Listens(t)
           \/ task[t].at = "open" /\ Listens(t) /\ ~Waits(t, s)
        /\ rx' = [rx EXCEPT ![t] = Tail(@)]
        /\ socket' = IF Waits(t, s) THEN [socket EXCEPT ![s] = Idle] ELSE socket
        /\ UNCHANGED <<live, map, task, conns, control, why, owed, events>>

\* Room::control; a refusing task reads no control.
Control(t) ==
    LET c == Head(control[t])
    IN  /\ task[t].at \in {"open", "dead"} /\ Polls(t) /\ task[t].admit = None
        /\ control[t] # <<>> /\ control' = [control EXCEPT ![t] = Tail(@)]
        /\ task' = IF c = "deleted" THEN [task EXCEPT ![t].at = "dead"] ELSE task
        /\ conns' = [conns EXCEPT ![t] =
               CASE c = "deleted" -> {} [] c \in Sockets -> @ \ {c} [] OTHER -> @]
        /\ socket' = IF c \in Sockets /\ socket[c].at = "leaving" /\ socket[c].task = t
                     THEN [socket EXCEPT ![c] = Idle] ELSE socket
        /\ UNCHANGED <<live, map, rx, why, owed, events>>

\* A failed commit closes the sockets and the room stays.
Poison(t) ==
    /\ task[t].at = "open" /\ Polls(t) /\ task[t].admit = None /\ Event
    /\ task' = [task EXCEPT ![t].at = "dead"] /\ conns' = [conns EXCEPT ![t] = {}]
    /\ UNCHANGED <<live, map, rx, control, why, socket, owed>>

\* The task stops answering.
Wedge(t) ==
    /\ Running(t) /\ Polls(t) /\ Event /\ task' = [task EXCEPT ![t].wedged = TRUE]
    /\ UNCHANGED <<live, map, conns, rx, control, why, socket, owed>>

\* An empty room is idle: it compacts, its queue still open.
IdleExit(t) ==
    /\ task[t].at = "open" /\ Polls(t) /\ conns[t] = {} /\ rx[t] = <<>> /\ control[t] = <<>>
    /\ task' = [task EXCEPT ![t].at = "closing"]
    /\ UNCHANGED <<live, map, conns, rx, control, why, socket, owed, events>>

\* run returns: queued joins are dropped.
Return(t) ==
    /\ task[t].at = "closing" /\ Polls(t) /\ task' = [task EXCEPT ![t].at = "returned"]
    /\ rx' = [rx EXCEPT ![t] = <<>>] /\ control' = [control EXCEPT ![t] = <<>>]
    /\ UNCHANGED <<live, map, conns, why, socket, owed, events>>

\* The entry goes if it is still the task's.
Cleanup(t) ==
    /\ task[t].at = "returned" /\ task' = [task EXCEPT ![t].at = "ended"]
    /\ map' = IF map[task[t].doc] = t THEN [map EXCEPT ![task[t].doc] = None] ELSE map
    /\ UNCHANGED <<live, conns, rx, control, why, socket, owed, events>>

\* An aborted task ends where it waits.
AbortLands(t) ==
    /\ why[t] = "aborted" /\ Running(t)
    /\ task' = [task EXCEPT ![t] = [Unused EXCEPT !.doc = task[t].doc, !.at = "ended"]]
    /\ rx' = [rx EXCEPT ![t] = <<>>] /\ control' = [control EXCEPT ![t] = <<>>]
    /\ conns' = [conns EXCEPT ![t] = {}]
    /\ UNCHANGED <<live, map, why, socket, owed, events>>

----------------------------------------------------------------------------
(* leave, control, shutdown *)

Evict(t) ==
    /\ map' = [map EXCEPT ![task[t].doc] = None] /\ why' = [why EXCEPT ![t] = "aborted"]

\* leave: the socket asks the task it joined, if that has the entry still.
Leave(s) ==
    LET t == socket[s].task
    IN  /\ socket[s].at = "joined"
        /\ \/ /\ map[socket[s].doc] # t /\ socket' = [socket EXCEPT ![s] = Idle]
              /\ UNCHANGED <<map, why, control>>
           \/ /\ map[socket[s].doc] = t /\ ~Closed(t) /\ Len(control[t]) < ControlQueue
              /\ control' = [control EXCEPT ![t] = Append(@, s)]
              /\ socket' = [socket EXCEPT ![s].at = "leaving"] /\ UNCHANGED <<map, why>>
           \/ /\ map[socket[s].doc] = t /\ (Closed(t) \/ Len(control[t]) >= ControlQueue)
              /\ Evict(t) /\ socket' = [socket EXCEPT ![s] = Idle] /\ UNCHANGED control
        /\ UNCHANGED <<live, task, conns, rx, owed, events>>

\* Mutant: the room is left in the map.
LeaveTimeoutMild(s) ==
    /\ socket[s].at = "leaving" /\ socket' = [socket EXCEPT ![s] = Idle]
    /\ UNCHANGED <<live, map, tasks, owed, events>>

\* No answer in time: the room is evicted, unless another took its place.
LeaveTimeout(s) ==
    LET t == socket[s].task
    IN  /\ socket[s].at = "leaving" /\ socket' = [socket EXCEPT ![s] = Idle]
        /\ IF map[socket[s].doc] = t THEN Evict(t) ELSE UNCHANGED <<map, why>>
        /\ UNCHANGED <<live, task, conns, rx, control, owed, events>>

Delete(d) ==
    /\ live[d] /\ Event /\ live' = [live EXCEPT ![d] = FALSE] /\ owed' = owed \cup {d}
    /\ UNCHANGED <<map, tasks, socket>>

RestoreDocument(d) ==
    /\ ~live[d] /\ Event /\ live' = [live EXCEPT ![d] = TRUE]
    /\ UNCHANGED <<map, tasks, socket, owed>>

\* dispatch_control to the entries of ds: a task whose queue is full or closed
\* is aborted.  A deletion takes the entry out of the map.
Dispatch(ds, c) ==
    LET targets == {map[d] : d \in {e \in ds : map[e] # None}}
        failed == {t \in targets : Closed(t) \/ Len(control[t]) >= ControlQueue}
        gone == IF c = "deleted" THEN targets ELSE failed
    IN  /\ control' = [t \in Tasks |->
               IF t \in targets \ failed THEN Append(control[t], c) ELSE control[t]]
        /\ map' = [d \in Documents |-> IF map[d] \in gone THEN None ELSE map[d]]
        /\ why' = [t \in Tasks |-> IF t \in failed THEN "aborted"
                                   ELSE IF t \in gone THEN "deleted" ELSE why[t]]
        /\ UNCHANGED <<live, task, conns, rx, socket>>

DispatchDeleted(d) == d \in owed /\ Dispatch({d}, "deleted") /\ owed' = owed \ {d} /\ UNCHANGED events
Revoke == Event /\ Dispatch(Documents, "revoked") /\ UNCHANGED owed

\* shutdown: the map is drained.
Shutdown ==
    /\ Resident # {} /\ Event /\ map' = [d \in Documents |-> None]
    /\ why' = [t \in Tasks |-> IF Mapped(t) THEN "drained" ELSE why[t]]
    /\ UNCHANGED <<live, task, conns, rx, control, socket, owed>>

\* RoomMsg::Shutdown is behind the joins; a refusing task answers it too.
ShutdownHeard(t) ==
    /\ why[t] = "drained" /\ Polls(t) /\ rx[t] = <<>> /\ task[t].admit = None
    /\ task[t].at = "refusing" \/ (task[t].at \in {"open", "dead"} /\ control[t] = <<>>)
    /\ task' = [task EXCEPT ![t].at = "returned"] /\ conns' = [conns EXCEPT ![t] = {}]
    /\ UNCHANGED <<live, map, rx, control, why, socket, owed, events>>

ShutdownTimeout(t) ==
    /\ why[t] = "drained" /\ Running(t) /\ why' = [why EXCEPT ![t] = "aborted"]
    /\ UNCHANGED <<live, map, task, conns, rx, control, socket, owed, events>>

RoomsNext ==
    \/ \E s \in Sockets : \/ \E d \in Documents : Look(s, d)
                          \/ Read(s) \/ InsertEntry(s) \/ Send(s) \/ JoinEnds(s)
                          \/ Leave(s) \/ LeaveTimeout(s)
    \/ \E t \in Tasks : \/ Hydrate(t) \/ AdmitBegins(t) \/ AdmitEnds(t) \/ Refuse(t) \/ Control(t)
                        \/ Poison(t) \/ Wedge(t) \/ IdleExit(t) \/ Return(t) \/ Cleanup(t)
                        \/ AbortLands(t) \/ ShutdownHeard(t) \/ ShutdownTimeout(t)
    \/ \E d \in Documents : Delete(d) \/ RestoreDocument(d) \/ DispatchDeleted(d)
    \/ Revoke \/ Shutdown

RoomsSpec == RoomsInit /\ [][RoomsNext]_roomsVars

----------------------------------------------------------------------------
\* Sockets that find no entry at the same time share one task, and no task that
\* ends takes a successor's entry: a task that runs is in the map, or something
\* took it out on purpose.
NoOrphan ==
    \A t \in Tasks : Running(t) /\ ~Mapped(t) => why[t] # None

\* The map never holds more rooms than it may.
CapacityKept == Cardinality(Resident) <= MaxResident

\* Both together: who is in the map, and how many.
OwnersExact == NoOrphan /\ CapacityKept

\* A room that no longer answers does not stay in the map once a socket leaves.
WedgedRoomLeaves ==
    \A t \in Tasks : \A s \in Sockets :
        (task[t].wedged /\ Mapped(t) /\ socket[s].task = t /\ socket[s].at = "leaving")
        ~> ~Mapped(t)

----------------------------------------------------------------------------
(* Proofs: NoOrphan and CapacityKept for any documents, sockets, tasks and  *)
(* limits.                                                                  *)

TaskState ==
    {x \in [doc: Documents \cup {None}, admit: Sockets \cup {None}, wedged: BOOLEAN,
            at: {"unused", "hydrate", "open", "dead", "refusing", "closing", "returned", "ended"}] :
        IF x.at = "unused" THEN x.admit = None ELSE x.doc \in Documents}
SocketState ==
    {x \in [doc: Documents \cup {None}, task: Tasks \cup {None},
            at: {"idle", "read", "insert", "send", "wait", "joined", "leaving"}] :
        /\ x.at # "idle" => x.doc \in Documents
        /\ x.at \in {"send", "wait", "joined", "leaving"} => x.task \in Tasks}

\* A socket that sends, waits, is in or leaves has a document and a task.
TypeOK ==
    /\ live \in [Documents -> BOOLEAN] /\ map \in [Documents -> Tasks \cup {None}]
    /\ task \in [Tasks -> TaskState] /\ conns \in [Tasks -> SUBSET Sockets]
    /\ rx \in [Tasks -> Seq(Sockets)]
    /\ control \in [Tasks -> Seq(Sockets \cup {"deleted", "revoked"})]
    /\ why \in [Tasks -> {None, "aborted", "deleted", "drained"}]
    /\ socket \in [Sockets -> SocketState] /\ owed \subseteq Documents /\ events \in 0..MaxEvents

\* An entry is a task of its document.
Owned == \A d \in Documents : map[d] # None => task[map[d]].doc = d /\ task[map[d]].at # "unused"

OwnerInv == TypeOK /\ Owned /\ NoOrphan /\ IsFiniteSet(Resident) /\ CapacityKept

\* A step that adds no entry and starts no task, and says why a task that runs on
\* has lost its entry.
Keeps ==
    /\ \A d \in Documents : map'[d] # None => map'[d] = map[d]
    /\ \A t \in Tasks :
         /\ task[t].at # "unused" => task'[t].at # "unused" /\ task'[t].doc = task[t].doc
         /\ Running(t)' => Running(t)
         /\ why[t] # None => why'[t] # None
    /\ \A d \in Documents, t \in Tasks :
         map[d] = t /\ map'[d] = None /\ Running(t)' => why'[t] # None

\* What a task and a socket that are in use hold.
LEMMA Shapes ==
  ASSUME TypeOK
  PROVE  /\ \A t \in Tasks : task[t] \in TaskState
         /\ \A t \in Tasks : task[t].at # "unused" => task[t].doc \in Documents
         /\ \A t \in Tasks : task[t].admit # None => task[t].at # "unused" /\ task[t].admit \in Sockets
         /\ \A s \in Sockets : socket[s] \in SocketState
         /\ \A s \in Sockets : socket[s].at \in {"send", "wait", "joined", "leaving"} =>
              socket[s].doc \in Documents /\ socket[s].task \in Tasks
         /\ \A s \in Sockets : socket[s].at \in {"read", "insert"} => socket[s].doc \in Documents
  BY DEF TypeOK, TaskState, SocketState

\* What a task that is in use may become.
LEMMA TaskRecords ==
  ASSUME NEW x \in TaskState, x.at # "unused"
  PROVE  /\ \A a \in {"open", "dead", "refusing", "closing", "returned", "ended"} :
              LET y == [x EXCEPT !.at = a]
              IN  y \in TaskState /\ y.at = a /\ y.doc = x.doc
         /\ \A a \in Sockets \cup {None} :
              LET y == [x EXCEPT !.admit = a]
              IN  y \in TaskState /\ y.at = x.at /\ y.doc = x.doc
         /\ LET y == [x EXCEPT !.wedged = TRUE]
            IN  y \in TaskState /\ y.at = x.at /\ y.doc = x.doc
         /\ LET y == [Unused EXCEPT !.doc = x.doc, !.at = "ended"]
            IN  y \in TaskState /\ y.at = "ended" /\ y.doc = x.doc
  BY DEF TaskState, Unused

\* What a socket may become.
LEMMA SocketRecords ==
  /\ Idle \in SocketState
  /\ \A d \in Documents : [at |-> "read", doc |-> d, task |-> None] \in SocketState
  /\ \A d \in Documents, t \in Tasks : [at |-> "send", doc |-> d, task |-> t] \in SocketState
  /\ \A x \in SocketState : x.at = "read" => [x EXCEPT !.at = "insert"] \in SocketState
  /\ \A x \in SocketState, t \in Tasks : x.at = "insert"
        => [x EXCEPT !.at = "send", !.task = t] \in SocketState
  /\ \A x \in SocketState, a \in {"wait", "joined", "leaving"} :
        x.at \in {"send", "wait", "joined", "leaving"} => [x EXCEPT !.at = a] \in SocketState
  BY DEF SocketState, Idle

\* The map, looked up and pruned of a closed entry.
LEMMA LookedUp ==
  ASSUME TypeOK, NEW d \in Documents
  PROVE  /\ Entry(d) \in Tasks \cup {None}
         /\ Pruned(d) \in [Documents -> Tasks \cup {None}]
         /\ \A e \in Documents : Pruned(d)[e] = map[e] \/ Pruned(d)[e] = None
         /\ \A e \in Documents : map[e] # None /\ Pruned(d)[e] # map[e] => e = d /\ Closed(map[e])
         /\ Entry(d) = None => Pruned(d)[d] = None
  BY DEF TypeOK, Entry, Pruned

\* A step of a socket keeps the types.
LEMMA TypedSocket ==
  ASSUME RoomManagerAssumption, TypeOK, NEW s \in Sockets,
         \/ \E d \in Documents : Look(s, d)
         \/ Read(s) \/ InsertEntry(s) \/ Send(s) \/ JoinEnds(s) \/ Leave(s) \/ LeaveTimeout(s)
  PROVE  TypeOK'
<1> USE DEF tasks
<1>1. ASSUME NEW d \in Documents, Look(s, d) PROVE TypeOK'
  <2>1. socket' \in [Sockets -> SocketState]
    BY <1>1, LookedUp, SocketRecords DEF TypeOK, Look
  <2> QED BY <1>1, <2>1, LookedUp DEF TypeOK, Look
<1>2. CASE Read(s)
  BY <1>2, Shapes, SocketRecords DEF TypeOK, Read
<1>3. CASE InsertEntry(s)
  <2> DEFINE d == socket[s].doc
  <2>1. d \in Documents /\ socket[s] \in SocketState /\ socket[s].at = "insert"
    BY <1>3, Shapes DEF InsertEntry
  <2>2. CASE Entry(d) # None /\ UNCHANGED <<map, task>>
             /\ socket' = [socket EXCEPT ![s] = [@ EXCEPT !.at = "send", !.task = Entry(d)]]
    BY <1>3, <2>1, <2>2, LookedUp, SocketRecords DEF TypeOK, InsertEntry
  <2>3. CASE map' = Pruned(d) /\ socket' = [socket EXCEPT ![s] = Idle] /\ UNCHANGED task
    BY <1>3, <2>1, <2>3, LookedUp, SocketRecords DEF TypeOK, InsertEntry
  <2>4. ASSUME NEW t \in Tasks, Spawn(s, d, t, Pruned(d)) PROVE TypeOK'
    <3>1. map' \in [Documents -> Tasks \cup {None}]
      BY <2>1, <2>4, LookedUp DEF Spawn, TypeOK
    <3>2. task' \in [Tasks -> TaskState]
      <4>1. [Unused EXCEPT !.doc = d, !.at = "hydrate"] \in TaskState
        BY <2>1 DEF TaskState, Unused
      <4> QED BY <2>4, <4>1 DEF Spawn, TypeOK
    <3>3. socket' \in [Sockets -> SocketState]
      BY <2>1, <2>4, SocketRecords DEF Spawn, TypeOK
    <3> QED BY <1>3, <3>1, <3>2, <3>3 DEF TypeOK, InsertEntry
  <2> QED BY <1>3, <2>2, <2>3, <2>4 DEF InsertEntry
<1>4. CASE Send(s)
  <2>1. socket' \in [Sockets -> SocketState]
    <3>1. [socket[s] EXCEPT !.at = "wait"] \in SocketState /\ Idle \in SocketState
      BY <1>4, Shapes, SocketRecords DEF Send
    <3> QED BY <1>4, <3>1 DEF TypeOK, Send
  <2>2. rx' \in [Tasks -> Seq(Sockets)]
    <3>1. socket[s].task \in Tasks
      BY <1>4, Shapes DEF Send
    <3>2. Append(rx[socket[s].task], s) \in Seq(Sockets)
      BY <3>1 DEF TypeOK
    <3> QED BY <1>4, <3>1, <3>2 DEF TypeOK, Send
  <2> QED BY <1>4, <2>1, <2>2 DEF TypeOK, Send
<1>5. CASE JoinEnds(s)
  BY <1>5, SocketRecords DEF TypeOK, JoinEnds
<1>6. CASE Leave(s)
  <2>1. socket' \in [Sockets -> SocketState]
    <3>1. [socket[s] EXCEPT !.at = "leaving"] \in SocketState /\ Idle \in SocketState
      BY <1>6, Shapes, SocketRecords DEF Leave
    <3> QED BY <1>6, <3>1 DEF TypeOK, Leave
  <2>2. control' \in [Tasks -> Seq(Sockets \cup {"deleted", "revoked"})]
    <3>1. socket[s].task \in Tasks
      BY <1>6, Shapes DEF Leave
    <3>2. Append(control[socket[s].task], s) \in Seq(Sockets \cup {"deleted", "revoked"})
      BY <3>1 DEF TypeOK
    <3> QED BY <1>6, <3>1, <3>2 DEF TypeOK, Leave
  <2>3. map' \in [Documents -> Tasks \cup {None}]
        /\ why' \in [Tasks -> {None, "aborted", "deleted", "drained"}]
    BY <1>6, Shapes DEF TypeOK, Leave, Evict
  <2> QED BY <1>6, <2>1, <2>2, <2>3 DEF TypeOK, Leave
<1>7. CASE LeaveTimeout(s)
  BY <1>7, Shapes, SocketRecords DEF TypeOK, LeaveTimeout, Evict
<1> QED BY <1>1, <1>2, <1>3, <1>4, <1>5, <1>6, <1>7

\* A step of a task keeps the types.
LEMMA TypedTask ==
  ASSUME RoomManagerAssumption, TypeOK, NEW t \in Tasks,
         \/ Hydrate(t) \/ AdmitBegins(t) \/ AdmitEnds(t) \/ Refuse(t) \/ Control(t)
         \/ Poison(t) \/ Wedge(t) \/ IdleExit(t) \/ Return(t) \/ Cleanup(t)
         \/ AbortLands(t) \/ ShutdownHeard(t) \/ ShutdownTimeout(t)
  PROVE  TypeOK'
<1> USE DEF tasks
<1>1. task[t] \in TaskState
  BY Shapes
<1>2. \A x \in TaskState : [task EXCEPT ![t] = x] \in [Tasks -> TaskState]
  BY DEF TypeOK
<1>3. CASE Hydrate(t)
  <2>1. task' \in [Tasks -> TaskState]
    <3>1. \A a \in {"open", "refusing"} : [task[t] EXCEPT !.at = a] \in TaskState
      BY <1>1, <1>3, TaskRecords DEF Hydrate
    <3> QED BY <1>2, <1>3, <3>1 DEF Hydrate
  <2>2. events' \in 0..MaxEvents
    BY <1>3 DEF Hydrate, Event, TypeOK, RoomManagerAssumption
  <2> QED BY <1>3, <2>1, <2>2 DEF TypeOK, Hydrate
<1>4. CASE AdmitBegins(t)
  <2>1. Head(rx[t]) \in Sockets /\ Tail(rx[t]) \in Seq(Sockets)
    BY <1>4 DEF AdmitBegins, Listens, TypeOK
  <2>2. task' \in [Tasks -> TaskState]
    BY <1>1, <1>2, <1>4, <2>1, TaskRecords DEF AdmitBegins
  <2> QED BY <1>4, <2>1, <2>2 DEF TypeOK, AdmitBegins
<1>5. CASE AdmitEnds(t)
  <2>1. task[t].at # "unused" /\ task[t].admit \in Sockets
    BY <1>5, Shapes DEF AdmitEnds
  <2>2. task' \in [Tasks -> TaskState]
    BY <1>1, <1>2, <1>5, <2>1, TaskRecords DEF AdmitEnds
  <2>3. socket' \in [Sockets -> SocketState]
    <3>1. CASE Waits(t, task[t].admit)
      <4>1. [socket[task[t].admit] EXCEPT !.at = "joined"] \in SocketState
        BY <2>1, <3>1, Shapes, SocketRecords DEF Waits
      <4> QED BY <1>5, <3>1, <4>1 DEF AdmitEnds, TypeOK
    <3>2. CASE ~Waits(t, task[t].admit)
      BY <1>5, <3>2 DEF AdmitEnds, TypeOK
    <3> QED BY <3>1, <3>2
  <2>4. conns' \in [Tasks -> SUBSET Sockets]
    BY <1>5 DEF AdmitEnds, TypeOK
  <2> QED BY <1>5, <2>2, <2>3, <2>4 DEF TypeOK, AdmitEnds
<1>6. CASE Refuse(t)
  <2>1. rx[t] # <<>>
    BY <1>6 DEF Refuse, Listens
  <2>2. Tail(rx[t]) \in Seq(Sockets)
    BY <2>1 DEF TypeOK
  <2>3. socket' \in [Sockets -> SocketState]
    BY <1>6, SocketRecords DEF Refuse, TypeOK
  <2> QED BY <1>6, <2>2, <2>3 DEF TypeOK, Refuse
<1>7. CASE Control(t)
  <2> DEFINE c == Head(control[t])
  <2>1. Tail(control[t]) \in Seq(Sockets \cup {"deleted", "revoked"})
    BY <1>7 DEF Control, TypeOK
  <2>2. task' \in [Tasks -> TaskState]
    BY <1>1, <1>2, <1>7, TaskRecords DEF Control, TypeOK
  <2>3. socket' \in [Sockets -> SocketState]
    BY <1>7, SocketRecords DEF Control, TypeOK
  <2>4. conns' \in [Tasks -> SUBSET Sockets]
    BY <1>7 DEF Control, TypeOK
  <2> QED BY <1>7, <2>1, <2>2, <2>3, <2>4 DEF TypeOK, Control
<1>8. CASE Poison(t)
  <2>1. task' \in [Tasks -> TaskState]
    BY <1>1, <1>2, <1>8, TaskRecords DEF Poison
  <2> QED BY <1>8, <2>1 DEF Poison, Event, TypeOK, RoomManagerAssumption
<1>9. CASE Wedge(t)
  <2>1. task' \in [Tasks -> TaskState]
    BY <1>1, <1>2, <1>9, TaskRecords DEF Wedge, Running
  <2> QED BY <1>9, <2>1 DEF Wedge, Event, TypeOK, RoomManagerAssumption
<1>10. CASE IdleExit(t)
  <2>1. task' \in [Tasks -> TaskState]
    BY <1>1, <1>2, <1>10, TaskRecords DEF IdleExit
  <2> QED BY <1>10, <2>1 DEF IdleExit, TypeOK
<1>11. CASE Return(t)
  <2>1. task' \in [Tasks -> TaskState]
    BY <1>1, <1>2, <1>11, TaskRecords DEF Return
  <2> QED BY <1>11, <2>1 DEF Return, TypeOK
<1>12. CASE Cleanup(t)
  <2>1. task' \in [Tasks -> TaskState]
    BY <1>1, <1>2, <1>12, TaskRecords DEF Cleanup
  <2> QED BY <1>12, <2>1 DEF Cleanup, TypeOK
<1>13. CASE AbortLands(t)
  <2>1. task' \in [Tasks -> TaskState]
    BY <1>1, <1>2, <1>13, TaskRecords DEF AbortLands, Running
  <2> QED BY <1>13, <2>1 DEF AbortLands, TypeOK
<1>14. CASE ShutdownHeard(t)
  <2>1. task' \in [Tasks -> TaskState]
    BY <1>1, <1>2, <1>14, TaskRecords DEF ShutdownHeard
  <2> QED BY <1>14, <2>1 DEF ShutdownHeard, TypeOK
<1>15. CASE ShutdownTimeout(t)
  BY <1>15 DEF ShutdownTimeout, TypeOK
<1> QED BY <1>3, <1>4, <1>5, <1>6, <1>7, <1>8, <1>9, <1>10, <1>11, <1>12, <1>13, <1>14, <1>15

\* Deletions, restorations, revocations and the shutdown keep the types.
LEMMA TypedManager ==
  ASSUME RoomManagerAssumption, TypeOK,
         \/ \E d \in Documents : Delete(d) \/ RestoreDocument(d) \/ DispatchDeleted(d)
         \/ Revoke \/ Shutdown
  PROVE  TypeOK'
<1> USE DEF tasks
<1>1. ASSUME NEW d \in Documents, Delete(d) \/ RestoreDocument(d) PROVE TypeOK'
  <2>1. /\ live' \in [Documents -> BOOLEAN] /\ owed' \subseteq Documents /\ UNCHANGED <<map, tasks, socket>>
        /\ events < MaxEvents /\ events' = events + 1
    BY <1>1 DEF Delete, RestoreDocument, Event, TypeOK
  <2>2. events' \in 0..MaxEvents
    BY <2>1 DEF TypeOK, RoomManagerAssumption
  <2> QED BY <2>1, <2>2 DEF TypeOK
<1>2. ASSUME NEW ds, NEW c \in {"deleted", "revoked"}, Dispatch(ds, c)
      PROVE  /\ control' \in [Tasks -> Seq(Sockets \cup {"deleted", "revoked"})]
             /\ map' \in [Documents -> Tasks \cup {None}]
             /\ why' \in [Tasks -> {None, "aborted", "deleted", "drained"}]
             /\ UNCHANGED <<live, task, conns, rx, socket>>
  BY <1>2 DEF Dispatch, TypeOK
<1>3. ASSUME NEW d \in Documents, DispatchDeleted(d) PROVE TypeOK'
  <2>1. Dispatch({d}, "deleted") /\ owed' \subseteq Documents /\ UNCHANGED events
    BY <1>3 DEF DispatchDeleted, TypeOK
  <2> QED BY <1>2, <2>1 DEF TypeOK
<1>4. CASE Revoke
  <2>1. Dispatch(Documents, "revoked") /\ UNCHANGED owed /\ events' \in 0..MaxEvents
    BY <1>4 DEF Revoke, Event, TypeOK, RoomManagerAssumption
  <2> QED BY <1>2, <2>1 DEF TypeOK
<1>5. CASE Shutdown
  BY <1>5 DEF Shutdown, Event, TypeOK, RoomManagerAssumption
<1> QED BY <1>1, <1>3, <1>4, <1>5

\* A step that adds no entry keeps the invariant.
LEMMA KeepsInv ==
  ASSUME RoomManagerAssumption, OwnerInv, TypeOK', Keeps
  PROVE  OwnerInv'
<1>1. Owned'
  <2> SUFFICES ASSUME NEW d \in Documents, map'[d] # None
               PROVE  task'[map'[d]].doc = d /\ task'[map'[d]].at # "unused"
    BY DEF Owned
  <2>1. map'[d] = map[d] /\ map[d] \in Tasks
    BY DEF Keeps, OwnerInv, TypeOK
  <2> QED BY <2>1 DEF Keeps, OwnerInv, Owned
<1>2. NoOrphan'
  <2> SUFFICES ASSUME NEW t \in Tasks, Running(t)', ~Mapped(t)' PROVE why'[t] # None
    BY DEF NoOrphan
  <2>1. Running(t)
    BY DEF Keeps, Running
  <2>2. CASE ~Mapped(t)
    BY <2>1, <2>2 DEF OwnerInv, NoOrphan, Keeps, Running
  <2>3. ASSUME NEW d \in Documents, map[d] = t PROVE why'[t] # None
    <3>1. map[d] # None /\ map'[d] # t
      BY <2>3 DEF RoomManagerAssumption, Mapped
    <3>2. map'[d] = None
      BY <2>3, <3>1 DEF Keeps
    <3> QED BY <2>3, <3>1, <3>2 DEF Keeps, Running
  <2> QED BY <2>2, <2>3 DEF Mapped
<1>3. Resident' \in SUBSET Resident
  BY DEF Keeps, Resident
<1>4. /\ IsFiniteSet(Resident') /\ Cardinality(Resident') <= Cardinality(Resident)
      /\ Cardinality(Resident') \in Nat /\ Cardinality(Resident) \in Nat
  BY <1>3, FS_Subset, FS_CardinalityType DEF OwnerInv
<1>5. CapacityKept'
  BY <1>4 DEF OwnerInv, CapacityKept, RoomManagerAssumption
<1> QED BY <1>1, <1>2, <1>4, <1>5 DEF OwnerInv

\* The task of a new entry is the entry's own, and whatever it replaces was closed.
LEMMA SpawnInv ==
  ASSUME RoomManagerAssumption, OwnerInv, TypeOK', NEW s \in Sockets, NEW d \in Documents,
         NEW t \in Tasks, Entry(d) = None, ~Full(Pruned(d)), Spawn(s, d, t, Pruned(d)),
         UNCHANGED why
  PROVE  OwnerInv'
<1>1. /\ task[t] = Unused /\ task'[t].at = "hydrate" /\ task'[t].doc = d
      /\ \A u \in Tasks \ {t} : task'[u] = task[u]
      /\ map'[d] = t /\ \A e \in Documents \ {d} : map'[e] = map[e]
  <2>1. /\ task[t] = Unused /\ task' = [task EXCEPT ![t] = [Unused EXCEPT !.doc = d, !.at = "hydrate"]]
        /\ map' = [Pruned(d) EXCEPT ![d] = t]
    BY DEF Spawn
  <2>2. Pruned(d) \in [Documents -> Tasks \cup {None}] /\ \A e \in Documents \ {d} : Pruned(d)[e] = map[e]
    BY DEF OwnerInv, TypeOK, Pruned
  <2> QED BY <2>1, <2>2 DEF OwnerInv, TypeOK, Unused
<1>2. \A e \in Documents : map[e] # t
  BY <1>1 DEF OwnerInv, Owned, RoomManagerAssumption, Unused
<1>3. Owned'
  <2> SUFFICES ASSUME NEW e \in Documents, map'[e] # None
               PROVE  task'[map'[e]].doc = e /\ task'[map'[e]].at # "unused"
    BY DEF Owned
  <2>1. CASE e = d
    BY <1>1, <2>1
  <2>2. CASE e # d
    <3>1. map'[e] = map[e] /\ map[e] \in Tasks \ {t}
      BY <1>1, <1>2, <2>2 DEF OwnerInv, TypeOK
    <3> QED BY <1>1, <3>1 DEF OwnerInv, Owned
  <2> QED BY <2>1, <2>2
<1>4. NoOrphan'
  <2> SUFFICES ASSUME NEW u \in Tasks, Running(u)', ~Mapped(u)' PROVE why'[u] # None
    BY DEF NoOrphan
  <2>1. u # t /\ Running(u)
    BY <1>1 DEF Running, Mapped
  <2>2. ~Mapped(u)
    <3> SUFFICES ASSUME NEW e \in Documents, map[e] = u PROVE FALSE
      BY DEF Mapped
    <3>1. e = d
      BY <1>1 DEF Mapped
    <3>2. Closed(u)
      BY <3>1 DEF Entry, RoomManagerAssumption
    <3> QED BY <2>1, <3>2 DEF Closed, Running
  <2> QED BY <2>1, <2>2 DEF OwnerInv, NoOrphan
<1> DEFINE S == {e \in Documents : Pruned(d)[e] # None}
<1>5. S \in SUBSET Resident
  BY LookedUp DEF OwnerInv, Resident
<1>6. IsFiniteSet(S) /\ Cardinality(S) \in Nat
  BY <1>5, FS_Subset, FS_CardinalityType DEF OwnerInv
<1>7. Cardinality(S) < MaxResident
  BY <1>6 DEF Full, RoomManagerAssumption
<1>8. Resident' = S \cup {d}
  BY <1>1, LookedUp DEF OwnerInv, TypeOK, Resident, RoomManagerAssumption, Spawn
<1> HIDE DEF S
<1>9. IsFiniteSet(Resident') /\ Cardinality(Resident') <= Cardinality(S) + 1
      /\ Cardinality(Resident') \in Nat
  <2>1. IsFiniteSet(S \cup {d})
        /\ Cardinality(S \cup {d}) = IF d \in S THEN Cardinality(S) ELSE Cardinality(S) + 1
    BY <1>6, FS_AddElement
  <2> QED BY <1>6, <1>8, <2>1
<1>10. CapacityKept'
  BY <1>6, <1>7, <1>9 DEF CapacityKept, RoomManagerAssumption
<1> QED BY <1>3, <1>4, <1>9, <1>10 DEF OwnerInv

\* A step of a task starts nothing and takes nobody's entry.
LEMMA TaskKeeps ==
  ASSUME RoomManagerAssumption, OwnerInv, NEW t \in Tasks,
         \/ Hydrate(t) \/ AdmitBegins(t) \/ AdmitEnds(t) \/ Refuse(t) \/ Control(t)
         \/ Poison(t) \/ Wedge(t) \/ IdleExit(t) \/ Return(t) \/ Cleanup(t)
         \/ AbortLands(t) \/ ShutdownHeard(t) \/ ShutdownTimeout(t)
  PROVE  Keeps
<1> USE DEF tasks
<1>1. TypeOK
  BY DEF OwnerInv
<1>2. task[t] \in TaskState /\ (task[t].at # "unused" => task[t].doc \in Documents)
  BY <1>1, Shapes
<1>3. ASSUME UNCHANGED <<map, task>>, \A u \in Tasks : why[u] # None => why'[u] # None
      PROVE  Keeps
  BY <1>3 DEF RoomManagerAssumption, Keeps, Running
<1>4. ASSUME NEW x, task' = [task EXCEPT ![t] = x], UNCHANGED <<map, why>>,
             x.at # "unused", x.doc = task[t].doc, Running(t) \/ ~Running(t)'
      PROVE  Keeps
  BY <1>1, <1>4 DEF RoomManagerAssumption, Keeps, Running, TypeOK
<1>5. CASE Refuse(t) \/ ShutdownTimeout(t)
  <2>1. UNCHANGED <<map, task>> /\ \A u \in Tasks : why[u] # None => why'[u] # None
    BY <1>1, <1>5 DEF Refuse, ShutdownTimeout, TypeOK, None
  <2> QED BY <1>3, <2>1
<1>6. CASE Hydrate(t) \/ Poison(t) \/ IdleExit(t) \/ Return(t)
  <2>1. PICK a \in {"open", "dead", "refusing", "closing", "returned"} :
          task' = [task EXCEPT ![t].at = a] /\ UNCHANGED <<map, why>> /\ Running(t)
    BY <1>6 DEF Hydrate, Poison, IdleExit, Return, Running
  <2> DEFINE x == [task[t] EXCEPT !.at = a]
  <2>2. x.at # "unused" /\ x.doc = task[t].doc
    <3>1. task[t].at # "unused"
      BY <2>1 DEF Running
    <3> QED BY <1>2, <2>1, <3>1 DEF TaskState
  <2> HIDE DEF x
  <2>3. task' = [task EXCEPT ![t] = x]
    BY <2>1 DEF x
  <2> QED BY <1>4, <2>1, <2>2, <2>3
<1>7. CASE AdmitBegins(t) \/ AdmitEnds(t) \/ Wedge(t)
  <2>1. task[t].at # "unused" /\ UNCHANGED <<map, why>>
    BY <1>1, <1>7, Shapes DEF AdmitBegins, AdmitEnds, Wedge, Running
  <2>2. PICK x : task' = [task EXCEPT ![t] = x] /\ x.at = task[t].at /\ x.doc = task[t].doc
    <3>1. CASE Wedge(t)
      <4> WITNESS [task[t] EXCEPT !.wedged = TRUE]
      <4> QED BY <1>2, <2>1, <3>1, TaskRecords DEF Wedge
    <3>2. CASE AdmitBegins(t)
      <4>1. Head(rx[t]) \in Sockets
        BY <1>1, <3>2 DEF AdmitBegins, Listens, TypeOK
      <4> WITNESS [task[t] EXCEPT !.admit = Head(rx[t])]
      <4> QED BY <1>2, <3>2, <4>1 DEF AdmitBegins, TaskState
    <3>3. CASE AdmitEnds(t)
      <4> WITNESS [task[t] EXCEPT !.admit = None]
      <4> QED BY <1>2, <3>3 DEF AdmitEnds, TaskState
    <3> QED BY <1>7, <3>1, <3>2, <3>3
  <2>3. Running(t)' => Running(t)
    BY <1>1, <2>2 DEF Running, TypeOK
  <2> QED BY <1>4, <2>1, <2>2, <2>3
<1>8. CASE Control(t)
  <2>1. CASE task' = task
    BY <1>3, <1>8, <2>1 DEF Control
  <2>2. CASE task' = [task EXCEPT ![t].at = "dead"]
    BY <1>1, <1>2, <1>4, <1>8, <2>2, TaskRecords DEF Control, Running, TypeOK
  <2> QED BY <1>8, <2>1, <2>2 DEF Control
<1>9. CASE AbortLands(t) \/ ShutdownHeard(t)
  BY <1>1, <1>2, <1>4, <1>9, TaskRecords DEF AbortLands, ShutdownHeard, Running, TypeOK
<1>10. CASE Cleanup(t)
  <2> DEFINE x == [task[t] EXCEPT !.at = "ended"]
  <2>1. x.at = "ended" /\ x.doc = task[t].doc
    BY <1>2, <1>10, TaskRecords DEF Cleanup
  <2> HIDE DEF x
  <2>3. task' = [task EXCEPT ![t] = x] /\ UNCHANGED why
    BY <1>10 DEF Cleanup, x
  <2>2. \A e \in Documents : map'[e] = map[e] \/ (map'[e] = None /\ map[e] = t)
    BY <1>1, <1>10 DEF Cleanup, TypeOK
  <2>4. /\ task'[t].at = "ended" /\ task'[t].doc = task[t].doc
        /\ \A u \in Tasks \ {t} : task'[u] = task[u]
    BY <1>1, <2>1, <2>3 DEF TypeOK
  <2> QED BY <2>2, <2>3, <2>4 DEF RoomManagerAssumption, Keeps, Running
<1> QED BY <1>5, <1>6, <1>7, <1>8, <1>9, <1>10

\* A socket takes out a closed entry, or evicts the task it is in.
LEMMA SocketKeeps ==
  ASSUME RoomManagerAssumption, OwnerInv, NEW s \in Sockets,
         \/ \E d \in Documents : Look(s, d)
         \/ Read(s) \/ Send(s) \/ JoinEnds(s) \/ Leave(s) \/ LeaveTimeout(s)
  PROVE  Keeps
<1> USE DEF tasks
<1>1. TypeOK /\ Owned
  BY DEF OwnerInv
<1>2. ASSUME NEW d \in Documents, Look(s, d) PROVE Keeps
  <2>1. \A e \in Documents : map'[e] = map[e] \/ map'[e] = None
    BY <1>1, <1>2, LookedUp DEF Look
  <2>2. \A e \in Documents : map[e] # None /\ map'[e] = None => Closed(map[e])
    BY <1>1, <1>2, LookedUp DEF Look
  <2> QED BY <1>2, <2>1, <2>2 DEF RoomManagerAssumption, Look, Keeps, Running, Closed
<1>3. CASE UNCHANGED <<map, task, why>>
  BY <1>3 DEF RoomManagerAssumption, Keeps, Running
<1>4. ASSUME NEW d \in Documents, NEW t \in Tasks, map[d] = t, Evict(t), UNCHANGED task
      PROVE  Keeps
  <2>1. task[t].doc = d /\ t # None
    BY <1>1, <1>4 DEF Owned, RoomManagerAssumption
  <2>2. /\ \A e \in Documents : map'[e] = map[e] \/ (map'[e] = None /\ map[e] = t)
        /\ why'[t] = "aborted" /\ \A u \in Tasks \ {t} : why'[u] = why[u]
    BY <1>1, <1>4, <2>1 DEF Evict, TypeOK
  <2> QED BY <1>4, <2>2 DEF RoomManagerAssumption, Keeps, Running, None
<1>5. CASE Read(s) \/ Send(s) \/ JoinEnds(s)
  BY <1>3, <1>5 DEF Read, Send, JoinEnds
<1>6. CASE Leave(s) \/ LeaveTimeout(s)
  <2>1. socket[s].doc \in Documents /\ socket[s].task \in Tasks
    BY <1>1, <1>6, Shapes DEF Leave, LeaveTimeout
  <2> QED BY <1>3, <1>4, <1>6, <2>1 DEF Leave, LeaveTimeout
<1> QED BY <1>2, <1>5, <1>6

\* A control or the shutdown says why a task has lost its entry.
LEMMA ManagerKeeps ==
  ASSUME RoomManagerAssumption, OwnerInv,
         \/ \E d \in Documents : Delete(d) \/ RestoreDocument(d) \/ DispatchDeleted(d)
         \/ Revoke \/ Shutdown
  PROVE  Keeps
<1> USE DEF tasks
<1>1. TypeOK
  BY DEF OwnerInv
<1>2. ASSUME NEW d \in Documents, Delete(d) \/ RestoreDocument(d) PROVE Keeps
  BY <1>2 DEF RoomManagerAssumption, Delete, RestoreDocument, Keeps, Running
<1>3. ASSUME NEW ds, NEW c, Dispatch(ds, c) PROVE Keeps
  <2> DEFINE targets == {map[d] : d \in {e \in ds : map[e] # None}}
             failed == {t \in targets : Closed(t) \/ Len(control[t]) >= ControlQueue}
             gone == IF c = "deleted" THEN targets ELSE failed
  <2>1. /\ map' = [d \in Documents |-> IF map[d] \in gone THEN None ELSE map[d]]
        /\ why' = [t \in Tasks |-> IF t \in failed THEN "aborted"
                                   ELSE IF t \in gone THEN "deleted" ELSE why[t]]
        /\ UNCHANGED task
    BY <1>3 DEF Dispatch
  <2> HIDE DEF targets, failed, gone
  <2> QED BY <1>1, <2>1 DEF RoomManagerAssumption, Keeps, Running, TypeOK, None
<1>4. CASE Shutdown
  <2>1. \A d \in Documents : map[d] # None => Mapped(map[d]) /\ map[d] \in Tasks
    BY <1>1 DEF Mapped, TypeOK
  <2> QED BY <1>1, <1>4, <2>1 DEF RoomManagerAssumption, Shutdown, Keeps, Running, TypeOK, None
<1> QED BY <1>2, <1>3, <1>4 DEF DispatchDeleted, Revoke

\* The owner map, for any number of documents, sockets and tasks: entries are tasks
\* of their documents, and the two properties below.
THEOREM OwnerInvariant ==
  ASSUME RoomManagerAssumption
  PROVE  RoomsSpec => []OwnerInv
<1>1. RoomsInit => OwnerInv
  <2> SUFFICES ASSUME RoomsInit PROVE OwnerInv
    OBVIOUS
  <2>1. TypeOK
    <3>1. Unused \in TaskState
      BY DEF TaskState, Unused
    <3>2. /\ task \in [Tasks -> TaskState] /\ socket \in [Sockets -> SocketState]
          /\ events \in 0..MaxEvents
      <4>1. Idle \in SocketState
        BY SocketRecords
      <4>2. 0 \in 0..MaxEvents
        BY DEF RoomManagerAssumption
      <4> QED BY <3>1, <4>1, <4>2 DEF RoomsInit
    <3>3. /\ live \in [Documents -> BOOLEAN] /\ map \in [Documents -> Tasks \cup {None}]
          /\ conns \in [Tasks -> SUBSET Sockets] /\ rx \in [Tasks -> Seq(Sockets)]
          /\ control \in [Tasks -> Seq(Sockets \cup {"deleted", "revoked"})]
          /\ why \in [Tasks -> {None, "aborted", "deleted", "drained"}] /\ owed \subseteq Documents
      BY DEF RoomsInit
    <3> QED BY <3>2, <3>3 DEF TypeOK
  <2>2. Owned /\ NoOrphan
    BY DEF RoomsInit, Owned, NoOrphan, Running, Unused
  <2>3. Resident = {}
    BY DEF RoomsInit, Resident
  <2> QED BY <2>1, <2>2, <2>3, FS_EmptySet DEF OwnerInv, CapacityKept, RoomManagerAssumption
<1>2. OwnerInv /\ [RoomsNext]_roomsVars => OwnerInv'
  <2> SUFFICES ASSUME OwnerInv, [RoomsNext]_roomsVars PROVE OwnerInv'
    OBVIOUS
  <2>1. TypeOK
    BY DEF OwnerInv
  <2>2. ASSUME NEW s \in Sockets, InsertEntry(s) PROVE OwnerInv'
    <3> DEFINE d == socket[s].doc
    <3>1. TypeOK' /\ d \in Documents
      BY <2>1, <2>2, TypedSocket, Shapes DEF InsertEntry
    <3>2. CASE Entry(d) # None /\ UNCHANGED <<map, task>>
      <4>1. Keeps
        BY <2>2, <3>2 DEF RoomManagerAssumption, InsertEntry, Keeps, Running
      <4> QED BY <3>1, <4>1, KeepsInv
    <3>3. CASE map' = Pruned(d) /\ UNCHANGED task
      <4>1. Keeps
        <5>1. \A e \in Documents : map'[e] = map[e] \/ map'[e] = None
          BY <2>1, <3>1, <3>3, LookedUp
        <5>2. \A e \in Documents : map[e] # None /\ map'[e] = None => Closed(map[e])
          BY <2>1, <3>1, <3>3, LookedUp
        <5> QED BY <2>2, <3>3, <5>1, <5>2 DEF RoomManagerAssumption, InsertEntry, Keeps, Running, Closed
      <4> QED BY <3>1, <4>1, KeepsInv
    <3>4. ASSUME NEW t \in Tasks, Entry(d) = None, ~Full(Pruned(d)), Spawn(s, d, t, Pruned(d))
          PROVE  OwnerInv'
      BY <2>2, <3>1, <3>4, SpawnInv DEF InsertEntry
    <3> QED BY <2>2, <3>2, <3>3, <3>4 DEF InsertEntry
  <2>3. ASSUME NEW s \in Sockets, NEW d \in Documents, Look(s, d) PROVE OwnerInv'
    BY <2>1, <2>3, TypedSocket, SocketKeeps, KeepsInv
  <2>4. ASSUME NEW s \in Sockets,
               Read(s) \/ Send(s) \/ JoinEnds(s) \/ Leave(s) \/ LeaveTimeout(s)
        PROVE  OwnerInv'
    BY <2>1, <2>4, TypedSocket, SocketKeeps, KeepsInv
  <2>5. ASSUME NEW t \in Tasks,
               \/ Hydrate(t) \/ AdmitBegins(t) \/ AdmitEnds(t) \/ Refuse(t) \/ Control(t)
               \/ Poison(t) \/ Wedge(t) \/ IdleExit(t) \/ Return(t) \/ Cleanup(t)
               \/ AbortLands(t) \/ ShutdownHeard(t) \/ ShutdownTimeout(t)
        PROVE  OwnerInv'
    BY <2>1, <2>5, TypedTask, TaskKeeps, KeepsInv
  <2>6. CASE \/ \E d \in Documents : Delete(d) \/ RestoreDocument(d) \/ DispatchDeleted(d)
             \/ Revoke \/ Shutdown
    BY <2>1, <2>6, TypedManager, ManagerKeeps, KeepsInv
  <2>7. CASE UNCHANGED roomsVars
    <3>1. TypeOK' /\ Keeps
      BY <2>1, <2>7 DEF RoomManagerAssumption, roomsVars, tasks, TypeOK, Keeps, Running
    <3> QED BY <3>1, KeepsInv
  <2> QED BY <2>2, <2>3, <2>4, <2>5, <2>6, <2>7 DEF RoomsNext
<1> QED BY <1>1, <1>2, PTL DEF RoomsSpec

\* Sockets that race to open a document share one task, a task that ends never
\* takes its successor's entry, and the map never holds more rooms than
\* max_resident_rooms, though both are checked, and checked again, around an await.
THEOREM OwnersStayExact ==
  ASSUME RoomManagerAssumption
  PROVE  RoomsSpec => []OwnersExact
<1>1. OwnerInv => OwnersExact
  BY DEF OwnerInv, OwnersExact
<1> QED BY <1>1, OwnerInvariant, PTL
=============================================================================
