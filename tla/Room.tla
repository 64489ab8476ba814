-------------------------------- MODULE Room --------------------------------
(***************************************************************************)
(* The collaborative room of ONE document: its durable rows in SQLite, the *)
(* task that owns the live replica (crates/marks-server/src/room/task.rs), *)
(* the map entry that makes it reachable (room/mod.rs) and the HTTP        *)
(* handlers that change the document's authority (routes/documents.rs,     *)
(* routes/auth.rs).                                                        *)
(*                                                                         *)
(* A db.tx is one atomic step, so is a db.read.  The task is split where   *)
(* another actor can run between two of its database calls: collecting a   *)
(* batch, preparing each frame, committing, publishing.                    *)
(*                                                                         *)
(* The ESBT engine is external.  A replica is the set of the operations it *)
(* has received; applying bytes is set union; a compact snapshot exists    *)
(* only for a causally closed set.                                         *)
(***************************************************************************)
EXTENDS Integers, Sequences, FiniteSets

CONSTANTS
  Actor,          \* admitted authorities; each is bound to one ESBT site
  Conn,           \* the connections clients hold, one per tab
  NoConn,         \* the id of a connection that is no longer in any room
  ActorOf,        \* the actor of each connection
  InitialAcl,     \* the roles granted when the document is first opened
  MsgId,          \* mutation ids
  Mutation,       \* the envelopes clients send: [id, kind, ops]
  Task,           \* incarnations of the room task
  NoTask,         \* no entry in the owner map
  BatchMax,       \* config.commit_batch_max
  QueueMax,       \* ROOM_QUEUE_CAPACITY
  ControlMax,     \* CONTROL_QUEUE_CAPACITY
  CompactEvery,   \* config.compact_every_updates
  ReceiptWindow,  \* IDEMPOTENCY_RECEIPT_WINDOW
  MaxEpoch,       \* bound: how often the document's authority changes
  Revocable,      \* bound: the actors whose session may be revoked
  Overlap         \* may a task start while its predecessor can still write?

Op == Actor \X (Nat \ {0})
Role == {"editor", "viewer", "none"}
Payload == {"update", "snapshot"} \X SUBSET Op

Deleted == 4404
Unauthorized == 4401
Internal == 1011
CloseCode == {0, Deleted, Unauthorized, Internal}

ASSUME ConstantsAssumption ==
  /\ ActorOf \in [Conn -> Actor]
  /\ InitialAcl \in [Actor -> Role]
  /\ Mutation \subseteq [id: MsgId, kind: {"update", "snapshot"}, ops: SUBSET Op]
  /\ NoConn \notin Conn
  /\ NoTask \notin Task
  /\ BatchMax \in Nat \ {0}
  /\ QueueMax \in Nat \ {0}
  /\ ControlMax \in Nat \ {0}
  /\ CompactEvery \in Nat \ {0}
  /\ ReceiptWindow \in Nat
  /\ MaxEpoch \in Nat
  /\ Revocable \subseteq Actor
  /\ Overlap \in BOOLEAN

VARIABLES
  (* durable rows *)
  doc,        \* documents row: deleted, epoch, snapshot, snapshotRevision
  journal,    \* document_updates: [revision, ops]
  commits,    \* document_commits: [id, payload, revision]
  authors,    \* op_authors and op_author_ranges: <<op, actor>>
  acl,        \* the role each actor resolves to
  revoked,    \* actors whose session, device or scratch is revoked
  (* the process *)
  room,       \* the state of each room task
  resident,   \* the task the owner map points to
  at,         \* the room each connection's socket loop is attached to
  open,       \* connections that are in their room's socket table
  role,       \* the role the room holds for each connection
  ticket,     \* authority admitted at upgrade and not yet used to join
  outgoing,   \* controls whose transaction committed but are not dispatched
  (* observations *)
  awaiting,   \* ids each connection sent and has no receipt for
  receipts,   \* COMMITTED receipts that reached a client
  told        \* operations some client has been told the server holds

rows == <<doc, journal, commits, authors>>
authority == <<acl, revoked>>
sockets == <<at, open, role, ticket>>
observed == <<awaiting, receipts, told>>
vars == <<rows, authority, room, resident, sockets, outgoing, observed>>

Frame == [conn: Conn \cup {NoConn}, mut: Mutation]
Control == [kind: {"deleted", "epoch"}, epoch: Nat] \cup [kind: {"revoked"}, actor: Actor]
Prepared == [conn: Conn, id: MsgId, payload: Payload, revision: Nat, version: SUBSET Op,
             action: {"receipt", "update", "snapshot"}, accepted: SUBSET Op]
PendingAck == [conn: Conn, id: MsgId, payload: Payload, revision: Nat, version: SUBSET Op]

RoomState ==
  [status: {"unborn", "hydrating", "live", "refusing", "ended"},
   aborted: BOOLEAN, dead: CloseCode,
   pc: {"idle", "collect", "deferred", "frames", "publish"},
   ops: SUBSET Op, durable: SUBSET Op, revision: Nat, since: Nat, epoch: Nat,
   nextRevision: Nat, nextSince: Nat,
   inbox: Seq(Frame), batch: Seq(Frame), controls: Seq(Control),
   prepared: SUBSET Prepared, acks: SUBSET PendingAck]

Unborn ==
  [status |-> "unborn", aborted |-> FALSE, dead |-> 0, pc |-> "idle",
   ops |-> {}, durable |-> {}, revision |-> 0, since |-> 0, epoch |-> 0,
   nextRevision |-> 0, nextSince |-> 0,
   inbox |-> << >>, batch |-> << >>, controls |-> << >>, prepared |-> {}, acks |-> {}]

NoTicket == [held |-> FALSE, epoch |-> 0, role |-> "none"]

\* A task that returned, was aborted or died with the process keeps nothing.
Ended == [Unborn EXCEPT !.status = "ended"]

-----------------------------------------------------------------------------
(* What the durable rows say. *)

\* The rows hydration replays: those above the snapshot.
Replayed == {row \in journal : row.revision > doc.snapshotRevision}

\* The operations a fresh replica holds after snapshot plus replay.
Durable == doc.snapshot \cup UNION {row.ops : row \in Replayed}

Revisions == {doc.snapshotRevision} \cup {row.revision : row \in Replayed}

\* A set with no causal gap; a compact snapshot cannot be made of another.
CausallyClosed(S) == \A op \in S : op[2] > 1 => <<op[1], op[2] - 1>> \in S

Sockets(t) == {c \in open : at[c] = t}

Running(t) == room[t].status = "live" /\ ~room[t].aborted

\* A task that can no longer write to the database.
Quiet(t) == room[t].status \in {"unborn", "refusing", "ended"} \/ room[t].dead # 0

-----------------------------------------------------------------------------
Init ==
  /\ doc = [deleted |-> FALSE, epoch |-> 0, snapshot |-> {}, snapshotRevision |-> 0]
  /\ journal = {}
  /\ commits = {}
  /\ authors = {}
  /\ acl = InitialAcl
  /\ revoked = {}
  /\ room = [t \in Task |-> Unborn]
  /\ resident = NoTask
  /\ at = [c \in Conn |-> NoTask]
  /\ open = {}
  /\ role = [c \in Conn |-> "none"]
  /\ ticket = [c \in Conn |-> NoTicket]
  /\ outgoing = {}
  /\ awaiting = [c \in Conn |-> {}]
  /\ receipts = {}
  /\ told = {}

-----------------------------------------------------------------------------
(* Starting and hydrating a task. *)

\* entry_tx: no live entry and a live document, so a task is spawned.  The
\* owner map hands the document over at once; Overlap = FALSE is the case in
\* which the predecessor has finished by then.
Spawn(t) ==
  /\ resident = NoTask
  /\ ~doc.deleted
  /\ room[t].status = "unborn"
  /\ Overlap \/ \A u \in Task \ {t} : Quiet(u)
  /\ room' = [room EXCEPT ![t] = [@ EXCEPT !.status = "hydrating"]]
  /\ resident' = t
  /\ UNCHANGED <<rows, authority, sockets, outgoing, observed>>

\* run: snapshot plus journal replay gives the live replica.
Hydrate(t) ==
  /\ room[t].status = "hydrating"
  /\ ~room[t].aborted
  /\ ~doc.deleted
  /\ \E r \in Revisions :
       /\ \A s \in Revisions : s <= r
       /\ room' = [room EXCEPT ![t] =
            [@ EXCEPT !.status = "live", !.ops = Durable, !.revision = r,
                      !.since = 0, !.epoch = doc.epoch]]
  /\ UNCHANGED <<rows, authority, resident, sockets, outgoing, observed>>

\* run: the document is deleted, or the read fails.  The task stays in the
\* map and refuses every join.
HydrateFails(t) ==
  /\ room[t].status = "hydrating"
  /\ ~room[t].aborted
  /\ room' = [room EXCEPT ![t] = [@ EXCEPT !.status = "refusing"]]
  /\ UNCHANGED <<rows, authority, resident, sockets, outgoing, observed>>

-----------------------------------------------------------------------------
(* Admission, joining and leaving. *)

\* ws.rs admit: one transaction redeems a ticket of the current epoch.
Admit(c) ==
  /\ at[c] = NoTask
  /\ ~ticket[c].held
  /\ ~doc.deleted
  /\ ActorOf[c] \notin revoked
  /\ acl[ActorOf[c]] # "none"
  /\ ticket' = [ticket EXCEPT ![c] =
       [held |-> TRUE, epoch |-> doc.epoch, role |-> acl[ActorOf[c]]]]
  /\ UNCHANGED <<rows, authority, room, resident, at, open, role, outgoing, observed>>

\* The refusal a join gets from the resident task, "none" when it is admitted.
JoinRefusal(t, c) ==
  CASE room[t].status = "refusing" \/ room[t].dead # 0 -> "gone"
    [] room[t].status = "live" /\ room[t].dead = 0 /\ ticket[c].epoch # room[t].epoch -> "stale"
    [] OTHER -> "none"

\* Room::join: the client is sent the server version and the missing state.
Join(t, c) ==
  /\ resident = t
  /\ Running(t)
  /\ room[t].pc = "idle"
  /\ room[t].controls = << >>
  /\ ticket[c].held
  /\ JoinRefusal(t, c) = "none"
  /\ at' = [at EXCEPT ![c] = t]
  /\ open' = open \cup {c}
  /\ role' = [role EXCEPT ![c] = ticket[c].role]
  /\ ticket' = [ticket EXCEPT ![c] = NoTicket]
  /\ told' = told \cup room[t].ops
  /\ UNCHANGED <<rows, authority, room, resident, outgoing, awaiting, receipts>>

\* Gone, Stale, Capacity or Internal: the one-use ticket is spent.
JoinRefused(c) ==
  /\ ticket[c].held
  /\ ticket' = [ticket EXCEPT ![c] = NoTicket]
  /\ UNCHANGED <<rows, authority, room, resident, at, open, role, outgoing, observed>>

\* The socket loop of c has ended; what it was waiting for is the client's
\* own journal's business again.
Detach(c) ==
  /\ at' = [at EXCEPT ![c] = NoTask]
  /\ role' = [role EXCEPT ![c] = "none"]
  /\ awaiting' = [awaiting EXCEPT ![c] = {}]

\* Frames of a departed connection keep an id that no socket has.
Orphaned(frames, c) ==
  [i \in 1..Len(frames) |->
     IF frames[i].conn = c THEN [frames[i] EXCEPT !.conn = NoConn] ELSE frames[i]]

\* compact: the transaction, which finds the document's row only while the
\* document is not deleted.
Compacted(t) ==
  /\ ~doc.deleted
  /\ doc' = [doc EXCEPT !.snapshot = room[t].ops, !.snapshotRevision = room[t].revision]
  /\ journal' = {row \in journal : row.revision > room[t].revision}
  /\ commits' = {k \in commits : k.revision >= room[t].revision - ReceiptWindow}
  /\ UNCHANGED authors

\* compact: there is something to compact, and a snapshot of it.
CanCompact(t) ==
  /\ room[t].status = "live"
  /\ room[t].dead = 0
  /\ room[t].since > 0
  /\ CausallyClosed(room[t].ops)

\* The room without connection c.  A departure that arrives during a batch
\* ends the collection and is handled before the frames.
Departed(r, c) ==
  [r EXCEPT !.inbox = Orphaned(@, c), !.batch = Orphaned(@, c),
            !.pc = IF @ = "collect" THEN "deferred" ELSE @]

\* RoomControl::Leave, from a socket loop that ended; it shares the lane of
\* the controls and here may overtake them.  The last one to leave compacts;
\* a failed export or transaction keeps the journal.
Leave(t, c) ==
  /\ at[c] = t
  /\ Running(t)
  /\ room[t].pc \in {"idle", "collect"}
  /\ Detach(c)
  /\ open' = open \ {c}
  /\ \/ /\ Sockets(t) \subseteq {c}
        /\ CanCompact(t)
        /\ Compacted(t)
        /\ room' = [room EXCEPT ![t] = [Departed(@, c) EXCEPT !.since = 0]]
     \/ /\ room' = [room EXCEPT ![t] = Departed(@, c)]
        /\ UNCHANGED rows
  /\ UNCHANGED <<authority, resident, ticket, outgoing, receipts, told>>

\* leave: the room is no longer in the map, so there is nothing to tell it.
LeaveUnmapped(c) ==
  /\ at[c] \notin {NoTask, resident}
  /\ c \notin open
  /\ Detach(c)
  /\ UNCHANGED <<rows, authority, room, resident, open, ticket, outgoing, receipts, told>>

\* The task t leaves the map and is aborted: it ends at its next await.
Evict(t) ==
  /\ resident' = NoTask
  /\ room' = [room EXCEPT ![t] = [@ EXCEPT !.aborted = TRUE]]

\* leave: the room did not acknowledge the departure before the deadline.
LeaveTimeout(t) ==
  /\ resident = t
  /\ \E c \in Conn : at[c] = t
  /\ Evict(t)
  /\ UNCHANGED <<rows, authority, sockets, outgoing, observed>>

\* Mutant: an abort that is not seen while a batch is collected.
AbortEndsIdle(t) ==
  /\ room[t].aborted
  /\ room[t].status \in {"hydrating", "live", "refusing"}
  /\ room[t].pc = "idle"
  /\ room' = [room EXCEPT ![t] = Ended]
  /\ open' = open \ Sockets(t)
  /\ UNCHANGED <<rows, authority, resident, at, role, ticket, outgoing, observed>>

\* The abort reaches a task that is waiting rather than inside a batch.
AbortEnds(t) ==
  /\ room[t].aborted
  /\ room[t].status \in {"hydrating", "live", "refusing"}
  /\ room[t].pc \in {"idle", "collect"}
  /\ room' = [room EXCEPT ![t] = Ended]
  /\ open' = open \ Sockets(t)
  /\ UNCHANGED <<rows, authority, resident, at, role, ticket, outgoing, observed>>

\* A final compaction, then the task returns and its entry leaves the map.
Exit(t) ==
  /\ \/ CanCompact(t) /\ Compacted(t)
     \/ UNCHANGED rows
  /\ room' = [room EXCEPT ![t] = Ended]
  /\ open' = open \ Sockets(t)
  /\ resident' = IF resident = t THEN NoTask ELSE resident
  /\ UNCHANGED <<authority, at, role, ticket, outgoing, observed>>

\* run: nobody is connected for room_idle_ms.
IdleExit(t) ==
  /\ Running(t)
  /\ room[t].pc = "idle"
  /\ room[t].dead = 0
  /\ room[t].controls = << >>
  /\ Sockets(t) = {}
  /\ Exit(t)

\* RoomMsg::Shutdown, answered by a refusing task as well.
Shutdown(t) ==
  /\ resident = t
  /\ room[t].status \in {"live", "refusing"}
  /\ ~room[t].aborted
  /\ room[t].pc = "idle"
  /\ room[t].status = "live" => room[t].controls = << >>
  /\ Exit(t)

\* The process dies: tasks, sockets and undelivered controls are gone.
Crash ==
  /\ room' = [t \in Task |->
       IF room[t].status = "unborn" THEN room[t] ELSE Ended]
  /\ resident' = NoTask
  /\ at' = [c \in Conn |-> NoTask]
  /\ open' = {}
  /\ ticket' = [c \in Conn |-> NoTicket]
  /\ outgoing' = {}
  /\ role' = [c \in Conn |-> "none"]
  /\ awaiting' = [c \in Conn |-> {}]
  /\ UNCHANGED <<rows, authority, receipts, told>>

-----------------------------------------------------------------------------
(* Authority changes: a transaction, then a control for the resident room. *)

\* share_put, share_delete, link_create, link_revoke: the ACL change and
\* bump_epoch are one transaction.
ChangeAcl(a, r) ==
  /\ ~doc.deleted
  /\ doc.epoch < MaxEpoch
  /\ acl' = [acl EXCEPT ![a] = r]
  /\ doc' = [doc EXCEPT !.epoch = @ + 1]
  /\ outgoing' = outgoing \cup {[kind |-> "epoch", epoch |-> doc.epoch + 1]}
  /\ UNCHANGED <<journal, commits, authors, revoked, room, resident, sockets, observed>>

\* link_redeem: a first grant, with no epoch change.
LinkRedeem(a, r) ==
  /\ ~doc.deleted
  /\ acl[a] = "none"
  /\ r # "none"
  /\ acl' = [acl EXCEPT ![a] = r]
  /\ UNCHANGED <<rows, revoked, room, resident, sockets, outgoing, observed>>

\* delete: tombstone and epoch bump.
Delete ==
  /\ ~doc.deleted
  /\ doc.epoch < MaxEpoch
  /\ doc' = [doc EXCEPT !.deleted = TRUE, !.epoch = @ + 1]
  /\ outgoing' = outgoing \cup {[kind |-> "deleted", epoch |-> doc.epoch + 1]}
  /\ UNCHANGED <<journal, commits, authors, authority, room, resident, sockets, observed>>

\* restore: the tombstone is cleared and the epoch bumped; no control.
Restore ==
  /\ doc.deleted
  /\ doc.epoch < MaxEpoch
  /\ doc' = [doc EXCEPT !.deleted = FALSE, !.epoch = @ + 1]
  /\ UNCHANGED <<journal, commits, authors, authority, room, resident, sockets, outgoing, observed>>

\* Logout or device revocation.
Revoke(a) ==
  /\ a \notin revoked
  /\ revoked' = revoked \cup {a}
  /\ outgoing' = outgoing \cup {[kind |-> "revoked", actor |-> a]}
  /\ UNCHANGED <<rows, acl, room, resident, sockets, observed>>

Notified(r, ctl) == [r EXCEPT !.controls = Append(@, ctl)]

\* Rooms::control and dispatch_control, for a control of some handler.
Dispatch(ctl) ==
  /\ ctl \in outgoing
  /\ outgoing' = outgoing \ {ctl}
  /\ \/ resident = NoTask /\ UNCHANGED <<room, resident>>
     \/ /\ resident # NoTask
        /\ Len(room[resident].controls) < ControlMax
        /\ room' = [room EXCEPT ![resident] = Notified(@, ctl)]
        /\ resident' = IF ctl.kind = "deleted" THEN NoTask ELSE resident
     \/ /\ resident # NoTask
        /\ Len(room[resident].controls) >= ControlMax
        /\ Evict(resident)
  /\ UNCHANGED <<rows, authority, sockets, observed>>

\* reresolve_sockets: the connections that keep a role.
Resolved(t) == {c \in Sockets(t) : ~doc.deleted /\ acl[ActorOf[c]] # "none"}

\* Room::control for the head of the lane; r is the room after taking it.
ApplyControl(t, r) ==
  LET ctl == Head(room[t].controls) IN
  \/ /\ ctl.kind = "deleted"
     /\ room' = [room EXCEPT ![t] = [r EXCEPT !.dead = Deleted]]
     /\ open' = open \ Sockets(t)
     /\ UNCHANGED role
  \/ /\ ctl.kind = "epoch"
     /\ room' = [room EXCEPT ![t] = [r EXCEPT !.epoch = ctl.epoch]]
     /\ open' = open \ (Sockets(t) \ Resolved(t))
     /\ role' = [c \in Conn |-> IF c \in Resolved(t) THEN acl[ActorOf[c]] ELSE role[c]]
  \/ /\ ctl.kind = "epoch"   \* the re-read failed: nobody keeps authority
     /\ room' = [room EXCEPT ![t] = [r EXCEPT !.epoch = ctl.epoch, !.dead = Internal]]
     /\ open' = open \ Sockets(t)
     /\ UNCHANGED role
  \/ /\ ctl.kind = "revoked"
     /\ room' = [room EXCEPT ![t] = r]
     /\ open' = {c \in open : ~(at[c] = t /\ ActorOf[c] = ctl.actor)}
     /\ UNCHANGED role

Drained(r) == [r EXCEPT !.controls = Tail(@)]

\* run: the control lane is drained before anything else is received.
TakeControl(t) ==
  /\ Running(t)
  /\ room[t].pc = "idle"
  /\ room[t].controls # << >>
  /\ ApplyControl(t, Drained(room[t]))
  /\ UNCHANGED <<rows, authority, resident, at, ticket, outgoing, observed>>

-----------------------------------------------------------------------------
(* Mutation frames: collect, prepare one by one, commit, publish. *)

Queued(r, frame) == [r EXCEPT !.inbox = Append(@, frame)]

\* Mutant: an unbounded queue.
SendUnbounded(c, m) ==
  /\ c \in open
  /\ room[at[c]].status = "live"
  /\ room' = [room EXCEPT ![at[c]] = Queued(@, [conn |-> c, mut |-> m])]
  /\ awaiting' = [awaiting EXCEPT ![c] = @ \cup {m.id}]
  /\ UNCHANGED <<rows, authority, resident, sockets, outgoing, receipts, told>>

\* socket_loop: handoff_frame.  A full queue ends the socket loop: Leave.
Send(c, m) ==
  /\ c \in open
  /\ room[at[c]].status = "live"
  /\ Len(room[at[c]].inbox) < QueueMax
  /\ room' = [room EXCEPT ![at[c]] = Queued(@, [conn |-> c, mut |-> m])]
  /\ awaiting' = [awaiting EXCEPT ![c] = @ \cup {m.id}]
  /\ UNCHANGED <<rows, authority, resident, sockets, outgoing, receipts, told>>

\* frames: the state a batch starts from; a dead room drops the batch.
Framed(r) ==
  IF r.dead # 0 THEN [r EXCEPT !.pc = "idle", !.batch = << >>]
  ELSE [r EXCEPT !.pc = "frames", !.durable = r.ops,
                 !.nextRevision = r.revision, !.nextSince = r.since]

\* The first frame of the queue has become the last of the batch.
Taken(r, batch) == [r EXCEPT !.pc = "collect", !.batch = batch, !.inbox = Tail(@)]

\* run: a full batch waits for nothing, and looks at no control.
Received(r, batch) ==
  IF Len(batch) < BatchMax THEN Taken(r, batch) ELSE Framed(Taken(r, batch))

\* run: the first frame of a batch, received with the control lane drained.
BeginBatch(t) ==
  /\ Running(t)
  /\ room[t].pc = "idle"
  /\ room[t].controls = << >>
  /\ room[t].inbox # << >>
  /\ room' = [room EXCEPT ![t] = Received(@, <<Head(room[t].inbox)>>)]
  /\ UNCHANGED <<rows, authority, resident, sockets, outgoing, observed>>

\* run: another frame arrives before the batch deadline.
CollectFrame(t) ==
  /\ Running(t)
  /\ room[t].pc = "collect"
  /\ room[t].controls = << >>
  /\ room[t].inbox # << >>
  /\ Len(room[t].batch) < BatchMax
  /\ room' = [room EXCEPT ![t] = Received(@, Append(room[t].batch, Head(room[t].inbox)))]
  /\ UNCHANGED <<rows, authority, resident, sockets, outgoing, observed>>

\* run: the batch's deadline passed, or a control is waiting; the one control that ended the collection is applied before the frames.
EndCollect(t) ==
  /\ Running(t)
  /\ room[t].pc = "collect"
  /\ \/ /\ room[t].controls = << >>
        /\ room' = [room EXCEPT ![t] = Framed(room[t])]
        /\ UNCHANGED <<open, role>>
     \/ /\ room[t].controls # << >>
        /\ ApplyControl(t, [Drained(room[t]) EXCEPT !.pc = "deferred"])
  /\ UNCHANGED <<rows, authority, resident, at, ticket, outgoing, observed>>

\* frames, after the deferred control.
StartFrames(t) ==
  /\ room[t].pc = "deferred"
  /\ room' = [room EXCEPT ![t] = Framed(room[t])]
  /\ UNCHANGED <<rows, authority, resident, sockets, outgoing, observed>>

\* The frame being prepared.
Current(t) == Head(room[t].batch)

Preparing(t) == room[t].status = "live" /\ room[t].pc = "frames" /\ room[t].batch # << >>

\* The batch with its first frame done.
Popped(t) == [room[t] EXCEPT !.batch = Tail(@)]

\* The locals of frames and commit_batch are gone.
BatchOver(r) ==
  [r EXCEPT !.pc = "idle", !.batch = << >>, !.prepared = {}, !.acks = {},
            !.durable = {}, !.nextRevision = 0, !.nextSince = 0]

\* Mutant: the room gives the batch up and carries on.
PoisonForgiving(t, code) ==
  /\ room' = [room EXCEPT ![t] = BatchOver(room[t])]
  /\ open' = open \ Sockets(t)

\* Mutant: the sockets are left to find out.
PoisonSilent(t, code) ==
  /\ room' = [room EXCEPT ![t] = [BatchOver(room[t]) EXCEPT !.dead = code]]
  /\ open' = open

\* poison: every socket is closed and the batch is given up.  What it staged
\* stays in the replica.
Poison(t, code) ==
  /\ room' = [room EXCEPT ![t] = [BatchOver(room[t]) EXCEPT !.dead = code]]
  /\ open' = open \ Sockets(t)

\* A frame of a connection that is gone.
IgnoreFrame(t) ==
  /\ Preparing(t)
  /\ Current(t).conn \notin Sockets(t)
  /\ room' = [room EXCEPT ![t] = Popped(t)]
  /\ UNCHANGED <<rows, authority, resident, sockets, outgoing, observed>>

PayloadOf(m) == <<m.kind, m.ops>>

\* prepare_mutation: an id that was used, in this batch or in a committed
\* receipt, with other bytes.
Conflicts(t, m) ==
  \/ \E p \in room[t].prepared : p.id = m.id /\ p.payload # PayloadOf(m)
  \/ \E k \in commits : k.id = m.id /\ k.payload # PayloadOf(m)

\* Neither the batch nor the receipts know the id.
Unseen(t, m) ==
  /\ \A p \in room[t].prepared : p.id # m.id
  /\ \A k \in commits : k.id # m.id

\* Mutant: a snapshot may carry anything.
ForgedUpdate(t, c, m) == m.kind = "update" /\ \E op \in m.ops : op[1] # ActorOf[c]

\* Operations the mutation would add that are not of the sender's own site.
\* An update is checked whole, a snapshot only for what is new to the room.
Forged(t, c, m) ==
  \E op \in m.ops : op[1] # ActorOf[c] /\ (m.kind = "update" \/ op \notin room[t].ops)

\* close_one with 4400 or 4403.
RefuseFrame(t) ==
  /\ Preparing(t)
  /\ LET c == Current(t).conn
         m == Current(t).mut
     IN /\ c \in Sockets(t)
        /\ role[c] # "editor" \/ Conflicts(t, m) \/ (Unseen(t, m) /\ Forged(t, c, m))
        /\ open' = open \ {c}
  /\ room' = [room EXCEPT ![t] = Popped(t)]
  /\ UNCHANGED <<rows, authority, resident, at, role, ticket, outgoing, observed>>

\* Anything else that closes the sender: the frame is oversized, does not
\* decode or is a direct write (4400), allow_mutation says no (4429), or the
\* engine rejects the bytes under its resource limits (4400).
LimitFrame(t) ==
  /\ Preparing(t)
  /\ Current(t).conn \in Sockets(t)
  /\ open' = open \ {Current(t).conn}
  /\ room' = [room EXCEPT ![t] = Popped(t)]
  /\ UNCHANGED <<rows, authority, resident, at, role, ticket, outgoing, observed>>

\* The current frame is a well-formed mutation of an editor.
Authorized(t) ==
  /\ Preparing(t)
  /\ Current(t).conn \in Sockets(t)
  /\ role[Current(t).conn] = "editor"

\* Mutant: a retry is answered with the revision of the moment.
PriorNow(t, m) ==
  IF \E p \in room[t].prepared : p.id = m.id
  THEN {[revision |-> p.revision, version |-> p.version] :
          p \in {q \in room[t].prepared : q.id = m.id /\ q.payload = PayloadOf(m)}}
  ELSE {[revision |-> room[t].revision, version |-> room[t].durable] :
          k \in {l \in commits : l.id = m.id /\ l.payload = PayloadOf(m)}}

\* The revision and version a retry is answered with: what the same id and
\* bytes got earlier in this batch or, from lookup_commit, long before.
Prior(t, m) ==
  IF \E p \in room[t].prepared : p.id = m.id
  THEN {[revision |-> p.revision, version |-> p.version] :
          p \in {q \in room[t].prepared : q.id = m.id /\ q.payload = PayloadOf(m)}}
  ELSE {[revision |-> k.revision, version |-> room[t].durable] :
          k \in {l \in commits : l.id = m.id /\ l.payload = PayloadOf(m)}}

\* A retry is acknowledged with the batch, and changes nothing.
AckRetry(t) ==
  /\ Authorized(t)
  /\ LET c == Current(t).conn
         m == Current(t).mut
     IN \E prior \in Prior(t, m) :
          room' = [room EXCEPT ![t] = [Popped(t) EXCEPT !.acks = @ \cup
            {[conn |-> c, id |-> m.id, payload |-> PayloadOf(m),
              revision |-> prior.revision, version |-> prior.version]}]]
  /\ UNCHANGED <<rows, authority, resident, sockets, outgoing, observed>>

\* lookup_commit could not read the receipts.
LookupFails(t) ==
  /\ Authorized(t)
  /\ \A p \in room[t].prepared : p.id # Current(t).mut.id
  /\ Poison(t, Internal)
  /\ UNCHANGED <<rows, authority, resident, at, role, ticket, outgoing, observed>>

\* The mutation is new, and all it adds is the sender's own.
Fresh(t) == Unseen(t, Current(t).mut) /\ ~Forged(t, Current(t).conn, Current(t).mut)

\* The commit prepared for mutation m of connection c.
Entry(t, c, m, revision, action) ==
  [conn |-> c, id |-> m.id, payload |-> PayloadOf(m), revision |-> revision,
   version |-> room[t].ops \cup m.ops, action |-> action, accepted |-> m.ops \ room[t].ops]

\* The replica already has it all: only the receipt is new.
StageReceipt(t) ==
  /\ Authorized(t)
  /\ Fresh(t)
  /\ LET c == Current(t).conn
         m == Current(t).mut
     IN /\ m.ops \subseteq room[t].ops
        /\ room' = [room EXCEPT ![t] = [Popped(t) EXCEPT !.prepared = @ \cup
             {Entry(t, c, m, room[t].nextRevision, "receipt")}]]
  /\ UNCHANGED <<rows, authority, resident, sockets, outgoing, observed>>

\* Applied to the live replica, to be journaled under the next revision.
StageUpdate(t) ==
  /\ Authorized(t)
  /\ Fresh(t)
  /\ LET c == Current(t).conn
         m == Current(t).mut
     IN /\ m.kind = "update"
        /\ ~(m.ops \subseteq room[t].ops)
        /\ room' = [room EXCEPT ![t] = [Popped(t) EXCEPT
             !.ops = @ \cup m.ops,
             !.nextRevision = @ + 1,
             !.nextSince = @ + 1,
             !.prepared = @ \cup {Entry(t, c, m, room[t].nextRevision + 1, "update")}]]
  /\ UNCHANGED <<rows, authority, resident, sockets, outgoing, observed>>

\* Merged into the live replica, to be stored as the document's snapshot.
StageSnapshot(t) ==
  /\ Authorized(t)
  /\ Fresh(t)
  /\ LET c == Current(t).conn
         m == Current(t).mut
     IN /\ m.kind = "snapshot"
        /\ ~(m.ops \subseteq room[t].ops)
        /\ CausallyClosed(room[t].ops \cup m.ops)
        /\ room' = [room EXCEPT ![t] = [Popped(t) EXCEPT
             !.ops = @ \cup m.ops,
             !.nextRevision = @ + 1,
             !.nextSince = 0,
             !.prepared = @ \cup {Entry(t, c, m, room[t].nextRevision + 1, "snapshot")}]]
  /\ UNCHANGED <<rows, authority, resident, sockets, outgoing, observed>>

\* The merged replica has a causal gap, so it has no compact snapshot.
SnapshotFails(t) ==
  /\ Authorized(t)
  /\ Fresh(t)
  /\ LET m == Current(t).mut
     IN /\ m.kind = "snapshot"
        /\ ~(m.ops \subseteq room[t].ops)
        /\ ~CausallyClosed(room[t].ops \cup m.ops)
        /\ room' = [room EXCEPT ![t] =
             [BatchOver(room[t]) EXCEPT !.dead = Internal, !.ops = @ \cup m.ops]]
  /\ open' = open \ Sockets(t)
  /\ UNCHANGED <<rows, authority, resident, at, role, ticket, outgoing, observed>>

-----------------------------------------------------------------------------
(* The durable commit of a batch and what follows it. *)

BatchDone(t) == room[t].status = "live" /\ room[t].pc = "frames" /\ room[t].batch = << >>

\* Mutant: the epoch is trusted to arrive as a control.
AuthoritativeActors(t) ==
  /\ ~doc.deleted
  /\ \A p \in room[t].prepared : ActorOf[p.conn] \notin revoked

\* require_live_epoch, and require_live_actor for every actor of the batch.
Authoritative(t) ==
  /\ ~doc.deleted
  /\ doc.epoch = room[t].epoch
  /\ \A p \in room[t].prepared : ActorOf[p.conn] \notin revoked

\* No INSERT meets an existing primary key.
KeysFree(t) ==
  \A p \in room[t].prepared :
    /\ p.action = "update" => \A row \in journal : row.revision # p.revision
    /\ \A k \in commits : k.id # p.id

\* commit_batch: whether the batch also compacts.  retained_operations may
\* reach its own limit earlier than since_compact does.
MayCompact(t, compact) ==
  /\ compact => room[t].nextSince > 0
  /\ room[t].nextSince >= CompactEvery => compact

\* The snapshots of the batch; the last one is the one that stays.
Snapshots(t) == {p \in room[t].prepared : p.action = "snapshot"}

\* The rows the transaction leaves, without and with compaction.
Journaled(t) ==
  journal \cup {[revision |-> p.revision, ops |-> p.accepted] :
                  p \in {q \in room[t].prepared : q.action = "update"}}

StoreSnapshot(t, ops, revision) ==
  /\ doc' = [doc EXCEPT !.snapshot = ops, !.snapshotRevision = revision]
  /\ journal' = {row \in Journaled(t) : row.revision > revision}

CommitRows(t, compact) ==
  \/ /\ compact
     /\ CausallyClosed(room[t].ops)
     /\ StoreSnapshot(t, room[t].ops, room[t].nextRevision)
  \/ /\ ~compact
     /\ \E p \in Snapshots(t) :
          /\ \A q \in Snapshots(t) : q.revision <= p.revision
          /\ StoreSnapshot(t, p.version, p.revision)
  \/ /\ ~compact
     /\ Snapshots(t) = {}
     /\ journal' = Journaled(t)
     /\ UNCHANGED doc

\* commit_batch: one transaction for the batch.
CommitBatch(t) ==
  /\ BatchDone(t)
  /\ room[t].prepared # {}
  /\ Authoritative(t)
  /\ KeysFree(t)
  /\ \E compact \in BOOLEAN :
       /\ MayCompact(t, compact)
       /\ CommitRows(t, compact)
       /\ commits' = {k \in commits \cup
                        {[id |-> p.id, payload |-> p.payload, revision |-> p.revision] :
                           p \in room[t].prepared} :
                        compact => k.revision >= room[t].nextRevision - ReceiptWindow}
       /\ room' = [room EXCEPT ![t] =
            [@ EXCEPT !.pc = "publish", !.revision = room[t].nextRevision,
                      !.since = IF compact THEN 0 ELSE room[t].nextSince]]
  /\ authors' = authors \cup UNION {p.accepted \X {ActorOf[p.conn]} : p \in room[t].prepared}
  /\ UNCHANGED <<authority, resident, sockets, outgoing, observed>>

\* map_commit_result: a refusal by the authority checks, or any failure.
FailureCode(t) ==
  {Internal} \cup (IF doc.deleted THEN {Deleted}
                   ELSE IF Authoritative(t) THEN {} ELSE {Unauthorized})

\* commit_batch: a refused or failed transaction, or a due compaction of a
\* replica with a gap.  Nothing is acknowledged; the room is poisoned.
CommitFails(t) ==
  /\ BatchDone(t)
  /\ room[t].prepared # {}
  /\ \E code \in FailureCode(t) : Poison(t, code)
  /\ UNCHANGED <<rows, authority, resident, at, role, ticket, outgoing, observed>>

\* What broadcast sends the others: the journaled bytes of an update, the
\* whole merged replica after a recovery snapshot.
Relay(p) == IF p.action = "snapshot" THEN p.version ELSE p.accepted

\* Mutant: a batch with commits forgets its retries.
AnswersOfCommits(t) == IF room[t].prepared # {} THEN room[t].prepared ELSE room[t].acks

\* Everything the batch acknowledges.
Answers(t) == room[t].prepared \cup room[t].acks

\* Mutant: clients hear of the batch before it is stored.
PublishableEarly(t) == room[t].pc = "publish" \/ BatchDone(t)

\* commit_batch returned, or frames had nothing to commit.
Publishable(t) == room[t].pc = "publish" \/ (BatchDone(t) /\ room[t].prepared = {})

\* acknowledge and broadcast.  A socket whose queue fills up is closed; it
\* may have been sent everything before, or nothing.
Publish(t) ==
  /\ room[t].status = "live"
  /\ Publishable(t)
  /\ \E slow \in SUBSET Sockets(t) : \E missed \in {{}, slow} :
       LET Reached == Sockets(t) \ missed
           Answered == {p \in Answers(t) : p.conn \in Reached}
           Relayed == {p \in room[t].prepared : Reached \ {p.conn} # {}}
       IN /\ open' = open \ slow
          /\ receipts' = receipts \cup
               {[id |-> p.id, payload |-> p.payload, revision |-> p.revision] : p \in Answered}
          /\ told' = told \cup (UNION {p.version : p \in Answered})
                          \cup (UNION {Relay(p) : p \in Relayed})
          /\ awaiting' = [c \in Conn |->
               awaiting[c] \ {p.id : p \in {q \in Answered : q.conn = c}}]
  /\ room' = [room EXCEPT ![t] = BatchOver(room[t])]
  /\ UNCHANGED <<rows, authority, resident, at, role, ticket, outgoing>>

-----------------------------------------------------------------------------
TaskStep(t) ==
  \/ Hydrate(t) \/ HydrateFails(t) \/ AbortEnds(t)
  \/ TakeControl(t)
  \/ BeginBatch(t) \/ CollectFrame(t) \/ EndCollect(t) \/ StartFrames(t)
  \/ IgnoreFrame(t) \/ RefuseFrame(t) \/ LimitFrame(t) \/ AckRetry(t) \/ LookupFails(t)
  \/ StageReceipt(t) \/ StageUpdate(t) \/ StageSnapshot(t) \/ SnapshotFails(t)
  \/ CommitBatch(t) \/ CommitFails(t) \/ Publish(t)

Next ==
  \/ \E t \in Task : TaskStep(t) \/ Spawn(t) \/ LeaveTimeout(t) \/ IdleExit(t) \/ Shutdown(t)
  \/ \E t \in Task, c \in Conn : Join(t, c) \/ Leave(t, c)
  \/ \E c \in Conn : Admit(c) \/ JoinRefused(c) \/ LeaveUnmapped(c)
  \/ \E c \in Conn, m \in Mutation : Send(c, m)
  \/ \E a \in Actor, r \in Role : ChangeAcl(a, r) \/ LinkRedeem(a, r)
  \/ \E a \in Revocable : Revoke(a)
  \/ \E ctl \in outgoing : Dispatch(ctl)
  \/ Delete \/ Restore \/ Crash

Spec == Init /\ [][Next]_vars

\* The runtime polls a task that has something to do: a message, a control,
\* the batch deadline, or the abort of its handle.
FairSpec == Spec /\ \A t \in Task : WF_vars(TaskStep(t))

-----------------------------------------------------------------------------
(* Properties *)

RowsOK ==
  /\ doc \in [deleted: BOOLEAN, epoch: Nat, snapshot: SUBSET Op, snapshotRevision: Nat]
  /\ journal \subseteq [revision: Nat, ops: SUBSET Op]
  /\ commits \subseteq [id: MsgId, payload: Payload, revision: Nat]
  /\ authors \subseteq Op \X Actor

AuthorityOK ==
  /\ acl \in [Actor -> Role]
  /\ revoked \subseteq Actor
  /\ outgoing \subseteq Control

\* A room whose queues are within their bounds.
BoundedRoom ==
  {r \in RoomState : Len(r.inbox) <= QueueMax /\ Len(r.batch) <= BatchMax
                       /\ Len(r.controls) <= ControlMax}

SocketsOK ==
  /\ resident \in Task \cup {NoTask}
  /\ at \in [Conn -> Task \cup {NoTask}]
  /\ open \subseteq {c \in Conn : at[c] # NoTask}
  /\ role \in [Conn -> Role]
  /\ ticket \in [Conn -> [held: BOOLEAN, epoch: Nat, role: Role]]

ObservedOK ==
  /\ awaiting \in [Conn -> SUBSET MsgId]
  /\ receipts \subseteq [id: MsgId, payload: Payload, revision: Nat]
  /\ told \subseteq Op

\* Every variable has its type, the bounded lanes stay within their bounds,
\* and a connection in a socket table has a socket loop.
TypeOK == RowsOK /\ AuthorityOK /\ room \in [Task -> BoundedRoom] /\ SocketsOK /\ ObservedOK

\* What a client was told the server holds - by a receipt's version, a relay
\* or the initial sync - and what it has a receipt for, survives every crash,
\* compaction, eviction and rehydration (clients prune their own history on
\* the strength of it).
PublishedIsDurable ==
  /\ told \subseteq Durable
  /\ \A r \in receipts : r.payload[2] \subseteq Durable

\* A replica that can be joined or read holds exactly what a restart would
\* rebuild from snapshot and journal, at the revision a restart would assume.
ReplicaIsDurable ==
  \A t \in Task :
    room[t].status = "live" /\ room[t].dead = 0 /\ room[t].pc \in {"idle", "collect"} =>
      /\ room[t].ops = Durable
      /\ room[t].revision \in Revisions
      /\ \A s \in Revisions : s <= room[t].revision

\* Two receipts of one id are the same, or more than the receipt window apart.
SameOrApart(r, s) ==
  r.id = s.id /\ r # s =>
    r.revision - s.revision > ReceiptWindow \/ s.revision - r.revision > ReceiptWindow

\* Retries of one mutation id always get the same receipt, and an id never
\* gets receipts for two payloads, unless they are more than the receipt
\* window apart.
ReceiptsStable == \A r, s \in receipts : SameOrApart(r, s)

\* A mutation of connection c is in the room, queued, collected or prepared.
Waits(r, c, id) ==
  \/ \E i \in 1..Len(r.inbox) : r.inbox[i].conn = c /\ r.inbox[i].mut.id = id
  \/ \E i \in 1..Len(r.batch) : r.batch[i].conn = c /\ r.batch[i].mut.id = id
  \/ \E p \in r.prepared \cup r.acks : p.conn = c /\ p.id = id

\* A mutation sent on a connection that is still open is never forgotten: it
\* waits in the room or its receipt was sent.
NoFrameForgotten == \A c \in open : \A id \in awaiting[c] : Waits(room[at[c]], c, id)

\* A sender is never left waiting: its mutation is answered, or its socket is
\* closed so that it reconnects and retries - through dropped batches, full
\* lanes, poisoned rooms and aborted tasks.
AnsweredOrClosed ==
  \A c \in Conn, id \in MsgId :
    (c \in open /\ id \in awaiting[c]) ~> (c \notin open \/ id \notin awaiting[c])

\* A task that lost its place in the map ends, whatever it was doing.
AbortedEnds == \A t \in Task : room[t].aborted ~> room[t].status = "ended"

\* Every stored operation is attributed, and only to the actor that owns its
\* site: neither updates nor recovery snapshots can introduce another's.
AttributionExact ==
  /\ \A op \in Durable : <<op, op[1]>> \in authors
  /\ \A e \in authors : e[1][1] = e[2]

\* Nothing is ever stored for an actor that is not, at that moment, an
\* unrevoked editor of a live document - whatever controls are still on
\* their way to the room.
StoredByEditors ==
  [][\A e \in authors' \ authors :
       acl[e[2]] = "editor" /\ e[2] \notin revoked /\ ~doc.deleted]_vars

\* The room keeps the abstract promise of DurableDocument.
Promise == INSTANCE DurableDocument WITH
  stored <- Durable,
  published <- told \cup UNION {r.payload[2] : r \in receipts}

\* Every step of the room, its crashes and hand-overs included, is a step of
\* a document that only grows and only shows what it has stored.
KeepsPromise == Promise!Spec

-----------------------------------------------------------------------------
(* The inductive invariant behind PublishedIsDurable and ReplicaIsDurable,  *)
(* for rooms that do not overlap.  D and R stand for Durable and Revisions. *)

\* At most one task can still write, or start to.
SingleWriter == \A t, u \in Task : t # u => Quiet(t) \/ Quiet(u)

\* Every journal row is one that hydration replays.
RowsReplayed == \A row \in journal : row.revision > doc.snapshotRevision

\* A receipt that a retry may be answered from is backed by stored operations.
ReceiptsBacked == \A k \in commits : k.payload[2] \subseteq Durable

Newest(v, R) == v \in R /\ \A s \in R : s <= v

\* Between batches the replica is what a restart would rebuild.
InSync(r, D, R) == r.ops = D /\ Newest(r.revision, R) /\ r.prepared = {} /\ r.acks = {}

\* While frames are prepared the replica is ahead by exactly what is staged,
\* the staged revisions are new, and a staged version includes everything
\* staged under its revision or an earlier one.
Staged(r, D, R) ==
  /\ r.durable = D
  /\ r.ops = D \cup UNION {p.accepted : p \in r.prepared}
  /\ Newest(r.revision, R)
  /\ r.revision <= r.nextRevision
  /\ r.nextRevision > r.revision =>
       \E p \in r.prepared : p.action # "receipt" /\ p.revision = r.nextRevision
  /\ \A p \in r.prepared :
       /\ D \subseteq p.version /\ p.version \subseteq r.ops
       /\ p.payload[2] \subseteq p.version
       /\ p.revision <= r.nextRevision
       /\ IF p.action = "receipt" THEN p.accepted = {} ELSE r.revision < p.revision
  /\ \A p, q \in r.prepared : q.revision <= p.revision => q.accepted \subseteq p.version
  /\ \A a \in r.acks : a.version \subseteq r.ops /\ a.payload[2] \subseteq r.ops

\* Once committed, everything the batch will say is stored.
Committed(r, D, R) ==
  /\ r.ops = D
  /\ Newest(r.revision, R)
  /\ \A p \in r.prepared : p.accepted \subseteq D /\ p.version \subseteq D /\ p.payload[2] \subseteq D
  /\ \A a \in r.acks : a.version \subseteq D /\ a.payload[2] \subseteq D

RoomInv(r, D, R) ==
  /\ r.status # "live" => r.pc = "idle" /\ r.prepared = {} /\ r.acks = {}
  /\ r.dead # 0 => r.pc \notin {"frames", "publish"}
  /\ r.status = "live" /\ r.dead = 0 =>
       /\ r.pc \in {"idle", "collect", "deferred"} => InSync(r, D, R)
       /\ r.pc = "frames" => Staged(r, D, R)
       /\ r.pc = "publish" => Committed(r, D, R)

DurableInv ==
  /\ PublishedIsDurable
  /\ SingleWriter
  /\ RowsReplayed
  /\ ReceiptsBacked
  /\ \A t \in Task : RoomInv(room[t], Durable, Revisions)
-----------------------------------------------------------------------------
(* The inductive invariants behind NoFrameForgotten, StoredByEditors and    *)
(* AttributionExact.                                                        *)

\* Only a room that serves has sockets, and it knows what they wait for.
Served(t) ==
  /\ room[t].pc \in {"idle", "publish"} => room[t].batch = << >>
  /\ \A c \in Sockets(t) :
       /\ room[t].status = "live" /\ room[t].dead = 0
       /\ \A id \in awaiting[c] : Waits(room[t], c, id)

ServingInv ==
  /\ \A c \in Conn : ticket[c].held => at[c] = NoTask
  /\ \A c \in Conn : at[c] = NoTask => awaiting[c] = {}
  /\ \A t \in Task : Served(t)

\* A control says nothing of an epoch that has not begun.
Announced(ctl) == ctl.kind = "epoch" => ctl.epoch <= doc.epoch

\* What a room believes of its editors is true unless a newer epoch, which
\* the transaction of its next batch will meet, has begun.
Trusted(t) ==
  /\ room[t].epoch <= doc.epoch
  /\ \A i \in 1..Len(room[t].controls) : Announced(room[t].controls[i])
  /\ room[t].prepared # {} => room[t].status = "live" /\ room[t].pc \in {"frames", "publish"}
  /\ \A p \in room[t].prepared : \A op \in p.accepted : op[1] = ActorOf[p.conn]
  /\ room[t].epoch = doc.epoch =>
       /\ \A c \in Sockets(t) : role[c] = "editor" => acl[ActorOf[c]] = "editor"
       /\ \A p \in room[t].prepared : acl[ActorOf[p.conn]] = "editor"

AuthorityInv ==
  /\ \A c \in Conn : ticket[c].held =>
       /\ ticket[c].epoch <= doc.epoch
       /\ ticket[c].epoch = doc.epoch /\ ticket[c].role = "editor" => acl[ActorOf[c]] = "editor"
  /\ \A ctl \in outgoing : Announced(ctl)
  /\ \A t \in Task : Trusted(t)

-----------------------------------------------------------------------------
(* The inductive invariant behind ReceiptsStable, for rooms that do not     *)
(* overlap.                                                                 *)

Receipt(p) == [id |-> p.id, payload |-> p.payload, revision |-> p.revision]

\* The receipts a batch is going to send.
Due(r) == {Receipt(p) : p \in r.prepared \cup r.acks}

\* A receipt is found by every retry until its id is long out of the window.
Kept(r) == r \in commits \/ r.revision + ReceiptWindow < doc.snapshotRevision

\* What a batch answers is at odds with nothing that was or will be answered.
Consistent(r) ==
  /\ \A x, y \in receipts \cup commits \cup Due(r) : SameOrApart(x, y)
  /\ r.pc = "frames" => Due(r) \subseteq commits \cup {Receipt(p) : p \in r.prepared}
  /\ r.pc = "publish" => \A x \in Due(r) : Kept(x)

ReceiptsInv ==
  /\ \A r, s \in receipts \cup commits : SameOrApart(r, s)
  /\ \A r \in receipts : Kept(r)
  /\ \A t \in Task : room[t].pc \in {"frames", "publish"} => Consistent(room[t])
=============================================================================
