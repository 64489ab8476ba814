------------------------------ MODULE RoomProofs ------------------------------
(* Proofs about Room. *)
EXTENDS Room, TLAPS

-----------------------------------------------------------------------------
(* The steps of a task keep its state well typed. *)

\* The capacities of the lanes and the receipt window are naturals.
LEMMA Bounds ==
  BatchMax \in Nat \ {0} /\ QueueMax \in Nat \ {0} /\ ControlMax \in Nat \ {0}
    /\ ReceiptWindow \in Nat
  BY ConstantsAssumption DEF ConstantsAssumption

\* The empty lane is a lane of every type.
LEMMA NoFrames ==
  << >> \in Seq(Frame) /\ << >> \in Seq(Control) /\ Len(<< >>) = 0
  OBVIOUS

\* A task that has not started, and one that has ended, hold nothing.
LEMMA UnbornBounded == Unborn \in BoundedRoom /\ Ended \in BoundedRoom
<1>1. Unborn \in RoomState /\ Ended \in RoomState
  BY NoFrames DEF Unborn, Ended, RoomState, CloseCode
<1>2. \A r \in {Unborn, Ended} : r.inbox = << >> /\ r.batch = << >> /\ r.controls = << >>
  BY DEF Unborn, Ended
<1> QED BY <1>1, <1>2, Bounds, NoFrames DEF BoundedRoom

\* Giving up the locals of a batch keeps the lanes bounded.
LEMMA BatchOverBounded == ASSUME NEW r \in BoundedRoom PROVE BatchOver(r) \in BoundedRoom
<1>1. BatchOver(r) \in RoomState
  BY NoFrames DEF BatchOver, BoundedRoom, RoomState
<1>2. /\ BatchOver(r).inbox = r.inbox /\ BatchOver(r).controls = r.controls
      /\ BatchOver(r).batch \in {<< >>, r.batch}
  BY DEF BatchOver, BoundedRoom, RoomState
<1> QED BY <1>1, <1>2, Bounds, NoFrames DEF BoundedRoom

\* So does the start of its preparation.
LEMMA FramedBounded == ASSUME NEW r \in BoundedRoom PROVE Framed(r) \in BoundedRoom
<1>1. Framed(r) \in RoomState
  BY NoFrames DEF Framed, BoundedRoom, RoomState
<1>2. /\ Framed(r).inbox = r.inbox /\ Framed(r).controls = r.controls
      /\ Framed(r).batch \in {<< >>, r.batch}
  BY DEF Framed, BoundedRoom, RoomState
<1> QED BY <1>1, <1>2, Bounds, NoFrames DEF BoundedRoom

\* So does an abort.
LEMMA EvictedBounded ==
  ASSUME NEW r \in BoundedRoom, NEW b \in BOOLEAN
  PROVE  [r EXCEPT !.aborted = b] \in BoundedRoom
  BY DEF BoundedRoom, RoomState

\* A control is appended only below the lane's capacity.
LEMMA ControlledBounded ==
  ASSUME NEW r \in BoundedRoom, NEW ctl \in Control, Len(r.controls) < ControlMax
  PROVE  Notified(r, ctl) \in BoundedRoom
<1> DEFINE lane == Append(r.controls, ctl)
<1>1. r.controls \in Seq(Control)
  BY DEF BoundedRoom, RoomState
<1>2. lane \in Seq(Control) /\ Len(lane) = Len(r.controls) + 1
  BY <1>1
<1>3. Len(lane) <= ControlMax
  BY <1>1, <1>2, Bounds
<1> HIDE DEF lane
<1>4. [r EXCEPT !.controls = lane] \in BoundedRoom
  BY <1>2, <1>3 DEF BoundedRoom, RoomState
<1> QED BY <1>4 DEF lane, Notified

\* A frame is appended only below the queue's capacity.
LEMMA QueuedBounded ==
  ASSUME NEW r \in BoundedRoom, NEW f \in Frame, Len(r.inbox) < QueueMax
  PROVE  Queued(r, f) \in BoundedRoom
<1> DEFINE lane == Append(r.inbox, f)
<1>1. r.inbox \in Seq(Frame)
  BY DEF BoundedRoom, RoomState
<1>2. lane \in Seq(Frame) /\ Len(lane) = Len(r.inbox) + 1
  BY <1>1
<1>3. Len(lane) <= QueueMax
  BY <1>1, <1>2, Bounds
<1> HIDE DEF lane
<1>4. [r EXCEPT !.inbox = lane] \in BoundedRoom
  BY <1>2, <1>3 DEF BoundedRoom, RoomState
<1> QED BY <1>4 DEF lane, Queued

\* Taking the head of a lane shortens it.
LEMMA TailShorter ==
  ASSUME NEW S, NEW s \in Seq(S), s # << >>
  PROVE  Tail(s) \in Seq(S) /\ Len(Tail(s)) <= Len(s) /\ Head(s) \in S
  OBVIOUS

\* Taking a control keeps the lanes bounded.
LEMMA DrainedBounded ==
  ASSUME NEW r \in BoundedRoom, r.controls # << >> PROVE Drained(r) \in BoundedRoom
<1> DEFINE lane == Tail(r.controls)
<1>1. lane \in Seq(Control) /\ Len(lane) <= Len(r.controls) /\ Len(r.controls) \in Nat /\ Len(lane) \in Nat
  BY TailShorter DEF BoundedRoom, RoomState
<1>2. Len(lane) <= ControlMax
  BY <1>1, Bounds DEF BoundedRoom
<1> HIDE DEF lane
<1>3. [r EXCEPT !.controls = lane] \in BoundedRoom
  BY <1>1, <1>2 DEF BoundedRoom, RoomState
<1> QED BY <1>3 DEF lane, Drained

\* Moving a frame from the queue to the batch keeps both bounded.
LEMMA TakenBounded ==
  ASSUME NEW r \in BoundedRoom, r.inbox # << >>, NEW b \in Seq(Frame), Len(b) <= BatchMax
  PROVE  Taken(r, b) \in BoundedRoom
<1> DEFINE lane == Tail(r.inbox)
<1>1. lane \in Seq(Frame) /\ Len(lane) <= Len(r.inbox) /\ Len(r.inbox) \in Nat /\ Len(lane) \in Nat
  BY TailShorter DEF BoundedRoom, RoomState
<1>2. Len(lane) <= QueueMax
  BY <1>1, Bounds DEF BoundedRoom
<1> HIDE DEF lane
<1>3. [r EXCEPT !.pc = "collect", !.batch = b, !.inbox = lane] \in BoundedRoom
  BY <1>1, <1>2 DEF BoundedRoom, RoomState
<1> QED BY <1>3 DEF lane, Taken

\* The first frame of a batch.
LEMMA FirstTaken ==
  ASSUME NEW r \in BoundedRoom, r.inbox # << >>
  PROVE  Taken(r, <<Head(r.inbox)>>) \in BoundedRoom
<1> DEFINE b == <<Head(r.inbox)>>
<1>1. Head(r.inbox) \in Frame
  BY TailShorter DEF BoundedRoom, RoomState
<1>2. b \in Seq(Frame) /\ Len(b) = 1
  BY <1>1
<1>3. Len(b) <= BatchMax
  BY <1>2, Bounds
<1> HIDE DEF b
<1>4. Taken(r, b) \in BoundedRoom
  BY <1>2, <1>3, TakenBounded
<1> QED BY <1>4 DEF b

\* A further frame, when the batch is not full.
LEMMA NextTaken ==
  ASSUME NEW r \in BoundedRoom, r.inbox # << >>, Len(r.batch) < BatchMax
  PROVE  Taken(r, Append(r.batch, Head(r.inbox))) \in BoundedRoom
<1> DEFINE b == Append(r.batch, Head(r.inbox))
<1>1. Head(r.inbox) \in Frame /\ r.batch \in Seq(Frame)
  BY TailShorter DEF BoundedRoom, RoomState
<1>2. b \in Seq(Frame) /\ Len(b) = Len(r.batch) + 1
  BY <1>1
<1>3. Len(b) <= BatchMax
  BY <1>1, <1>2, Bounds
<1> HIDE DEF b
<1>4. Taken(r, b) \in BoundedRoom
  BY <1>2, <1>3, TakenBounded
<1> QED BY <1>4 DEF b

\* A frame that is done leaves the batch; the current one is a frame.
LEMMA PoppedBounded ==
  ASSUME NEW t \in Task, room[t] \in BoundedRoom, room[t].batch # << >>
  PROVE  Popped(t) \in BoundedRoom /\ Current(t) \in Frame
<1> DEFINE rest == Tail(room[t].batch)
<1>1. /\ rest \in Seq(Frame) /\ Len(rest) <= Len(room[t].batch)
      /\ Len(room[t].batch) \in Nat /\ Len(rest) \in Nat
  BY TailShorter DEF BoundedRoom, RoomState
<1>2. Len(rest) <= BatchMax
  BY <1>1, Bounds DEF BoundedRoom
<1>3. Current(t) \in Frame
  BY TailShorter DEF Current, BoundedRoom, RoomState
<1> HIDE DEF rest
<1>4. [room[t] EXCEPT !.batch = rest] \in BoundedRoom
  BY <1>1, <1>2 DEF BoundedRoom, RoomState
<1> QED BY <1>3, <1>4 DEF rest, Popped

\* Marking the frames of a departed connection keeps their number.
LEMMA OrphanedSeq ==
  ASSUME NEW s \in Seq(Frame), NEW c \in Conn
  PROVE  Orphaned(s, c) \in Seq(Frame) /\ Len(Orphaned(s, c)) = Len(s)
<1>1. \A i \in 1..Len(s) : s[i] \in Frame
  OBVIOUS
<1>2. \A f \in Frame : [f EXCEPT !.conn = NoConn] \in Frame
  BY DEF Frame
<1>3. Orphaned(s, c) \in [1..Len(s) -> Frame]
  BY <1>1, <1>2 DEF Orphaned
<1>4. Len(s) \in Nat
  OBVIOUS
<1> QED BY <1>3, <1>4

\* A departure keeps the lanes bounded.
LEMMA DepartedBounded ==
  ASSUME NEW r \in BoundedRoom, NEW c \in Conn PROVE Departed(r, c) \in BoundedRoom
<1>1. r.inbox \in Seq(Frame) /\ r.batch \in Seq(Frame)
  BY DEF BoundedRoom, RoomState
<1>2. /\ Orphaned(r.inbox, c) \in Seq(Frame) /\ Len(Orphaned(r.inbox, c)) = Len(r.inbox)
      /\ Orphaned(r.batch, c) \in Seq(Frame) /\ Len(Orphaned(r.batch, c)) = Len(r.batch)
  BY <1>1, OrphanedSeq
<1> HIDE DEF Orphaned
<1> QED BY <1>2 DEF Departed, BoundedRoom, RoomState

-----------------------------------------------------------------------------
(* Type correctness, one lemma per group of actions. *)

\* The socket table, the owner map and the observations are left alone.
LEMMA TypeStart ==
  ASSUME TypeOK, NEW t \in Task, Spawn(t) \/ Hydrate(t) \/ HydrateFails(t)
  PROVE  TypeOK'
<1> USE DEF TypeOK, rows, authority, sockets, observed
<1>0. room[t] \in BoundedRoom
  OBVIOUS
<1>1. CASE Spawn(t)
  <2>1. [room[t] EXCEPT !.status = "hydrating"] \in BoundedRoom
    BY <1>0 DEF BoundedRoom, RoomState
  <2> QED BY <1>1, <2>1 DEF Spawn, RowsOK, AuthorityOK, SocketsOK, ObservedOK
<1>2. CASE Hydrate(t)
  <2>1. Durable \subseteq Op /\ Revisions \subseteq Nat /\ doc.epoch \in Nat
    BY DEF RowsOK, Durable, Revisions, Replayed
  <2>2. PICK r \in Revisions : room' = [room EXCEPT ![t] =
            [@ EXCEPT !.status = "live", !.ops = Durable, !.revision = r,
                      !.since = 0, !.epoch = doc.epoch]]
    BY <1>2 DEF Hydrate
  <2>3. [room[t] EXCEPT !.status = "live", !.ops = Durable, !.revision = r,
                        !.since = 0, !.epoch = doc.epoch] \in BoundedRoom
    <3> HIDE DEF Durable, Revisions
    <3> QED BY <1>0, <2>1 DEF BoundedRoom, RoomState
  <2>4. room' \in [Task -> BoundedRoom]
    BY <2>2, <2>3
  <2> QED BY <1>2, <2>4 DEF Hydrate, RowsOK, AuthorityOK, SocketsOK, ObservedOK
<1>3. CASE HydrateFails(t)
  <2>1. [room[t] EXCEPT !.status = "refusing"] \in BoundedRoom
    BY <1>0 DEF BoundedRoom, RoomState
  <2> QED BY <1>3, <2>1 DEF HydrateFails, RowsOK, AuthorityOK, SocketsOK, ObservedOK
<1> QED BY <1>1, <1>2, <1>3

\* Admission, joins and refused joins are well typed.
LEMMA TypeAdmission ==
  ASSUME TypeOK, NEW c \in Conn, Admit(c) \/ JoinRefused(c) \/ (\E t \in Task : Join(t, c))
  PROVE  TypeOK'
<1> USE ConstantsAssumption DEF ConstantsAssumption, TypeOK, rows, authority, sockets, observed
<1>1. CASE Admit(c)
  BY <1>1 DEF Admit, RowsOK, AuthorityOK, SocketsOK, ObservedOK
<1>2. CASE JoinRefused(c)
  BY <1>2 DEF JoinRefused, NoTicket, RowsOK, AuthorityOK, SocketsOK, ObservedOK, Role
<1>3. ASSUME NEW t \in Task, Join(t, c) PROVE TypeOK'
  <2>1. room[t].ops \subseteq Op
    BY DEF BoundedRoom, RoomState
  <2>2. SocketsOK'
    BY <1>3 DEF Join, SocketsOK, NoTicket, Role
  <2> QED BY <1>3, <2>1, <2>2 DEF Join, RowsOK, AuthorityOK, ObservedOK
<1> QED BY <1>1, <1>2, <1>3

\* The document row after an epoch bump.
LEMMA DocumentRow ==
  ASSUME RowsOK, NEW b \in BOOLEAN, NEW e \in Nat
  PROVE  [doc EXCEPT !.deleted = b, !.epoch = e]
           \in [deleted: BOOLEAN, epoch: Nat, snapshot: SUBSET Op, snapshotRevision: Nat]
  BY DEF RowsOK

\* The HTTP handlers that change authority are well typed.
LEMMA TypeAuthority ==
  ASSUME TypeOK,
         \/ \E a \in Actor, r \in Role : ChangeAcl(a, r) \/ LinkRedeem(a, r)
         \/ \E a \in Revocable : Revoke(a)
         \/ Delete \/ Restore
  PROVE  TypeOK'
<1> USE ConstantsAssumption DEF ConstantsAssumption, TypeOK, rows, authority, sockets, observed
<1>1. ASSUME NEW a \in Actor, NEW r \in Role, ChangeAcl(a, r) PROVE TypeOK'
  <2>1. [kind |-> "epoch", epoch |-> doc.epoch + 1] \in Control
    BY DEF Control, RowsOK
  <2> QED BY <1>1, <2>1 DEF ChangeAcl, RowsOK, AuthorityOK, SocketsOK, ObservedOK
<1>2. ASSUME NEW a \in Actor, NEW r \in Role, LinkRedeem(a, r) PROVE TypeOK'
  BY <1>2 DEF LinkRedeem, RowsOK, AuthorityOK, SocketsOK, ObservedOK
<1>3. ASSUME NEW a \in Revocable, Revoke(a) PROVE TypeOK'
  <2>1. [kind |-> "revoked", actor |-> a] \in Control
    BY DEF Control
  <2> QED BY <1>3, <2>1 DEF Revoke, RowsOK, AuthorityOK, SocketsOK, ObservedOK
<1>4. CASE Delete
  <2>1. [kind |-> "deleted", epoch |-> doc.epoch + 1] \in Control
    BY DEF Control, RowsOK
  <2>2. doc.epoch + 1 \in Nat /\ TRUE \in BOOLEAN
    BY DEF RowsOK
  <2>3. RowsOK'
    BY <1>4, <2>2, DocumentRow, Zenon DEF Delete, RowsOK
  <2> QED BY <1>4, <2>1, <2>3 DEF Delete, AuthorityOK, SocketsOK, ObservedOK
<1>5. CASE Restore
  <2>1. doc.epoch + 1 \in Nat /\ FALSE \in BOOLEAN
    BY DEF RowsOK
  <2>2. RowsOK'
    BY <1>5, <2>1, DocumentRow, Zenon DEF Restore, RowsOK
  <2> QED BY <1>5, <2>2 DEF Restore, AuthorityOK, SocketsOK, ObservedOK
<1> QED BY <1>1, <1>2, <1>3, <1>4, <1>5

\* Ending a task, compaction included.
LEMMA CompactedRows ==
  ASSUME RowsOK, NEW t \in Task, room[t] \in BoundedRoom, Compacted(t) PROVE RowsOK'
<1>1. room[t].ops \subseteq Op /\ room[t].revision \in Nat
  BY DEF BoundedRoom, RoomState
<1> QED BY <1>1 DEF Compacted, RowsOK

\* Departures, with and without compaction, are well typed.
LEMMA TypeLeave ==
  ASSUME TypeOK, NEW c \in Conn, LeaveUnmapped(c) \/ (\E t \in Task : Leave(t, c))
  PROVE  TypeOK'
<1> USE DEF TypeOK, rows, authority, sockets, observed
<1>1. CASE LeaveUnmapped(c)
  BY <1>1 DEF LeaveUnmapped, Detach, RowsOK, AuthorityOK, SocketsOK, ObservedOK, Role
<1>2. ASSUME NEW t \in Task, Leave(t, c) PROVE TypeOK'
  <2>1. Departed(room[t], c) \in BoundedRoom
    BY DepartedBounded
  <2>2. [Departed(room[t], c) EXCEPT !.since = 0] \in BoundedRoom
    <3> HIDE DEF Departed
    <3> QED BY <2>1 DEF BoundedRoom, RoomState
  <2>3. room' \in [Task -> BoundedRoom]
    BY <1>2, <2>1, <2>2 DEF Leave
  <2>4. RowsOK'
    <3>1. CASE UNCHANGED rows
      BY <3>1 DEF RowsOK
    <3>2. CASE Compacted(t)
      BY <3>2, CompactedRows
    <3> QED BY <1>2, <3>1, <3>2 DEF Leave
  <2>5. SocketsOK' /\ ObservedOK'
    BY <1>2 DEF Leave, Detach, SocketsOK, ObservedOK, Role
  <2> QED BY <1>2, <2>3, <2>4, <2>5 DEF Leave, AuthorityOK
<1> QED BY <1>1, <1>2

\* The ways a task ends are well typed.
LEMMA TypeEnd ==
  ASSUME TypeOK, NEW t \in Task, LeaveTimeout(t) \/ AbortEnds(t) \/ IdleExit(t) \/ Shutdown(t)
  PROVE  TypeOK'
<1> USE DEF TypeOK, rows, authority, sockets, observed
<1>0. Ended \in BoundedRoom
  BY UnbornBounded
<1>1. CASE LeaveTimeout(t)
  <2>1. [room[t] EXCEPT !.aborted = TRUE] \in BoundedRoom
    BY EvictedBounded
  <2> QED BY <1>1, <2>1 DEF LeaveTimeout, Evict, RowsOK, AuthorityOK, SocketsOK, ObservedOK
<1>2. CASE AbortEnds(t)
  <2> HIDE DEF Ended
  <2> QED BY <1>0, <1>2 DEF AbortEnds, RowsOK, AuthorityOK, SocketsOK, ObservedOK
<1>3. ASSUME Exit(t) PROVE TypeOK'
  <2>1. RowsOK'
    <3>1. CASE UNCHANGED rows
      BY <3>1 DEF RowsOK
    <3>2. CASE Compacted(t)
      BY <3>2, CompactedRows
    <3> QED BY <1>3, <3>1, <3>2 DEF Exit
  <2> QED BY <1>0, <1>3, <2>1 DEF Exit, AuthorityOK, SocketsOK, ObservedOK
<1>4. CASE IdleExit(t)
  BY <1>3, <1>4 DEF IdleExit
<1>5. CASE Shutdown(t)
  BY <1>3, <1>5 DEF Shutdown
<1> QED BY <1>1, <1>2, <1>4, <1>5

\* A crash leaves a well-typed state.
LEMMA TypeCrash ==
  ASSUME TypeOK, Crash PROVE TypeOK'
<1> USE DEF TypeOK, rows, authority, sockets, observed
<1>1. room' \in [Task -> BoundedRoom]
  BY UnbornBounded DEF Crash
<1> QED BY <1>1 DEF Crash, NoTicket, RowsOK, AuthorityOK, SocketsOK, ObservedOK, Role

-----------------------------------------------------------------------------
(* Controls *)

\* Dispatching a control appends it, or evicts the room.
LEMMA TypeDispatch ==
  ASSUME TypeOK, NEW ctl \in outgoing, Dispatch(ctl) PROVE TypeOK'
<1> USE DEF TypeOK, rows, authority, sockets, observed
<1>1. ctl \in Control
  BY DEF AuthorityOK
<1>2. CASE resident = NoTask /\ UNCHANGED <<room, resident>>
  BY <1>2 DEF Dispatch, RowsOK, AuthorityOK, SocketsOK, ObservedOK
<1>3. CASE resident # NoTask
  <2>1. resident \in Task
    BY <1>3 DEF SocketsOK
  <2>2. CASE /\ Len(room[resident].controls) < ControlMax
             /\ room' = [room EXCEPT ![resident] = Notified(@, ctl)]
             /\ resident' = IF ctl.kind = "deleted" THEN NoTask ELSE resident
    <3>1. Notified(room[resident], ctl) \in BoundedRoom
      BY <1>1, <2>1, <2>2, ControlledBounded
    <3>2. room' \in [Task -> BoundedRoom]
      BY <2>1, <2>2, <3>1
    <3>3. SocketsOK'
      BY <2>1, <2>2 DEF Dispatch, SocketsOK
    <3> QED BY <3>2, <3>3 DEF Dispatch, RowsOK, AuthorityOK, ObservedOK
  <2>3. CASE Evict(resident)
    <3>1. [room[resident] EXCEPT !.aborted = TRUE] \in BoundedRoom
      BY <2>1, EvictedBounded
    <3>2. room' \in [Task -> BoundedRoom] /\ SocketsOK'
      BY <2>1, <2>3, <3>1 DEF Dispatch, Evict, SocketsOK
    <3> QED BY <3>2 DEF Dispatch, RowsOK, AuthorityOK, ObservedOK
  <2> QED BY <1>3, <2>2, <2>3 DEF Dispatch
<1> QED BY <1>2, <1>3 DEF Dispatch

\* Room::control, from the loop or deferred by a batch.
LEMMA TypeApply ==
  ASSUME TypeOK, NEW t \in Task, NEW r \in BoundedRoom, room[t].controls # << >>,
         ApplyControl(t, r), UNCHANGED <<rows, authority, resident, at, ticket, outgoing, observed>>
  PROVE  TypeOK'
<1> USE DEF TypeOK, rows, authority, observed
<1> DEFINE ctl == Head(room[t].controls)
<1>1. room' \in [Task -> BoundedRoom]
  <2>1. ctl \in Control
    BY TailShorter DEF BoundedRoom, RoomState
  <2>2. ctl.kind = "epoch" => ctl.epoch \in Nat
    BY <2>1 DEF Control
  <2> HIDE DEF ctl
  <2>3. \A d \in CloseCode : [r EXCEPT !.dead = d] \in BoundedRoom
    BY DEF BoundedRoom, RoomState
  <2>4. ctl.kind = "epoch" =>
          \A d \in CloseCode : /\ [r EXCEPT !.epoch = ctl.epoch] \in BoundedRoom
                               /\ [r EXCEPT !.epoch = ctl.epoch, !.dead = d] \in BoundedRoom
    BY <2>2 DEF BoundedRoom, RoomState
  <2>5. Deleted \in CloseCode /\ Internal \in CloseCode
    BY DEF CloseCode
  <2>6. \/ room' = [room EXCEPT ![t] = [r EXCEPT !.dead = Deleted]]
        \/ ctl.kind = "epoch" /\ room' = [room EXCEPT ![t] = [r EXCEPT !.epoch = ctl.epoch]]
        \/ ctl.kind = "epoch" /\
             room' = [room EXCEPT ![t] = [r EXCEPT !.epoch = ctl.epoch, !.dead = Internal]]
        \/ room' = [room EXCEPT ![t] = r]
    BY DEF ApplyControl, ctl
  <2>7. \E x \in BoundedRoom : room' = [room EXCEPT ![t] = x]
    BY <2>3, <2>4, <2>5, <2>6
  <2> QED BY <2>7
<1>2. SocketsOK'
  <2>1. \A c \in Conn : acl[ActorOf[c]] \in Role
    BY ConstantsAssumption DEF ConstantsAssumption, AuthorityOK
  <2>2. \/ UNCHANGED role
        \/ role' = [c \in Conn |-> IF c \in Resolved(t) THEN acl[ActorOf[c]] ELSE role[c]]
    BY DEF ApplyControl
  <2>3. role' \in [Conn -> Role]
    BY <2>1, <2>2 DEF SocketsOK
  <2>4. open' \subseteq open
    BY DEF ApplyControl
  <2> QED BY <2>3, <2>4 DEF SocketsOK
<1> QED BY <1>1, <1>2 DEF RowsOK, AuthorityOK, ObservedOK

\* Receiving controls and collecting a batch is well typed.
LEMMA TypeCollect ==
  ASSUME TypeOK, NEW t \in Task,
         TakeControl(t) \/ BeginBatch(t) \/ CollectFrame(t) \/ EndCollect(t) \/ StartFrames(t)
  PROVE  TypeOK'
<1> USE DEF TypeOK, rows, authority, sockets, observed
<1>0. room[t] \in BoundedRoom
  OBVIOUS
<1>1. CASE TakeControl(t)
  <2>1. Drained(room[t]) \in BoundedRoom
    BY <1>0, <1>1, DrainedBounded DEF TakeControl
  <2> QED BY <1>1, <2>1, TypeApply DEF TakeControl
<1>2. CASE BeginBatch(t)
  <2>1. Received(room[t], <<Head(room[t].inbox)>>) \in BoundedRoom
    BY <1>0, <1>2, FirstTaken, FramedBounded DEF BeginBatch, Received
  <2> QED BY <1>2, <2>1 DEF BeginBatch, RowsOK, AuthorityOK, SocketsOK, ObservedOK
<1>3. CASE CollectFrame(t)
  <2> DEFINE b == Append(room[t].batch, Head(room[t].inbox))
  <2>1. Received(room[t], b) \in BoundedRoom
    BY <1>0, <1>3, NextTaken, FramedBounded DEF CollectFrame, Received
  <2>2. room' = [room EXCEPT ![t] = Received(@, b)]
    BY <1>3 DEF CollectFrame
  <2> HIDE DEF b
  <2>3. room' \in [Task -> BoundedRoom]
    BY <2>1, <2>2
  <2> QED BY <1>3, <2>3 DEF CollectFrame, RowsOK, AuthorityOK, SocketsOK, ObservedOK
<1>4. CASE EndCollect(t)
  <2>1. CASE room' = [room EXCEPT ![t] = Framed(room[t])] /\ UNCHANGED <<open, role>>
    <3>1. room' \in [Task -> BoundedRoom]
      BY <1>0, <2>1, FramedBounded
    <3> QED BY <1>4, <2>1, <3>1 DEF EndCollect, RowsOK, AuthorityOK, SocketsOK, ObservedOK
  <2>2. CASE /\ room[t].controls # << >>
             /\ ApplyControl(t, [Drained(room[t]) EXCEPT !.pc = "deferred"])
    <3>1. Drained(room[t]) \in BoundedRoom
      BY <1>0, <2>2, DrainedBounded
    <3>2. [Drained(room[t]) EXCEPT !.pc = "deferred"] \in BoundedRoom
      BY <3>1 DEF BoundedRoom, RoomState
    <3> QED BY <1>4, <2>2, <3>2, TypeApply DEF EndCollect
  <2> QED BY <1>4, <2>1, <2>2 DEF EndCollect
<1>5. CASE StartFrames(t)
  <2>1. room' \in [Task -> BoundedRoom]
    BY <1>0, <1>5, FramedBounded DEF StartFrames
  <2> QED BY <1>5, <2>1 DEF StartFrames, RowsOK, AuthorityOK, SocketsOK, ObservedOK
<1> QED BY <1>1, <1>2, <1>3, <1>4, <1>5

\* A frame handed to the room is well typed.
LEMMA TypeSend ==
  ASSUME TypeOK, NEW c \in Conn, NEW m \in Mutation, Send(c, m) PROVE TypeOK'
<1> USE DEF TypeOK, rows, authority, sockets, observed
<1>1. at[c] \in Task
  BY DEF Send, SocketsOK
<1>2. [conn |-> c, mut |-> m] \in Frame /\ m.id \in MsgId
  BY ConstantsAssumption DEF ConstantsAssumption, Frame
<1>3. Queued(room[at[c]], [conn |-> c, mut |-> m]) \in BoundedRoom
  BY <1>1, <1>2, QueuedBounded DEF Send
<1>4. room' \in [Task -> BoundedRoom]
  BY <1>1, <1>3 DEF Send
<1> QED BY <1>2, <1>4 DEF Send, RowsOK, AuthorityOK, SocketsOK, ObservedOK

-----------------------------------------------------------------------------
(* Preparing the frames of a batch. *)

\* What is known of the frame under preparation.
LEMMA CurrentFacts ==
  ASSUME TypeOK, NEW t \in Task, Preparing(t)
  PROVE  /\ room[t] \in BoundedRoom /\ Popped(t) \in BoundedRoom
         /\ Current(t).mut \in Mutation
         /\ Current(t).mut.id \in MsgId
         /\ Current(t).mut.kind \in {"update", "snapshot"}
         /\ Current(t).mut.ops \subseteq Op
         /\ PayloadOf(Current(t).mut) \in Payload
         /\ Current(t).conn \in Sockets(t) => Current(t).conn \in Conn
         /\ room[t].ops \subseteq Op /\ room[t].durable \subseteq Op
         /\ room[t].nextRevision \in Nat /\ room[t].nextSince \in Nat
<1>1. room[t] \in BoundedRoom
  BY DEF TypeOK
<1>2. Popped(t) \in BoundedRoom /\ Current(t) \in Frame
  BY <1>1, PoppedBounded DEF Preparing
<1>3. Current(t).mut \in Mutation
  BY <1>2 DEF Frame
<1>4. /\ Current(t).mut.id \in MsgId
      /\ Current(t).mut.kind \in {"update", "snapshot"}
      /\ Current(t).mut.ops \subseteq Op
  BY <1>3, ConstantsAssumption DEF ConstantsAssumption
<1>5. PayloadOf(Current(t).mut) \in Payload
  BY <1>4 DEF PayloadOf, Payload
<1>6. Current(t).conn \in Sockets(t) => Current(t).conn \in Conn
  BY DEF Sockets, TypeOK, SocketsOK
<1> QED BY <1>1, <1>2, <1>3, <1>4, <1>5, <1>6 DEF BoundedRoom, RoomState

\* A staged commit is a commit.
LEMMA EntryPrepared ==
  ASSUME TypeOK, NEW t \in Task, Authorized(t), NEW v \in Nat,
         NEW action \in {"receipt", "update", "snapshot"}
  PROVE  Entry(t, Current(t).conn, Current(t).mut, v, action) \in Prepared
<1>1. Preparing(t) /\ Current(t).conn \in Sockets(t)
  BY DEF Authorized
<1>2. Current(t).conn \in Conn /\ Current(t).mut.id \in MsgId
      /\ PayloadOf(Current(t).mut) \in Payload
      /\ Current(t).mut.ops \subseteq Op /\ room[t].ops \subseteq Op
  BY <1>1, CurrentFacts
<1>3. /\ room[t].ops \cup Current(t).mut.ops \in SUBSET Op
      /\ Current(t).mut.ops \ room[t].ops \in SUBSET Op
  BY <1>2
<1> QED BY <1>2, <1>3 DEF Entry, Prepared

\* Dropped frames, closed senders and given-up batches are well typed.
LEMMA TypeRefuse ==
  ASSUME TypeOK, NEW t \in Task,
         \/ IgnoreFrame(t) \/ RefuseFrame(t) \/ LimitFrame(t)
         \/ LookupFails(t) \/ SnapshotFails(t) \/ CommitFails(t)
  PROVE  TypeOK'
<1> USE DEF TypeOK, rows, authority, sockets, observed
<1>0. room[t] \in BoundedRoom
  OBVIOUS
<1>1. ASSUME Preparing(t), room' = [room EXCEPT ![t] = Popped(t)], open' \subseteq open,
             UNCHANGED <<rows, authority, resident, at, role, ticket, outgoing, observed>>
      PROVE  TypeOK'
  <2>1. room' \in [Task -> BoundedRoom]
    BY <1>1, CurrentFacts
  <2> QED BY <1>1, <2>1 DEF RowsOK, AuthorityOK, SocketsOK, ObservedOK
<1>2. ASSUME NEW x \in BoundedRoom, room' = [room EXCEPT ![t] = x], open' \subseteq open,
             UNCHANGED <<rows, authority, resident, at, role, ticket, outgoing, observed>>
      PROVE  TypeOK'
  BY <1>2 DEF RowsOK, AuthorityOK, SocketsOK, ObservedOK
<1>3. ASSUME NEW code \in CloseCode PROVE [BatchOver(room[t]) EXCEPT !.dead = code] \in BoundedRoom
  <2>1. BatchOver(room[t]) \in BoundedRoom
    BY <1>0, BatchOverBounded
  <2> QED BY <2>1 DEF BoundedRoom, RoomState
<1>4. Internal \in CloseCode /\ Deleted \in CloseCode /\ Unauthorized \in CloseCode
  BY DEF CloseCode
<1>5. CASE IgnoreFrame(t)
  BY <1>1, <1>5 DEF IgnoreFrame
<1>6. CASE RefuseFrame(t)
  BY <1>1, <1>6 DEF RefuseFrame
<1>7. CASE LimitFrame(t)
  BY <1>1, <1>7 DEF LimitFrame
<1>8. CASE LookupFails(t)
  BY <1>2, <1>3, <1>4, <1>8 DEF LookupFails, Poison
<1>9. CASE SnapshotFails(t)
  <2> DEFINE all == room[t].ops \cup Current(t).mut.ops
  <2>1. all \in SUBSET Op
    BY <1>9, CurrentFacts DEF SnapshotFails, Authorized
  <2>2. BatchOver(room[t]).ops = room[t].ops
    BY <1>0 DEF BatchOver, BoundedRoom, RoomState
  <2>3. BatchOver(room[t]) \in BoundedRoom
    BY <1>0, BatchOverBounded
  <2> HIDE DEF all
  <2>4. [BatchOver(room[t]) EXCEPT !.dead = Internal, !.ops = all] \in BoundedRoom
    BY <1>4, <2>1, <2>3 DEF BoundedRoom, RoomState
  <2>5. room' = [room EXCEPT ![t] = [BatchOver(room[t]) EXCEPT !.dead = Internal, !.ops = all]]
    BY <1>9, <2>2 DEF SnapshotFails, all
  <2> QED BY <1>2, <1>9, <2>4, <2>5 DEF SnapshotFails
<1>10. CASE CommitFails(t)
  <2>1. PICK code \in FailureCode(t) : Poison(t, code)
    BY <1>10 DEF CommitFails
  <2>2. code \in CloseCode /\ UNCHANGED <<rows, authority, resident, at, role, ticket, outgoing, observed>>
    BY <1>4, <1>10 DEF CommitFails, FailureCode
  <2> QED BY <1>2, <1>3, <2>1, <2>2 DEF Poison
<1> QED BY <1>5, <1>6, <1>7, <1>8, <1>9, <1>10

\* Retries and staged mutations are well typed.
LEMMA TypeStage ==
  ASSUME TypeOK, NEW t \in Task,
         AckRetry(t) \/ StageReceipt(t) \/ StageUpdate(t) \/ StageSnapshot(t)
  PROVE  TypeOK'
<1> USE DEF TypeOK, rows, authority, sockets, observed
<1> DEFINE c == Current(t).conn
           m == Current(t).mut
           old == Popped(t)
<1>0. Authorized(t) /\ UNCHANGED <<rows, authority, resident, sockets, outgoing, observed>>
  BY DEF AckRetry, StageReceipt, StageUpdate, StageSnapshot
<1>1. /\ room[t] \in BoundedRoom /\ old \in BoundedRoom /\ m.id \in MsgId /\ m.ops \subseteq Op
      /\ PayloadOf(m) \in Payload /\ c \in Conn
      /\ room[t].ops \subseteq Op /\ room[t].durable \subseteq Op
      /\ room[t].nextRevision \in Nat /\ room[t].nextSince \in Nat
  BY <1>0, CurrentFacts DEF Authorized
<1>2. /\ old.ops = room[t].ops /\ old.acks = room[t].acks /\ old.prepared = room[t].prepared
      /\ old.nextRevision = room[t].nextRevision /\ old.nextSince = room[t].nextSince
  BY <1>1 DEF Popped, BoundedRoom, RoomState
<1>3. old.acks \subseteq PendingAck /\ old.prepared \subseteq Prepared
  BY <1>1 DEF BoundedRoom, RoomState
<1>4. ASSUME NEW x \in BoundedRoom, room' = [room EXCEPT ![t] = x] PROVE TypeOK'
  BY <1>0, <1>4 DEF RowsOK, AuthorityOK, SocketsOK, ObservedOK
<1>5. CASE AckRetry(t)
  <2>1. PICK prior \in Prior(t, m) :
          room' = [room EXCEPT ![t] = [Popped(t) EXCEPT !.acks = @ \cup
            {[conn |-> c, id |-> m.id, payload |-> PayloadOf(m),
              revision |-> prior.revision, version |-> prior.version]}]]
    BY <1>5 DEF AckRetry
  <2>2. prior.revision \in Nat /\ prior.version \in SUBSET Op
    <3>1. \A p \in room[t].prepared : p.revision \in Nat /\ p.version \in SUBSET Op
      BY <1>1 DEF BoundedRoom, RoomState, Prepared
    <3>2. \A k \in commits : k.revision \in Nat
      BY DEF RowsOK
    <3> QED BY <1>1, <3>1, <3>2 DEF Prior
  <2> DEFINE acks == old.acks \cup
            {[conn |-> c, id |-> m.id, payload |-> PayloadOf(m),
              revision |-> prior.revision, version |-> prior.version]}
  <2>3. acks \in SUBSET PendingAck
    <3>1. [conn |-> c, id |-> m.id, payload |-> PayloadOf(m),
           revision |-> prior.revision, version |-> prior.version] \in PendingAck
      BY <1>1, <2>2 DEF PendingAck
    <3> QED BY <1>3, <3>1
  <2> HIDE DEF acks, old
  <2>4. [old EXCEPT !.acks = acks] \in BoundedRoom
    BY <1>1, <2>3 DEF BoundedRoom, RoomState
  <2>5. room' = [room EXCEPT ![t] = [old EXCEPT !.acks = acks]]
    BY <2>1 DEF acks, old
  <2> QED BY <1>4, <2>4, <2>5
<1>6. CASE StageReceipt(t)
  <2> DEFINE prepared == old.prepared \cup {Entry(t, c, m, room[t].nextRevision, "receipt")}
  <2>1. prepared \in SUBSET Prepared
    <3>1. Entry(t, c, m, room[t].nextRevision, "receipt") \in Prepared
      BY <1>0, <1>1, EntryPrepared
    <3> QED BY <1>3, <3>1
  <2>2. room' = [room EXCEPT ![t] = [old EXCEPT !.prepared = prepared]]
    BY <1>6 DEF StageReceipt
  <2> HIDE DEF prepared, old
  <2>3. [old EXCEPT !.prepared = prepared] \in BoundedRoom
    BY <1>1, <2>1 DEF BoundedRoom, RoomState
  <2> QED BY <1>4, <2>2, <2>3
<1>7. CASE StageUpdate(t)
  <2> DEFINE prepared == old.prepared \cup {Entry(t, c, m, room[t].nextRevision + 1, "update")}
             ops == old.ops \cup m.ops
             rev == old.nextRevision + 1
             since == old.nextSince + 1
             new == [old EXCEPT !.ops = ops, !.nextRevision = rev, !.nextSince = since,
                                !.prepared = prepared]
  <2>1. prepared \in SUBSET Prepared
    <3>1. room[t].nextRevision + 1 \in Nat
      BY <1>1
    <3>2. Entry(t, c, m, room[t].nextRevision + 1, "update") \in Prepared
      BY <1>0, <3>1, EntryPrepared
    <3> QED BY <1>3, <3>2
  <2>2. ops \in SUBSET Op /\ rev \in Nat /\ since \in Nat
    BY <1>1, <1>2
  <2>3. room' = [room EXCEPT ![t] = new]
    BY <1>7 DEF StageUpdate
  <2> HIDE DEF prepared, ops, rev, since, old
  <2>4. new \in BoundedRoom
    BY <1>1, <2>1, <2>2 DEF BoundedRoom, RoomState
  <2> QED BY <1>4, <2>3, <2>4
<1>8. CASE StageSnapshot(t)
  <2> DEFINE prepared == old.prepared \cup {Entry(t, c, m, room[t].nextRevision + 1, "snapshot")}
             ops == old.ops \cup m.ops
             rev == old.nextRevision + 1
             new == [old EXCEPT !.ops = ops, !.nextRevision = rev, !.nextSince = 0,
                                !.prepared = prepared]
  <2>1. prepared \in SUBSET Prepared
    <3>1. room[t].nextRevision + 1 \in Nat
      BY <1>1
    <3>2. Entry(t, c, m, room[t].nextRevision + 1, "snapshot") \in Prepared
      BY <1>0, <3>1, EntryPrepared
    <3> QED BY <1>3, <3>2
  <2>2. ops \in SUBSET Op /\ rev \in Nat
    BY <1>1, <1>2
  <2>3. room' = [room EXCEPT ![t] = new]
    BY <1>8 DEF StageSnapshot
  <2> HIDE DEF prepared, ops, rev, old
  <2>4. new \in BoundedRoom
    BY <1>1, <2>1, <2>2 DEF BoundedRoom, RoomState
  <2> QED BY <1>4, <2>3, <2>4
<1> QED BY <1>5, <1>6, <1>7, <1>8

-----------------------------------------------------------------------------
(* Committing and publishing a batch. *)

\* Staged commits as rows.
LEMMA PreparedTypes ==
  ASSUME TypeOK, NEW t \in Task
  PROVE  /\ room[t].ops \subseteq Op /\ room[t].nextRevision \in Nat /\ room[t].nextSince \in Nat
         /\ \A p \in room[t].prepared : /\ p.conn \in Conn /\ p.id \in MsgId /\ p.payload \in Payload
                                        /\ p.revision \in Nat /\ p.version \subseteq Op
                                        /\ p.accepted \subseteq Op
         /\ \A a \in room[t].acks : /\ a.conn \in Conn /\ a.id \in MsgId /\ a.payload \in Payload
                                    /\ a.revision \in Nat /\ a.version \subseteq Op
<1>1. room[t] \in RoomState
  BY DEF TypeOK, BoundedRoom
<1>2. room[t].prepared \subseteq Prepared /\ room[t].acks \subseteq PendingAck
  BY <1>1 DEF RoomState
<1> QED BY <1>1, <1>2 DEF RoomState, Prepared, PendingAck

\* The transaction of a batch leaves well-typed rows.
LEMMA TypeCommit ==
  ASSUME TypeOK, NEW t \in Task, CommitBatch(t) PROVE TypeOK'
<1> USE DEF TypeOK, rows, authority, sockets, observed
<1>1. PICK compact \in BOOLEAN :
       /\ CommitRows(t, compact)
       /\ commits' = {k \in commits \cup
                        {[id |-> p.id, payload |-> p.payload, revision |-> p.revision] :
                           p \in room[t].prepared} :
                        compact => k.revision >= room[t].nextRevision - ReceiptWindow}
       /\ room' = [room EXCEPT ![t] =
            [@ EXCEPT !.pc = "publish", !.revision = room[t].nextRevision,
                      !.since = IF compact THEN 0 ELSE room[t].nextSince]]
  BY DEF CommitBatch
<1>2. room' \in [Task -> BoundedRoom]
  <2> DEFINE since == IF compact THEN 0 ELSE room[t].nextSince
             rev == room[t].nextRevision
             new == [room[t] EXCEPT !.pc = "publish", !.revision = rev, !.since = since]
  <2>0. room[t] \in BoundedRoom
    OBVIOUS
  <2>1. since \in Nat /\ rev \in Nat
    BY PreparedTypes
  <2>2. room' = [room EXCEPT ![t] = new]
    BY <1>1
  <2> HIDE DEF since, rev
  <2>3. new \in BoundedRoom
    BY <2>0, <2>1 DEF BoundedRoom, RoomState
  <2> QED BY <2>2, <2>3
<1>3. Journaled(t) \subseteq [revision: Nat, ops: SUBSET Op]
  BY PreparedTypes DEF Journaled, RowsOK
<1>4. ASSUME NEW ops \in SUBSET Op, NEW v \in Nat, StoreSnapshot(t, ops, v)
      PROVE  /\ doc' \in [deleted: BOOLEAN, epoch: Nat, snapshot: SUBSET Op, snapshotRevision: Nat]
             /\ journal' \subseteq [revision: Nat, ops: SUBSET Op]
  BY <1>3, <1>4 DEF StoreSnapshot, RowsOK
<1>5. /\ doc' \in [deleted: BOOLEAN, epoch: Nat, snapshot: SUBSET Op, snapshotRevision: Nat]
      /\ journal' \subseteq [revision: Nat, ops: SUBSET Op]
  <2>1. CASE StoreSnapshot(t, room[t].ops, room[t].nextRevision)
    BY <1>4, <2>1, PreparedTypes
  <2>2. CASE \E p \in Snapshots(t) : StoreSnapshot(t, p.version, p.revision)
    BY <1>4, <2>2, PreparedTypes DEF Snapshots
  <2>3. CASE journal' = Journaled(t) /\ UNCHANGED doc
    BY <1>3, <2>3 DEF RowsOK
  <2> QED BY <1>1, <2>1, <2>2, <2>3 DEF CommitRows
<1>6. commits' \subseteq [id: MsgId, payload: Payload, revision: Nat]
  BY <1>1, PreparedTypes DEF RowsOK
<1>7. authors' \subseteq Op \X Actor
  <2>1. \A p \in room[t].prepared : p.accepted \X {ActorOf[p.conn]} \subseteq Op \X Actor
    BY PreparedTypes, ConstantsAssumption DEF ConstantsAssumption
  <2> QED BY <2>1 DEF CommitBatch, RowsOK
<1> QED BY <1>2, <1>5, <1>6, <1>7 DEF CommitBatch, RowsOK, AuthorityOK, SocketsOK, ObservedOK

\* What publishing a batch lets clients know.
LEMMA PublishFacts ==
  ASSUME NEW t \in Task, Publish(t)
  PROVE  /\ \A x \in told' : \/ x \in told
                             \/ \E p \in Answers(t) : x \in p.version
                             \/ \E p \in room[t].prepared : x \in Relay(p)
         /\ \A r \in receipts' : \/ r \in receipts
                                 \/ \E p \in Answers(t) : r = [id |-> p.id, payload |-> p.payload,
                                                               revision |-> p.revision]
<1>1. PICK missed \in SUBSET Sockets(t) :
       LET Reached == Sockets(t) \ missed
           Answered == {p \in Answers(t) : p.conn \in Reached}
           Relayed == {p \in room[t].prepared : Reached \ {p.conn} # {}}
       IN /\ receipts' = receipts \cup
               {[id |-> p.id, payload |-> p.payload, revision |-> p.revision] : p \in Answered}
          /\ told' = told \cup (UNION {p.version : p \in Answered})
                          \cup (UNION {Relay(p) : p \in Relayed})
  BY DEF Publish
<1> DEFINE Reached == Sockets(t) \ missed
           Answered == {p \in Answers(t) : p.conn \in Reached}
           Relayed == {p \in room[t].prepared : Reached \ {p.conn} # {}}
<1>2. Answered \subseteq Answers(t) /\ Relayed \subseteq room[t].prepared
  OBVIOUS
<1>3. /\ receipts' = receipts \cup
           {[id |-> p.id, payload |-> p.payload, revision |-> p.revision] : p \in Answered}
      /\ told' = told \cup (UNION {p.version : p \in Answered})
                    \cup (UNION {Relay(p) : p \in Relayed})
  BY <1>1
<1> HIDE DEF Answered, Relayed
<1>4. \A x \in told' : \/ x \in told
                       \/ \E p \in Answered : x \in p.version
                       \/ \E p \in Relayed : x \in Relay(p)
  BY <1>3
<1>5. \A r \in receipts' : \/ r \in receipts
                           \/ \E p \in Answered : r = [id |-> p.id, payload |-> p.payload,
                                                       revision |-> p.revision]
  BY <1>3
<1> QED BY <1>2, <1>4, <1>5

\* Receipts and relays are well typed.
LEMMA TypePublish ==
  ASSUME TypeOK, NEW t \in Task, Publish(t) PROVE TypeOK'
<1> USE DEF TypeOK, rows, authority, sockets, observed
<1>1. room' \in [Task -> BoundedRoom]
  BY BatchOverBounded DEF Publish
<1>2. \A p \in Answers(t) : /\ p.id \in MsgId /\ p.payload \in Payload
                            /\ p.revision \in Nat /\ p.version \subseteq Op
  BY PreparedTypes DEF Answers
<1>3. \A p \in room[t].prepared : Relay(p) \subseteq Op
  BY PreparedTypes DEF Relay
<1>4. receipts' \subseteq [id: MsgId, payload: Payload, revision: Nat]
  BY <1>2, PublishFacts DEF ObservedOK
<1>5. told' \subseteq Op
  BY <1>2, <1>3, PublishFacts DEF ObservedOK
<1>6. awaiting' \in [Conn -> SUBSET MsgId]
  BY <1>2 DEF Publish, ObservedOK
<1>7. open' \subseteq open
  BY DEF Publish
<1> QED BY <1>1, <1>4, <1>5, <1>6, <1>7 DEF Publish, RowsOK, AuthorityOK, SocketsOK, ObservedOK

-----------------------------------------------------------------------------
\* Every step keeps the types.
LEMMA TypeStep ==
  ASSUME TypeOK, [Next]_vars PROVE TypeOK'
<1>1. CASE UNCHANGED vars
  BY <1>1 DEF vars, rows, authority, sockets, observed, TypeOK, RowsOK, AuthorityOK,
              SocketsOK, ObservedOK
<1>2. ASSUME NEW t \in Task, TaskStep(t) PROVE TypeOK'
  BY <1>2, TypeStart, TypeEnd, TypeCollect, TypeRefuse, TypeStage, TypeCommit, TypePublish
     DEF TaskStep
<1>3. ASSUME NEW t \in Task, Spawn(t) \/ LeaveTimeout(t) \/ IdleExit(t) \/ Shutdown(t)
      PROVE  TypeOK'
  BY <1>3, TypeStart, TypeEnd
<1>4. ASSUME NEW t \in Task, NEW c \in Conn, Join(t, c) \/ Leave(t, c) PROVE TypeOK'
  BY <1>4, TypeAdmission, TypeLeave
<1>5. ASSUME NEW c \in Conn, Admit(c) \/ JoinRefused(c) \/ LeaveUnmapped(c) PROVE TypeOK'
  BY <1>5, TypeAdmission, TypeLeave
<1>6. ASSUME NEW c \in Conn, NEW m \in Mutation, Send(c, m) PROVE TypeOK'
  BY <1>6, TypeSend
<1>7. ASSUME NEW ctl \in outgoing, Dispatch(ctl) PROVE TypeOK'
  BY <1>7, TypeDispatch
<1>8. CASE \/ \E a \in Actor, r \in Role : ChangeAcl(a, r) \/ LinkRedeem(a, r)
           \/ \E a \in Revocable : Revoke(a)
           \/ Delete \/ Restore
  BY <1>8, TypeAuthority
<1>9. CASE Crash
  BY <1>9, TypeCrash
<1> QED BY <1>1, <1>2, <1>3, <1>4, <1>5, <1>6, <1>7, <1>8, <1>9 DEF Next

\* The initial state, every step of the task, the handlers and the clients,
\* and a crash leave every variable in its type and every bounded lane -
\* frames, batch and controls - within its capacity.
THEOREM TypeCorrect == Spec => []TypeOK
<1>1. Init => TypeOK
  <2> SUFFICES ASSUME Init PROVE TypeOK
    OBVIOUS
  <2>1. room \in [Task -> BoundedRoom]
    BY UnbornBounded DEF Init
  <2>2. RowsOK /\ AuthorityOK
    BY ConstantsAssumption DEF ConstantsAssumption, Init, RowsOK, AuthorityOK
  <2>3. SocketsOK /\ ObservedOK
    BY DEF Init, SocketsOK, ObservedOK, NoTicket, Role
  <2> QED BY <2>1, <2>2, <2>3 DEF TypeOK
<1>2. TypeOK /\ [Next]_vars => TypeOK'
  BY TypeStep
<1> QED BY <1>1, <1>2, PTL DEF Spec
-----------------------------------------------------------------------------
(* ServingInv: what an open connection waits for is in its room. *)

\* A step of one task that closes sockets and answers, but opens and asks
\* for nothing.
LEMMA ServingTask ==
  ASSUME TypeOK, ServingInv, NEW t \in Task, NEW x,
         room' = [room EXCEPT ![t] = x], open' \subseteq open, UNCHANGED <<at, ticket>>,
         \A c \in Conn : awaiting'[c] \subseteq awaiting[c],
         x.pc \in {"idle", "publish"} => x.batch = << >>,
         \A c \in Sockets(t) : c \in open' =>
           /\ x.status = "live" /\ x.dead = 0
           /\ \A id \in awaiting'[c] : Waits(x, c, id)
  PROVE  ServingInv'
<1>1. \A u \in Task : room'[u] = IF u = t THEN x ELSE room[u]
  BY DEF TypeOK
<1>2. \A u \in Task : Sockets(u)' = {c \in open' : at[c] = u} /\ Sockets(u)' \subseteq Sockets(u)
  BY DEF Sockets
<1>3. open \subseteq Conn
  BY DEF TypeOK, SocketsOK
<1>4. ASSUME NEW u \in Task PROVE Served(u)'
  <2>1. CASE u = t
    <3>1. \A c \in Sockets(t)' : c \in Sockets(t) /\ c \in open'
      BY <1>2
    <3> QED BY <1>1, <2>1, <3>1 DEF Served
  <2>2. CASE u # t
    <3>1. Served(u) /\ room'[u] = room[u]
      BY <1>1, <2>2 DEF ServingInv
    <3>2. \A c \in Sockets(u)' : c \in Sockets(u) /\ c \in Conn
      BY <1>2, <1>3 DEF Sockets
    <3> QED BY <3>1, <3>2 DEF Served
  <2> QED BY <2>1, <2>2
<1>5. \A c \in Conn : at[c] = NoTask => awaiting'[c] = {}
  BY DEF ServingInv
<1> QED BY <1>4, <1>5 DEF ServingInv

\* A step that closes every socket of its task.
LEMMA ServingClosed ==
  ASSUME TypeOK, ServingInv, NEW t \in Task, NEW x,
         room' = [room EXCEPT ![t] = x], open' = open \ Sockets(t), UNCHANGED <<at, ticket, awaiting>>,
         x.pc \in {"idle", "publish"} => x.batch = << >>
  PROVE  ServingInv'
<1>1. \A c \in Conn : awaiting'[c] \subseteq awaiting[c]
  OBVIOUS
<1>2. open' \subseteq open /\ \A c \in Sockets(t) : c \notin open'
  OBVIOUS
<1> QED BY <1>1, <1>2, ServingTask

\* A step that leaves the frames of its task where they are.
LEMMA ServingSame ==
  ASSUME TypeOK, ServingInv, NEW t \in Task, NEW x,
         room' = [room EXCEPT ![t] = x], open' \subseteq open, UNCHANGED <<at, ticket, awaiting>>,
         x.pc \in {"idle", "publish"} => x.batch = << >>,
         x.inbox = room[t].inbox, x.batch = room[t].batch,
         x.prepared = room[t].prepared, x.acks = room[t].acks,
         Sockets(t) = {} \/ (x.status = room[t].status /\ x.dead = room[t].dead)
  PROVE  ServingInv'
<1>1. \A c \in Conn : awaiting'[c] \subseteq awaiting[c]
  OBVIOUS
<1>2. Served(t)
  BY DEF ServingInv
<1>3. \A c, id : Waits(room[t], c, id) => Waits(x, c, id)
  BY DEF Waits
<1> QED BY <1>1, <1>2, <1>3, ServingTask DEF Served

\* A task that is not live has no sockets.
LEMMA NoSockets ==
  ASSUME ServingInv, NEW t \in Task, room[t].status # "live" \/ room[t].dead # 0
  PROVE  Sockets(t) = {}
  BY DEF ServingInv, Served

\* Starting, hydrating and ending a task.
LEMMA ServingStart ==
  ASSUME TypeOK, ServingInv, NEW t \in Task,
         \/ Spawn(t) \/ Hydrate(t) \/ HydrateFails(t) \/ AbortEnds(t) \/ LeaveTimeout(t)
         \/ IdleExit(t) \/ Shutdown(t)
  PROVE  ServingInv'
<1> USE DEF observed, sockets
<1>0. room[t] \in RoomState /\ Served(t)
  BY DEF TypeOK, BoundedRoom, ServingInv
<1>1. CASE Spawn(t)
  <2> DEFINE x == [room[t] EXCEPT !.status = "hydrating"]
  <2>1. /\ x.inbox = room[t].inbox /\ x.batch = room[t].batch /\ x.pc = room[t].pc
        /\ x.prepared = room[t].prepared /\ x.acks = room[t].acks
    BY <1>0 DEF RoomState
  <2>2. Sockets(t) = {}
    BY <1>1, NoSockets DEF Spawn
  <2>3. room' = [room EXCEPT ![t] = x] /\ UNCHANGED <<open, at, ticket, awaiting>>
    BY <1>1 DEF Spawn
  <2> HIDE DEF x
  <2> QED BY <1>0, <2>1, <2>2, <2>3, ServingSame DEF Served
<1>2. CASE Hydrate(t)
  <2>1. PICK r \in Revisions : room' = [room EXCEPT ![t] =
            [@ EXCEPT !.status = "live", !.ops = Durable, !.revision = r,
                      !.since = 0, !.epoch = doc.epoch]]
    BY <1>2 DEF Hydrate
  <2> DEFINE x == [room[t] EXCEPT !.status = "live", !.ops = Durable, !.revision = r,
                                  !.since = 0, !.epoch = doc.epoch]
  <2>2. /\ x.inbox = room[t].inbox /\ x.batch = room[t].batch /\ x.pc = room[t].pc
        /\ x.prepared = room[t].prepared /\ x.acks = room[t].acks
    BY <1>0 DEF RoomState
  <2>3. Sockets(t) = {}
    BY <1>2, NoSockets DEF Hydrate
  <2>4. room' = [room EXCEPT ![t] = x] /\ UNCHANGED <<open, at, ticket, awaiting>>
    BY <1>2, <2>1 DEF Hydrate
  <2> HIDE DEF x
  <2> QED BY <1>0, <2>2, <2>3, <2>4, ServingSame DEF Served
<1>3. CASE HydrateFails(t)
  <2> DEFINE x == [room[t] EXCEPT !.status = "refusing"]
  <2>1. /\ x.inbox = room[t].inbox /\ x.batch = room[t].batch /\ x.pc = room[t].pc
        /\ x.prepared = room[t].prepared /\ x.acks = room[t].acks
    BY <1>0 DEF RoomState
  <2>2. Sockets(t) = {}
    BY <1>3, NoSockets DEF HydrateFails
  <2>3. room' = [room EXCEPT ![t] = x] /\ UNCHANGED <<open, at, ticket, awaiting>>
    BY <1>3 DEF HydrateFails
  <2> HIDE DEF x
  <2> QED BY <1>0, <2>1, <2>2, <2>3, ServingSame DEF Served
<1>4. CASE LeaveTimeout(t)
  <2> DEFINE x == [room[t] EXCEPT !.aborted = TRUE]
  <2>1. /\ x.inbox = room[t].inbox /\ x.batch = room[t].batch /\ x.pc = room[t].pc
        /\ x.prepared = room[t].prepared /\ x.acks = room[t].acks
        /\ x.status = room[t].status /\ x.dead = room[t].dead
    BY <1>0 DEF RoomState
  <2>2. room' = [room EXCEPT ![t] = x] /\ UNCHANGED <<open, at, ticket, awaiting>>
    BY <1>4 DEF LeaveTimeout, Evict
  <2> HIDE DEF x
  <2> QED BY <1>0, <2>1, <2>2, ServingSame DEF Served
<1>5. CASE AbortEnds(t) \/ IdleExit(t) \/ Shutdown(t)
  <2>1. /\ room' = [room EXCEPT ![t] = Ended] /\ open' = open \ Sockets(t)
        /\ UNCHANGED <<at, ticket, awaiting>>
    BY <1>5 DEF AbortEnds, IdleExit, Shutdown, Exit
  <2>2. Ended.batch = << >>
    BY DEF Ended, Unborn
  <2> QED BY <2>1, <2>2, ServingClosed
<1> QED BY <1>1, <1>2, <1>3, <1>4, <1>5

\* A control closes the sockets that lose their place; no frame is touched.
LEMMA ServingApply ==
  ASSUME TypeOK, ServingInv, NEW t \in Task, NEW r \in RoomState,
         r.pc \in {"idle", "publish"} => r.batch = << >>,
         r.inbox = room[t].inbox, r.batch = room[t].batch, r.status = room[t].status,
         r.prepared = room[t].prepared, r.acks = room[t].acks, r.dead = room[t].dead,
         ApplyControl(t, r), UNCHANGED <<at, ticket, awaiting>>
  PROVE  ServingInv'
<1> DEFINE ctl == Head(room[t].controls)
<1>1. ASSUME NEW x \in {[r EXCEPT !.dead = Deleted], [r EXCEPT !.epoch = ctl.epoch, !.dead = Internal]},
             room' = [room EXCEPT ![t] = x], open' = open \ Sockets(t)
      PROVE  ServingInv'
  <2>1. x.pc = r.pc /\ x.batch = r.batch
    BY DEF RoomState
  <2> QED BY <1>1, <2>1, ServingClosed
<1>2. ASSUME NEW x \in {r, [r EXCEPT !.epoch = ctl.epoch]},
             room' = [room EXCEPT ![t] = x], open' \subseteq open
      PROVE  ServingInv'
  <2>1. /\ x.inbox = r.inbox /\ x.batch = r.batch /\ x.pc = r.pc /\ x.status = r.status
        /\ x.prepared = r.prepared /\ x.acks = r.acks /\ x.dead = r.dead
    BY DEF RoomState
  <2> QED BY <1>2, <2>1, ServingSame
<1>3. \/ room' = [room EXCEPT ![t] = [r EXCEPT !.dead = Deleted]] /\ open' = open \ Sockets(t)
      \/ room' = [room EXCEPT ![t] = [r EXCEPT !.epoch = ctl.epoch]] /\ open' \subseteq open
      \/ /\ room' = [room EXCEPT ![t] = [r EXCEPT !.epoch = ctl.epoch, !.dead = Internal]]
         /\ open' = open \ Sockets(t)
      \/ room' = [room EXCEPT ![t] = r] /\ open' \subseteq open
  BY DEF ApplyControl
<1> HIDE DEF ctl
<1> QED BY <1>1, <1>2, <1>3

\* A frame moves from the queue to the batch.
LEMMA TakenWaits ==
  ASSUME NEW r \in BoundedRoom, r.inbox # << >>, NEW c, NEW id, Waits(r, c, id)
  PROVE  Waits(Taken(r, Append(r.batch, Head(r.inbox))), c, id)
<1> DEFINE b == Append(r.batch, Head(r.inbox))
           x == Taken(r, b)
<1>0. r.inbox \in Seq(Frame) /\ r.batch \in Seq(Frame) /\ Head(r.inbox) \in Frame
  BY TailShorter DEF BoundedRoom, RoomState
<1>1. x.inbox = Tail(r.inbox) /\ x.batch = b /\ x.prepared = r.prepared /\ x.acks = r.acks
  BY DEF Taken, BoundedRoom, RoomState
<1>2. /\ Len(b) = Len(r.batch) + 1 /\ b[Len(b)] = r.inbox[1] /\ Len(b) \in 1..Len(b)
      /\ \A i \in 1..Len(r.batch) : i \in 1..Len(b) /\ b[i] = r.batch[i]
  BY <1>0
<1>3. \A i \in 1..Len(r.inbox) : i # 1 =>
        i - 1 \in 1..Len(Tail(r.inbox)) /\ Tail(r.inbox)[i - 1] = r.inbox[i]
  BY <1>0
<1> HIDE DEF b, x
<1> SUFFICES Waits(x, c, id)
  BY DEF x, b
<1>4. CASE \E i \in 1..Len(r.inbox) : r.inbox[i].conn = c /\ r.inbox[i].mut.id = id
  <2>1. PICK i \in 1..Len(r.inbox) : r.inbox[i].conn = c /\ r.inbox[i].mut.id = id
    BY <1>4
  <2>2. CASE i = 1
    BY <1>1, <1>2, <2>1, <2>2 DEF Waits
  <2>3. CASE i # 1
    BY <1>1, <1>3, <2>1, <2>3 DEF Waits
  <2> QED BY <2>2, <2>3
<1>5. CASE \E i \in 1..Len(r.batch) : r.batch[i].conn = c /\ r.batch[i].mut.id = id
  BY <1>1, <1>2, <1>5 DEF Waits
<1>6. CASE \E p \in r.prepared \cup r.acks : p.conn = c /\ p.id = id
  BY <1>1, <1>6 DEF Waits
<1> QED BY <1>4, <1>5, <1>6 DEF Waits

\* Only a dead room drops the frames of a batch.
LEMMA FramedWaits ==
  ASSUME NEW r \in BoundedRoom, r.dead = 0
  PROVE  /\ Framed(r).dead = 0 /\ Framed(r).status = r.status /\ Framed(r).pc = "frames"
         /\ \A c, id : Waits(r, c, id) => Waits(Framed(r), c, id)
<1>1. /\ Framed(r).inbox = r.inbox /\ Framed(r).batch = r.batch
      /\ Framed(r).prepared = r.prepared /\ Framed(r).acks = r.acks
      /\ Framed(r).dead = 0 /\ Framed(r).status = r.status /\ Framed(r).pc = "frames"
  BY DEF Framed, BoundedRoom, RoomState
<1> HIDE DEF Framed
<1> QED BY <1>1 DEF Waits

\* Controls, the frames of a batch and the start of its preparation.
LEMMA ServingCollect ==
  ASSUME TypeOK, ServingInv, NEW t \in Task,
         TakeControl(t) \/ BeginBatch(t) \/ CollectFrame(t) \/ EndCollect(t) \/ StartFrames(t)
  PROVE  ServingInv'
<1> USE DEF observed, sockets
<1>0. room[t] \in BoundedRoom /\ room[t] \in RoomState /\ Served(t)
  BY DEF TypeOK, BoundedRoom, ServingInv
<1>1. /\ UNCHANGED <<at, ticket, awaiting>>
      /\ \A c \in Conn : awaiting'[c] \subseteq awaiting[c]
  BY DEF TakeControl, BeginBatch, CollectFrame, EndCollect, StartFrames
<1>2. ASSUME room' = [room EXCEPT ![t] = Framed(room[t])], UNCHANGED open
      PROVE  ServingInv'
  <2>1. Framed(room[t]).pc = "idle" => Framed(room[t]).batch = << >>
    BY <1>0 DEF Framed, RoomState
  <2>2. Framed(room[t]).pc # "publish"
    BY <1>0 DEF Framed, RoomState
  <2>3. CASE room[t].dead = 0
    BY <1>0, <1>1, <1>2, <2>1, <2>2, <2>3, FramedWaits, ServingTask DEF Served
  <2>4. CASE room[t].dead # 0
    <3>1. Sockets(t) = {}
      BY <2>4, NoSockets
    <3> QED BY <1>1, <1>2, <2>1, <2>2, <3>1, ServingTask
  <2> QED BY <2>3, <2>4
<1>3. ASSUME room[t].inbox # << >>, UNCHANGED open,
             room' = [room EXCEPT ![t] = Received(room[t], Append(room[t].batch, Head(room[t].inbox)))],
             Taken(room[t], Append(room[t].batch, Head(room[t].inbox))) \in BoundedRoom
      PROVE  ServingInv'
  <2> DEFINE y == Taken(room[t], Append(room[t].batch, Head(room[t].inbox)))
             x == Received(room[t], Append(room[t].batch, Head(room[t].inbox)))
  <2>1. y.pc = "collect" /\ y.status = room[t].status /\ y.dead = room[t].dead
    BY <1>0 DEF Taken, RoomState
  <2>2. \A c \in Sockets(t) : y.status = "live" /\ y.dead = 0 /\ \A id \in awaiting[c] : Waits(y, c, id)
    BY <1>0, <1>3, <2>1, TakenWaits DEF Served
  <2>3. x \in {y, Framed(y)}
    BY DEF Received
  <2> HIDE DEF y, x
  <2>4. y \in BoundedRoom /\ room' = [room EXCEPT ![t] = x]
    BY <1>3 DEF y, x
  <2>5. x.pc \in {"idle", "publish"} => x.batch = << >>
    BY <2>1, <2>3, <2>4 DEF Framed, BoundedRoom, RoomState
  <2>6. \A c \in Sockets(t) : x.status = "live" /\ x.dead = 0 /\ \A id \in awaiting[c] : Waits(x, c, id)
    BY <2>2, <2>3, <2>4, FramedWaits
  <2> QED BY <1>1, <1>3, <2>4, <2>5, <2>6, ServingTask
<1>4. CASE BeginBatch(t)
  <2>1. room[t].batch = << >>
    BY <1>0, <1>4 DEF BeginBatch, Served
  <2>2. <<Head(room[t].inbox)>> = Append(room[t].batch, Head(room[t].inbox))
    BY <2>1
  <2>3. Taken(room[t], <<Head(room[t].inbox)>>) \in BoundedRoom
    BY <1>0, <1>4, FirstTaken DEF BeginBatch
  <2> QED BY <1>3, <1>4, <2>2, <2>3 DEF BeginBatch
<1>5. CASE CollectFrame(t)
  BY <1>0, <1>3, <1>5, NextTaken DEF CollectFrame
<1>6. CASE StartFrames(t)
  BY <1>2, <1>6 DEF StartFrames
<1>7. CASE TakeControl(t)
  <2> DEFINE r == Drained(room[t])
  <2>1. r \in RoomState
    BY <1>0, <1>7, DrainedBounded DEF TakeControl, BoundedRoom
  <2>2. /\ r.inbox = room[t].inbox /\ r.batch = room[t].batch /\ r.status = room[t].status
        /\ r.prepared = room[t].prepared /\ r.acks = room[t].acks /\ r.dead = room[t].dead
        /\ r.pc = room[t].pc
    BY <1>0 DEF Drained, RoomState
  <2>3. ApplyControl(t, r)
    BY <1>7 DEF TakeControl
  <2> HIDE DEF r
  <2> QED BY <1>0, <1>1, <2>1, <2>2, <2>3, ServingApply DEF Served
<1>8. CASE EndCollect(t)
  <2>1. CASE room' = [room EXCEPT ![t] = Framed(room[t])] /\ UNCHANGED <<open, role>>
    BY <1>2, <2>1
  <2>2. CASE /\ room[t].controls # << >>
             /\ ApplyControl(t, [Drained(room[t]) EXCEPT !.pc = "deferred"])
    <3> DEFINE d == Drained(room[t])
               r == [d EXCEPT !.pc = "deferred"]
    <3>1. d \in RoomState
      BY <1>0, <2>2, DrainedBounded DEF BoundedRoom
    <3>2. /\ d.inbox = room[t].inbox /\ d.batch = room[t].batch /\ d.status = room[t].status
          /\ d.prepared = room[t].prepared /\ d.acks = room[t].acks /\ d.dead = room[t].dead
      BY <1>0 DEF Drained, RoomState
    <3>3. ApplyControl(t, r)
      BY <2>2
    <3> HIDE DEF d
    <3>4. /\ r.inbox = d.inbox /\ r.batch = d.batch /\ r.status = d.status
          /\ r.prepared = d.prepared /\ r.acks = d.acks /\ r.dead = d.dead
          /\ r.pc = "deferred" /\ r \in RoomState
      BY <3>1 DEF RoomState
    <3> HIDE DEF r
    <3> QED BY <1>1, <3>2, <3>3, <3>4, ServingApply
  <2> QED BY <1>8, <2>1, <2>2 DEF EndCollect
<1> QED BY <1>4, <1>5, <1>6, <1>7, <1>8

\* The frame under preparation leaves the batch, for what is staged or
\* acknowledged, or because nobody waits for it any more.
LEMMA PoppedWaits ==
  ASSUME TypeOK, NEW t \in Task, Preparing(t), NEW x,
         x.inbox = room[t].inbox, x.batch = Tail(room[t].batch),
         room[t].prepared \subseteq x.prepared, room[t].acks \subseteq x.acks,
         NEW c, NEW id, Waits(room[t], c, id),
         \/ Current(t).conn # c
         \/ Current(t).mut.id # id
         \/ \E p \in x.prepared \cup x.acks : p.conn = c /\ p.id = id
  PROVE  Waits(x, c, id)
<1> DEFINE r == room[t]
<1>0. r.batch \in Seq(Frame) /\ r.batch # << >>
  BY DEF Preparing, TypeOK, BoundedRoom, RoomState
<1>1. \A i \in 1..Len(r.batch) : i # 1 =>
        i - 1 \in 1..Len(Tail(r.batch)) /\ Tail(r.batch)[i - 1] = r.batch[i]
  BY <1>0
<1>2. Current(t) = r.batch[1]
  BY <1>0 DEF Current
<1> HIDE DEF r
<1>3. CASE \E i \in 1..Len(r.inbox) : r.inbox[i].conn = c /\ r.inbox[i].mut.id = id
  BY <1>3 DEF Waits, r
<1>4. CASE \E p \in r.prepared \cup r.acks : p.conn = c /\ p.id = id
  BY <1>4 DEF Waits, r
<1>5. CASE \E i \in 1..Len(r.batch) : r.batch[i].conn = c /\ r.batch[i].mut.id = id
  <2>1. PICK i \in 1..Len(r.batch) : r.batch[i].conn = c /\ r.batch[i].mut.id = id
    BY <1>5
  <2>2. CASE i = 1
    BY <1>2, <2>1, <2>2 DEF Waits
  <2>3. CASE i # 1
    BY <1>1, <2>1, <2>3 DEF Waits, r
  <2> QED BY <2>2, <2>3
<1> QED BY <1>3, <1>4, <1>5 DEF Waits, r

\* Dropped frames and the ways a batch is given up.
LEMMA ServingRefuse ==
  ASSUME TypeOK, ServingInv, NEW t \in Task,
         \/ IgnoreFrame(t) \/ RefuseFrame(t) \/ LimitFrame(t)
         \/ LookupFails(t) \/ SnapshotFails(t) \/ CommitFails(t)
  PROVE  ServingInv'
<1> USE DEF observed, sockets
<1>0. room[t] \in RoomState /\ Served(t)
  BY DEF TypeOK, BoundedRoom, ServingInv
<1>1. /\ UNCHANGED <<at, ticket, awaiting>>
      /\ \A c \in Conn : awaiting'[c] \subseteq awaiting[c]
  BY DEF IgnoreFrame, RefuseFrame, LimitFrame, LookupFails, SnapshotFails, CommitFails
<1>2. ASSUME Preparing(t), room' = [room EXCEPT ![t] = Popped(t)], open' \subseteq open,
             \A c \in open' : Current(t).conn # c \/ c \notin Sockets(t)
      PROVE  ServingInv'
  <2> DEFINE x == Popped(t)
  <2>1. /\ x.inbox = room[t].inbox /\ x.batch = Tail(room[t].batch) /\ x.pc = "frames"
        /\ x.prepared = room[t].prepared /\ x.acks = room[t].acks
        /\ x.status = room[t].status /\ x.dead = room[t].dead
    BY <1>0, <1>2 DEF Popped, Preparing, RoomState
  <2>2. room' = [room EXCEPT ![t] = x]
    BY <1>2
  <2> HIDE DEF x
  <2>3. ASSUME NEW c \in Sockets(t), c \in open', NEW id \in awaiting[c] PROVE Waits(x, c, id)
    <3>1. Waits(room[t], c, id) /\ Current(t).conn # c
      BY <1>0, <1>2, <2>3 DEF Served
    <3> QED BY <1>2, <2>1, <3>1, PoppedWaits
  <2>4. \A c \in Sockets(t) : x.status = "live" /\ x.dead = 0
    BY <1>0, <2>1 DEF Served
  <2> QED BY <1>1, <1>2, <2>1, <2>2, <2>3, <2>4, ServingTask
<1>3. ASSUME NEW code, NEW ops, open' = open \ Sockets(t),
             \/ room' = [room EXCEPT ![t] = [BatchOver(room[t]) EXCEPT !.dead = code]]
             \/ room' = [room EXCEPT ![t] = [BatchOver(room[t]) EXCEPT !.dead = code, !.ops = ops]]
      PROVE  ServingInv'
  <2> DEFINE x == [BatchOver(room[t]) EXCEPT !.dead = code]
             y == [BatchOver(room[t]) EXCEPT !.dead = code, !.ops = ops]
  <2>1. x.batch = << >> /\ y.batch = << >>
    BY <1>0 DEF BatchOver, RoomState
  <2>2. room' = [room EXCEPT ![t] = x] \/ room' = [room EXCEPT ![t] = y]
    BY <1>3
  <2> HIDE DEF x, y
  <2> QED BY <1>1, <1>3, <2>1, <2>2, ServingClosed
<1>4. CASE IgnoreFrame(t)
  BY <1>2, <1>4 DEF IgnoreFrame
<1>5. CASE RefuseFrame(t)
  BY <1>2, <1>5 DEF RefuseFrame
<1>6. CASE LimitFrame(t)
  BY <1>2, <1>6 DEF LimitFrame
<1>7. CASE LookupFails(t)
  BY <1>3, <1>7 DEF LookupFails, Poison
<1>8. CASE SnapshotFails(t)
  BY <1>3, <1>8 DEF SnapshotFails
<1>9. CASE CommitFails(t)
  <2>1. PICK code \in FailureCode(t) : Poison(t, code)
    BY <1>9 DEF CommitFails
  <2> QED BY <1>3, <2>1 DEF Poison
<1> QED BY <1>4, <1>5, <1>6, <1>7, <1>8, <1>9

\* What a staged or retried frame leaves of its task.
LEMMA StageShape ==
  ASSUME TypeOK, NEW t \in Task,
         AckRetry(t) \/ StageReceipt(t) \/ StageUpdate(t) \/ StageSnapshot(t)
  PROVE  /\ Authorized(t) /\ UNCHANGED <<rows, authority, resident, sockets, outgoing, observed>>
         /\ room' = [room EXCEPT ![t] = room'[t]]
         /\ room'[t].inbox = room[t].inbox /\ room'[t].batch = Tail(room[t].batch)
         /\ room'[t].pc = "frames" /\ room'[t].status = room[t].status
         /\ room'[t].dead = room[t].dead /\ room'[t].epoch = room[t].epoch
         /\ room'[t].controls = room[t].controls
         /\ \/ /\ room'[t].prepared = room[t].prepared
               /\ \E a : /\ room'[t].acks = room[t].acks \cup {a}
                         /\ a.conn = Current(t).conn /\ a.id = Current(t).mut.id
                         /\ a.payload = PayloadOf(Current(t).mut)
                         /\ \E prior \in Prior(t, Current(t).mut) : a.revision = prior.revision
            \/ /\ room'[t].acks = room[t].acks
               /\ Fresh(t)
               /\ \E v \in {room[t].nextRevision, room[t].nextRevision + 1},
                     action \in {"receipt", "update", "snapshot"} :
                    room'[t].prepared = room[t].prepared \cup
                      {Entry(t, Current(t).conn, Current(t).mut, v, action)}
<1> DEFINE r == room[t]
           old == Popped(t)
           c == Current(t).conn
           m == Current(t).mut
<1>0. r \in RoomState /\ room \in [Task -> BoundedRoom]
  BY DEF TypeOK, BoundedRoom
<1>1. Authorized(t) /\ UNCHANGED <<rows, authority, resident, sockets, outgoing, observed>>
  BY DEF AckRetry, StageReceipt, StageUpdate, StageSnapshot
<1>2. r.pc = "frames"
  BY <1>1 DEF Authorized, Preparing
<1>3. /\ old.inbox = r.inbox /\ old.batch = Tail(r.batch) /\ old.pc = "frames"
      /\ old.prepared = r.prepared /\ old.acks = r.acks /\ old.status = r.status
      /\ old.dead = r.dead /\ old.epoch = r.epoch /\ old.controls = r.controls
      /\ DOMAIN old = DOMAIN r
  BY <1>0, <1>2 DEF Popped, RoomState
<1>4. ASSUME NEW acks, NEW ops, NEW rev, NEW since, NEW prepared
      PROVE  /\ LET x == [old EXCEPT !.acks = acks] IN
                  /\ x.inbox = r.inbox /\ x.batch = Tail(r.batch) /\ x.pc = "frames"
                  /\ x.prepared = r.prepared /\ x.acks = acks /\ x.status = r.status
                  /\ x.dead = r.dead /\ x.epoch = r.epoch /\ x.controls = r.controls
             /\ LET x == [old EXCEPT !.prepared = prepared] IN
                  /\ x.inbox = r.inbox /\ x.batch = Tail(r.batch) /\ x.pc = "frames"
                  /\ x.prepared = prepared /\ x.acks = r.acks /\ x.status = r.status
                  /\ x.dead = r.dead /\ x.epoch = r.epoch /\ x.controls = r.controls
             /\ LET x == [old EXCEPT !.ops = ops, !.nextRevision = rev, !.nextSince = since,
                                     !.prepared = prepared] IN
                  /\ x.inbox = r.inbox /\ x.batch = Tail(r.batch) /\ x.pc = "frames"
                  /\ x.prepared = prepared /\ x.acks = r.acks /\ x.status = r.status
                  /\ x.dead = r.dead /\ x.epoch = r.epoch /\ x.controls = r.controls
  <2> HIDE DEF old
  <2> QED BY <1>0, <1>3 DEF RoomState
<1>5. CASE AckRetry(t)
  <2>1. PICK prior \in Prior(t, m) : room' = [room EXCEPT ![t] = [old EXCEPT !.acks = old.acks \cup
            {[conn |-> c, id |-> m.id, payload |-> PayloadOf(m),
              revision |-> prior.revision, version |-> prior.version]}]]
    BY <1>5 DEF AckRetry
  <2> DEFINE a == [conn |-> c, id |-> m.id, payload |-> PayloadOf(m),
                   revision |-> prior.revision, version |-> prior.version]
             acks == old.acks \cup {a}
             x == [old EXCEPT !.acks = acks]
  <2>2. room' = [room EXCEPT ![t] = x]
    BY <2>1
  <2>3. a.conn = c /\ a.id = m.id /\ a.payload = PayloadOf(m) /\ a.revision = prior.revision
    OBVIOUS
  <2>4. acks = r.acks \cup {a}
    BY <1>3
  <2> HIDE DEF acks, a
  <2>5. /\ x.inbox = r.inbox /\ x.batch = Tail(r.batch) /\ x.pc = "frames"
        /\ x.prepared = r.prepared /\ x.acks = acks /\ x.status = r.status
        /\ x.dead = r.dead /\ x.epoch = r.epoch /\ x.controls = r.controls
    BY <1>4
  <2> HIDE DEF x, old
  <2>6. room'[t] = x
    BY <1>0, <2>2
  <2> QED BY <1>1, <2>2, <2>3, <2>4, <2>5, <2>6
<1>6. CASE StageReceipt(t)
  <2> DEFINE e == Entry(t, c, m, r.nextRevision, "receipt")
             prepared == old.prepared \cup {e}
             x == [old EXCEPT !.prepared = prepared]
  <2>1. room' = [room EXCEPT ![t] = x] /\ Fresh(t)
    BY <1>6 DEF StageReceipt
  <2>2. prepared = r.prepared \cup {e}
    BY <1>3
  <2> HIDE DEF prepared
  <2>3. /\ x.inbox = r.inbox /\ x.batch = Tail(r.batch) /\ x.pc = "frames"
        /\ x.prepared = prepared /\ x.acks = r.acks /\ x.status = r.status
        /\ x.dead = r.dead /\ x.epoch = r.epoch /\ x.controls = r.controls
    BY <1>4
  <2> HIDE DEF x, old
  <2>4. room'[t] = x
    BY <1>0, <2>1
  <2> QED BY <1>1, <2>1, <2>2, <2>3, <2>4
<1>7. ASSUME NEW since, NEW action \in {"update", "snapshot"}, Fresh(t),
             room' = [room EXCEPT ![t] = [old EXCEPT !.ops = old.ops \cup m.ops,
               !.nextRevision = old.nextRevision + 1, !.nextSince = since,
               !.prepared = old.prepared \cup {Entry(t, c, m, r.nextRevision + 1, action)}]]
      PROVE  /\ room' = [room EXCEPT ![t] = room'[t]]
             /\ room'[t].inbox = r.inbox /\ room'[t].batch = Tail(r.batch) /\ room'[t].pc = "frames"
             /\ room'[t].status = r.status /\ room'[t].dead = r.dead /\ room'[t].epoch = r.epoch
             /\ room'[t].controls = r.controls /\ room'[t].acks = r.acks
             /\ \E v \in {r.nextRevision, r.nextRevision + 1}, act \in {"receipt", "update", "snapshot"} :
                  room'[t].prepared = r.prepared \cup {Entry(t, c, m, v, act)}
  <2> DEFINE e == Entry(t, c, m, r.nextRevision + 1, action)
             prepared == old.prepared \cup {e}
             ops == old.ops \cup m.ops
             rev == old.nextRevision + 1
             x == [old EXCEPT !.ops = ops, !.nextRevision = rev, !.nextSince = since,
                              !.prepared = prepared]
  <2>1. room' = [room EXCEPT ![t] = x]
    BY <1>7
  <2>2. prepared = r.prepared \cup {e}
    BY <1>3
  <2> HIDE DEF prepared, ops, rev
  <2>3. /\ x.inbox = r.inbox /\ x.batch = Tail(r.batch) /\ x.pc = "frames"
        /\ x.prepared = prepared /\ x.acks = r.acks /\ x.status = r.status
        /\ x.dead = r.dead /\ x.epoch = r.epoch /\ x.controls = r.controls
    BY <1>4
  <2> HIDE DEF x, old
  <2>4. room'[t] = x
    BY <1>0, <2>1
  <2> QED BY <2>1, <2>2, <2>3, <2>4
<1>8. CASE StageUpdate(t)
  BY <1>1, <1>7, <1>8 DEF StageUpdate
<1>9. CASE StageSnapshot(t)
  BY <1>1, <1>7, <1>9 DEF StageSnapshot
<1> QED BY <1>5, <1>6, <1>8, <1>9

\* A frame that is staged, or acknowledged as a retry, is still waited for.
LEMMA ServingStage ==
  ASSUME TypeOK, ServingInv, NEW t \in Task,
         AckRetry(t) \/ StageReceipt(t) \/ StageUpdate(t) \/ StageSnapshot(t)
  PROVE  ServingInv'
<1> USE DEF observed, sockets
<1> DEFINE x == room'[t]
<1>1. /\ Preparing(t) /\ UNCHANGED <<open, at, ticket, awaiting>>
      /\ room' = [room EXCEPT ![t] = x]
      /\ x.inbox = room[t].inbox /\ x.batch = Tail(room[t].batch) /\ x.pc = "frames"
      /\ x.status = room[t].status /\ x.dead = room[t].dead
  BY StageShape DEF Authorized
<1>2. /\ room[t].prepared \subseteq x.prepared /\ room[t].acks \subseteq x.acks
      /\ \E p \in x.prepared \cup x.acks : p.conn = Current(t).conn /\ p.id = Current(t).mut.id
  <2>1. \A v, action : LET e == Entry(t, Current(t).conn, Current(t).mut, v, action) IN
          e.conn = Current(t).conn /\ e.id = Current(t).mut.id
    BY DEF Entry
  <2> HIDE DEF x
  <2>2. \/ /\ x.prepared = room[t].prepared
           /\ \E a : /\ x.acks = room[t].acks \cup {a}
                     /\ a.conn = Current(t).conn /\ a.id = Current(t).mut.id
        \/ /\ x.acks = room[t].acks
           /\ \E v, action : x.prepared = room[t].prepared \cup
                  {Entry(t, Current(t).conn, Current(t).mut, v, action)}
    BY StageShape DEF x
  <2>3. CASE x.prepared = room[t].prepared
    BY <2>1, <2>2, <2>3
  <2>4. ASSUME x.acks = room[t].acks, NEW v, NEW action,
               x.prepared = room[t].prepared \cup
                  {Entry(t, Current(t).conn, Current(t).mut, v, action)}
        PROVE  \E p \in x.prepared : p.conn = Current(t).conn /\ p.id = Current(t).mut.id
    BY <2>1, <2>4
  <2> QED BY <2>2, <2>3, <2>4
<1>3. Served(t)
  BY DEF ServingInv
<1> HIDE DEF x
<1>4. ASSUME NEW c \in Sockets(t), NEW id \in awaiting[c] PROVE Waits(x, c, id)
  <2>1. Waits(room[t], c, id)
    BY <1>3 DEF Served
  <2> QED BY <1>1, <1>2, <2>1, PoppedWaits
<1>5. \A c \in Sockets(t) : x.status = "live" /\ x.dead = 0
  BY <1>1, <1>3 DEF Served
<1>6. \A c \in Conn : awaiting'[c] \subseteq awaiting[c]
  BY <1>1
<1> QED BY <1>1, <1>4, <1>5, <1>6, ServingTask

\* The batch is stored; its answers are still due.
LEMMA ServingCommit ==
  ASSUME TypeOK, ServingInv, NEW t \in Task, CommitBatch(t)
  PROVE  ServingInv'
<1> USE DEF observed, sockets
<1>0. room[t] \in RoomState /\ Served(t)
  BY DEF TypeOK, BoundedRoom, ServingInv
<1>1. PICK since : room' = [room EXCEPT ![t] =
        [@ EXCEPT !.pc = "publish", !.revision = room[t].nextRevision, !.since = since]]
  BY DEF CommitBatch
<1> DEFINE x == [room[t] EXCEPT !.pc = "publish", !.revision = room[t].nextRevision, !.since = since]
<1>2. room[t].batch = << >> /\ UNCHANGED <<open, at, ticket, awaiting>>
  BY DEF CommitBatch, BatchDone
<1>3. /\ x.inbox = room[t].inbox /\ x.batch = room[t].batch
      /\ x.prepared = room[t].prepared /\ x.acks = room[t].acks
      /\ x.status = room[t].status /\ x.dead = room[t].dead
  BY <1>0 DEF RoomState
<1>4. room' = [room EXCEPT ![t] = x]
  BY <1>1
<1> HIDE DEF x
<1> QED BY <1>2, <1>3, <1>4, ServingSame

\* Who keeps its socket through a publication has been answered.
LEMMA ServingPublish ==
  ASSUME TypeOK, ServingInv, NEW t \in Task, Publish(t)
  PROVE  ServingInv'
<1> DEFINE x == BatchOver(room[t])
<1>0. room[t] \in RoomState /\ Served(t)
  BY DEF TypeOK, BoundedRoom, ServingInv
<1>1. /\ room' = [room EXCEPT ![t] = x] /\ UNCHANGED <<at, ticket>>
      /\ open' \subseteq open /\ room[t].batch = << >>
  BY <1>0 DEF Publish, Publishable, BatchDone, Served
<1>2. PICK slow \in SUBSET Sockets(t), missed \in SUBSET Sockets(t) :
        /\ open' = open \ slow /\ missed \subseteq slow
        /\ awaiting' = [c \in Conn |-> awaiting[c] \
             {p.id : p \in {q \in {p \in Answers(t) : p.conn \in Sockets(t) \ missed} : q.conn = c}}]
  BY DEF Publish
<1>3. \A c \in Conn : awaiting'[c] \subseteq awaiting[c]
  BY <1>2
<1>4. /\ x.inbox = room[t].inbox /\ x.batch = << >> /\ x.status = room[t].status
      /\ x.dead = room[t].dead
  BY <1>0 DEF BatchOver, RoomState
<1> HIDE DEF x
<1>5. ASSUME NEW c \in Sockets(t), c \in open', NEW id \in awaiting'[c] PROVE Waits(x, c, id)
  <2>1. c \in Conn /\ c \in Sockets(t) \ missed
    BY <1>2, <1>5 DEF Sockets, TypeOK, SocketsOK
  <2>2. id \in awaiting[c] /\ ~\E p \in Answers(t) : p.conn = c /\ p.id = id
    BY <1>2, <1>5, <2>1
  <2>3. Waits(room[t], c, id)
    BY <1>0, <2>2 DEF Served
  <2>4. \E i \in 1..Len(room[t].inbox) : room[t].inbox[i].conn = c /\ room[t].inbox[i].mut.id = id
    BY <1>1, <2>2, <2>3 DEF Waits, Answers
  <2> QED BY <1>4, <2>4 DEF Waits
<1>6. \A c \in Sockets(t) : x.status = "live" /\ x.dead = 0
  BY <1>0, <1>4 DEF Served
<1> QED BY <1>1, <1>3, <1>4, <1>5, <1>6, ServingTask

\* Admission, and a departure nobody has to be told of.
LEMMA ServingAdmission ==
  ASSUME TypeOK, ServingInv, NEW c \in Conn,
         Admit(c) \/ JoinRefused(c) \/ LeaveUnmapped(c)
  PROVE  ServingInv'
<1> USE DEF TypeOK, SocketsOK, ObservedOK, observed
<1>1. room' = room /\ open' = open
  BY DEF Admit, JoinRefused, LeaveUnmapped
<1>2. /\ \A d \in open : at'[d] = at[d] /\ awaiting'[d] = awaiting[d]
      /\ \A d \in Conn : awaiting'[d] \subseteq awaiting[d]
  BY DEF Admit, JoinRefused, LeaveUnmapped, Detach
<1>3. \A t \in Task : Sockets(t)' = Sockets(t)
  BY <1>1, <1>2 DEF Sockets
<1>4. ASSUME NEW t \in Task PROVE Served(t)'
  <2>1. Served(t) /\ \A d \in Sockets(t) : awaiting'[d] = awaiting[d]
    BY <1>2 DEF ServingInv, Sockets
  <2> QED BY <1>1, <1>3, <2>1 DEF Served
<1>5. \A d \in Conn : ticket'[d].held => at'[d] = NoTask
  BY DEF Admit, JoinRefused, LeaveUnmapped, Detach, NoTicket, ServingInv
<1>6. \A d \in Conn : at'[d] = NoTask => awaiting'[d] = {}
  BY DEF Admit, JoinRefused, LeaveUnmapped, Detach, ServingInv
<1> QED BY <1>4, <1>5, <1>6 DEF ServingInv

\* Who joins waits for nothing yet.
LEMMA ServingJoin ==
  ASSUME TypeOK, ServingInv, NEW t \in Task, NEW c \in Conn, Join(t, c)
  PROVE  ServingInv'
<1> USE DEF TypeOK, SocketsOK, ObservedOK
<1>1. /\ room' = room /\ awaiting' = awaiting /\ open' = open \cup {c}
      /\ at' = [at EXCEPT ![c] = t] /\ ticket' = [ticket EXCEPT ![c] = NoTicket]
      /\ room[t].status = "live" /\ room[t].dead = 0
  BY DEF Join, Running, JoinRefusal
<1>2. awaiting[c] = {}
  BY DEF Join, ServingInv
<1>3. t # NoTask
  BY ConstantsAssumption DEF ConstantsAssumption
<1>4. ASSUME NEW u \in Task PROVE Served(u)'
  <2>1. Served(u)
    BY DEF ServingInv
  <2>2. \A d \in Sockets(u)' : d \in Sockets(u) \/ (d = c /\ u = t)
    BY <1>1 DEF Sockets
  <2> QED BY <1>1, <1>2, <2>1, <2>2 DEF Served
<1>5. \A d \in Conn : ticket'[d].held => at'[d] = NoTask
  BY <1>1 DEF ServingInv, NoTicket
<1>6. \A d \in Conn : at'[d] = NoTask => awaiting'[d] = {}
  BY <1>1, <1>3 DEF ServingInv
<1> QED BY <1>4, <1>5, <1>6 DEF ServingInv

\* A departure leaves the frames of the other connections alone.
LEMMA ServingLeave ==
  ASSUME TypeOK, ServingInv, NEW t \in Task, NEW c \in Conn, Leave(t, c)
  PROVE  ServingInv'
<1> USE DEF observed
<1> DEFINE y == Departed(room[t], c)
           z == [y EXCEPT !.since = 0]
<1>0. room[t] \in RoomState /\ Served(t)
  BY DEF TypeOK, BoundedRoom, ServingInv
<1>1. /\ y.inbox = Orphaned(room[t].inbox, c) /\ y.batch = Orphaned(room[t].batch, c)
      /\ y.prepared = room[t].prepared /\ y.acks = room[t].acks
      /\ y.status = room[t].status /\ y.dead = room[t].dead
      /\ y.pc = (IF room[t].pc = "collect" THEN "deferred" ELSE room[t].pc)
      /\ DOMAIN y = DOMAIN room[t]
  BY <1>0 DEF Departed, RoomState
<1>2. /\ z.inbox = y.inbox /\ z.batch = y.batch /\ z.prepared = y.prepared /\ z.acks = y.acks
      /\ z.status = y.status /\ z.dead = y.dead /\ z.pc = y.pc
  <2> HIDE DEF y
  <2> QED BY <1>0, <1>1 DEF RoomState
<1>3. PICK x \in {y, z} : room' = [room EXCEPT ![t] = x]
  BY DEF Leave
<1> HIDE DEF y, z
<1>4. /\ x.inbox = Orphaned(room[t].inbox, c) /\ x.batch = Orphaned(room[t].batch, c)
      /\ x.prepared = room[t].prepared /\ x.acks = room[t].acks
      /\ x.status = room[t].status /\ x.dead = room[t].dead
      /\ x.pc = (IF room[t].pc = "collect" THEN "deferred" ELSE room[t].pc)
  BY <1>1, <1>2, <1>3
<1>5. room[t].inbox \in Seq(Frame) /\ room[t].batch \in Seq(Frame)
  BY <1>0 DEF RoomState
<1>6. \A s \in Seq(Frame) : /\ Len(Orphaned(s, c)) = Len(s)
                            /\ \A i \in 1..Len(s) : s[i].conn # c => Orphaned(s, c)[i] = s[i]
  <2>1. \A s \in Seq(Frame) : Len(Orphaned(s, c)) = Len(s)
    BY OrphanedSeq
  <2>2. \A s \in Seq(Frame) : \A i \in 1..Len(s) : s[i].conn # c => Orphaned(s, c)[i] = s[i]
    BY DEF Orphaned
  <2> QED BY <2>1, <2>2
<1>7. /\ at' = [at EXCEPT ![c] = NoTask] /\ awaiting' = [awaiting EXCEPT ![c] = {}]
      /\ open' = open \ {c} /\ ticket' = ticket
  BY DEF Leave, Detach
<1>8. ASSUME NEW d, d # c, NEW id, Waits(room[t], d, id) PROVE Waits(x, d, id)
  <2>1. CASE \E i \in 1..Len(room[t].inbox) : room[t].inbox[i].conn = d /\ room[t].inbox[i].mut.id = id
    BY <1>4, <1>5, <1>6, <1>8, <2>1 DEF Waits
  <2>2. CASE \E i \in 1..Len(room[t].batch) : room[t].batch[i].conn = d /\ room[t].batch[i].mut.id = id
    BY <1>4, <1>5, <1>6, <1>8, <2>2 DEF Waits
  <2>3. CASE \E p \in room[t].prepared \cup room[t].acks : p.conn = d /\ p.id = id
    BY <1>4, <2>3 DEF Waits
  <2> QED BY <1>8, <2>1, <2>2, <2>3 DEF Waits
<1>9. ASSUME NEW u \in Task PROVE Served(u)'
  <2>1. Served(u) /\ room'[u] = IF u = t THEN x ELSE room[u]
    BY <1>3 DEF ServingInv, TypeOK
  <2>2. \A d \in Sockets(u)' : d \in Sockets(u) /\ d # c /\ awaiting'[d] = awaiting[d]
    BY <1>7 DEF Sockets, TypeOK, SocketsOK, ObservedOK
  <2>3. CASE u # t
    BY <2>1, <2>2, <2>3 DEF Served
  <2>4. CASE u = t
    <3>1. x.pc \in {"idle", "publish"} => x.batch = << >>
      <4>1. Orphaned(<< >>, c) = << >>
        BY DEF Orphaned
      <4> QED BY <1>0, <1>4, <4>1 DEF Served
    <3> QED BY <1>4, <1>8, <2>1, <2>2, <2>4, <3>1 DEF Served
  <2> QED BY <2>3, <2>4
<1>10. \A d \in Conn : ticket'[d].held => at'[d] = NoTask
  BY <1>7 DEF ServingInv, TypeOK, SocketsOK
<1>11. \A d \in Conn : at'[d] = NoTask => awaiting'[d] = {}
  BY <1>7 DEF ServingInv, TypeOK, SocketsOK, ObservedOK
<1> QED BY <1>9, <1>10, <1>11 DEF ServingInv

\* A sent frame is at the end of its room's queue.
LEMMA ServingSend ==
  ASSUME TypeOK, ServingInv, NEW c \in Conn, NEW m \in Mutation, Send(c, m)
  PROVE  ServingInv'
<1> USE DEF sockets
<1> DEFINE t == at[c]
           r == room[t]
           f == [conn |-> c, mut |-> m]
           lane == Append(r.inbox, f)
           x == [r EXCEPT !.inbox = lane]
<1>0. t \in Task /\ r \in RoomState /\ r.inbox \in Seq(Frame)
  BY DEF Send, TypeOK, SocketsOK, BoundedRoom, RoomState
<1>1. f \in Frame /\ f.conn = c /\ f.mut.id = m.id
  BY ConstantsAssumption DEF ConstantsAssumption, Frame
<1> HIDE DEF f
<1>2. /\ Len(lane) \in 1..Len(lane) /\ lane[Len(lane)] = f
      /\ \A i \in 1..Len(r.inbox) : i \in 1..Len(lane) /\ lane[i] = r.inbox[i]
  BY <1>0, <1>1
<1>3. /\ room' = [room EXCEPT ![t] = x]
      /\ awaiting' = [awaiting EXCEPT ![c] = awaiting[c] \cup {m.id}]
      /\ UNCHANGED <<at, open, ticket>> /\ c \in open
  BY DEF Send, Queued, f
<1> HIDE DEF lane
<1>4. /\ x.inbox = lane /\ x.batch = r.batch /\ x.prepared = r.prepared /\ x.acks = r.acks
      /\ x.status = r.status /\ x.dead = r.dead /\ x.pc = r.pc
  BY <1>0 DEF RoomState
<1> HIDE DEF x, r
<1>5. \A d, id : Waits(r, d, id) => Waits(x, d, id)
  BY <1>2, <1>4 DEF Waits
<1>6. Waits(x, c, m.id)
  BY <1>1, <1>2, <1>4 DEF Waits
<1>7. ASSUME NEW u \in Task PROVE Served(u)'
  <2>1. Served(u) /\ Sockets(u)' = Sockets(u)
    BY <1>3 DEF ServingInv, Sockets
  <2>2. room'[u] = IF u = t THEN x ELSE room[u]
    BY <1>3 DEF TypeOK
  <2>3. \A d \in Sockets(u) : awaiting'[d] = IF d = c THEN awaiting[c] \cup {m.id} ELSE awaiting[d]
    BY <1>3 DEF Sockets, TypeOK, SocketsOK, ObservedOK
  <2>4. CASE u # t
    <3>1. c \notin Sockets(u)
      BY <2>4 DEF Sockets
    <3> QED BY <2>1, <2>2, <2>3, <2>4, <3>1 DEF Served
  <2>5. CASE u = t
    BY <1>4, <1>5, <1>6, <2>1, <2>2, <2>3, <2>5 DEF Served, r
  <2> QED BY <2>4, <2>5
<1>8. \A d \in Conn : at[d] = NoTask => awaiting'[d] = {}
  <2>1. at[c] # NoTask
    BY <1>3 DEF TypeOK, SocketsOK
  <2> QED BY <1>3, <2>1 DEF ServingInv, TypeOK, ObservedOK
<1> QED BY <1>3, <1>7, <1>8 DEF ServingInv

\* Controls on their way to a room pass its frames by.
LEMMA ServingDispatch ==
  ASSUME TypeOK, ServingInv, NEW ctl \in outgoing, Dispatch(ctl)
  PROVE  ServingInv'
<1> USE DEF sockets, observed
<1>1. UNCHANGED <<open, at, ticket, awaiting>>
  BY DEF Dispatch
<1>2. CASE UNCHANGED room
  BY <1>1, <1>2 DEF ServingInv, Served, Sockets
<1>3. CASE resident # NoTask
  <2> DEFINE r == room[resident]
             lane == Append(r.controls, ctl)
  <2>1. resident \in Task /\ r \in RoomState
    BY <1>3 DEF TypeOK, SocketsOK, BoundedRoom
  <2>2. \E x \in {[r EXCEPT !.controls = lane], [r EXCEPT !.aborted = TRUE]} :
          room' = [room EXCEPT ![resident] = x]
    BY <1>3 DEF Dispatch, Evict, Notified
  <2> HIDE DEF lane
  <2>3. \A x \in {[r EXCEPT !.controls = lane], [r EXCEPT !.aborted = TRUE]} :
          /\ x.inbox = r.inbox /\ x.batch = r.batch /\ x.prepared = r.prepared /\ x.acks = r.acks
          /\ x.status = r.status /\ x.dead = r.dead /\ x.pc = r.pc
    BY <2>1 DEF RoomState
  <2>4. Served(resident)
    BY <2>1 DEF ServingInv
  <2> QED BY <1>1, <2>1, <2>2, <2>3, <2>4, ServingSame DEF Served
<1> QED BY <1>2, <1>3 DEF Dispatch

\* Every step keeps the invariant.
LEMMA ServingStep ==
  ASSUME TypeOK, ServingInv, [Next]_vars PROVE ServingInv'
<1> USE DEF sockets, observed
<1>1. ASSUME UNCHANGED <<room, sockets, awaiting>> PROVE ServingInv'
  BY <1>1 DEF ServingInv, Served, Sockets
<1>2. ASSUME NEW t \in Task, TaskStep(t) PROVE ServingInv'
  BY <1>2, ServingStart, ServingCollect, ServingRefuse, ServingStage, ServingCommit, ServingPublish
     DEF TaskStep
<1>3. ASSUME NEW t \in Task, Spawn(t) \/ LeaveTimeout(t) \/ IdleExit(t) \/ Shutdown(t)
      PROVE  ServingInv'
  BY <1>3, ServingStart
<1>4. ASSUME NEW t \in Task, NEW c \in Conn, Join(t, c) \/ Leave(t, c) PROVE ServingInv'
  BY <1>4, ServingJoin, ServingLeave
<1>5. ASSUME NEW c \in Conn, Admit(c) \/ JoinRefused(c) \/ LeaveUnmapped(c) PROVE ServingInv'
  BY <1>5, ServingAdmission
<1>6. ASSUME NEW c \in Conn, NEW m \in Mutation, Send(c, m) PROVE ServingInv'
  BY <1>6, ServingSend
<1>7. ASSUME NEW ctl \in outgoing, Dispatch(ctl) PROVE ServingInv'
  BY <1>7, ServingDispatch
<1>8. CASE \/ \E a \in Actor, r \in Role : ChangeAcl(a, r) \/ LinkRedeem(a, r)
           \/ \E a \in Revocable : Revoke(a)
           \/ Delete \/ Restore
  BY <1>1, <1>8 DEF ChangeAcl, LinkRedeem, Revoke, Delete, Restore
<1>9. CASE Crash
  <2>1. \A c \in Conn : ~ticket'[c].held /\ awaiting'[c] = {}
    BY <1>9 DEF Crash, NoTicket
  <2>2. ASSUME NEW t \in Task PROVE Served(t)'
    <3>1. Sockets(t)' = {}
      BY <1>9 DEF Crash, Sockets
    <3>2. room'[t] = room[t] \/ room'[t] = Ended
      BY <1>9 DEF Crash
    <3>3. Ended.batch = << >> /\ Served(t)
      BY DEF Ended, Unborn, ServingInv
    <3> QED BY <3>1, <3>2, <3>3 DEF Served
  <2> QED BY <2>1, <2>2 DEF ServingInv
<1>10. CASE UNCHANGED vars
  BY <1>1, <1>10 DEF vars
<1> QED BY <1>2, <1>3, <1>4, <1>5, <1>6, <1>7, <1>8, <1>9, <1>10 DEF Next

\* Only a serving room has sockets, and every mutation an open connection
\* waits for is in its room.
THEOREM ServingInvariant == Spec => []ServingInv
<1>1. Init => ServingInv
  BY DEF Init, ServingInv, Served, Sockets, Unborn, NoTicket
<1>2. TypeOK /\ ServingInv /\ [Next]_vars => ServingInv'
  BY ServingStep
<1> QED BY <1>1, <1>2, TypeCorrect, PTL DEF Spec

\* A mutation sent on a connection that is still open waits in the room or
\* its receipt was sent - through departures of others, controls, refused
\* frames, full lanes, poisoned batches, aborted tasks and overlapping rooms.
THEOREM FramesStayKnown == Spec => []NoFrameForgotten
<1>1. TypeOK /\ ServingInv => NoFrameForgotten
  BY DEF TypeOK, SocketsOK, ServingInv, Served, Sockets, NoFrameForgotten
<1> QED BY <1>1, TypeCorrect, ServingInvariant, PTL

-----------------------------------------------------------------------------
(* AuthorityInv: what a room believes of its editors is true, or a newer    *)
(* epoch has begun.                                                         *)

\* A step of one task that gives nobody authority.
LEMMA AuthorityTask ==
  ASSUME TypeOK, AuthorityInv, NEW t \in Task, NEW x,
         room' = [room EXCEPT ![t] = x], open' \subseteq open, outgoing' \subseteq outgoing,
         UNCHANGED <<at, ticket, acl>>, doc'.epoch = doc.epoch,
         \A c \in Conn : c \notin Sockets(t) => role'[c] = role[c],
         x.epoch <= doc.epoch,
         \A i \in 1..Len(x.controls) : Announced(x.controls[i]),
         x.prepared # {} => x.status = "live" /\ x.pc \in {"frames", "publish"},
         \A p \in x.prepared : \A op \in p.accepted : op[1] = ActorOf[p.conn],
         x.epoch = doc.epoch =>
           /\ \A c \in Sockets(t) : c \in open' /\ role'[c] = "editor" => acl[ActorOf[c]] = "editor"
           /\ \A p \in x.prepared : acl[ActorOf[p.conn]] = "editor"
  PROVE  AuthorityInv'
<1>1. \A u \in Task : room'[u] = IF u = t THEN x ELSE room[u]
  BY DEF TypeOK
<1>2. /\ \A u \in Task : \A c \in Sockets(u)' : c \in Sockets(u) /\ c \in open' /\ c \in Conn
      /\ \A u \in Task : u # t => \A c \in Sockets(u) : c \notin Sockets(t)
  BY DEF Sockets, TypeOK, SocketsOK
<1>3. \A ctl : Announced(ctl)' <=> Announced(ctl)
  BY DEF Announced
<1>4. ASSUME NEW u \in Task PROVE Trusted(u)'
  <2>1. CASE u = t
    BY <1>1, <1>2, <1>3, <2>1 DEF Trusted
  <2>2. CASE u # t
    <3>1. Trusted(u) /\ room'[u] = room[u]
      BY <1>1, <2>2 DEF AuthorityInv
    <3>2. \A c \in Sockets(u)' : c \in Sockets(u) /\ role'[c] = role[c]
      BY <1>2, <2>2
    <3> QED BY <1>3, <3>1, <3>2 DEF Trusted
  <2> QED BY <2>1, <2>2
<1> QED BY <1>3, <1>4 DEF AuthorityInv

\* A step of one task that leaves its epoch, its lane and its sockets' roles
\* alone, and stages nothing.
LEMMA AuthoritySame ==
  ASSUME TypeOK, AuthorityInv, NEW t \in Task, NEW x,
         room' = [room EXCEPT ![t] = x], open' \subseteq open, outgoing' \subseteq outgoing,
         UNCHANGED <<at, ticket, acl>>, doc'.epoch = doc.epoch,
         \A c \in open' : role'[c] = role[c],
         \A c \in Conn : c \notin Sockets(t) => role'[c] = role[c],
         x.epoch = room[t].epoch, x.controls = room[t].controls,
         x.prepared \subseteq room[t].prepared,
         x.prepared # {} => x.status = "live" /\ x.pc \in {"frames", "publish"}
  PROVE  AuthorityInv'
<1>1. Trusted(t)
  BY DEF AuthorityInv
<1> QED BY <1>1, AuthorityTask DEF Trusted

\* The lane of a task, for a control that has just been added or taken.
LEMMA LaneAnnounced ==
  ASSUME NEW s \in Seq(Control), \A i \in 1..Len(s) : Announced(s[i])
  PROVE  /\ \A ctl \in Control : Announced(ctl) =>
              \A i \in 1..Len(Append(s, ctl)) : Announced(Append(s, ctl)[i])
         /\ s # << >> => /\ Announced(Head(s))
                         /\ \A i \in 1..Len(Tail(s)) : Announced(Tail(s)[i])
<1>1. ASSUME NEW ctl \in Control, Announced(ctl), NEW i \in 1..Len(Append(s, ctl))
      PROVE  Announced(Append(s, ctl)[i])
  <2>1. Append(s, ctl)[i] = ctl \/ (i \in 1..Len(s) /\ Append(s, ctl)[i] = s[i])
    OBVIOUS
  <2> QED BY <1>1, <2>1
<1>2. ASSUME s # << >> PROVE Announced(Head(s))
  <2>1. Head(s) = s[1] /\ 1 \in 1..Len(s)
    BY <1>2
  <2> QED BY <2>1
<1>3. ASSUME s # << >>, NEW i \in 1..Len(Tail(s)) PROVE Announced(Tail(s)[i])
  <2>1. Tail(s)[i] = s[i + 1] /\ i + 1 \in 1..Len(s)
    BY <1>3
  <2> QED BY <2>1
<1> QED BY <1>1, <1>2, <1>3

\* The transactions of a room leave the epoch of its document alone.
LEMMA SameEpoch ==
  ASSUME TypeOK, NEW t \in Task,
         \/ Compacted(t)
         \/ \E compact \in BOOLEAN : CommitRows(t, compact)
         \/ UNCHANGED rows
  PROVE  doc'.epoch = doc.epoch
  BY DEF TypeOK, RowsOK, rows, Compacted, CommitRows, StoreSnapshot

\* Starting, hydrating and ending a task.
LEMMA AuthorityStart ==
  ASSUME TypeOK, ServingInv, AuthorityInv, NEW t \in Task,
         \/ Spawn(t) \/ Hydrate(t) \/ HydrateFails(t) \/ AbortEnds(t) \/ LeaveTimeout(t)
         \/ IdleExit(t) \/ Shutdown(t)
  PROVE  AuthorityInv'
<1> USE DEF sockets, authority
<1>0. room[t] \in RoomState /\ Trusted(t) /\ doc.epoch \in Nat
  BY DEF TypeOK, BoundedRoom, AuthorityInv, RowsOK
<1>1. /\ UNCHANGED <<at, ticket, role, acl, outgoing>>
      /\ open' \subseteq open
      /\ Compacted(t) \/ UNCHANGED rows
  BY DEF Spawn, Hydrate, HydrateFails, AbortEnds, LeaveTimeout, IdleExit, Shutdown, Exit
<1>2. doc'.epoch = doc.epoch
  BY <1>1, SameEpoch
<1>3. CASE Spawn(t) \/ HydrateFails(t) \/ LeaveTimeout(t)
  <2>1. PICK x \in {[room[t] EXCEPT !.status = "hydrating"], [room[t] EXCEPT !.status = "refusing"],
                    [room[t] EXCEPT !.aborted = TRUE]} :
          /\ room' = [room EXCEPT ![t] = x]
          /\ x = [room[t] EXCEPT !.aborted = TRUE] \/ room[t].status # "live"
    BY <1>3 DEF Spawn, HydrateFails, LeaveTimeout, Evict
  <2>2. /\ x.epoch = room[t].epoch /\ x.controls = room[t].controls
        /\ x.prepared = room[t].prepared /\ x.pc = room[t].pc
        /\ x.status = room[t].status \/ room[t].status # "live"
    BY <1>0, <2>1 DEF RoomState
  <2> HIDE DEF ServingInv
  <2>3. x.prepared # {} => x.status = "live" /\ x.pc \in {"frames", "publish"}
    BY <1>0, <2>2 DEF Trusted
  <2> QED BY <1>1, <1>2, <2>1, <2>2, <2>3, AuthoritySame
<1>4. CASE Hydrate(t)
  <2>1. PICK r \in Revisions : room' = [room EXCEPT ![t] =
            [@ EXCEPT !.status = "live", !.ops = Durable, !.revision = r,
                      !.since = 0, !.epoch = doc.epoch]]
    BY <1>4 DEF Hydrate
  <2> DEFINE x == [room[t] EXCEPT !.status = "live", !.ops = Durable, !.revision = r,
                                  !.since = 0, !.epoch = doc.epoch]
  <2>2. x.epoch = doc.epoch /\ x.controls = room[t].controls /\ x.prepared = room[t].prepared
    BY <1>0 DEF RoomState
  <2>3. room[t].prepared = {} /\ Sockets(t) = {}
    BY <1>0, <1>4, NoSockets DEF Hydrate, Trusted
  <2>4. room' = [room EXCEPT ![t] = x]
    BY <2>1
  <2> HIDE DEF x
  <2>5. /\ x.epoch <= doc.epoch /\ x.prepared = {}
        /\ \A i \in 1..Len(x.controls) : Announced(x.controls[i])
    BY <1>0, <2>2, <2>3 DEF Trusted
  <2> QED BY <1>1, <1>2, <2>3, <2>4, <2>5, AuthorityTask
<1>5. CASE AbortEnds(t) \/ IdleExit(t) \/ Shutdown(t)
  <2>1. room' = [room EXCEPT ![t] = Ended] /\ open' = open \ Sockets(t)
    BY <1>5 DEF AbortEnds, IdleExit, Shutdown, Exit
  <2>2. Ended.epoch <= doc.epoch /\ Ended.controls = << >> /\ Ended.prepared = {}
    BY <1>0 DEF Ended, Unborn
  <2>3. \A i \in 1..Len(Ended.controls) : Announced(Ended.controls[i])
    BY <2>2
  <2>4. \A c \in Sockets(t) : c \notin open'
    BY <2>1
  <2> QED BY <1>1, <1>2, <2>1, <2>2, <2>3, <2>4, AuthorityTask
<1> QED BY <1>3, <1>4, <1>5

\* A control: an epoch that is current comes with the roles of the moment.
LEMMA AuthorityApply ==
  ASSUME TypeOK, AuthorityInv, NEW t \in Task, NEW r \in RoomState,
         r.epoch = room[t].epoch, r.controls = Tail(room[t].controls), r.prepared = {},
         room[t].controls # << >>,
         ApplyControl(t, r), UNCHANGED <<at, ticket, acl, outgoing, doc>>
  PROVE  AuthorityInv'
<1> DEFINE ctl == Head(room[t].controls)
<1>0. Trusted(t) /\ room[t].controls \in Seq(Control)
  BY DEF TypeOK, BoundedRoom, RoomState, AuthorityInv
<1>1. Announced(ctl) /\ \A i \in 1..Len(r.controls) : Announced(r.controls[i])
  BY <1>0, LaneAnnounced DEF Trusted
<1>2. open' \subseteq open /\ outgoing' \subseteq outgoing /\ doc'.epoch = doc.epoch
  BY DEF ApplyControl
<1>3. ASSUME NEW x \in {r, [r EXCEPT !.dead = Deleted]}, UNCHANGED role,
             room' = [room EXCEPT ![t] = x]
      PROVE  AuthorityInv'
  <2>1. x.epoch = r.epoch /\ x.controls = r.controls /\ x.prepared = {}
    BY <1>3 DEF RoomState
  <2> QED BY <1>0, <1>1, <1>2, <1>3, <2>1, AuthorityTask DEF Trusted
<1>4. ASSUME ctl.kind = "epoch", room' = [room EXCEPT ![t] = [r EXCEPT !.epoch = ctl.epoch]],
             open' = open \ (Sockets(t) \ Resolved(t)),
             role' = [c \in Conn |-> IF c \in Resolved(t) THEN acl[ActorOf[c]] ELSE role[c]]
      PROVE  AuthorityInv'
  <2> DEFINE x == [r EXCEPT !.epoch = ctl.epoch]
  <2>1. x.epoch = ctl.epoch /\ x.controls = r.controls /\ x.prepared = {}
    BY DEF RoomState
  <2>2. room' = [room EXCEPT ![t] = x] /\ ctl.epoch <= doc.epoch
    BY <1>1, <1>4 DEF Announced
  <2>3. \A c \in Conn : c \notin Sockets(t) => role'[c] = role[c]
    BY <1>4 DEF Resolved
  <2>4. \A c \in Sockets(t) : c \in open' => role'[c] = acl[ActorOf[c]]
    BY <1>4 DEF Sockets, TypeOK, SocketsOK
  <2> HIDE DEF x, ctl
  <2> QED BY <1>1, <1>2, <2>1, <2>2, <2>3, <2>4, AuthorityTask
<1>5. ASSUME ctl.kind = "epoch", open' = open \ Sockets(t), UNCHANGED role,
             room' = [room EXCEPT ![t] = [r EXCEPT !.epoch = ctl.epoch, !.dead = Internal]]
      PROVE  AuthorityInv'
  <2> DEFINE x == [r EXCEPT !.epoch = ctl.epoch, !.dead = Internal]
  <2>1. x.epoch = ctl.epoch /\ x.controls = r.controls /\ x.prepared = {}
    BY DEF RoomState
  <2>2. room' = [room EXCEPT ![t] = x] /\ ctl.epoch <= doc.epoch
    BY <1>1, <1>5 DEF Announced
  <2> HIDE DEF x, ctl
  <2> QED BY <1>1, <1>2, <1>5, <2>1, <2>2, AuthorityTask
<1> QED BY <1>3, <1>4, <1>5 DEF ApplyControl

\* Controls, the frames of a batch and the start of its preparation.
LEMMA AuthorityCollect ==
  ASSUME TypeOK, ServingInv, AuthorityInv, NEW t \in Task,
         TakeControl(t) \/ BeginBatch(t) \/ CollectFrame(t) \/ EndCollect(t) \/ StartFrames(t)
  PROVE  AuthorityInv'
<1> USE DEF sockets, authority
<1>0. room[t] \in RoomState /\ Trusted(t)
  BY DEF TypeOK, BoundedRoom, AuthorityInv
<1>1. room[t].prepared = {}
  BY <1>0 DEF Trusted, TakeControl, BeginBatch, CollectFrame, EndCollect, StartFrames
<1>2. UNCHANGED <<at, ticket, acl, outgoing, doc>>
  BY DEF TakeControl, BeginBatch, CollectFrame, EndCollect, StartFrames, rows
<1>3. ASSUME NEW x, room' = [room EXCEPT ![t] = x], UNCHANGED <<open, role>>,
             x.epoch = room[t].epoch, x.controls = room[t].controls, x.prepared = room[t].prepared
      PROVE  AuthorityInv'
  BY <1>1, <1>2, <1>3, AuthoritySame
<1>4. \A r \in RoomState : /\ Framed(r).epoch = r.epoch /\ Framed(r).controls = r.controls
                           /\ Framed(r).prepared = r.prepared
  BY DEF Framed, RoomState
<1>5. \A b : /\ Received(room[t], b).epoch = room[t].epoch
             /\ Received(room[t], b).controls = room[t].controls
             /\ Received(room[t], b).prepared = room[t].prepared
  <2> TAKE b
  <2>1. /\ Taken(room[t], b).epoch = room[t].epoch /\ Taken(room[t], b).controls = room[t].controls
        /\ Taken(room[t], b).prepared = room[t].prepared
    BY <1>0 DEF Taken, RoomState
  <2>2. LET y == Taken(room[t], b) IN
        /\ Framed(y).epoch = y.epoch /\ Framed(y).controls = y.controls
        /\ Framed(y).prepared = y.prepared
    BY <1>0 DEF Framed, Taken, RoomState
  <2> QED BY <2>1, <2>2 DEF Received
<1>6. CASE BeginBatch(t)
  BY <1>3, <1>5, <1>6 DEF BeginBatch
<1>7. CASE CollectFrame(t)
  BY <1>3, <1>5, <1>7 DEF CollectFrame
<1>8. CASE StartFrames(t)
  BY <1>0, <1>3, <1>4, <1>8 DEF StartFrames
<1>9. CASE TakeControl(t)
  <2> DEFINE r == Drained(room[t])
  <2>1. r \in RoomState
    BY <1>9, DrainedBounded DEF TakeControl, TypeOK, BoundedRoom
  <2>2. /\ r.epoch = room[t].epoch /\ r.controls = Tail(room[t].controls)
        /\ r.prepared = room[t].prepared
    BY <1>0 DEF Drained, RoomState
  <2>3. ApplyControl(t, r) /\ room[t].controls # << >>
    BY <1>9 DEF TakeControl
  <2> HIDE DEF r
  <2> QED BY <1>1, <1>2, <2>1, <2>2, <2>3, AuthorityApply
<1>10. CASE EndCollect(t)
  <2>1. CASE room' = [room EXCEPT ![t] = Framed(room[t])] /\ UNCHANGED <<open, role>>
    BY <1>0, <1>3, <1>4, <2>1
  <2>2. CASE /\ room[t].controls # << >>
             /\ ApplyControl(t, [Drained(room[t]) EXCEPT !.pc = "deferred"])
    <3> DEFINE d == Drained(room[t])
               r == [d EXCEPT !.pc = "deferred"]
    <3>1. d \in RoomState
      BY <2>2, DrainedBounded DEF TypeOK, BoundedRoom
    <3>2. /\ d.epoch = room[t].epoch /\ d.controls = Tail(room[t].controls)
          /\ d.prepared = room[t].prepared
      BY <1>0 DEF Drained, RoomState
    <3>3. ApplyControl(t, r) /\ room[t].controls # << >>
      BY <2>2
    <3> HIDE DEF d
    <3>4. r.epoch = d.epoch /\ r.controls = d.controls /\ r.prepared = d.prepared /\ r \in RoomState
      BY <3>1 DEF RoomState
    <3> HIDE DEF r
    <3> QED BY <1>1, <1>2, <3>2, <3>3, <3>4, AuthorityApply
  <2> QED BY <1>10, <2>1, <2>2 DEF EndCollect
<1> QED BY <1>6, <1>7, <1>8, <1>9, <1>10

\* Dropped frames, given-up batches, commits and publications.
LEMMA AuthorityBatch ==
  ASSUME TypeOK, AuthorityInv, NEW t \in Task,
         \/ IgnoreFrame(t) \/ RefuseFrame(t) \/ LimitFrame(t)
         \/ LookupFails(t) \/ SnapshotFails(t) \/ CommitFails(t) \/ CommitBatch(t) \/ Publish(t)
  PROVE  AuthorityInv'
<1> USE DEF sockets, authority
<1>0. room[t] \in RoomState /\ Trusted(t)
  BY DEF TypeOK, BoundedRoom, AuthorityInv
<1>1. UNCHANGED <<at, ticket, acl, outgoing, role>>
  BY DEF IgnoreFrame, RefuseFrame, LimitFrame, LookupFails, SnapshotFails, CommitFails,
         CommitBatch, Publish
<1>2. open' \subseteq open
  BY DEF IgnoreFrame, RefuseFrame, LimitFrame, LookupFails, SnapshotFails, CommitFails, Poison,
         CommitBatch, Publish
<1>3. doc'.epoch = doc.epoch
  BY SameEpoch DEF IgnoreFrame, RefuseFrame, LimitFrame, LookupFails, SnapshotFails, CommitFails,
         CommitBatch, Publish
<1>4. ASSUME NEW x, room' = [room EXCEPT ![t] = x],
             x.epoch = room[t].epoch, x.controls = room[t].controls,
             x.prepared \subseteq room[t].prepared,
             x.prepared # {} => x.status = "live" /\ x.pc \in {"frames", "publish"}
      PROVE  AuthorityInv'
  BY <1>1, <1>2, <1>3, <1>4, AuthoritySame
<1>5. CASE IgnoreFrame(t) \/ RefuseFrame(t) \/ LimitFrame(t)
  <2>1. room' = [room EXCEPT ![t] = Popped(t)]
    BY <1>5 DEF IgnoreFrame, RefuseFrame, LimitFrame
  <2>2. /\ Popped(t).epoch = room[t].epoch /\ Popped(t).controls = room[t].controls
        /\ Popped(t).prepared = room[t].prepared /\ Popped(t).status = room[t].status
        /\ Popped(t).pc = room[t].pc
    BY <1>0 DEF Popped, RoomState
  <2> HIDE DEF Popped
  <2> QED BY <1>0, <1>4, <2>1, <2>2 DEF Trusted
<1>6. ASSUME NEW code, NEW ops,
             \/ room' = [room EXCEPT ![t] = [BatchOver(room[t]) EXCEPT !.dead = code]]
             \/ room' = [room EXCEPT ![t] = [BatchOver(room[t]) EXCEPT !.dead = code, !.ops = ops]]
             \/ room' = [room EXCEPT ![t] = BatchOver(room[t])]
      PROVE  AuthorityInv'
  <2> DEFINE b == BatchOver(room[t])
             x == [b EXCEPT !.dead = code]
             y == [b EXCEPT !.dead = code, !.ops = ops]
  <2>1. /\ b.epoch = room[t].epoch /\ b.controls = room[t].controls /\ b.prepared = {}
        /\ DOMAIN b = DOMAIN room[t]
    BY <1>0 DEF BatchOver, RoomState
  <2> HIDE DEF b
  <2>2. \A z \in {x, y} : z.epoch = b.epoch /\ z.controls = b.controls /\ z.prepared = b.prepared
    BY <1>0, <2>1 DEF RoomState
  <2>3. \E z \in {b, x, y} : room' = [room EXCEPT ![t] = z]
    BY <1>6 DEF b
  <2> HIDE DEF x, y
  <2> QED BY <1>4, <2>1, <2>2, <2>3
<1>7. CASE LookupFails(t) \/ SnapshotFails(t) \/ Publish(t)
  BY <1>6, <1>7 DEF LookupFails, Poison, SnapshotFails, Publish
<1>8. CASE CommitFails(t)
  <2>1. PICK code \in FailureCode(t) : Poison(t, code)
    BY <1>8 DEF CommitFails
  <2> QED BY <1>6, <2>1 DEF Poison
<1>9. CASE CommitBatch(t)
  <2>1. PICK since : room' = [room EXCEPT ![t] =
          [@ EXCEPT !.pc = "publish", !.revision = room[t].nextRevision, !.since = since]]
    BY <1>9 DEF CommitBatch
  <2> DEFINE x == [room[t] EXCEPT !.pc = "publish", !.revision = room[t].nextRevision, !.since = since]
  <2>2. /\ x.epoch = room[t].epoch /\ x.controls = room[t].controls
        /\ x.prepared = room[t].prepared /\ x.status = room[t].status /\ x.pc = "publish"
    BY <1>0 DEF RoomState
  <2>3. room' = [room EXCEPT ![t] = x] /\ room[t].status = "live"
    BY <1>9, <2>1 DEF CommitBatch, BatchDone
  <2> HIDE DEF x
  <2> QED BY <1>4, <2>2, <2>3
<1> QED BY <1>5, <1>7, <1>8, <1>9

\* A staged commit adds its sender's own operations only, for an editor.
LEMMA AuthorityStage ==
  ASSUME TypeOK, AuthorityInv, NEW t \in Task,
         AckRetry(t) \/ StageReceipt(t) \/ StageUpdate(t) \/ StageSnapshot(t)
  PROVE  AuthorityInv'
<1> USE DEF sockets, authority
<1> DEFINE x == room'[t]
           c == Current(t).conn
           m == Current(t).mut
<1>0. room[t] \in RoomState /\ Trusted(t)
  BY DEF TypeOK, BoundedRoom, AuthorityInv
<1>1. /\ Authorized(t) /\ UNCHANGED <<doc, at, open, role, ticket, acl, outgoing>>
      /\ room' = [room EXCEPT ![t] = x]
      /\ x.pc = "frames" /\ x.status = room[t].status /\ x.epoch = room[t].epoch
      /\ x.controls = room[t].controls
      /\ \/ x.prepared = room[t].prepared
         \/ Fresh(t) /\ \E v, action : x.prepared = room[t].prepared \cup {Entry(t, c, m, v, action)}
  BY StageShape DEF rows
<1>2. room[t].status = "live" /\ c \in Sockets(t) /\ role[c] = "editor"
  BY <1>1 DEF Authorized, Preparing
<1> HIDE DEF x
<1>3. CASE x.prepared = room[t].prepared
  BY <1>1, <1>2, <1>3, AuthoritySame
<1>4. ASSUME Fresh(t), NEW v, NEW action, x.prepared = room[t].prepared \cup {Entry(t, c, m, v, action)}
      PROVE  AuthorityInv'
  <2> DEFINE e == Entry(t, c, m, v, action)
  <2>1. e.conn = c /\ e.accepted = m.ops \ room[t].ops
    BY DEF Entry
  <2>2. \A op \in m.ops : op[1] # ActorOf[c] => op \in room[t].ops
    BY <1>4 DEF Fresh, Forged
  <2>3. \A op \in e.accepted : op[1] = ActorOf[e.conn]
    BY <2>1, <2>2
  <2> HIDE DEF e, c, m
  <2>4. x.prepared = room[t].prepared \cup {e}
    BY <1>4 DEF e
  <2>5. \A p \in x.prepared : \A op \in p.accepted : op[1] = ActorOf[p.conn]
    BY <1>0, <2>3, <2>4 DEF Trusted
  <2>6. x.epoch = doc.epoch =>
          /\ \A d \in Sockets(t) : role[d] = "editor" => acl[ActorOf[d]] = "editor"
          /\ \A p \in x.prepared : acl[ActorOf[p.conn]] = "editor"
    BY <1>0, <1>1, <1>2, <2>1, <2>4 DEF Trusted
  <2>7. /\ x.epoch <= doc.epoch
        /\ \A i \in 1..Len(x.controls) : Announced(x.controls[i])
    BY <1>0, <1>1 DEF Trusted
  <2> QED BY <1>1, <1>2, <2>5, <2>6, <2>7, AuthorityTask
<1> QED BY <1>1, <1>3, <1>4

\* Joining and leaving: a role comes from a ticket of the room's epoch.
LEMMA AuthoritySockets ==
  ASSUME TypeOK, AuthorityInv, NEW c \in Conn,
         \/ Admit(c) \/ JoinRefused(c) \/ LeaveUnmapped(c)
         \/ \E t \in Task : Join(t, c) \/ Leave(t, c)
  PROVE  AuthorityInv'
<1> USE DEF TypeOK, SocketsOK, sockets, authority
<1>1. ASSUME NEW t \in Task, Leave(t, c) PROVE AuthorityInv'
  <2> DEFINE y == Departed(room[t], c)
             z == [y EXCEPT !.since = 0]
  <2>0. room[t] \in RoomState /\ Trusted(t)
    BY DEF BoundedRoom, AuthorityInv
  <2>1. /\ y.epoch = room[t].epoch /\ y.controls = room[t].controls
        /\ y.prepared = room[t].prepared /\ DOMAIN y = DOMAIN room[t]
    BY <2>0 DEF Departed, RoomState
  <2>2. z.epoch = y.epoch /\ z.controls = y.controls /\ z.prepared = y.prepared
    <3> HIDE DEF y
    <3> QED BY <2>0, <2>1 DEF RoomState
  <2>3. PICK x \in {y, z} : room' = [room EXCEPT ![t] = x]
    BY <1>1 DEF Leave
  <2> HIDE DEF y, z
  <2>4. /\ open' = open \ {c} /\ at' = [at EXCEPT ![c] = NoTask]
        /\ role' = [role EXCEPT ![c] = "none"] /\ UNCHANGED <<ticket, acl, outgoing>>
    BY <1>1 DEF Leave, Detach
  <2>5. room[t].prepared = {} /\ doc'.epoch = doc.epoch
    BY <1>1, <2>0, SameEpoch DEF Leave, Trusted
  <2>6. \A u \in Task : room'[u] = IF u = t THEN x ELSE room[u]
    BY <2>3
  <2>7. \A u \in Task : \A d \in Sockets(u)' : d \in Sockets(u) /\ d \in Conn /\ role'[d] = role[d]
    BY <2>4 DEF Sockets
  <2>8. \A ctl : Announced(ctl)' <=> Announced(ctl)
    BY <2>5 DEF Announced
  <2>9. \A u \in Task : Trusted(u)
    BY DEF AuthorityInv
  <2>10. \A u \in Task : /\ room'[u].epoch = room[u].epoch /\ room'[u].controls = room[u].controls
                         /\ room'[u].prepared = room[u].prepared
                         /\ room[u].prepared # {} => room'[u] = room[u]
    BY <2>1, <2>2, <2>3, <2>5, <2>6
  <2>11. ASSUME NEW u \in Task PROVE Trusted(u)'
    <3>1. Trusted(u)
      BY <2>9
    <3>2. /\ room'[u].epoch = room[u].epoch /\ room'[u].controls = room[u].controls
          /\ room'[u].prepared = room[u].prepared
          /\ room[u].prepared # {} => room'[u] = room[u]
      BY <2>10
    <3>3. (\A i \in 1..Len(room[u].controls) : Announced(room[u].controls[i]))'
      BY <2>5, <3>1, <3>2 DEF Trusted, Announced
    <3>4. /\ room'[u].epoch <= doc'.epoch
          /\ room'[u].prepared # {} => room'[u].status = "live" /\ room'[u].pc \in {"frames", "publish"}
          /\ \A p \in room'[u].prepared : \A op \in p.accepted : op[1] = ActorOf[p.conn]
      BY <2>5, <3>1, <3>2 DEF Trusted
    <3>5. room'[u].epoch = doc'.epoch =>
            /\ \A d \in Sockets(u)' : role'[d] = "editor" => acl'[ActorOf[d]] = "editor"
            /\ \A p \in room'[u].prepared : acl'[ActorOf[p.conn]] = "editor"
      BY <2>4, <2>5, <2>7, <3>1, <3>2 DEF Trusted
    <3> QED BY <3>3, <3>4, <3>5 DEF Trusted
  <2> QED BY <2>4, <2>5, <2>8, <2>11 DEF AuthorityInv
<1>2. ASSUME NEW t \in Task, Join(t, c) PROVE AuthorityInv'
  <2>1. /\ room[t].epoch = ticket[c].epoch /\ ticket[c].held
        /\ at' = [at EXCEPT ![c] = t] /\ open' = open \cup {c}
        /\ role' = [role EXCEPT ![c] = ticket[c].role]
        /\ ticket' = [ticket EXCEPT ![c] = NoTicket]
        /\ UNCHANGED <<doc, acl, outgoing, room>>
    BY <1>2 DEF Join, Running, JoinRefusal, rows
  <2>2. \A u \in Task : \A d \in Sockets(u)' : \/ d = c /\ u = t
                                               \/ d # c /\ d \in Sockets(u) /\ role'[d] = role[d]
    BY <2>1 DEF Sockets
  <2>3. ticket[c].epoch = doc.epoch /\ role'[c] = "editor" => acl[ActorOf[c]] = "editor"
    BY <2>1 DEF AuthorityInv
  <2>4. \A ctl : Announced(ctl)' <=> Announced(ctl)
    BY <2>1 DEF Announced
  <2>5. ASSUME NEW u \in Task PROVE Trusted(u)'
    <3>1. Trusted(u)
      BY DEF AuthorityInv
    <3> QED BY <2>1, <2>2, <2>3, <2>4, <3>1 DEF Trusted
  <2>6. \A d \in Conn : ticket'[d].held => ticket'[d] = ticket[d]
    BY <2>1 DEF NoTicket
  <2> QED BY <2>1, <2>4, <2>5, <2>6 DEF AuthorityInv
<1>3. ASSUME Admit(c) \/ JoinRefused(c) \/ LeaveUnmapped(c) PROVE AuthorityInv'
  <2>1. /\ UNCHANGED <<doc, acl, outgoing, room, open>>
        /\ \A d \in open : at'[d] = at[d] /\ role'[d] = role[d]
        /\ \A d \in Conn : d # c => ticket'[d] = ticket[d]
    BY <1>3 DEF Admit, JoinRefused, LeaveUnmapped, Detach, rows
  <2>2. \/ ~ticket'[c].held
        \/ ticket'[c] = ticket[c]
        \/ ticket'[c].epoch = doc.epoch /\ ticket'[c].role = acl[ActorOf[c]]
    BY <1>3 DEF Admit, JoinRefused, LeaveUnmapped, NoTicket
  <2>3. \A u \in Task : Sockets(u)' = Sockets(u) /\ \A d \in Sockets(u) : role'[d] = role[d]
    BY <2>1 DEF Sockets
  <2>4. \A ctl : Announced(ctl)' <=> Announced(ctl)
    BY <2>1 DEF Announced
  <2>5. ASSUME NEW u \in Task PROVE Trusted(u)'
    <3>1. Trusted(u)
      BY DEF AuthorityInv
    <3> QED BY <2>1, <2>3, <2>4, <3>1 DEF Trusted
  <2>6. doc.epoch \in Nat
    BY DEF RowsOK
  <2> QED BY <2>1, <2>2, <2>4, <2>5, <2>6 DEF AuthorityInv
<1> QED BY <1>1, <1>2, <1>3

\* Frames and controls on their way to a room.
LEMMA AuthorityLanes ==
  ASSUME TypeOK, AuthorityInv,
         \/ \E ctl \in outgoing : Dispatch(ctl)
         \/ \E c \in Conn, m \in Mutation : Send(c, m)
  PROVE  AuthorityInv'
<1> USE DEF sockets, authority
<1>1. ASSUME NEW t \in Task, NEW x, room' = [room EXCEPT ![t] = x], outgoing' \subseteq outgoing,
             UNCHANGED <<doc, at, open, role, ticket, acl>>,
             x.epoch = room[t].epoch, x.prepared = room[t].prepared,
             x.status = room[t].status, x.pc = room[t].pc,
             \A i \in 1..Len(x.controls) : Announced(x.controls[i])
      PROVE  AuthorityInv'
  <2>1. Trusted(t)
    BY DEF AuthorityInv
  <2> QED BY <1>1, <2>1, AuthorityTask DEF Trusted
<1>2. ASSUME NEW c \in Conn, NEW m \in Mutation, Send(c, m) PROVE AuthorityInv'
  <2> DEFINE r == room[at[c]]
             lane == Append(r.inbox, [conn |-> c, mut |-> m])
             x == [r EXCEPT !.inbox = lane]
  <2>1. at[c] \in Task /\ r \in RoomState
    BY <1>2 DEF Send, TypeOK, SocketsOK, BoundedRoom
  <2>2. room' = [room EXCEPT ![at[c]] = x] /\ UNCHANGED <<doc, at, open, role, ticket, acl, outgoing>>
    BY <1>2 DEF Send, Queued, rows
  <2> HIDE DEF lane
  <2>3. /\ x.epoch = r.epoch /\ x.prepared = r.prepared /\ x.status = r.status /\ x.pc = r.pc
        /\ x.controls = r.controls
    BY <2>1 DEF RoomState
  <2>4. \A i \in 1..Len(r.controls) : Announced(r.controls[i])
    BY <2>1 DEF AuthorityInv, Trusted
  <2> HIDE DEF x
  <2> QED BY <1>1, <2>1, <2>2, <2>3, <2>4
<1>3. ASSUME NEW ctl \in outgoing, Dispatch(ctl) PROVE AuthorityInv'
  <2>1. UNCHANGED <<doc, at, open, role, ticket, acl>> /\ outgoing' \subseteq outgoing
    BY <1>3 DEF Dispatch, rows
  <2>2. CASE UNCHANGED room
    <3>1. \A d : Announced(d)' <=> Announced(d)
      BY <2>1 DEF Announced
    <3> QED BY <2>1, <2>2, <3>1 DEF AuthorityInv, Trusted, Sockets
  <2>3. CASE resident # NoTask
    <3> DEFINE r == room[resident]
               lane == Append(r.controls, ctl)
    <3>1. resident \in Task /\ r \in RoomState /\ r.controls \in Seq(Control) /\ ctl \in Control
      BY <2>3 DEF TypeOK, SocketsOK, BoundedRoom, RoomState, AuthorityOK
    <3>2. PICK x \in {[r EXCEPT !.controls = lane], [r EXCEPT !.aborted = TRUE]} :
            room' = [room EXCEPT ![resident] = x]
      BY <1>3, <2>3 DEF Dispatch, Evict, Notified
    <3>3. /\ Announced(ctl)
          /\ \A i \in 1..Len(r.controls) : Announced(r.controls[i])
      BY <3>1 DEF AuthorityInv, Trusted
    <3>4. \A i \in 1..Len(lane) : Announced(lane[i])
      BY <3>1, <3>3, LaneAnnounced
    <3> HIDE DEF lane
    <3>5. /\ x.epoch = r.epoch /\ x.prepared = r.prepared /\ x.status = r.status /\ x.pc = r.pc
          /\ x.controls \in {r.controls, lane}
      BY <3>1, <3>2 DEF RoomState
    <3> HIDE DEF r
    <3>6. \A i \in 1..Len(x.controls) : Announced(x.controls[i])
      BY <3>3, <3>4, <3>5
    <3> QED BY <1>1, <2>1, <3>1, <3>2, <3>5, <3>6 DEF r
  <2> QED BY <1>3, <2>2, <2>3 DEF Dispatch
<1> QED BY <1>2, <1>3

\* The handlers: an epoch begins with every change that takes a role away.
LEMMA AuthorityHandlers ==
  ASSUME TypeOK, AuthorityInv,
         \/ \E a \in Actor, r \in Role : ChangeAcl(a, r) \/ LinkRedeem(a, r)
         \/ \E a \in Revocable : Revoke(a)
         \/ Delete \/ Restore
  PROVE  AuthorityInv'
<1> USE DEF sockets, authority
<1>0. /\ doc.epoch \in Nat /\ acl \in [Actor -> Role] /\ outgoing \subseteq Control
      /\ \A t \in Task : room[t].epoch \in Nat
      /\ \A c \in Conn : ticket[c].epoch \in Nat
      /\ \A t \in Task : room[t].controls \in Seq(Control)
      /\ \A ctl \in Control : ctl.kind = "epoch" => ctl.epoch \in Nat
  BY DEF TypeOK, RowsOK, AuthorityOK, SocketsOK, BoundedRoom, RoomState, Control
<1>1. /\ UNCHANGED <<room, at, open, role, ticket>>
      /\ \A t \in Task : Sockets(t)' = Sockets(t)
  BY DEF ChangeAcl, LinkRedeem, Revoke, Delete, Restore, Sockets
<1>2. \A t \in Task : Trusted(t)
  BY DEF AuthorityInv
<1>3. ASSUME Delete \/ Restore \/ \E a \in Actor, r \in Role : ChangeAcl(a, r) PROVE AuthorityInv'
  <2>1. doc'.epoch = doc.epoch + 1
    BY <1>3 DEF ChangeAcl, Delete, Restore, TypeOK, RowsOK
  <2>0. \A ctl \in outgoing' : ctl \in outgoing \/ ctl.epoch = doc.epoch + 1
    BY <1>3 DEF ChangeAcl, Delete, Restore
  <2>2. \A ctl \in Control : Announced(ctl) => Announced(ctl)'
    BY <1>0, <2>1 DEF Announced
  <2>3. \A ctl \in outgoing' : Announced(ctl)'
    BY <1>0, <2>1, <2>2, <2>0 DEF AuthorityInv, Announced
  <2>4. ASSUME NEW t \in Task PROVE Trusted(t)'
    <3>1. room[t].epoch <= doc'.epoch /\ room[t].epoch # doc'.epoch
      BY <1>0, <1>2, <2>1 DEF Trusted
    <3>2. \A i \in 1..Len(room[t].controls) : Announced(room[t].controls[i])'
      BY <1>0, <1>1, <1>2, <2>2 DEF Trusted
    <3> QED BY <1>1, <1>2, <3>1, <3>2 DEF Trusted
  <2>5. \A c \in Conn : ticket[c].held => ticket[c].epoch <= doc'.epoch /\ ticket[c].epoch # doc'.epoch
    BY <1>0, <2>1 DEF AuthorityInv
  <2> QED BY <1>1, <2>3, <2>4, <2>5 DEF AuthorityInv
<1>4. ASSUME doc' = doc, \A ctl \in outgoing' : ctl \in outgoing \/ ctl.kind # "epoch",
             \A c \in Conn : acl[ActorOf[c]] = "editor" => acl'[ActorOf[c]] = "editor"
      PROVE  AuthorityInv'
  <2>1. \A ctl : Announced(ctl)' <=> Announced(ctl)
    BY <1>4 DEF Announced
  <2>2. \A t \in Task : \A p \in room[t].prepared : p.conn \in Conn
    BY PreparedTypes
  <2>3. \A t \in Task : \A c \in Sockets(t) : c \in Conn
    BY DEF Sockets, TypeOK, SocketsOK
  <2>4. ASSUME NEW t \in Task PROVE Trusted(t)'
    BY <1>1, <1>2, <1>4, <2>1, <2>2, <2>3 DEF Trusted
  <2>5. \A ctl \in outgoing' : Announced(ctl)'
    BY <1>4, <2>1 DEF AuthorityInv, Announced
  <2> QED BY <1>1, <1>4, <2>4, <2>5 DEF AuthorityInv
<1>5. ASSUME NEW a \in Actor, NEW r \in Role, LinkRedeem(a, r) PROVE AuthorityInv'
  <2>1. \A c \in Conn : acl[ActorOf[c]] = "editor" => acl'[ActorOf[c]] = "editor"
    BY <1>0, <1>5, ConstantsAssumption DEF LinkRedeem, ConstantsAssumption
  <2> QED BY <1>4, <1>5, <2>1 DEF LinkRedeem, rows
<1>6. ASSUME NEW a \in Revocable, Revoke(a) PROVE AuthorityInv'
  BY <1>4, <1>6 DEF Revoke, rows
<1> QED BY <1>3, <1>5, <1>6

\* A crash forgets tickets, sockets, lanes and staged frames.
LEMMA AuthorityCrash ==
  ASSUME TypeOK, AuthorityInv, Crash PROVE AuthorityInv'
<1>1. doc' = doc /\ outgoing' = {} /\ \A c \in Conn : ~ticket'[c].held
  BY DEF Crash, NoTicket, rows
<1>2. ASSUME NEW t \in Task PROVE Trusted(t)'
  <2>1. Trusted(t) /\ doc.epoch \in Nat
    BY DEF AuthorityInv, TypeOK, RowsOK
  <2>2. Sockets(t)' = {}
    BY DEF Crash, Sockets
  <2>3. CASE room'[t] = room[t] /\ room[t].status = "unborn"
    <3>1. room[t].prepared = {}
      BY <2>1, <2>3 DEF Trusted
    <3> QED BY <1>1, <2>1, <2>2, <2>3, <3>1 DEF Trusted, Announced
  <2>4. CASE room'[t] = Ended
    <3>1. Ended.epoch <= doc.epoch /\ Ended.controls = << >> /\ Ended.prepared = {}
      BY <2>1 DEF Ended, Unborn
    <3> QED BY <1>1, <2>2, <2>4, <3>1 DEF Trusted
  <2> QED BY <2>3, <2>4 DEF Crash
<1> QED BY <1>1, <1>2 DEF AuthorityInv

\* Every step keeps the invariant.
LEMMA AuthorityStep ==
  ASSUME TypeOK, ServingInv, AuthorityInv, [Next]_vars PROVE AuthorityInv'
<1>1. ASSUME NEW t \in Task, TaskStep(t) PROVE AuthorityInv'
  BY <1>1, AuthorityStart, AuthorityCollect, AuthorityBatch, AuthorityStage DEF TaskStep
<1>2. ASSUME NEW t \in Task, Spawn(t) \/ LeaveTimeout(t) \/ IdleExit(t) \/ Shutdown(t)
      PROVE  AuthorityInv'
  BY <1>2, AuthorityStart
<1>3. ASSUME NEW c \in Conn,
             \/ Admit(c) \/ JoinRefused(c) \/ LeaveUnmapped(c)
             \/ \E t \in Task : Join(t, c) \/ Leave(t, c)
      PROVE  AuthorityInv'
  BY <1>3, AuthoritySockets
<1>4. CASE \/ \E ctl \in outgoing : Dispatch(ctl)
           \/ \E c \in Conn, m \in Mutation : Send(c, m)
  BY <1>4, AuthorityLanes
<1>5. CASE \/ \E a \in Actor, r \in Role : ChangeAcl(a, r) \/ LinkRedeem(a, r)
           \/ \E a \in Revocable : Revoke(a)
           \/ Delete \/ Restore
  BY <1>5, AuthorityHandlers
<1>6. CASE Crash
  BY <1>6, AuthorityCrash
<1>7. CASE UNCHANGED vars
  <2>1. \A ctl : Announced(ctl)' <=> Announced(ctl)
    BY <1>7 DEF vars, rows, Announced
  <2>2. UNCHANGED <<doc, acl, room, at, open, role, ticket, outgoing>>
    BY <1>7 DEF vars, rows, authority, sockets
  <2>3. \A t \in Task : Trusted(t)'
    BY <2>1, <2>2 DEF AuthorityInv, Trusted, Sockets
  <2> QED BY <2>1, <2>2, <2>3 DEF AuthorityInv
<1> QED BY <1>1, <1>2, <1>3, <1>4, <1>5, <1>6, <1>7 DEF Next

\* What a room believes of its editors, and of the sites its staged
\* operations come from, is true unless a newer epoch has begun.
THEOREM AuthorityInvariant == Spec => []AuthorityInv
<1>1. Init => AuthorityInv
  <2> SUFFICES ASSUME Init PROVE AuthorityInv
    OBVIOUS
  <2>1. ASSUME NEW t \in Task PROVE Trusted(t)
    BY DEF Init, Trusted, Unborn, Sockets
  <2> QED BY <2>1 DEF Init, AuthorityInv, NoTicket
<1>2. TypeOK /\ ServingInv /\ AuthorityInv /\ [Next]_vars => AuthorityInv'
  BY AuthorityStep
<1> QED BY <1>1, <1>2, TypeCorrect, ServingInvariant, PTL DEF Spec

\* Only the transaction of a batch attributes operations.
LEMMA OnlyCommitsAttribute ==
  ASSUME [Next]_vars PROVE authors' = authors \/ \E t \in Task : CommitBatch(t)
<1> USE DEF rows
<1>1. ASSUME NEW t \in Task, TaskStep(t) PROVE authors' = authors \/ CommitBatch(t)
  BY <1>1 DEF TaskStep, Hydrate, HydrateFails, AbortEnds, TakeControl, BeginBatch, CollectFrame,
              EndCollect, StartFrames, IgnoreFrame, RefuseFrame, LimitFrame, AckRetry, LookupFails,
              StageReceipt, StageUpdate, StageSnapshot, SnapshotFails, CommitFails, Publish
<1>2. ASSUME NEW t \in Task, Spawn(t) \/ LeaveTimeout(t) \/ IdleExit(t) \/ Shutdown(t)
      PROVE  authors' = authors
  BY <1>2 DEF Spawn, LeaveTimeout, IdleExit, Shutdown, Exit, Compacted
<1>3. ASSUME NEW t \in Task, NEW c \in Conn, Join(t, c) \/ Leave(t, c) PROVE authors' = authors
  BY <1>3 DEF Join, Leave, Compacted
<1>4. CASE \/ \E c \in Conn : Admit(c) \/ JoinRefused(c) \/ LeaveUnmapped(c)
           \/ \E c \in Conn, m \in Mutation : Send(c, m)
           \/ \E a \in Actor, r \in Role : ChangeAcl(a, r) \/ LinkRedeem(a, r)
           \/ \E a \in Revocable : Revoke(a)
           \/ \E ctl \in outgoing : Dispatch(ctl)
           \/ Delete \/ Restore \/ Crash
  BY <1>4 DEF Admit, JoinRefused, LeaveUnmapped, Send, ChangeAcl, LinkRedeem, Revoke, Dispatch,
              Delete, Restore, Crash
<1>5. CASE UNCHANGED vars
  BY <1>5 DEF vars
<1> QED BY <1>1, <1>2, <1>3, <1>4, <1>5 DEF Next

\* Nothing is ever stored for an actor that is not, at that moment, an
\* unrevoked editor of a live document - whatever tickets, epochs and controls
\* are still on their way to the room, and even while rooms overlap.
THEOREM EditorsOnly == Spec => StoredByEditors
<1>1. ASSUME TypeOK, AuthorityInv, [Next]_vars, NEW e \in authors' \ authors
      PROVE  acl[e[2]] = "editor" /\ e[2] \notin revoked /\ ~doc.deleted
  <2>1. PICK t \in Task : CommitBatch(t)
    BY <1>1, OnlyCommitsAttribute
  <2>2. authors' = authors \cup UNION {p.accepted \X {ActorOf[p.conn]} : p \in room[t].prepared}
    BY <2>1 DEF CommitBatch
  <2>3. PICK p \in room[t].prepared : e[2] = ActorOf[p.conn]
    BY <1>1, <2>2
  <2>4. /\ ~doc.deleted /\ doc.epoch = room[t].epoch /\ ActorOf[p.conn] \notin revoked
    BY <2>1 DEF CommitBatch, Authoritative
  <2>5. acl[ActorOf[p.conn]] = "editor"
    BY <1>1, <2>4 DEF AuthorityInv, Trusted
  <2> QED BY <2>3, <2>4, <2>5
<1>2. TypeOK /\ AuthorityInv /\ [Next]_vars =>
        [\A e \in authors' \ authors :
           acl[e[2]] = "editor" /\ e[2] \notin revoked /\ ~doc.deleted]_vars
  BY <1>1
<1> QED BY <1>2, TypeCorrect, AuthorityInvariant, PTL DEF Spec, StoredByEditors
=============================================================================
