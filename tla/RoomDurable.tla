------------------------------ MODULE RoomDurable ------------------------------
(***************************************************************************)
(* Nothing a client was told is ever lost, as long as a room starts only   *)
(* when its predecessor can no longer write: DurableInv is inductive, and  *)
(* the room implements DurableDocument.                                    *)
(***************************************************************************)
EXTENDS RoomProofs

-----------------------------------------------------------------------------
(* Steps that leave the rows alone. *)

\* A record for which the task could no longer write.
LOCAL QuietState(r) == r.status \in {"unborn", "refusing", "ended"} \/ r.dead # 0

\* What a restart would rebuild depends on the snapshot and the journal only.
LEMMA SameRows ==
  ASSUME doc'.snapshot = doc.snapshot, doc'.snapshotRevision = doc.snapshotRevision,
         journal' = journal
  PROVE  Durable' = Durable /\ Revisions' = Revisions
  BY DEF Durable, Revisions, Replayed

\* A handler that changes neither rooms nor stored operations.
LEMMA HandlersOnly ==
  ASSUME DurableInv, UNCHANGED <<room, journal, commits, receipts, told>>,
         doc'.snapshot = doc.snapshot, doc'.snapshotRevision = doc.snapshotRevision
  PROVE  DurableInv'
<1>1. Durable' = Durable /\ Revisions' = Revisions
  BY SameRows
<1> HIDE DEF Durable, Revisions
<1> QED BY <1>1 DEF DurableInv, PublishedIsDurable, SingleWriter, Quiet, RowsReplayed, ReceiptsBacked

\* A step of one task that stores and publishes nothing.
LEMMA TaskOnly ==
  ASSUME TypeOK, DurableInv, NEW t \in Task, NEW x,
         room' = [room EXCEPT ![t] = x],
         RoomInv(x, Durable, Revisions), Quiet(t) => QuietState(x),
         UNCHANGED <<rows, receipts, told>>
  PROVE  DurableInv'
<1>1. Durable' = Durable /\ Revisions' = Revisions
  BY SameRows DEF rows
<1>2. \A u \in Task : room'[u] = IF u = t THEN x ELSE room[u]
  BY DEF TypeOK
<1>3. SingleWriter'
  BY <1>2 DEF DurableInv, SingleWriter, Quiet, QuietState
<1>4. \A u \in Task : RoomInv(room[u], Durable, Revisions)'
  BY <1>1, <1>2 DEF DurableInv
<1>5. (PublishedIsDurable /\ RowsReplayed /\ ReceiptsBacked)'
  BY <1>1 DEF DurableInv, PublishedIsDurable, RowsReplayed, ReceiptsBacked, rows
<1> QED BY <1>3, <1>4, <1>5 DEF DurableInv

\* The invariant of a room does not look at its lanes and counters.
LOCAL Alike(x, r) ==
  /\ x.status = r.status /\ x.dead = r.dead /\ x.pc = r.pc
  /\ x.ops = r.ops /\ x.durable = r.durable
  /\ x.revision = r.revision /\ x.nextRevision = r.nextRevision
  /\ x.prepared = r.prepared /\ x.acks = r.acks

\* Rooms that differ only there satisfy it together.
LEMMA AlikeKeeps ==
  ASSUME NEW r, NEW x, NEW D, NEW R, Alike(x, r), RoomInv(r, D, R)
  PROVE  RoomInv(x, D, R)
  BY DEF Alike, RoomInv, InSync, Staged, Committed

\* A task that has ended, or has not begun, satisfies the invariant.
LEMMA EndedInv ==
  ASSUME NEW D, NEW R PROVE RoomInv(Ended, D, R) /\ RoomInv(Unborn, D, R)
  BY DEF RoomInv, Ended, Unborn

\* Starting, hydrating and ending tasks without compaction.
LEMMA DurableStart ==
  ASSUME TypeOK, DurableInv, ~Overlap, NEW t \in Task,
         \/ Spawn(t) \/ Hydrate(t) \/ HydrateFails(t) \/ AbortEnds(t) \/ LeaveTimeout(t)
  PROVE  DurableInv'
<1> USE DEF observed
<1>0. room[t] \in RoomState /\ RoomInv(room[t], Durable, Revisions)
  BY DEF TypeOK, BoundedRoom, DurableInv
<1> HIDE DEF Durable, Revisions
<1>1. CASE Spawn(t)
  <2> DEFINE x == [room[t] EXCEPT !.status = "hydrating"]
  <2>1. RoomInv(x, Durable, Revisions)
    BY <1>0, <1>1 DEF Spawn, RoomInv, RoomState
  <2>2. \A u \in Task : room'[u] = IF u = t THEN x ELSE room[u]
    BY <1>1 DEF Spawn, TypeOK
  <2>3. \A u \in Task \ {t} : Quiet(u)
    BY <1>1 DEF Spawn
  <2>4. SingleWriter'
    BY <2>2, <2>3 DEF SingleWriter, Quiet
  <2>5. Durable' = Durable /\ Revisions' = Revisions
    BY <1>1, SameRows DEF Spawn, rows
  <2>6. (PublishedIsDurable /\ RowsReplayed /\ ReceiptsBacked)'
    BY <1>1, <2>5 DEF Spawn, DurableInv, PublishedIsDurable, RowsReplayed, ReceiptsBacked, rows
  <2>7. \A u \in Task : RoomInv(room[u], Durable, Revisions)'
    BY <2>1, <2>2, <2>5 DEF DurableInv
  <2> QED BY <2>4, <2>6, <2>7 DEF DurableInv
<1>2. CASE Hydrate(t)
  <2>1. PICK r \in Revisions :
          /\ \A s \in Revisions : s <= r
          /\ room' = [room EXCEPT ![t] =
               [@ EXCEPT !.status = "live", !.ops = Durable, !.revision = r,
                         !.since = 0, !.epoch = doc.epoch]]
    BY <1>2 DEF Hydrate
  <2> DEFINE x == [room[t] EXCEPT !.status = "live", !.ops = Durable, !.revision = r,
                                  !.since = 0, !.epoch = doc.epoch]
  <2>2. RoomInv(x, Durable, Revisions)
    BY <1>0, <1>2, <2>1 DEF Hydrate, RoomInv, RoomState, InSync, Newest
  <2>3. Quiet(t) => QuietState(x)
    BY <1>0, <1>2 DEF Hydrate, Quiet, QuietState, RoomState
  <2>4. room' = [room EXCEPT ![t] = x] /\ UNCHANGED <<rows, receipts, told>>
    BY <1>2, <2>1 DEF Hydrate
  <2> HIDE DEF x
  <2> QED BY <2>2, <2>3, <2>4, TaskOnly
<1>3. CASE HydrateFails(t)
  <2> DEFINE x == [room[t] EXCEPT !.status = "refusing"]
  <2>1. RoomInv(x, Durable, Revisions) /\ QuietState(x)
    BY <1>0, <1>3 DEF HydrateFails, RoomInv, RoomState, QuietState
  <2>2. room' = [room EXCEPT ![t] = x] /\ UNCHANGED <<rows, receipts, told>>
    BY <1>3 DEF HydrateFails
  <2> HIDE DEF x
  <2> QED BY <2>1, <2>2, TaskOnly
<1>4. CASE AbortEnds(t)
  <2>1. QuietState(Ended)
    BY DEF QuietState, Ended, Unborn
  <2> QED BY <1>4, <2>1, EndedInv, TaskOnly DEF AbortEnds
<1>5. CASE LeaveTimeout(t)
  <2> DEFINE x == [room[t] EXCEPT !.aborted = TRUE]
  <2>1. Alike(x, room[t])
    BY <1>0 DEF Alike, RoomState
  <2>2. Quiet(t) => QuietState(x)
    BY <2>1 DEF Alike, Quiet, QuietState
  <2>3. room' = [room EXCEPT ![t] = x] /\ UNCHANGED <<rows, receipts, told>>
    BY <1>5 DEF LeaveTimeout, Evict
  <2> HIDE DEF x
  <2> QED BY <1>0, <2>1, <2>2, <2>3, AlikeKeeps, TaskOnly
<1> QED BY <1>1, <1>2, <1>3, <1>4, <1>5

\* Controls and messages on their way to a room.
LEMMA DurableLanes ==
  ASSUME TypeOK, DurableInv,
         \/ \E ctl \in outgoing : Dispatch(ctl)
         \/ \E c \in Conn, m \in Mutation : Send(c, m)
  PROVE  DurableInv'
<1> USE DEF observed
<1>0. \A t \in Task : room[t] \in RoomState /\ RoomInv(room[t], Durable, Revisions)
  BY DEF TypeOK, BoundedRoom, DurableInv
<1> HIDE DEF Durable, Revisions
<1>1. ASSUME NEW t \in Task, NEW x, Alike(x, room[t]), room' = [room EXCEPT ![t] = x],
             UNCHANGED <<rows, receipts, told>>
      PROVE  DurableInv'
  <2>1. Quiet(t) => QuietState(x)
    BY <1>1 DEF Alike, Quiet, QuietState
  <2> QED BY <1>0, <1>1, <2>1, AlikeKeeps, TaskOnly
<1>2. ASSUME NEW ctl \in outgoing, Dispatch(ctl) PROVE DurableInv'
  <2>1. CASE resident = NoTask
    <3>1. UNCHANGED <<room, rows, receipts, told>>
      BY <1>2, <2>1 DEF Dispatch
    <3> QED BY <3>1, HandlersOnly DEF rows
  <2>2. CASE resident # NoTask
    <3>1. resident \in Task
      BY <2>2 DEF TypeOK, SocketsOK
    <3>2. Alike(Notified(room[resident], ctl), room[resident])
      BY <1>0, <3>1 DEF Alike, Notified, RoomState
    <3>3. Alike([room[resident] EXCEPT !.aborted = TRUE], room[resident])
      BY <1>0, <3>1 DEF Alike, RoomState
    <3>4. UNCHANGED <<rows, receipts, told>>
      BY <1>2 DEF Dispatch
    <3>5. \/ room' = [room EXCEPT ![resident] = Notified(room[resident], ctl)]
          \/ room' = [room EXCEPT ![resident] = [room[resident] EXCEPT !.aborted = TRUE]]
      BY <1>2, <2>2 DEF Dispatch, Evict
    <3> QED BY <1>1, <3>1, <3>2, <3>3, <3>4, <3>5
  <2> QED BY <2>1, <2>2
<1>3. ASSUME NEW c \in Conn, NEW m \in Mutation, Send(c, m) PROVE DurableInv'
  <2> DEFINE x == Queued(room[at[c]], [conn |-> c, mut |-> m])
  <2>1. at[c] \in Task
    BY <1>3 DEF Send, TypeOK, SocketsOK
  <2>2. Alike(x, room[at[c]])
    BY <1>0, <2>1 DEF Alike, Queued, RoomState
  <2>3. room' = [room EXCEPT ![at[c]] = x] /\ UNCHANGED <<rows, receipts, told>>
    BY <1>3 DEF Send
  <2> QED BY <1>1, <2>1, <2>2, <2>3
<1> QED BY <1>2, <1>3

\* A control applied between batches, or before the frames of one.
LEMMA DurableApply ==
  ASSUME TypeOK, DurableInv, NEW t \in Task, NEW r \in RoomState,
         room[t].status = "live", room[t].pc \in {"idle", "collect"},
         r.pc \in {"idle", "deferred"},
         r.status = room[t].status, r.dead = room[t].dead, r.ops = room[t].ops,
         r.revision = room[t].revision, r.prepared = room[t].prepared, r.acks = room[t].acks,
         ApplyControl(t, r), UNCHANGED <<rows, receipts, told>>
  PROVE  DurableInv'
<1> DEFINE ctl == Head(room[t].controls)
<1>0. RoomInv(room[t], Durable, Revisions)
  BY DEF DurableInv
<1> HIDE DEF Durable, Revisions
<1>1. RoomInv(r, Durable, Revisions)
  BY <1>0 DEF RoomInv, InSync
<1>2. ASSUME NEW e, NEW d \in {Deleted, Internal}
      PROVE  /\ RoomInv([r EXCEPT !.dead = d], Durable, Revisions) /\ QuietState([r EXCEPT !.dead = d])
             /\ RoomInv([r EXCEPT !.epoch = e], Durable, Revisions)
             /\ QuietState(r) => QuietState([r EXCEPT !.epoch = e])
             /\ RoomInv([r EXCEPT !.epoch = e, !.dead = d], Durable, Revisions)
             /\ QuietState([r EXCEPT !.epoch = e, !.dead = d])
  <2>1. d # 0
    BY DEF Deleted, Internal
  <2>2. Alike([r EXCEPT !.epoch = e], r)
    BY DEF Alike, RoomState
  <2>3. RoomInv([r EXCEPT !.epoch = e], Durable, Revisions)
    BY <1>1, <2>2, AlikeKeeps
  <2> QED BY <2>1, <2>3 DEF RoomInv, QuietState, RoomState
<1>3. Quiet(t) => QuietState(r)
  BY DEF Quiet, QuietState
<1>4. \/ room' = [room EXCEPT ![t] = [r EXCEPT !.dead = Deleted]]
      \/ room' = [room EXCEPT ![t] = [r EXCEPT !.epoch = ctl.epoch]]
      \/ room' = [room EXCEPT ![t] = [r EXCEPT !.epoch = ctl.epoch, !.dead = Internal]]
      \/ room' = [room EXCEPT ![t] = r]
  BY DEF ApplyControl
<1> HIDE DEF ctl
<1> QED BY <1>1, <1>2, <1>3, <1>4, TaskOnly

\* Starting to prepare a batch stages nothing yet.
LEMMA FramedInv ==
  ASSUME NEW r \in RoomState, NEW D, NEW R, RoomInv(r, D, R),
         r.status = "live", r.pc \in {"collect", "deferred"}
  PROVE  RoomInv(Framed(r), D, R) /\ (QuietState(r) => QuietState(Framed(r)))
<1>1. CASE r.dead # 0
  BY <1>1 DEF Framed, RoomInv, QuietState, RoomState
<1>2. CASE r.dead = 0
  <2> DEFINE x == [r EXCEPT !.pc = "frames", !.durable = r.ops,
                            !.nextRevision = r.revision, !.nextSince = r.since]
  <2>1. InSync(r, D, R) /\ r.revision \in Nat
    BY <1>2 DEF RoomInv, RoomState
  <2>2. Staged(x, D, R)
    BY <2>1 DEF Staged, InSync, RoomState
  <2>3. RoomInv(x, D, R) /\ ~QuietState(r)
    BY <1>2, <2>2 DEF RoomInv, RoomState, QuietState
  <2>4. Framed(r) = x
    BY <1>2 DEF Framed
  <2> HIDE DEF x
  <2> QED BY <2>3, <2>4
<1> QED BY <1>1, <1>2

\* Taking a frame into the batch.
LEMMA ReceivedInv ==
  ASSUME NEW r \in RoomState, NEW b, NEW D, NEW R, RoomInv(r, D, R),
         Taken(r, b) \in RoomState,
         r.status = "live", r.pc \in {"idle", "collect"}
  PROVE  RoomInv(Received(r, b), D, R) /\ (QuietState(r) => QuietState(Received(r, b)))
<1>1. /\ RoomInv(Taken(r, b), D, R) /\ (QuietState(r) => QuietState(Taken(r, b)))
      /\ Taken(r, b).status = "live" /\ Taken(r, b).pc = "collect"
  BY DEF Taken, RoomInv, InSync, RoomState, QuietState
<1> QED BY <1>1, FramedInv DEF Received

\* Receiving: controls, the frames of a batch, and the start of its preparation.
LEMMA DurableCollect ==
  ASSUME TypeOK, DurableInv, NEW t \in Task,
         TakeControl(t) \/ BeginBatch(t) \/ CollectFrame(t) \/ EndCollect(t) \/ StartFrames(t)
  PROVE  DurableInv'
<1> USE DEF observed
<1>0. room[t] \in RoomState /\ RoomInv(room[t], Durable, Revisions)
  BY DEF TypeOK, BoundedRoom, DurableInv
<1> HIDE DEF Durable, Revisions
<1>1. CASE TakeControl(t)
  <2>1. Drained(room[t]) \in RoomState
    BY <1>1, DrainedBounded DEF TakeControl, TypeOK, BoundedRoom
  <2>2. Alike(Drained(room[t]), room[t])
    BY <1>0 DEF Alike, Drained, RoomState
  <2> QED BY <1>1, <2>1, <2>2, DurableApply DEF TakeControl, Running, Alike
<1>2. CASE BeginBatch(t)
  <2> DEFINE x == Received(room[t], <<Head(room[t].inbox)>>)
  <2>0. Taken(room[t], <<Head(room[t].inbox)>>) \in RoomState
    BY <1>2, FirstTaken DEF BeginBatch, TypeOK, BoundedRoom
  <2>1. RoomInv(x, Durable, Revisions) /\ (Quiet(t) => QuietState(x))
    BY <1>0, <1>2, <2>0, ReceivedInv DEF BeginBatch, Running, Quiet, QuietState
  <2>2. room' = [room EXCEPT ![t] = x] /\ UNCHANGED <<rows, receipts, told>>
    BY <1>2 DEF BeginBatch
  <2> HIDE DEF x
  <2> QED BY <2>1, <2>2, TaskOnly
<1>3. CASE CollectFrame(t)
  <2> DEFINE x == Received(room[t], Append(room[t].batch, Head(room[t].inbox)))
  <2>0. Taken(room[t], Append(room[t].batch, Head(room[t].inbox))) \in RoomState
    BY <1>3, NextTaken DEF CollectFrame, TypeOK, BoundedRoom
  <2>1. RoomInv(x, Durable, Revisions) /\ (Quiet(t) => QuietState(x))
    BY <1>0, <1>3, <2>0, ReceivedInv DEF CollectFrame, Running, Quiet, QuietState
  <2>2. room' = [room EXCEPT ![t] = x] /\ UNCHANGED <<rows, receipts, told>>
    BY <1>3 DEF CollectFrame
  <2> HIDE DEF x
  <2> QED BY <2>1, <2>2, TaskOnly
<1>4. ASSUME room[t].status = "live", room[t].pc \in {"collect", "deferred"},
             room' = [room EXCEPT ![t] = Framed(room[t])], UNCHANGED <<rows, receipts, told>>
      PROVE  DurableInv'
  <2>1. RoomInv(Framed(room[t]), Durable, Revisions) /\ (Quiet(t) => QuietState(Framed(room[t])))
    BY <1>0, <1>4, FramedInv DEF Quiet, QuietState
  <2> QED BY <1>4, <2>1, TaskOnly
<1>5. CASE EndCollect(t)
  <2>1. CASE room' = [room EXCEPT ![t] = Framed(room[t])]
    BY <1>4, <1>5, <2>1 DEF EndCollect, Running
  <2>2. CASE /\ room[t].controls # << >>
             /\ ApplyControl(t, [Drained(room[t]) EXCEPT !.pc = "deferred"])
    <3> DEFINE x == [Drained(room[t]) EXCEPT !.pc = "deferred"]
    <3>1. Drained(room[t]) \in RoomState
      BY <2>2, DrainedBounded DEF TypeOK, BoundedRoom
    <3>2. Alike(Drained(room[t]), room[t])
      BY <1>0 DEF Alike, Drained, RoomState
    <3>3. /\ x \in RoomState /\ x.pc = "deferred" /\ x.status = room[t].status
          /\ x.dead = room[t].dead /\ x.ops = room[t].ops /\ x.revision = room[t].revision
          /\ x.prepared = room[t].prepared /\ x.acks = room[t].acks
      BY <3>1, <3>2 DEF Alike, RoomState
    <3> HIDE DEF x
    <3>4. ApplyControl(t, x)
      BY <2>2 DEF x
    <3> QED BY <1>5, <3>3, <3>4, DurableApply DEF EndCollect, Running
  <2> QED BY <1>5, <2>1, <2>2 DEF EndCollect
<1>6. CASE StartFrames(t)
  <2>1. room[t].status = "live"
    BY <1>0, <1>6 DEF StartFrames, RoomInv
  <2> QED BY <1>4, <1>6, <2>1 DEF StartFrames
<1> QED BY <1>1, <1>2, <1>3, <1>5, <1>6

-----------------------------------------------------------------------------
(* Preparing frames. *)

\* Frames that are dropped, and the ways a batch is given up.
LEMMA DurableRefuse ==
  ASSUME TypeOK, DurableInv, NEW t \in Task,
         \/ IgnoreFrame(t) \/ RefuseFrame(t) \/ LimitFrame(t)
         \/ LookupFails(t) \/ SnapshotFails(t) \/ CommitFails(t)
  PROVE  DurableInv'
<1> USE DEF observed
<1>0. room[t] \in RoomState /\ RoomInv(room[t], Durable, Revisions)
  BY DEF TypeOK, BoundedRoom, DurableInv
<1> HIDE DEF Durable, Revisions
<1>1. UNCHANGED <<rows, receipts, told>>
  BY DEF IgnoreFrame, RefuseFrame, LimitFrame, LookupFails, SnapshotFails, CommitFails
<1>2. ASSUME room' = [room EXCEPT ![t] = Popped(t)] PROVE DurableInv'
  <2>1. Alike(Popped(t), room[t])
    BY <1>0 DEF Alike, Popped, RoomState
  <2>2. Quiet(t) => QuietState(Popped(t))
    BY <2>1 DEF Alike, Quiet, QuietState
  <2> QED BY <1>0, <1>1, <1>2, <2>1, <2>2, AlikeKeeps, TaskOnly
<1>3. ASSUME NEW code \in {Internal, Deleted, Unauthorized}, NEW ops,
             \/ room' = [room EXCEPT ![t] = [BatchOver(room[t]) EXCEPT !.dead = code]]
             \/ room' = [room EXCEPT ![t] = [BatchOver(room[t]) EXCEPT !.dead = code, !.ops = ops]]
      PROVE  DurableInv'
  <2> DEFINE x == [BatchOver(room[t]) EXCEPT !.dead = code]
             y == [BatchOver(room[t]) EXCEPT !.dead = code, !.ops = ops]
  <2>1. code # 0
    BY DEF Internal, Deleted, Unauthorized
  <2>2. \A z \in {x, y} : z.dead # 0 /\ z.pc = "idle" /\ z.prepared = {} /\ z.acks = {}
    <3>1. /\ BatchOver(room[t]) \in RoomState /\ BatchOver(room[t]).pc = "idle"
          /\ BatchOver(room[t]).prepared = {} /\ BatchOver(room[t]).acks = {}
      BY <1>0, NoFrames DEF BatchOver, RoomState
    <3>2. x.dead # 0 /\ x.pc = "idle" /\ x.prepared = {} /\ x.acks = {}
      BY <2>1, <3>1 DEF RoomState
    <3>3. y.dead # 0 /\ y.pc = "idle" /\ y.prepared = {} /\ y.acks = {}
      BY <2>1, <3>1 DEF RoomState
    <3> QED BY <3>2, <3>3
  <2>3. \A z \in {x, y} : RoomInv(z, Durable, Revisions) /\ QuietState(z)
    <3> HIDE DEF x, y
    <3> QED BY <2>2 DEF RoomInv, QuietState
  <2>4. room' = [room EXCEPT ![t] = x] \/ room' = [room EXCEPT ![t] = y]
    BY <1>3
  <2> HIDE DEF x, y
  <2> QED BY <1>1, <2>3, <2>4, TaskOnly
<1>4. CASE IgnoreFrame(t) \/ RefuseFrame(t) \/ LimitFrame(t)
  BY <1>2, <1>4 DEF IgnoreFrame, RefuseFrame, LimitFrame
<1>5. CASE LookupFails(t)
  BY <1>3, <1>5 DEF LookupFails, Poison
<1>6. CASE SnapshotFails(t)
  BY <1>3, <1>6 DEF SnapshotFails
<1>7. CASE CommitFails(t)
  <2>1. PICK code \in FailureCode(t) : Poison(t, code)
    BY <1>7 DEF CommitFails
  <2>2. code \in {Internal, Deleted, Unauthorized}
    BY DEF FailureCode
  <2> QED BY <1>3, <2>1, <2>2 DEF Poison
<1> QED BY <1>4, <1>5, <1>6, <1>7

\* A prepared frame extends the staged batch by one commit.
LEMMA StagedEntry ==
  ASSUME NEW r \in RoomState, NEW x \in RoomState, NEW D, NEW R, NEW e, NEW new,
         Staged(r, D, R),
         /\ x.durable = r.durable /\ x.revision = r.revision /\ x.acks = r.acks
         /\ x.ops = r.ops \cup new /\ x.prepared = r.prepared \cup {e},
         /\ e.version = r.ops \cup new /\ e.accepted = new \ r.ops
         /\ e.payload[2] = new /\ e.revision = x.nextRevision /\ e.revision \in Nat,
         \/ /\ e.action = "receipt" /\ new \subseteq r.ops
            /\ x.nextRevision = r.nextRevision
         \/ /\ e.action # "receipt" /\ x.nextRevision = r.nextRevision + 1
  PROVE  Staged(x, D, R)
<1>0. r.revision \in Nat /\ r.nextRevision \in Nat /\ \A p \in r.prepared : p.revision \in Nat
  BY DEF RoomState, Prepared
<1>1. x.durable = D /\ Newest(x.revision, R) /\ x.revision <= x.nextRevision
  BY <1>0 DEF Staged
<1>2. x.ops = D \cup UNION {p.accepted : p \in x.prepared}
  <2>1. UNION {p.accepted : p \in x.prepared} = (UNION {p.accepted : p \in r.prepared}) \cup (new \ r.ops)
    OBVIOUS
  <2> QED BY <2>1 DEF Staged
<1>3. x.nextRevision > x.revision =>
        \E p \in x.prepared : p.action # "receipt" /\ p.revision = x.nextRevision
  BY <1>0 DEF Staged
<1>4. \A p \in x.prepared :
        /\ D \subseteq p.version /\ p.version \subseteq x.ops
        /\ p.payload[2] \subseteq p.version
        /\ p.revision <= x.nextRevision
        /\ IF p.action = "receipt" THEN p.accepted = {} ELSE x.revision < p.revision
  <2>1. CASE e.action = "receipt"
    BY <1>0, <2>1 DEF Staged
  <2>2. CASE e.action # "receipt"
    BY <1>0, <2>2 DEF Staged
  <2> QED BY <2>1, <2>2
<1>5. \A p, q \in x.prepared : q.revision <= p.revision => q.accepted \subseteq p.version
  <2>1. \A q \in r.prepared : q.accepted \subseteq r.ops
    BY DEF Staged
  <2>2. \A p \in r.prepared : e.revision <= p.revision => e.accepted = {}
    BY <1>0 DEF Staged
  <2> QED BY <2>1, <2>2 DEF Staged
<1>6. \A a \in x.acks : a.version \subseteq x.ops /\ a.payload[2] \subseteq x.ops
  BY DEF Staged
<1> QED BY <1>1, <1>2, <1>3, <1>4, <1>5, <1>6 DEF Staged

\* Retries, and the three ways a new mutation is staged.
LEMMA DurableStage ==
  ASSUME TypeOK, TypeOK', DurableInv, NEW t \in Task,
         AckRetry(t) \/ StageReceipt(t) \/ StageUpdate(t) \/ StageSnapshot(t)
  PROVE  DurableInv'
<1> USE DEF observed
<1> DEFINE r == room[t]
           c == Current(t).conn
           m == Current(t).mut
           old == Popped(t)
           x == room'[t]
<1>0. /\ r \in RoomState /\ x \in RoomState /\ RoomInv(r, Durable, Revisions) /\ ReceiptsBacked
      /\ m.ops \subseteq Op
  <2>1. Authorized(t)
    BY DEF AckRetry, StageReceipt, StageUpdate, StageSnapshot
  <2> QED BY <2>1, CurrentFacts DEF TypeOK, BoundedRoom, DurableInv, Authorized
<1>1. UNCHANGED <<rows, receipts, told>> /\ r.status = "live" /\ r.pc = "frames"
  BY DEF AckRetry, StageReceipt, StageUpdate, StageSnapshot, Authorized, Preparing
<1>2. r.dead = 0 /\ Staged(r, Durable, Revisions)
  BY <1>0, <1>1 DEF RoomInv
<1>3. /\ old.status = r.status /\ old.dead = r.dead /\ old.pc = r.pc /\ old.ops = r.ops
      /\ old.durable = r.durable /\ old.revision = r.revision
      /\ old.nextRevision = r.nextRevision /\ old.prepared = r.prepared /\ old.acks = r.acks
      /\ DOMAIN old = DOMAIN r
  BY <1>0 DEF Popped, RoomState
<1>4. \A k \in commits : k.payload[2] \subseteq Durable
  BY <1>0 DEF ReceiptsBacked
<1> HIDE DEF Durable, Revisions
<1>5. ASSUME NEW y, y = x, room' = [room EXCEPT ![t] = y], Staged(y, Durable, Revisions),
             y.status = "live", y.dead = 0, y.pc = "frames"
      PROVE  DurableInv'
  <2>1. RoomInv(y, Durable, Revisions)
    BY <1>5 DEF RoomInv
  <2>2. ~Quiet(t)
    BY <1>1, <1>2 DEF Quiet
  <2> QED BY <1>1, <1>5, <2>1, <2>2, TaskOnly
<1>6. CASE AckRetry(t)
  <2>1. PICK prior \in Prior(t, m) :
          room' = [room EXCEPT ![t] = [Popped(t) EXCEPT !.acks = @ \cup
            {[conn |-> c, id |-> m.id, payload |-> PayloadOf(m),
              revision |-> prior.revision, version |-> prior.version]}]]
    BY <1>6 DEF AckRetry
  <2> DEFINE a == [conn |-> c, id |-> m.id, payload |-> PayloadOf(m),
                   revision |-> prior.revision, version |-> prior.version]
             y == [old EXCEPT !.acks = old.acks \cup {a}]
  <2>2. prior.version \subseteq r.ops /\ PayloadOf(m)[2] \subseteq r.ops
    <3>1. CASE \E p \in r.prepared : p.id = m.id
      <4>1. PICK p \in r.prepared : p.payload = PayloadOf(m) /\ prior.version = p.version
        BY <3>1 DEF Prior
      <4>2. p.version \subseteq r.ops /\ p.payload[2] \subseteq p.version
        BY <1>2 DEF Staged
      <4> QED BY <4>1, <4>2
    <3>2. CASE ~\E p \in r.prepared : p.id = m.id
      <4>1. PICK k \in commits : k.payload = PayloadOf(m) /\ prior.version = r.durable
        BY <3>2 DEF Prior
      <4>2. r.durable = Durable /\ Durable \subseteq r.ops
        BY <1>2 DEF Staged
      <4> QED BY <1>4, <4>1, <4>2
    <3> QED BY <3>1, <3>2
  <2>3. a.version \subseteq r.ops /\ a.payload[2] \subseteq r.ops
    BY <2>2
  <2>4. room' = [room EXCEPT ![t] = y] /\ y = x
    BY <2>1 DEF TypeOK
  <2> HIDE DEF a, old
  <2>5. /\ y.status = r.status /\ y.dead = r.dead /\ y.pc = r.pc /\ y.ops = r.ops
        /\ y.durable = r.durable /\ y.revision = r.revision
        /\ y.nextRevision = r.nextRevision /\ y.prepared = r.prepared /\ y.acks = r.acks \cup {a}
    BY <1>0, <1>3 DEF RoomState
  <2> HIDE DEF y, r
  <2>6. Staged(y, Durable, Revisions)
    BY <1>2, <2>3, <2>5 DEF Staged
  <2> QED BY <1>1, <1>2, <1>5, <2>4, <2>5, <2>6
<1>7. CASE StageReceipt(t)
  <2> DEFINE e == Entry(t, c, m, r.nextRevision, "receipt")
             y == [old EXCEPT !.prepared = old.prepared \cup {e}]
  <2>1. m.ops \subseteq r.ops /\ room' = [room EXCEPT ![t] = y] /\ y = x
    BY <1>7 DEF StageReceipt, TypeOK
  <2>2. /\ e.version = r.ops \cup m.ops /\ e.accepted = m.ops \ r.ops /\ e.payload[2] = m.ops
        /\ e.revision = r.nextRevision /\ e.revision \in Nat /\ e.action = "receipt"
    BY <1>0 DEF Entry, PayloadOf, RoomState
  <2> HIDE DEF e, old
  <2>3. /\ y.status = r.status /\ y.dead = r.dead /\ y.pc = r.pc /\ y.ops = r.ops
        /\ y.durable = r.durable /\ y.revision = r.revision
        /\ y.nextRevision = r.nextRevision /\ y.acks = r.acks /\ y.prepared = r.prepared \cup {e}
    BY <1>0, <1>3 DEF RoomState
  <2> HIDE DEF y, r, m
  <2>4. r.ops = r.ops \cup m.ops
    BY <2>1
  <2>5. Staged(y, Durable, Revisions)
    BY <1>0, <1>2, <2>1, <2>2, <2>3, <2>4, StagedEntry
  <2> QED BY <1>1, <1>2, <1>5, <2>1, <2>3, <2>5
<1>8. ASSUME NEW since, NEW action \in {"update", "snapshot"},
             room' = [room EXCEPT ![t] = [Popped(t) EXCEPT
               !.ops = @ \cup m.ops,
               !.nextRevision = @ + 1,
               !.nextSince = since,
               !.prepared = @ \cup {Entry(t, c, m, room[t].nextRevision + 1, action)}]]
      PROVE  DurableInv'
  <2> DEFINE e == Entry(t, c, m, r.nextRevision + 1, action)
             y == [old EXCEPT !.ops = old.ops \cup m.ops, !.nextRevision = old.nextRevision + 1,
                              !.nextSince = since, !.prepared = old.prepared \cup {e}]
  <2>1. room' = [room EXCEPT ![t] = y] /\ y = x
    BY <1>8 DEF TypeOK
  <2>2. /\ e.version = r.ops \cup m.ops /\ e.accepted = m.ops \ r.ops /\ e.payload[2] = m.ops
        /\ e.revision = r.nextRevision + 1 /\ e.revision \in Nat /\ e.action # "receipt"
    <3>1. r.nextRevision + 1 \in Nat
      BY PreparedTypes
    <3>2. e.action = action
      BY DEF Entry
    <3>3. action # "receipt"
      OBVIOUS
    <3> QED BY <3>1, <3>2, <3>3 DEF Entry, PayloadOf
  <2> HIDE DEF e, old
  <2>3. /\ y.status = r.status /\ y.dead = r.dead /\ y.pc = r.pc /\ y.ops = r.ops \cup m.ops
        /\ y.durable = r.durable /\ y.revision = r.revision
        /\ y.nextRevision = r.nextRevision + 1 /\ y.acks = r.acks /\ y.prepared = r.prepared \cup {e}
    BY <1>0, <1>3 DEF RoomState
  <2> HIDE DEF y, r, m
  <2>5. Staged(y, Durable, Revisions)
    BY <1>0, <1>2, <2>1, <2>2, <2>3, StagedEntry
  <2> QED BY <1>1, <1>2, <1>5, <2>1, <2>3, <2>5
<1>9. CASE StageUpdate(t)
  BY <1>8, <1>9, <1>3 DEF StageUpdate
<1>10. CASE StageSnapshot(t)
  BY <1>8, <1>10 DEF StageSnapshot
<1> QED BY <1>6, <1>7, <1>9, <1>10

-----------------------------------------------------------------------------
(* Steps that write the rows. *)

\* The only task that can write changes the rows and its own state.
LEMMA WriterStep ==
  ASSUME TypeOK, DurableInv, NEW t \in Task, NEW x, ~Quiet(t),
         room' = [room EXCEPT ![t] = x],
         RoomInv(x, Durable', Revisions'),
         (PublishedIsDurable /\ RowsReplayed /\ ReceiptsBacked)'
  PROVE  DurableInv'
<1>1. \A u \in Task : room'[u] = IF u = t THEN x ELSE room[u]
  BY DEF TypeOK
<1>2. \A u \in Task : u # t => Quiet(u)
  BY DEF DurableInv, SingleWriter
<1>3. SingleWriter'
  BY <1>1, <1>2 DEF SingleWriter, Quiet
<1>4. \A u \in Task : RoomInv(room[u], Durable, Revisions)
  BY DEF DurableInv
<1> HIDE DEF Durable, Revisions
<1>5. \A u \in Task : u # t => RoomInv(room[u], Durable', Revisions')
  BY <1>2, <1>4 DEF RoomInv, Quiet
<1>6. \A u \in Task : RoomInv(room[u], Durable, Revisions)'
  BY <1>1, <1>5
<1> QED BY <1>3, <1>6 DEF DurableInv

\* The revisions of stored and staged rows, in order.
LEMMA RowOrder ==
  ASSUME TypeOK, DurableInv, NEW t \in Task, Staged(room[t], Durable, Revisions)
  PROVE  /\ room[t].revision \in Nat /\ room[t].nextRevision \in Nat
         /\ room[t].revision <= room[t].nextRevision
         /\ doc.snapshotRevision \in Nat /\ doc.snapshotRevision <= room[t].revision
         /\ \A row \in journal : /\ row.revision \in Nat
                                 /\ doc.snapshotRevision < row.revision
                                 /\ row.revision <= room[t].revision
         /\ \A p \in room[t].prepared : /\ p.revision \in Nat /\ p.revision <= room[t].nextRevision
                                        /\ p.action # "receipt" => room[t].revision < p.revision
         /\ Durable = doc.snapshot \cup UNION {row.ops : row \in journal}
         /\ Revisions = {doc.snapshotRevision} \cup {row.revision : row \in journal}
<1>1. room[t] \in RoomState /\ RowsReplayed /\ RowsOK
  BY DEF TypeOK, BoundedRoom, DurableInv
<1>2. room[t].revision \in Nat /\ room[t].nextRevision \in Nat /\ \A p \in room[t].prepared : p.revision \in Nat
  BY <1>1, PreparedTypes DEF RoomState
<1>3. doc.snapshotRevision \in Nat /\ \A row \in journal : row.revision \in Nat
  BY <1>1 DEF RowsOK
<1>4. Replayed = journal
  BY <1>1 DEF Replayed, RowsReplayed
<1>5. /\ Durable = doc.snapshot \cup UNION {row.ops : row \in journal}
      /\ Revisions = {doc.snapshotRevision} \cup {row.revision : row \in journal}
  BY <1>4 DEF Durable, Revisions
<1>6. \A s \in Revisions : s <= room[t].revision
  BY DEF Staged, Newest
<1>7. /\ room[t].revision <= room[t].nextRevision
      /\ \A p \in room[t].prepared : /\ p.revision <= room[t].nextRevision
                                     /\ p.action # "receipt" => room[t].revision < p.revision
  BY DEF Staged
<1> QED BY <1>1, <1>2, <1>3, <1>5, <1>6, <1>7 DEF RowsReplayed

\* What the transaction leaves is the live replica, at the batch's last revision.
LEMMA CommitStored ==
  ASSUME TypeOK, DurableInv, NEW t \in Task, Staged(room[t], Durable, Revisions),
         NEW compact \in BOOLEAN, CommitRows(t, compact)
  PROVE  /\ Durable' = room[t].ops
         /\ Newest(room[t].nextRevision, Revisions')
         /\ RowsReplayed'
<1> DEFINE r == room[t]
           next == room[t].nextRevision
           U == {q \in r.prepared : q.action = "update"}
<1>1. /\ r.revision \in Nat /\ next \in Nat /\ r.revision <= next
      /\ doc.snapshotRevision \in Nat /\ doc.snapshotRevision <= r.revision
      /\ \A row \in journal : /\ row.revision \in Nat /\ doc.snapshotRevision < row.revision
                              /\ row.revision <= r.revision
      /\ \A p \in r.prepared : /\ p.revision \in Nat /\ p.revision <= next
                               /\ p.action # "receipt" => r.revision < p.revision
  BY RowOrder
<1>2. /\ Durable = doc.snapshot \cup UNION {row.ops : row \in journal}
      /\ Revisions = {doc.snapshotRevision} \cup {row.revision : row \in journal}
  BY RowOrder
<1>3. /\ r.ops = Durable \cup UNION {p.accepted : p \in r.prepared}
      /\ next > r.revision => \E p \in r.prepared : p.action # "receipt" /\ p.revision = next
      /\ \A p \in r.prepared : /\ Durable \subseteq p.version /\ p.version \subseteq r.ops
                               /\ p.action = "receipt" => p.accepted = {}
      /\ \A p, q \in r.prepared : q.revision <= p.revision => q.accepted \subseteq p.version
      /\ Newest(r.revision, Revisions)
  BY DEF Staged
<1>4. \A row \in Journaled(t) : \/ row \in journal
                                \/ \E p \in U : row = [revision |-> p.revision, ops |-> p.accepted]
  BY DEF Journaled
<1>5. \A p \in U : \E row \in Journaled(t) : row.revision = p.revision /\ row.ops = p.accepted
  <2>1. ASSUME NEW p \in U PROVE [revision |-> p.revision, ops |-> p.accepted] \in Journaled(t)
    BY DEF Journaled
  <2> QED BY <2>1
<1>6. journal \subseteq Journaled(t)
  BY DEF Journaled
<1>7. \A p \in r.prepared : p.action \in {"receipt", "update", "snapshot"}
  BY DEF TypeOK, BoundedRoom, RoomState, Prepared
<1>8. /\ Durable' = doc'.snapshot \cup UNION {row.ops : row \in {row \in journal' : row.revision > doc'.snapshotRevision}}
      /\ Revisions' = {doc'.snapshotRevision} \cup {row.revision : row \in {row \in journal' : row.revision > doc'.snapshotRevision}}
  BY DEF Durable, Revisions, Replayed
<1> HIDE DEF Durable, Revisions, r, next
<1>9. CASE StoreSnapshot(t, r.ops, next)
  <2>1. doc'.snapshot = r.ops /\ doc'.snapshotRevision = next
    BY <1>9 DEF StoreSnapshot, TypeOK, RowsOK
  <2>2. journal' = {}
    BY <1>1, <1>4, <1>9 DEF StoreSnapshot
  <2> QED BY <1>1, <1>8, <2>1, <2>2 DEF Newest, RowsReplayed, r, next
<1>10. ASSUME NEW p \in Snapshots(t), \A q \in Snapshots(t) : q.revision <= p.revision,
              StoreSnapshot(t, p.version, p.revision)
       PROVE  Durable' = r.ops /\ Newest(next, Revisions') /\ RowsReplayed'
  <2>1. doc'.snapshot = p.version /\ doc'.snapshotRevision = p.revision
    BY <1>10 DEF StoreSnapshot, TypeOK, RowsOK
  <2>2. p \in r.prepared /\ p.action = "snapshot"
    BY DEF Snapshots, r
  <2>3. journal' = {row \in Journaled(t) : row.revision > p.revision}
    BY <1>10 DEF StoreSnapshot
  <2>4. RowsReplayed'
    BY <2>1, <2>3 DEF RowsReplayed
  <2>5. \A row \in journal' : \E q \in U : row = [revision |-> q.revision, ops |-> q.accepted]
    BY <1>1, <1>4, <2>2, <2>3
  <2>6. \A q \in r.prepared : q.revision > p.revision /\ q.action # "receipt" =>
          \E row \in journal' : row.revision = q.revision /\ row.ops = q.accepted
    <3>1. SUFFICES ASSUME NEW q \in r.prepared, q.revision > p.revision, q.action # "receipt"
                   PROVE  q \in U
      BY <1>5, <2>3
    <3>2. q.action # "snapshot"
      BY <1>1, <1>10, <2>2, <3>1 DEF Snapshots, r
    <3> QED BY <1>7, <3>1, <3>2
  <2>7. Durable' \subseteq r.ops
    BY <1>3, <1>8, <2>1, <2>2, <2>5
  <2>8. r.ops \subseteq Durable'
    <3>1. p.version \subseteq Durable'
      BY <1>8, <2>1
    <3>2. ASSUME NEW q \in r.prepared PROVE q.accepted \subseteq Durable'
      <4>1. CASE q.revision <= p.revision
        BY <1>3, <2>2, <3>1, <4>1
      <4>2. CASE q.action = "receipt"
        BY <1>3, <4>2
      <4>3. CASE q.revision > p.revision /\ q.action # "receipt"
        <5>1. PICK row \in journal' : row.revision = q.revision /\ row.ops = q.accepted
          BY <2>6, <4>3
        <5> QED BY <1>8, <2>1, <4>3, <5>1
      <4> QED BY <1>1, <2>2, <4>1, <4>2, <4>3
    <3>3. Durable \subseteq Durable'
      BY <1>3, <2>2, <3>1
    <3> QED BY <1>3, <3>2, <3>3
  <2>9. \A s \in Revisions' : s <= next
    BY <1>1, <1>8, <2>1, <2>2, <2>5
  <2>10. next \in Revisions'
    <3>1. next > r.revision
      BY <1>1, <2>2
    <3>2. PICK e \in r.prepared : e.action # "receipt" /\ e.revision = next
      BY <1>3, <3>1
    <3>3. CASE p.revision = next
      BY <1>8, <2>1, <3>3
    <3>4. CASE p.revision # next
      <4>1. e.revision > p.revision
        BY <1>1, <2>2, <3>2, <3>4
      <4>2. PICK row \in journal' : row.revision = e.revision
        BY <2>6, <3>2, <4>1
      <4> QED BY <1>8, <2>1, <3>2, <4>1, <4>2
    <3> QED BY <3>3, <3>4
  <2> QED BY <2>4, <2>7, <2>8, <2>9, <2>10 DEF Newest
<1>11. CASE Snapshots(t) = {} /\ journal' = Journaled(t) /\ UNCHANGED doc
  <2>1. \A q \in r.prepared : q.action # "receipt" => q \in U
    BY <1>7, <1>11 DEF Snapshots, r
  <2>2. \A row \in journal' : row.revision > doc.snapshotRevision
    BY <1>1, <1>4, <1>11
  <2>3. RowsReplayed'
    BY <1>11, <2>2 DEF RowsReplayed
  <2>4. /\ Durable' = doc.snapshot \cup UNION {row.ops : row \in journal'}
        /\ Revisions' = {doc.snapshotRevision} \cup {row.revision : row \in journal'}
    <3>1. {row \in journal' : row.revision > doc'.snapshotRevision} = journal'
      BY <1>11, <2>2
    <3> QED BY <1>8, <1>11, <3>1
  <2>5. Durable' \subseteq r.ops
    BY <1>2, <1>3, <1>4, <1>11, <2>4
  <2>6. r.ops \subseteq Durable'
    <3>1. Durable \subseteq Durable'
      BY <1>2, <1>6, <1>11, <2>4
    <3>2. ASSUME NEW q \in r.prepared PROVE q.accepted \subseteq Durable'
      BY <1>3, <1>5, <1>11, <2>1, <2>4
    <3> QED BY <1>3, <3>1, <3>2
  <2>7. \A s \in Revisions' : s <= next
    BY <1>1, <1>4, <1>11, <2>4
  <2>8. next \in Revisions'
    <3>1. CASE next > r.revision
      BY <1>3, <1>5, <1>11, <2>1, <2>4, <3>1
    <3>2. CASE next = r.revision
      BY <1>2, <1>3, <1>6, <1>11, <2>4, <3>2 DEF Newest
    <3> QED BY <1>1, <3>1, <3>2
  <2> QED BY <2>3, <2>5, <2>6, <2>7, <2>8 DEF Newest, r, next
<1>12. \/ StoreSnapshot(t, r.ops, next)
       \/ \E p \in Snapshots(t) : /\ \A q \in Snapshots(t) : q.revision <= p.revision
                                  /\ StoreSnapshot(t, p.version, p.revision)
       \/ Snapshots(t) = {} /\ journal' = Journaled(t) /\ UNCHANGED doc
  BY DEF CommitRows, r, next
<1> QED BY <1>9, <1>10, <1>11, <1>12 DEF r, next

\* The batch's transaction stores the live replica and its receipts.
LEMMA DurableCommit ==
  ASSUME TypeOK, DurableInv, NEW t \in Task, CommitBatch(t)
  PROVE  DurableInv'
<1> DEFINE r == room[t]
<1>1. /\ r \in RoomState /\ RoomInv(r, Durable, Revisions)
      /\ PublishedIsDurable /\ ReceiptsBacked
  BY DEF TypeOK, BoundedRoom, DurableInv
<1>2. r.status = "live" /\ r.dead = 0 /\ r.pc = "frames" /\ Staged(r, Durable, Revisions)
  BY <1>1 DEF CommitBatch, BatchDone, RoomInv
<1>3. PICK compact \in BOOLEAN :
       /\ CommitRows(t, compact)
       /\ commits' = {k \in commits \cup
                        {[id |-> p.id, payload |-> p.payload, revision |-> p.revision] :
                           p \in r.prepared} :
                        compact => k.revision >= r.nextRevision - ReceiptWindow}
       /\ room' = [room EXCEPT ![t] =
            [@ EXCEPT !.pc = "publish", !.revision = r.nextRevision,
                      !.since = IF compact THEN 0 ELSE r.nextSince]]
  BY DEF CommitBatch
<1>4. Durable' = r.ops /\ Newest(r.nextRevision, Revisions') /\ RowsReplayed'
  BY <1>2, <1>3, CommitStored
<1>5. Durable \subseteq r.ops /\ \A p \in r.prepared : p.version \subseteq r.ops /\ p.payload[2] \subseteq r.ops
  BY <1>2 DEF Staged
<1>6. told' = told /\ receipts' = receipts
  BY DEF CommitBatch, observed
<1>7. PublishedIsDurable'
  BY <1>1, <1>4, <1>5, <1>6 DEF PublishedIsDurable
<1>8. ReceiptsBacked'
  BY <1>1, <1>3, <1>4, <1>5 DEF ReceiptsBacked
<1> DEFINE x == [r EXCEPT !.pc = "publish", !.revision = r.nextRevision,
                          !.since = IF compact THEN 0 ELSE r.nextSince]
<1>9. /\ x.status = r.status /\ x.dead = r.dead /\ x.pc = "publish" /\ x.ops = r.ops
      /\ x.revision = r.nextRevision /\ x.prepared = r.prepared /\ x.acks = r.acks
  BY <1>1 DEF RoomState
<1>10. room' = [room EXCEPT ![t] = x] /\ ~Quiet(t)
  BY <1>2, <1>3 DEF Quiet
<1> HIDE DEF Durable, Revisions, r, x
<1>11. Committed(x, Durable', Revisions')
  <2>1. \A p \in r.prepared : p.accepted \subseteq r.ops
    BY <1>2 DEF Staged
  <2>2. \A a \in r.acks : a.version \subseteq r.ops /\ a.payload[2] \subseteq r.ops
    BY <1>2 DEF Staged
  <2> QED BY <1>4, <1>5, <1>9, <2>1, <2>2 DEF Committed
<1>12. RoomInv(x, Durable', Revisions')
  BY <1>2, <1>9, <1>11 DEF RoomInv
<1> QED BY <1>4, <1>7, <1>8, <1>10, <1>12, WriterStep

\* Receipts and relays speak of what is stored.
LEMMA DurablePublish ==
  ASSUME TypeOK, DurableInv, NEW t \in Task, Publish(t)
  PROVE  DurableInv'
<1> DEFINE r == room[t]
           x == BatchOver(r)
<1>1. r \in RoomState /\ RoomInv(r, Durable, Revisions) /\ PublishedIsDurable
  BY DEF TypeOK, BoundedRoom, DurableInv
<1>2. r.status = "live" /\ r.dead = 0 /\ r.pc \in {"frames", "publish"}
  BY <1>1 DEF Publish, Publishable, BatchDone, RoomInv
<1>3. Durable' = Durable /\ Revisions' = Revisions /\ rows' = rows
  BY SameRows DEF Publish, rows
<1>4. /\ r.ops = Durable /\ Newest(r.revision, Revisions)
      /\ \A p \in r.prepared : /\ p.accepted \subseteq Durable /\ p.version \subseteq Durable
                               /\ p.payload[2] \subseteq Durable
      /\ \A a \in r.acks : a.version \subseteq Durable /\ a.payload[2] \subseteq Durable
  <2>1. CASE r.pc = "publish"
    BY <1>1, <1>2, <2>1 DEF RoomInv, Committed
  <2>2. CASE r.pc = "frames"
    <3>1. r.prepared = {} /\ Staged(r, Durable, Revisions)
      BY <1>1, <1>2, <2>2 DEF Publish, Publishable, RoomInv
    <3> QED BY <3>1 DEF Staged
  <2> QED BY <1>2, <2>1, <2>2
<1>5. \A p \in Answers(t) : p.version \subseteq Durable /\ p.payload[2] \subseteq Durable
  BY <1>4 DEF Answers
<1>6. \A p \in r.prepared : Relay(p) \subseteq Durable
  BY <1>4 DEF Relay
<1>7. told' \subseteq Durable
  BY <1>1, <1>5, <1>6, PublishFacts DEF PublishedIsDurable
<1>8. \A k \in receipts' : k.payload[2] \subseteq Durable
  BY <1>1, <1>5, PublishFacts DEF PublishedIsDurable
<1>9. (PublishedIsDurable /\ RowsReplayed /\ ReceiptsBacked)'
  BY <1>3, <1>7, <1>8 DEF DurableInv, PublishedIsDurable, RowsReplayed, ReceiptsBacked, rows
<1>10. /\ x.status = r.status /\ x.dead = r.dead /\ x.pc = "idle" /\ x.ops = r.ops
       /\ x.revision = r.revision /\ x.prepared = {} /\ x.acks = {}
  BY <1>1 DEF BatchOver, RoomState
<1>11. room' = [room EXCEPT ![t] = x] /\ ~Quiet(t)
  BY <1>2 DEF Publish, Quiet
<1> HIDE DEF Durable, Revisions, r, x
<1>12. RoomInv(x, Durable', Revisions')
  BY <1>2, <1>3, <1>4, <1>10 DEF RoomInv, InSync
<1> QED BY <1>9, <1>11, <1>12, WriterStep

\* The initial sync of a client sends what is stored.
LEMMA DurableJoin ==
  ASSUME TypeOK, DurableInv, NEW t \in Task, NEW c \in Conn, Join(t, c)
  PROVE  DurableInv'
<1>1. room[t].status = "live" /\ room[t].dead = 0 /\ room[t].pc = "idle"
  BY DEF Join, Running, JoinRefusal
<1>2. room[t].ops = Durable
  BY <1>1 DEF DurableInv, RoomInv, InSync
<1>3. Durable' = Durable /\ Revisions' = Revisions
  BY SameRows DEF Join, rows
<1>4. told' = told \cup room[t].ops /\ UNCHANGED <<rows, room, receipts>>
  BY DEF Join
<1> HIDE DEF Durable, Revisions
<1>5. PublishedIsDurable'
  BY <1>2, <1>3, <1>4 DEF DurableInv, PublishedIsDurable
<1> QED BY <1>3, <1>4, <1>5 DEF DurableInv, SingleWriter, Quiet, RowsReplayed, ReceiptsBacked, rows

\* A compaction outside a batch changes how the document is stored, not what.
LEMMA CompactStored ==
  ASSUME TypeOK, DurableInv, NEW t \in Task, CanCompact(t), Compacted(t),
         room[t].pc \in {"idle", "collect", "deferred"}
  PROVE  Durable' = Durable /\ Revisions' = {room[t].revision} /\ RowsReplayed' /\ commits' \subseteq commits
<1>1. room[t] \in RoomState /\ RowsReplayed /\ RowsOK
  BY DEF TypeOK, BoundedRoom, DurableInv
<1>2. InSync(room[t], Durable, Revisions)
  BY DEF DurableInv, RoomInv, CanCompact
<1>3. room[t].revision \in Nat /\ \A row \in journal : row.revision \in Nat
  BY <1>1 DEF RowsOK, RoomState
<1>4. \A row \in journal : row.revision <= room[t].revision
  BY <1>1, <1>2 DEF InSync, Newest, Revisions, Replayed, RowsReplayed
<1>5. journal' = {}
  BY <1>3, <1>4 DEF Compacted
<1>6. doc'.snapshot = room[t].ops /\ doc'.snapshotRevision = room[t].revision
  BY <1>1 DEF Compacted, RowsOK
<1>7. Durable' = room[t].ops /\ Revisions' = {room[t].revision}
  BY <1>5, <1>6 DEF Durable, Revisions, Replayed
<1>8. commits' \subseteq commits
  BY DEF Compacted
<1> QED BY <1>2, <1>5, <1>7, <1>8 DEF InSync, RowsReplayed

\* Leaving and exiting, with and without the final compaction.
LEMMA DurableCompact ==
  ASSUME TypeOK, DurableInv, NEW t \in Task, NEW x, room' = [room EXCEPT ![t] = x],
         room[t].pc \in {"idle", "collect", "deferred"},
         (CanCompact(t) /\ Compacted(t)) \/ UNCHANGED rows,
         UNCHANGED <<receipts, told>>,
         RoomInv(x, Durable, Revisions),
         x.status = "live" /\ x.dead = 0 =>
           /\ x.pc \in {"idle", "collect", "deferred"}
           /\ x.revision = room[t].revision,
         Quiet(t) => QuietState(x)
  PROVE  DurableInv'
<1>1. CASE UNCHANGED rows
  BY <1>1, TaskOnly
<1>2. CASE CanCompact(t) /\ Compacted(t)
  <2>1. Durable' = Durable /\ Revisions' = {room[t].revision} /\ RowsReplayed' /\ commits' \subseteq commits
    BY <1>2, CompactStored
  <2>2. room[t].revision \in Nat
    BY DEF TypeOK, BoundedRoom, RoomState
  <2>3. ~Quiet(t)
    BY <1>2 DEF CanCompact, Quiet
  <2> HIDE DEF Durable, Revisions
  <2>4. (PublishedIsDurable /\ ReceiptsBacked)'
    BY <2>1 DEF DurableInv, PublishedIsDurable, ReceiptsBacked
  <2>5. RoomInv(x, Durable', Revisions')
    BY <2>1, <2>2 DEF RoomInv, InSync, Newest
  <2> QED BY <2>1, <2>3, <2>4, <2>5, WriterStep
<1> QED BY <1>1, <1>2

\* A departure, which compacts when it is the last one.
LEMMA DurableLeave ==
  ASSUME TypeOK, DurableInv, NEW t \in Task, NEW c \in Conn, Leave(t, c)
  PROVE  DurableInv'
<1> DEFINE r == room[t]
           y == Departed(r, c)
           z == [y EXCEPT !.since = 0]
<1>1. r \in RoomState /\ RoomInv(r, Durable, Revisions)
  BY DEF TypeOK, BoundedRoom, DurableInv
<1>2. /\ r.status = "live" /\ r.pc \in {"idle", "collect"}
      /\ UNCHANGED <<receipts, told>>
  BY DEF Leave, Running
<1>3. /\ y.status = r.status /\ y.dead = r.dead /\ y.pc \in {"idle", "deferred"}
      /\ y.ops = r.ops /\ y.revision = r.revision /\ y.prepared = r.prepared /\ y.acks = r.acks
      /\ DOMAIN y = DOMAIN r
  BY <1>1, <1>2 DEF Departed, RoomState
<1>4. /\ z.status = r.status /\ z.dead = r.dead /\ z.pc \in {"idle", "deferred"}
      /\ z.ops = r.ops /\ z.revision = r.revision /\ z.prepared = r.prepared /\ z.acks = r.acks
  <2> HIDE DEF y
  <2> QED BY <1>1, <1>3 DEF RoomState
<1>5. \/ CanCompact(t) /\ Compacted(t) /\ room' = [room EXCEPT ![t] = z]
      \/ UNCHANGED rows /\ room' = [room EXCEPT ![t] = y]
  BY DEF Leave
<1> HIDE DEF Durable, Revisions, y, z
<1>6. \A x \in {y, z} : RoomInv(x, Durable, Revisions) /\ (Quiet(t) => QuietState(x))
  BY <1>1, <1>2, <1>3, <1>4 DEF RoomInv, InSync, Quiet, QuietState
<1> HIDE DEF r
<1>7. CASE CanCompact(t) /\ Compacted(t) /\ room' = [room EXCEPT ![t] = z]
  BY <1>2, <1>4, <1>6, <1>7, DurableCompact DEF r
<1>8. CASE UNCHANGED rows /\ room' = [room EXCEPT ![t] = y]
  BY <1>2, <1>3, <1>6, <1>8, DurableCompact DEF r
<1> QED BY <1>5, <1>7, <1>8

\* The end of an idle task and an orderly shutdown.
LEMMA DurableExit ==
  ASSUME TypeOK, DurableInv, NEW t \in Task, IdleExit(t) \/ Shutdown(t)
  PROVE  DurableInv'
<1>1. Exit(t) /\ room[t].pc = "idle"
  BY DEF IdleExit, Shutdown
<1>2. /\ room' = [room EXCEPT ![t] = Ended]
      /\ (CanCompact(t) /\ Compacted(t)) \/ UNCHANGED rows
      /\ UNCHANGED <<receipts, told>>
  BY <1>1 DEF Exit, observed
<1>3. QuietState(Ended) /\ Ended.status # "live" /\ RoomInv(Ended, Durable, Revisions)
  BY EndedInv DEF QuietState, Ended, Unborn
<1> QED BY <1>1, <1>2, <1>3, DurableCompact

\* A crash loses what was staged and nothing that was stored.
LEMMA DurableCrash ==
  ASSUME TypeOK, DurableInv, Crash PROVE DurableInv'
<1>1. Durable' = Durable /\ Revisions' = Revisions
  BY SameRows DEF Crash, rows
<1>2. /\ UNCHANGED <<rows, receipts, told>>
      /\ \A t \in Task : room'[t] = Ended \/ (room'[t] = room[t] /\ room[t].status = "unborn")
  BY DEF Crash
<1>3. \A t \in Task : Quiet(t)'
  BY <1>2 DEF Quiet, Unborn, Ended
<1>4. SingleWriter'
  BY <1>3 DEF SingleWriter
<1>5. \A t \in Task : RoomInv(room[t], Durable, Revisions)'
  <2>1. \A t \in Task : RoomInv(room[t], Durable, Revisions)
    BY DEF DurableInv
  <2> HIDE DEF Durable, Revisions
  <2> QED BY <1>1, <1>2, <2>1, EndedInv
<1>6. (PublishedIsDurable /\ RowsReplayed /\ ReceiptsBacked)'
  <2> HIDE DEF Durable, Revisions
  <2> QED BY <1>1, <1>2 DEF DurableInv, PublishedIsDurable, RowsReplayed, ReceiptsBacked, rows
<1> QED BY <1>4, <1>5, <1>6 DEF DurableInv

\* Admission and the HTTP handlers touch neither rooms nor stored operations.
LEMMA DurableHandlers ==
  ASSUME TypeOK, DurableInv,
         \/ \E c \in Conn : Admit(c) \/ JoinRefused(c) \/ LeaveUnmapped(c)
         \/ \E a \in Actor, r \in Role : ChangeAcl(a, r) \/ LinkRedeem(a, r)
         \/ \E a \in Revocable : Revoke(a)
         \/ Delete \/ Restore
  PROVE  DurableInv'
<1>1. UNCHANGED <<room, journal, commits, receipts, told>>
  BY DEF Admit, JoinRefused, LeaveUnmapped, ChangeAcl, LinkRedeem, Revoke, Delete, Restore,
         rows, observed
<1>2. doc'.snapshot = doc.snapshot /\ doc'.snapshotRevision = doc.snapshotRevision
  BY DEF Admit, JoinRefused, LeaveUnmapped, ChangeAcl, LinkRedeem, Revoke, Delete, Restore,
         rows, TypeOK, RowsOK
<1> QED BY <1>1, <1>2, HandlersOnly

-----------------------------------------------------------------------------
\* Every step keeps the invariant, as long as rooms do not overlap.
LEMMA DurableStep ==
  ASSUME ~Overlap, TypeOK, TypeOK', DurableInv, [Next]_vars PROVE DurableInv'
<1>1. CASE UNCHANGED vars
  <2>1. UNCHANGED <<room, journal, commits, receipts, told, doc>>
    BY <1>1 DEF vars, rows, observed
  <2> QED BY <2>1, HandlersOnly
<1>2. ASSUME NEW t \in Task, TaskStep(t) PROVE DurableInv'
  BY <1>2, DurableStart, DurableCollect, DurableRefuse, DurableStage, DurableCommit, DurablePublish
     DEF TaskStep
<1>3. ASSUME NEW t \in Task, Spawn(t) \/ LeaveTimeout(t) \/ IdleExit(t) \/ Shutdown(t)
      PROVE  DurableInv'
  BY <1>3, DurableStart, DurableExit
<1>4. ASSUME NEW t \in Task, NEW c \in Conn, Join(t, c) \/ Leave(t, c) PROVE DurableInv'
  BY <1>4, DurableJoin, DurableLeave
<1>5. CASE \/ \E ctl \in outgoing : Dispatch(ctl)
           \/ \E c \in Conn, m \in Mutation : Send(c, m)
  BY <1>5, DurableLanes
<1>6. CASE \/ \E c \in Conn : Admit(c) \/ JoinRefused(c) \/ LeaveUnmapped(c)
           \/ \E a \in Actor, r \in Role : ChangeAcl(a, r) \/ LinkRedeem(a, r)
           \/ \E a \in Revocable : Revoke(a)
           \/ Delete \/ Restore
  BY <1>6, DurableHandlers
<1>7. CASE Crash
  BY <1>7, DurableCrash
<1> QED BY <1>1, <1>2, <1>3, <1>4, <1>5, <1>6, <1>7 DEF Next

\* The strengthened invariant: between batches the one writing room is what a
\* restart would rebuild, inside a batch it is ahead by exactly what is staged.
THEOREM DurableInvariant ==
  ASSUME ~Overlap PROVE Spec => []DurableInv
<1>1. Init => DurableInv
  <2> SUFFICES ASSUME Init PROVE DurableInv
    OBVIOUS
  <2>1. PublishedIsDurable /\ RowsReplayed /\ ReceiptsBacked
    BY DEF Init, PublishedIsDurable, RowsReplayed, ReceiptsBacked
  <2>2. SingleWriter
    BY DEF Init, SingleWriter, Quiet, Unborn
  <2>3. \A t \in Task : RoomInv(room[t], Durable, Revisions)
    BY EndedInv DEF Init
  <2> QED BY <2>1, <2>2, <2>3 DEF DurableInv
<1>2. TypeOK /\ TypeOK' /\ DurableInv /\ [Next]_vars => DurableInv'
  BY DurableStep
<1> QED BY <1>1, <1>2, TypeCorrect, PTL DEF Spec

\* What a client was told the server holds, and what it has a receipt for,
\* survives every crash, compaction, eviction, deletion and rehydration, for
\* any number of clients, rooms and mutations - provided a room starts only
\* when its predecessor can no longer write.
THEOREM PublishedStaysDurable ==
  ASSUME ~Overlap PROVE Spec => []PublishedIsDurable
<1>1. DurableInv => PublishedIsDurable
  BY DEF DurableInv
<1> QED BY <1>1, DurableInvariant, PTL

\* A replica that can be joined or read holds exactly what a restart would
\* rebuild, at the revision a restart would assume, under the same proviso.
THEOREM ReplicaStaysDurable ==
  ASSUME ~Overlap PROVE Spec => []ReplicaIsDurable
<1>1. DurableInv => ReplicaIsDurable
  BY DEF DurableInv, ReplicaIsDurable, RoomInv, InSync, Newest
<1> QED BY <1>1, DurableInvariant, PTL

-----------------------------------------------------------------------------
(* The room implements DurableDocument. *)

\* What Room maps to the abstract variable published.
LOCAL Published == told \cup UNION {r.payload[2] : r \in receipts}

\* Steps that store nothing and publish nothing.
LEMMA StoresNothing ==
  ASSUME TypeOK, NEW t \in Task,
         \/ Spawn(t) \/ Hydrate(t) \/ HydrateFails(t) \/ AbortEnds(t) \/ LeaveTimeout(t)
         \/ TakeControl(t) \/ BeginBatch(t) \/ CollectFrame(t) \/ EndCollect(t) \/ StartFrames(t)
         \/ IgnoreFrame(t) \/ RefuseFrame(t) \/ LimitFrame(t) \/ AckRetry(t) \/ LookupFails(t)
         \/ StageReceipt(t) \/ StageUpdate(t) \/ StageSnapshot(t) \/ SnapshotFails(t)
         \/ CommitFails(t)
  PROVE  UNCHANGED <<doc, journal, told, receipts>>
  BY DEF rows, observed, Spawn, Hydrate, HydrateFails, AbortEnds, LeaveTimeout, TakeControl,
         BeginBatch, CollectFrame, EndCollect, StartFrames, IgnoreFrame, RefuseFrame, LimitFrame,
         AckRetry, LookupFails, StageReceipt, StageUpdate, StageSnapshot, SnapshotFails, CommitFails

\* Handlers and lanes change no stored operation and tell nobody anything.
LEMMA HandlersStoreNothing ==
  ASSUME TypeOK,
         \/ \E c \in Conn : Admit(c) \/ JoinRefused(c) \/ LeaveUnmapped(c)
         \/ \E c \in Conn, m \in Mutation : Send(c, m)
         \/ \E a \in Actor, r \in Role : ChangeAcl(a, r) \/ LinkRedeem(a, r)
         \/ \E a \in Revocable : Revoke(a)
         \/ \E ctl \in outgoing : Dispatch(ctl)
         \/ Delete \/ Restore \/ Crash
  PROVE  Durable' = Durable /\ UNCHANGED <<told, receipts>>
<1>1. UNCHANGED <<journal, told, receipts>>
  BY DEF rows, observed, Admit, JoinRefused, LeaveUnmapped, Send, ChangeAcl, LinkRedeem, Revoke,
         Dispatch, Delete, Restore, Crash
<1>2. doc'.snapshot = doc.snapshot /\ doc'.snapshotRevision = doc.snapshotRevision
  BY DEF rows, TypeOK, RowsOK, Admit, JoinRefused, LeaveUnmapped, Send, ChangeAcl, LinkRedeem,
         Revoke, Dispatch, Delete, Restore, Crash
<1> QED BY <1>1, <1>2, SameRows

\* Every step only adds to what is stored, with the transaction of a batch, or
\* only publishes.
LEMMA StoreOrPublish ==
  ASSUME TypeOK, DurableInv, [Next]_vars
  PROVE  \/ /\ Durable \subseteq Durable' /\ UNCHANGED <<told, receipts>>
            /\ Durable' = Durable \/ \E t \in Task : CommitBatch(t)
         \/ Durable' = Durable /\ told \subseteq told' /\ receipts \subseteq receipts'
<1>1. CASE UNCHANGED <<doc, journal, told, receipts>>
  BY <1>1, SameRows
<1>2. ASSUME NEW t \in Task, CommitBatch(t)
      PROVE  Durable \subseteq Durable' /\ UNCHANGED <<told, receipts>>
  <2>1. Staged(room[t], Durable, Revisions)
    BY <1>2 DEF DurableInv, RoomInv, CommitBatch, BatchDone
  <2>2. \E compact \in BOOLEAN : CommitRows(t, compact)
    BY <1>2 DEF CommitBatch
  <2>3. Durable' = room[t].ops
    BY <2>1, <2>2, CommitStored
  <2>4. Durable \subseteq room[t].ops
    BY <2>1 DEF Staged
  <2> QED BY <1>2, <2>3, <2>4 DEF CommitBatch, observed
<1>3. ASSUME NEW t \in Task, Publish(t)
      PROVE  Durable' = Durable /\ told \subseteq told' /\ receipts \subseteq receipts'
  <2>1. Durable' = Durable
    BY <1>3, SameRows DEF Publish, rows
  <2> QED BY <1>3, <2>1 DEF Publish
<1>4. ASSUME NEW t \in Task, NEW c \in Conn, Join(t, c)
      PROVE  Durable' = Durable /\ told \subseteq told' /\ receipts \subseteq receipts'
  <2>1. Durable' = Durable
    BY <1>4, SameRows DEF Join, rows
  <2> QED BY <1>4, <2>1 DEF Join
<1>5. ASSUME NEW t \in Task, room[t].pc \in {"idle", "collect"},
             (CanCompact(t) /\ Compacted(t)) \/ UNCHANGED rows, UNCHANGED <<told, receipts>>
      PROVE  Durable' = Durable /\ UNCHANGED <<told, receipts>>
  <2>1. CASE UNCHANGED rows
    BY <1>5, <2>1, SameRows DEF rows
  <2>2. CASE CanCompact(t) /\ Compacted(t)
    BY <1>5, <2>2, CompactStored
  <2> QED BY <1>5, <2>1, <2>2
<1>6. ASSUME NEW t \in Task, NEW c \in Conn, Leave(t, c)
      PROVE  Durable' = Durable /\ UNCHANGED <<told, receipts>>
  BY <1>5, <1>6 DEF Leave
<1>7. ASSUME NEW t \in Task, IdleExit(t) \/ Shutdown(t)
      PROVE  Durable' = Durable /\ UNCHANGED <<told, receipts>>
  BY <1>5, <1>7 DEF IdleExit, Shutdown, Exit, observed
<1>8. UNCHANGED vars => UNCHANGED <<doc, journal, told, receipts>>
  BY DEF vars, rows, observed
<1> HIDE DEF Durable
<1>9. ASSUME NEW t \in Task, TaskStep(t) \/ Spawn(t) \/ LeaveTimeout(t) \/ IdleExit(t) \/ Shutdown(t)
      PROVE  \/ UNCHANGED <<doc, journal, told, receipts>>
             \/ Durable \subseteq Durable' /\ UNCHANGED <<told, receipts>> /\ CommitBatch(t)
             \/ Durable' = Durable /\ UNCHANGED <<told, receipts>>
             \/ Durable' = Durable /\ told \subseteq told' /\ receipts \subseteq receipts'
  BY <1>2, <1>3, <1>7, <1>9, StoresNothing DEF TaskStep
<1> QED BY <1>1, <1>4, <1>6, <1>8, <1>9, HandlersStoreNothing DEF Next

\* Every step of the room, its crashes, compactions, evictions and hand-overs
\* included, is a step of a document that only grows and only shows what it
\* has stored - provided a room starts only when its predecessor can no
\* longer write.
THEOREM RoomKeepsPromise ==
  ASSUME ~Overlap PROVE Spec => KeepsPromise
<1>1. Init => Promise!Init
  BY DEF Init, Promise!Init, Durable, Replayed
<1>2. ASSUME TypeOK, DurableInv, DurableInv', [Next]_vars
      PROVE  [Promise!Next]_<<Durable, told \cup UNION {r.payload[2] : r \in receipts}>>
  <2>1. Published' \subseteq Durable'
    BY <1>2 DEF DurableInv, PublishedIsDurable, Published
  <2>2. CASE Durable \subseteq Durable' /\ UNCHANGED <<told, receipts>>
    BY <2>2 DEF Promise!Next, Promise!Store
  <2>3. CASE Durable' = Durable /\ told \subseteq told' /\ receipts \subseteq receipts'
    <3>1. Published \subseteq Published' /\ Published' \subseteq Durable
      BY <2>1, <2>3 DEF Published
    <3> QED BY <2>3, <3>1 DEF Promise!Next, Promise!Publish, Published
  <2> QED BY <1>2, <2>2, <2>3, StoreOrPublish
<1> QED BY <1>1, <1>2, TypeCorrect, DurableInvariant, PTL DEF Spec, KeepsPromise, Promise!Spec

-----------------------------------------------------------------------------
(* Attribution. *)

\* A batch attributes all it stores, and to its senders only.
LEMMA CommitAttributes ==
  ASSUME TypeOK, DurableInv, AuthorityInv, AttributionExact, NEW t \in Task, CommitBatch(t)
  PROVE  AttributionExact'
<1> DEFINE r == room[t]
<1>1. Staged(r, Durable, Revisions)
  BY DEF DurableInv, RoomInv, CommitBatch, BatchDone
<1>2. \E compact \in BOOLEAN : CommitRows(t, compact)
  BY DEF CommitBatch
<1>3. Durable' = Durable \cup UNION {p.accepted : p \in r.prepared}
  BY <1>1, <1>2, CommitStored DEF Staged
<1>4. authors' = authors \cup UNION {p.accepted \X {ActorOf[p.conn]} : p \in r.prepared}
  BY DEF CommitBatch
<1>5. \A p \in r.prepared : \A op \in p.accepted : op[1] = ActorOf[p.conn]
  BY DEF AuthorityInv, Trusted
<1> HIDE DEF Durable, Revisions, r
<1>6. ASSUME NEW op \in Durable' PROVE <<op, op[1]>> \in authors'
  <2>1. CASE op \in Durable
    BY <1>4, <2>1 DEF AttributionExact
  <2>2. ASSUME NEW p \in r.prepared, op \in p.accepted PROVE <<op, op[1]>> \in authors'
    <3>1. <<op, op[1]>> \in p.accepted \X {ActorOf[p.conn]}
      BY <1>5, <2>2
    <3> QED BY <1>4, <3>1
  <2> QED BY <1>3, <2>1, <2>2
<1>7. ASSUME NEW e \in authors' PROVE e[1][1] = e[2]
  <2>1. CASE e \in authors
    BY <2>1 DEF AttributionExact
  <2>2. ASSUME NEW p \in r.prepared, e \in p.accepted \X {ActorOf[p.conn]} PROVE e[1][1] = e[2]
    <3>1. e[1] \in p.accepted /\ e[2] = ActorOf[p.conn]
      BY <2>2
    <3> QED BY <1>5, <3>1
  <2> QED BY <1>4, <2>1, <2>2
<1> QED BY <1>6, <1>7 DEF AttributionExact

\* Every stored operation is attributed, and only to the actor that owns its
\* site: no update, recovery snapshot, retry or compaction can store one
\* without its author, or under another's name - provided a room starts only
\* when its predecessor can no longer write.
THEOREM AttributionStaysExact ==
  ASSUME ~Overlap PROVE Spec => []AttributionExact
<1>1. Init => AttributionExact
  BY DEF Init, AttributionExact, Durable, Replayed
<1>2. ASSUME TypeOK, DurableInv, AuthorityInv, AttributionExact, [Next]_vars
      PROVE  AttributionExact'
  <2>1. CASE \E t \in Task : CommitBatch(t)
    BY <1>2, <2>1, CommitAttributes
  <2>2. CASE ~\E t \in Task : CommitBatch(t)
    <3>1. authors' = authors
      BY <1>2, <2>2, OnlyCommitsAttribute
    <3>2. Durable' = Durable
      BY <1>2, <2>2, StoreOrPublish
    <3> HIDE DEF Durable
    <3> QED BY <1>2, <3>1, <3>2 DEF AttributionExact
  <2> QED BY <2>1, <2>2
<1> QED BY <1>1, <1>2, TypeCorrect, DurableInvariant, AuthorityInvariant, PTL DEF Spec

-----------------------------------------------------------------------------
(* Receipts. *)

\* A batch is in the hands of its task.
LOCAL InBatch(r) == r.pc \in {"frames", "publish"}

\* A step that leaves receipts and their rows alone, and changes one room.
LEMMA ReceiptsTask ==
  ASSUME TypeOK, ReceiptsInv, NEW t \in Task, NEW x, room' = [room EXCEPT ![t] = x],
         UNCHANGED <<receipts, commits>>, doc'.snapshotRevision = doc.snapshotRevision,
         \/ ~InBatch(x)
         \/ x.pc = room[t].pc /\ x.prepared = room[t].prepared /\ x.acks = room[t].acks
         \/ Consistent(x)
  PROVE  ReceiptsInv'
<1>1. \A u \in Task : room'[u] = IF u = t THEN x ELSE room[u]
  BY DEF TypeOK
<1>2. \A r : (Kept(r) => Kept(r)') /\ (Consistent(r) => Consistent(r)')
  BY DEF Kept, Consistent
<1>3. InBatch(x) => Consistent(x)
  <2>1. ASSUME x.pc = room[t].pc, x.prepared = room[t].prepared, x.acks = room[t].acks,
               InBatch(x)
        PROVE  Consistent(x)
    BY <2>1 DEF ReceiptsInv, Consistent, Due, InBatch
  <2> QED BY <2>1
<1>4. (\A u \in Task : InBatch(room[u]) => Consistent(room[u]))'
  <2>1. InBatch(x) => Consistent(x)'
    BY <1>2, <1>3
  <2>2. \A u \in Task : InBatch(room[u]) => Consistent(room[u])
    BY DEF ReceiptsInv, InBatch
  <2> QED BY <1>1, <1>2, <2>1, <2>2
<1> QED BY <1>2, <1>4 DEF ReceiptsInv, InBatch

\* So is a step that changes no room at all.
LEMMA ReceiptsSame ==
  ASSUME ReceiptsInv, UNCHANGED <<room, receipts, commits>>,
         doc'.snapshotRevision = doc.snapshotRevision
  PROVE  ReceiptsInv'
  BY DEF ReceiptsInv, Kept, Consistent

\* While a task can write, no other has a batch.
LEMMA OnlyBatch ==
  ASSUME DurableInv, NEW t \in Task, ~Quiet(t), NEW u \in Task, u # t
  PROVE  ~InBatch(room[u])
<1>1. Quiet(u) /\ RoomInv(room[u], Durable, Revisions)
  BY DEF DurableInv, SingleWriter
<1> QED BY <1>1 DEF Quiet, RoomInv, InBatch

\* The only task that can write changes the rows and its own state.
LEMMA ReceiptsWriter ==
  ASSUME TypeOK, DurableInv, NEW t \in Task, NEW x, ~Quiet(t),
         room' = [room EXCEPT ![t] = x],
         (\A r, s \in receipts \cup commits : SameOrApart(r, s))',
         (\A r \in receipts : Kept(r))',
         InBatch(x) => Consistent(x)'
  PROVE  ReceiptsInv'
<1>1. \A u \in Task : room'[u] = IF u = t THEN x ELSE room[u]
  BY DEF TypeOK
<1>2. \A u \in Task : u # t => ~InBatch(room[u])
  BY OnlyBatch
<1>3. \A u \in Task : InBatch(room'[u]) => u = t /\ room'[u] = x
  BY <1>1, <1>2
<1>4. (\A u \in Task : InBatch(room[u]) => Consistent(room[u]))'
  BY <1>3
<1> QED BY <1>4 DEF ReceiptsInv, InBatch

\* A new receipt is at odds with no other of its id that was or will be sent.
LEMMA ReceiptsStage ==
  ASSUME TypeOK, DurableInv, ReceiptsInv, NEW t \in Task,
         AckRetry(t) \/ StageReceipt(t) \/ StageUpdate(t) \/ StageSnapshot(t)
  PROVE  ReceiptsInv'
<1> DEFINE r == room[t]
           x == room'[t]
           m == Current(t).mut
           c == Current(t).conn
<1>1. /\ Authorized(t) /\ UNCHANGED <<receipts, commits, doc>> /\ room' = [room EXCEPT ![t] = x]
      /\ x.pc = "frames"
  BY StageShape DEF rows, observed
<1>2. r.status = "live" /\ r.pc = "frames" /\ Staged(r, Durable, Revisions) /\ Consistent(r)
  <2>1. r.status = "live" /\ r.pc = "frames"
    BY <1>1 DEF Authorized, Preparing
  <2> QED BY <2>1 DEF DurableInv, RoomInv, ReceiptsInv
<1>3. /\ r.revision \in Nat /\ r.nextRevision \in Nat /\ r.revision <= r.nextRevision
      /\ doc.snapshotRevision \in Nat /\ doc.snapshotRevision <= r.revision
  BY <1>2, RowOrder
<1>4. \A k \in receipts \cup commits : k = [id |-> k.id, payload |-> k.payload, revision |-> k.revision]
                                       /\ k.revision \in Nat
  BY DEF TypeOK, RowsOK, ObservedOK
<1>5. Due(r) \subseteq commits \cup {Receipt(p) : p \in r.prepared}
  BY <1>2 DEF Consistent
<1>6. ReceiptWindow \in Nat
  BY ConstantsAssumption
<1> HIDE DEF x
<1>7. CASE /\ x.prepared = r.prepared
           /\ \E a : /\ x.acks = r.acks \cup {a} /\ a.id = m.id /\ a.payload = PayloadOf(m)
                     /\ \E prior \in Prior(t, m) : a.revision = prior.revision
  <2>1. PICK a : /\ x.acks = r.acks \cup {a} /\ a.id = m.id /\ a.payload = PayloadOf(m)
                 /\ \E prior \in Prior(t, m) : a.revision = prior.revision
    BY <1>7
  <2>2. PICK prior \in Prior(t, m) : a.revision = prior.revision
    BY <2>1
  <2>3. Receipt(a) \in commits \cup {Receipt(p) : p \in r.prepared}
    <3>1. CASE \E p \in r.prepared : p.id = m.id
      <4>1. PICK p \in r.prepared : p.id = m.id /\ p.payload = PayloadOf(m) /\ prior.revision = p.revision
        BY <3>1 DEF Prior
      <4>2. Receipt(a) = Receipt(p)
        BY <2>1, <2>2, <4>1 DEF Receipt
      <4> QED BY <4>2
    <3>2. CASE ~\E p \in r.prepared : p.id = m.id
      <4>1. PICK k \in commits : k.id = m.id /\ k.payload = PayloadOf(m) /\ prior.revision = k.revision
        BY <3>2 DEF Prior
      <4>2. Receipt(a) = k
        BY <1>4, <2>1, <2>2, <4>1 DEF Receipt
      <4> QED BY <4>2
    <3> QED BY <3>1, <3>2
  <2>4. Due(x) = Due(r) \cup {Receipt(a)}
    BY <1>7, <2>1 DEF Due
  <2>5. {Receipt(p) : p \in r.prepared} \subseteq Due(r)
    BY DEF Due
  <2>6. Due(x) \subseteq commits \cup {Receipt(p) : p \in x.prepared}
    BY <1>5, <1>7, <2>3, <2>4
  <2>7. receipts \cup commits \cup Due(x) \subseteq receipts \cup commits \cup Due(r)
    BY <2>3, <2>4, <2>5
  <2>8. Consistent(x)
    BY <1>1, <1>2, <2>6, <2>7 DEF Consistent
  <2> QED BY <1>1, <2>8, ReceiptsTask
<1>8. CASE /\ x.acks = r.acks /\ Fresh(t)
           /\ \E v \in {r.nextRevision, r.nextRevision + 1},
                 action \in {"receipt", "update", "snapshot"} :
                x.prepared = r.prepared \cup {Entry(t, c, m, v, action)}
  <2>1. PICK v \in {r.nextRevision, r.nextRevision + 1},
            action \in {"receipt", "update", "snapshot"} :
          x.prepared = r.prepared \cup {Entry(t, c, m, v, action)}
    BY <1>8
  <2> DEFINE n == Receipt(Entry(t, c, m, v, action))
  <2>2. n.id = m.id /\ n.revision = v
    BY DEF Receipt, Entry
  <2>3. v \in Nat /\ doc.snapshotRevision <= v
    BY <1>3
  <2>4. Due(x) = Due(r) \cup {n}
    BY <1>8, <2>1 DEF Due
  <2> HIDE DEF n
  <2>5. \A y \in commits \cup Due(r) : y.id # m.id
    <3>1. \A p \in r.prepared : Receipt(p).id # m.id
      BY <1>8 DEF Fresh, Unseen, Receipt
    <3>2. \A k \in commits : k.id # m.id
      BY <1>8 DEF Fresh, Unseen
    <3> QED BY <1>5, <3>1, <3>2
  <2>6. \A y \in receipts : y.id = m.id => v - y.revision > ReceiptWindow
    <3>1. \A y \in receipts : y \in commits \/ y.revision + ReceiptWindow < doc.snapshotRevision
      BY DEF ReceiptsInv, Kept
    <3> QED BY <1>3, <1>4, <1>6, <2>3, <2>5, <3>1
  <2>7. \A y \in receipts \cup commits \cup Due(r) : SameOrApart(n, y) /\ SameOrApart(y, n)
    BY <2>2, <2>5, <2>6 DEF SameOrApart
  <2>8. \A y, z \in receipts \cup commits \cup Due(x) : SameOrApart(y, z)
    <3>1. SameOrApart(n, n)
      BY DEF SameOrApart
    <3> QED BY <1>2, <2>4, <2>7, <3>1 DEF Consistent
  <2>9. Due(x) \subseteq commits \cup {Receipt(p) : p \in x.prepared}
    BY <1>5, <2>1, <2>4 DEF n
  <2>10. Consistent(x)
    BY <1>1, <2>8, <2>9 DEF Consistent
  <2> QED BY <1>1, <2>10, ReceiptsTask
<1> QED BY <1>7, <1>8, StageShape DEF x

\* The transaction keeps every receipt it is going to send, or is a compaction
\* that ends their window.
LEMMA ReceiptsCommit ==
  ASSUME TypeOK, DurableInv, ReceiptsInv, NEW t \in Task, CommitBatch(t)
  PROVE  ReceiptsInv'
<1> DEFINE r == room[t]
           W == {Receipt(p) : p \in r.prepared}
<1>1. PICK compact \in BOOLEAN :
       /\ CommitRows(t, compact)
       /\ commits' = {k \in commits \cup W : compact => k.revision >= r.nextRevision - ReceiptWindow}
       /\ room' = [room EXCEPT ![t] =
            [@ EXCEPT !.pc = "publish", !.revision = r.nextRevision,
                      !.since = IF compact THEN 0 ELSE r.nextSince]]
  BY DEF CommitBatch, Receipt
<1> DEFINE x == [r EXCEPT !.pc = "publish", !.revision = r.nextRevision,
                          !.since = IF compact THEN 0 ELSE r.nextSince]
<1>2. r.status = "live" /\ r.pc = "frames" /\ Consistent(r) /\ r \in RoomState
  BY DEF CommitBatch, BatchDone, ReceiptsInv, TypeOK, BoundedRoom
<1>3. Staged(r, Durable, Revisions) /\ ~Quiet(t)
  BY <1>2 DEF DurableInv, RoomInv, Quiet
<1>4. /\ r.revision \in Nat /\ r.nextRevision \in Nat /\ r.revision <= r.nextRevision
      /\ doc.snapshotRevision \in Nat /\ doc.snapshotRevision <= r.revision
      /\ \A p \in r.prepared : /\ p.revision \in Nat
                               /\ p.action # "receipt" => r.revision < p.revision
  BY <1>3, RowOrder
<1>5. ReceiptWindow \in Nat /\ \A k \in receipts \cup commits : k.revision \in Nat
  BY ConstantsAssumption DEF TypeOK, RowsOK, ObservedOK
<1>6. /\ doc'.snapshotRevision \in Nat /\ doc.snapshotRevision <= doc'.snapshotRevision
      /\ compact => doc'.snapshotRevision = r.nextRevision
  <2>1. CASE compact /\ StoreSnapshot(t, r.ops, r.nextRevision)
    <3>1. doc'.snapshotRevision = r.nextRevision
      BY <2>1 DEF StoreSnapshot, TypeOK, RowsOK
    <3> QED BY <1>4, <3>1
  <2>2. ASSUME ~compact, NEW p \in Snapshots(t), StoreSnapshot(t, p.version, p.revision)
        PROVE  doc'.snapshotRevision \in Nat /\ doc.snapshotRevision <= doc'.snapshotRevision
    <3>1. doc'.snapshotRevision = p.revision
      BY <2>2 DEF StoreSnapshot, TypeOK, RowsOK
    <3>2. p \in r.prepared /\ p.action = "snapshot"
      BY DEF Snapshots
    <3> QED BY <1>4, <3>1, <3>2
  <2>3. CASE ~compact /\ UNCHANGED doc
    BY <1>4, <2>3
  <2> QED BY <1>1, <2>1, <2>2, <2>3 DEF CommitRows
<1>7. /\ x.pc = "publish" /\ x.prepared = r.prepared /\ x.acks = r.acks
      /\ room' = [room EXCEPT ![t] = x]
  BY <1>1, <1>2 DEF RoomState
<1>8. receipts' = receipts
  BY DEF CommitBatch, observed
<1>9. \A k \in W : k.revision \in Nat
  BY <1>4 DEF Receipt
<1>10. \A k \in receipts \cup commits \cup W : k \in receipts \/ k \in commits \/ k \in W
  OBVIOUS
<1>11. W \subseteq Due(r) /\ Due(r) \subseteq commits \cup W
  BY <1>2 DEF Due, Consistent
<1> HIDE DEF x, W, r
<1>12. \A k \in commits \cup W : Kept(k)'
  <2>1. SUFFICES ASSUME NEW k \in commits \cup W, k \notin commits'
                 PROVE  k.revision + ReceiptWindow < doc'.snapshotRevision
    BY DEF Kept
  <2>2. compact /\ ~(k.revision >= r.nextRevision - ReceiptWindow)
    BY <1>1, <2>1
  <2> QED BY <1>4, <1>5, <1>6, <1>9, <2>2
<1>13. \A k \in receipts : Kept(k)'
  <2>1. \A k \in receipts : k \in commits \/ k.revision + ReceiptWindow < doc.snapshotRevision
    BY DEF ReceiptsInv, Kept
  <2>2. \A k \in receipts : k.revision + ReceiptWindow < doc.snapshotRevision =>
                              k.revision + ReceiptWindow < doc'.snapshotRevision
    BY <1>4, <1>5, <1>6
  <2> QED BY <1>12, <2>1, <2>2 DEF Kept
<1>14. commits' \subseteq commits \cup W
  BY <1>1
<1>15. \A y, z \in receipts \cup commits \cup Due(r) : SameOrApart(y, z)
  BY <1>2 DEF Consistent
<1>16. (\A k \in receipts : Kept(k))'
  BY <1>8, <1>13
<1>17. ASSUME NEW y, y.pc = "publish", y.prepared = r.prepared, y.acks = r.acks,
              room' = [room EXCEPT ![t] = y]
       PROVE  ReceiptsInv'
  <2>1. Due(y) = Due(r)
    BY <1>17 DEF Due
  <2>2. (\A k, l \in receipts \cup commits \cup Due(y) : SameOrApart(k, l))'
    BY <1>8, <1>11, <1>14, <1>15, <2>1 DEF SameOrApart
  <2>3. (\A k, l \in receipts \cup commits : SameOrApart(k, l))'
    BY <2>2
  <2>4. Consistent(y)'
    BY <1>11, <1>12, <1>17, <2>1, <2>2 DEF Consistent
  <2> QED BY <1>3, <1>16, <1>17, <2>3, <2>4, ReceiptsWriter
<1> QED BY <1>7, <1>17

\* What is sent is kept.
LEMMA ReceiptsPublish ==
  ASSUME TypeOK, DurableInv, ReceiptsInv, NEW t \in Task, Publish(t)
  PROVE  ReceiptsInv'
<1> DEFINE r == room[t]
           x == BatchOver(r)
<1>1. r.status = "live" /\ r.pc \in {"frames", "publish"} /\ (r.pc = "frames" => r.prepared = {})
  BY DEF Publish, Publishable, BatchDone
<1>2. Consistent(r) /\ ~Quiet(t)
  BY <1>1 DEF ReceiptsInv, DurableInv, RoomInv, Quiet
<1>3. \A k \in Due(r) : Kept(k)
  <2>1. CASE r.pc = "publish"
    BY <1>2, <2>1 DEF Consistent
  <2>2. CASE r.pc = "frames"
    BY <1>1, <1>2, <2>2 DEF Consistent, Kept
  <2> QED BY <1>1, <2>1, <2>2
<1>4. receipts' \subseteq receipts \cup Due(r)
  BY PublishFacts DEF Answers, Due, Receipt
<1>5. UNCHANGED <<doc, commits>> /\ room' = [room EXCEPT ![t] = x]
  BY DEF Publish, rows
<1>6. ~InBatch(x)
  BY DEF BatchOver, InBatch, TypeOK, BoundedRoom, RoomState
<1> HIDE DEF x, r
<1>7. (\A k, l \in receipts \cup commits : SameOrApart(k, l))'
  BY <1>2, <1>4, <1>5 DEF Consistent, SameOrApart
<1>8. (\A k \in receipts : Kept(k))'
  BY <1>3, <1>4, <1>5 DEF ReceiptsInv, Kept
<1>9. ASSUME NEW y, y = x PROVE ReceiptsInv'
  BY <1>2, <1>5, <1>6, <1>7, <1>8, <1>9, ReceiptsWriter
<1> QED BY <1>9

\* A compaction outside a batch forgets only what is out of the window.
LEMMA ReceiptsCompact ==
  ASSUME TypeOK, DurableInv, ReceiptsInv, NEW t \in Task, NEW x, room' = [room EXCEPT ![t] = x],
         room[t].pc \in {"idle", "collect", "deferred"}, ~InBatch(x),
         (CanCompact(t) /\ Compacted(t)) \/ UNCHANGED rows, UNCHANGED receipts
  PROVE  ReceiptsInv'
<1>1. CASE UNCHANGED rows
  BY <1>1, ReceiptsTask DEF rows
<1>2. CASE CanCompact(t) /\ Compacted(t)
  <2> DEFINE r == room[t]
  <2>1. ~Quiet(t) /\ InSync(r, Durable, Revisions)
    BY <1>2 DEF CanCompact, Quiet, DurableInv, RoomInv
  <2>2. r.revision \in Nat /\ doc.snapshotRevision \in Nat /\ doc.snapshotRevision <= r.revision
    BY <2>1 DEF InSync, Newest, Revisions, TypeOK, RowsOK, BoundedRoom, RoomState
  <2>3. /\ doc'.snapshotRevision = r.revision
        /\ commits' = {k \in commits : k.revision >= r.revision - ReceiptWindow}
    BY <1>2 DEF Compacted, TypeOK, RowsOK
  <2>4. ReceiptWindow \in Nat /\ \A k \in receipts \cup commits : k.revision \in Nat
    BY ConstantsAssumption DEF TypeOK, RowsOK, ObservedOK
  <2> HIDE DEF r, Durable, Revisions
  <2>5. (\A k \in receipts : Kept(k))'
    <3>1. \A k \in receipts : k \in commits \/ k.revision + ReceiptWindow < doc.snapshotRevision
      BY DEF ReceiptsInv, Kept
    <3>2. \A k \in receipts : k \in commits' \/ k.revision + ReceiptWindow < doc'.snapshotRevision
      BY <2>2, <2>3, <2>4, <3>1
    <3> QED BY <3>2 DEF Kept
  <2>6. (\A k, l \in receipts \cup commits : SameOrApart(k, l))'
    BY <2>3 DEF ReceiptsInv, SameOrApart
  <2> QED BY <2>1, <2>5, <2>6, ReceiptsWriter
<1> QED BY <1>1, <1>2

\* Leaving and exiting, with and without the final compaction.
LEMMA ReceiptsEnd ==
  ASSUME TypeOK, DurableInv, ReceiptsInv, NEW t \in Task,
         (\E c \in Conn : Leave(t, c)) \/ IdleExit(t) \/ Shutdown(t)
  PROVE  ReceiptsInv'
<1>0. room[t] \in RoomState
  BY DEF TypeOK, BoundedRoom
<1>1. ASSUME NEW c \in Conn, Leave(t, c) PROVE ReceiptsInv'
  <2> DEFINE y == Departed(room[t], c)
             z == [y EXCEPT !.since = 0]
  <2>1. ~InBatch(y) /\ ~InBatch(z)
    BY <1>0, <1>1 DEF Leave, Departed, InBatch, RoomState
  <2>2. \/ CanCompact(t) /\ Compacted(t) /\ room' = [room EXCEPT ![t] = z]
        \/ UNCHANGED rows /\ room' = [room EXCEPT ![t] = y]
    BY <1>1 DEF Leave
  <2>3. room[t].pc \in {"idle", "collect"} /\ UNCHANGED receipts
    BY <1>1 DEF Leave
  <2> HIDE DEF y, z
  <2> QED BY <2>1, <2>2, <2>3, ReceiptsCompact
<1>2. CASE IdleExit(t) \/ Shutdown(t)
  <2>1. Exit(t) /\ room[t].pc = "idle"
    BY <1>2 DEF IdleExit, Shutdown
  <2>2. ~InBatch(Ended)
    BY DEF InBatch, Ended, Unborn
  <2> QED BY <2>1, <2>2, ReceiptsCompact DEF Exit, observed
<1> QED BY <1>1, <1>2

\* Starting to prepare a batch owes nothing to anybody yet.
LEMMA FramedOwes ==
  ASSUME ReceiptsInv, NEW r \in RoomState, r.dead = 0 => r.prepared = {} /\ r.acks = {}
  PROVE  ~InBatch(Framed(r)) \/ Consistent(Framed(r))
<1> DEFINE x == [r EXCEPT !.pc = "frames", !.durable = r.ops,
                          !.nextRevision = r.revision, !.nextSince = r.since]
<1>1. CASE r.dead # 0
  BY <1>1 DEF Framed, InBatch, RoomState
<1>2. CASE r.dead = 0
  <2>1. x.prepared = {} /\ x.acks = {} /\ x.pc = "frames" /\ Framed(r) = x
    BY <1>2 DEF Framed, RoomState
  <2> HIDE DEF x
  <2>2. Due(x) = {}
    BY <2>1 DEF Due
  <2> QED BY <2>1, <2>2 DEF Consistent, ReceiptsInv
<1> QED BY <1>1, <1>2

\* Receiving: controls, the frames of a batch, and the start of its preparation.
LEMMA ReceiptsCollect ==
  ASSUME TypeOK, TypeOK', DurableInv, ReceiptsInv, NEW t \in Task,
         TakeControl(t) \/ BeginBatch(t) \/ CollectFrame(t) \/ EndCollect(t) \/ StartFrames(t)
  PROVE  ReceiptsInv'
<1> DEFINE r == room[t]
<1>0. /\ r \in RoomState /\ r.pc \in {"idle", "collect", "deferred"}
      /\ UNCHANGED <<receipts, commits, doc>>
  BY DEF TypeOK, BoundedRoom, TakeControl, BeginBatch, CollectFrame, EndCollect, StartFrames,
         rows, observed
<1>1. ASSUME NEW x \in RoomState, ~InBatch(x), ApplyControl(t, x) PROVE ReceiptsInv'
  <2>1. \A e, d : /\ ~InBatch([x EXCEPT !.dead = d]) /\ ~InBatch([x EXCEPT !.epoch = e])
                  /\ ~InBatch([x EXCEPT !.epoch = e, !.dead = d])
    BY <1>1 DEF InBatch, RoomState
  <2>2. \E e, d : \/ room' = [room EXCEPT ![t] = [x EXCEPT !.dead = d]]
                  \/ room' = [room EXCEPT ![t] = [x EXCEPT !.epoch = e]]
                  \/ room' = [room EXCEPT ![t] = [x EXCEPT !.epoch = e, !.dead = d]]
                  \/ room' = [room EXCEPT ![t] = x]
    BY <1>1 DEF ApplyControl
  <2> QED BY <1>0, <1>1, <2>1, <2>2, ReceiptsTask
<1>2. ASSUME r.controls # << >> PROVE Drained(r) \in RoomState
  BY <1>2, DrainedBounded DEF TypeOK, BoundedRoom
<1>3. CASE TakeControl(t)
  <2>1. r.controls # << >> /\ r.pc = "idle" /\ ApplyControl(t, Drained(r))
    BY <1>3 DEF TakeControl
  <2>2. ~InBatch(Drained(r))
    BY <1>0, <2>1 DEF Drained, InBatch, RoomState
  <2> QED BY <1>1, <1>2, <2>1, <2>2
<1>4. r.status = "live" /\ r.dead = 0 => r.prepared = {} /\ r.acks = {}
  BY <1>0 DEF DurableInv, RoomInv, InSync
<1>5. ASSUME NEW y \in RoomState, r.status = "live",
             y.dead = r.dead, y.prepared = r.prepared, y.acks = r.acks
      PROVE  ~InBatch(Framed(y)) \/ Consistent(Framed(y))
  BY <1>4, <1>5, FramedOwes
<1>6. ASSUME NEW b, Taken(r, b) \in RoomState, r.status = "live",
             room' = [room EXCEPT ![t] = Received(r, b)]
      PROVE  ReceiptsInv'
  <2>1. /\ Taken(r, b).dead = r.dead /\ Taken(r, b).prepared = r.prepared
        /\ Taken(r, b).acks = r.acks /\ Taken(r, b).pc = "collect"
    BY <1>0 DEF Taken, RoomState
  <2>2. ~InBatch(Received(r, b)) \/ Consistent(Received(r, b))
    BY <1>5, <1>6, <2>1 DEF Received, InBatch
  <2> QED BY <1>0, <1>6, <2>2, ReceiptsTask
<1>7. CASE BeginBatch(t)
  <2>1. Taken(r, <<Head(r.inbox)>>) \in RoomState
    BY <1>7, FirstTaken DEF BeginBatch, TypeOK, BoundedRoom
  <2> QED BY <1>6, <1>7, <2>1 DEF BeginBatch, Running
<1>8. CASE CollectFrame(t)
  <2>1. Taken(r, Append(r.batch, Head(r.inbox))) \in RoomState
    BY <1>8, NextTaken DEF CollectFrame, TypeOK, BoundedRoom
  <2> QED BY <1>6, <1>8, <2>1 DEF CollectFrame, Running
<1>9. ASSUME r.status = "live", room' = [room EXCEPT ![t] = Framed(r)] PROVE ReceiptsInv'
  BY <1>0, <1>5, <1>9, ReceiptsTask
<1>10. CASE EndCollect(t)
  <2>1. r.status = "live" /\ r.pc = "collect"
    BY <1>10 DEF EndCollect, Running
  <2>2. CASE r.controls # << >> /\ ApplyControl(t, [Drained(r) EXCEPT !.pc = "deferred"])
    <3> DEFINE x == [Drained(r) EXCEPT !.pc = "deferred"]
    <3>1. x \in RoomState /\ ~InBatch(x)
      BY <1>2, <2>2 DEF InBatch, RoomState
    <3> QED BY <1>1, <2>2, <3>1
  <2> QED BY <1>9, <1>10, <2>1, <2>2 DEF EndCollect
<1>11. CASE StartFrames(t)
  <2>1. r.status = "live"
    BY <1>0, <1>11 DEF StartFrames, DurableInv, RoomInv
  <2> QED BY <1>9, <1>11, <2>1 DEF StartFrames
<1> QED BY <1>3, <1>7, <1>8, <1>10, <1>11

\* Steps of a task that add no receipt to its batch.
LEMMA ReceiptsQuiet ==
  ASSUME TypeOK, DurableInv, ReceiptsInv, NEW t \in Task,
         \/ Spawn(t) \/ Hydrate(t) \/ HydrateFails(t) \/ AbortEnds(t) \/ LeaveTimeout(t)
         \/ IgnoreFrame(t) \/ RefuseFrame(t) \/ LimitFrame(t)
         \/ LookupFails(t) \/ SnapshotFails(t) \/ CommitFails(t)
  PROVE  ReceiptsInv'
<1> DEFINE r == room[t]
<1>0. /\ r \in RoomState /\ UNCHANGED <<receipts, commits>>
      /\ doc'.snapshotRevision = doc.snapshotRevision
  BY DEF TypeOK, BoundedRoom, rows, observed, Spawn, Hydrate, HydrateFails, AbortEnds, LeaveTimeout,
         IgnoreFrame, RefuseFrame, LimitFrame, LookupFails, SnapshotFails, CommitFails, Poison
<1>1. ASSUME NEW x, room' = [room EXCEPT ![t] = x],
             \/ ~InBatch(x)
             \/ x.pc = r.pc /\ x.prepared = r.prepared /\ x.acks = r.acks
      PROVE  ReceiptsInv'
  BY <1>0, <1>1, ReceiptsTask
<1>2. CASE Spawn(t)
  BY <1>0, <1>1, <1>2 DEF Spawn, RoomState
<1>3. CASE Hydrate(t)
  BY <1>0, <1>1, <1>3 DEF Hydrate, RoomState
<1>4. CASE HydrateFails(t)
  BY <1>0, <1>1, <1>4 DEF HydrateFails, RoomState
<1>5. CASE AbortEnds(t)
  BY <1>0, <1>1, <1>5 DEF AbortEnds, Ended, Unborn, InBatch
<1>6. CASE LeaveTimeout(t)
  BY <1>0, <1>1, <1>6 DEF LeaveTimeout, Evict, RoomState
<1>7. CASE IgnoreFrame(t) \/ RefuseFrame(t) \/ LimitFrame(t)
  BY <1>0, <1>1, <1>7 DEF IgnoreFrame, RefuseFrame, LimitFrame, Popped, RoomState
<1>8. \A code, S : LET b == BatchOver(r) IN
        ~InBatch([b EXCEPT !.dead = code]) /\ ~InBatch([b EXCEPT !.dead = code, !.ops = S])
  BY <1>0 DEF BatchOver, InBatch, RoomState
<1>9. CASE LookupFails(t) \/ CommitFails(t)
  BY <1>1, <1>8, <1>9 DEF LookupFails, CommitFails, Poison
<1>10. CASE SnapshotFails(t)
  BY <1>1, <1>8, <1>10 DEF SnapshotFails
<1> QED BY <1>2, <1>3, <1>4, <1>5, <1>6, <1>7, <1>9, <1>10

\* Handlers and lanes.
LEMMA ReceiptsHandlers ==
  ASSUME TypeOK, ReceiptsInv,
         \/ \E c \in Conn : Admit(c) \/ JoinRefused(c) \/ LeaveUnmapped(c)
         \/ \E t \in Task, c \in Conn : Join(t, c)
         \/ \E c \in Conn, m \in Mutation : Send(c, m)
         \/ \E a \in Actor, r \in Role : ChangeAcl(a, r) \/ LinkRedeem(a, r)
         \/ \E a \in Revocable : Revoke(a)
         \/ \E ctl \in outgoing : Dispatch(ctl)
         \/ Delete \/ Restore
  PROVE  ReceiptsInv'
<1>0. UNCHANGED <<receipts, commits>> /\ doc'.snapshotRevision = doc.snapshotRevision
  BY DEF TypeOK, RowsOK, rows, observed, Admit, JoinRefused, LeaveUnmapped, Join, Send, ChangeAcl,
         LinkRedeem, Revoke, Dispatch, Delete, Restore
<1>1. \A t \in Task : room[t] \in RoomState
  BY DEF TypeOK, BoundedRoom
<1>2. CASE UNCHANGED room
  BY <1>0, <1>2, ReceiptsSame
<1>3. ASSUME NEW c \in Conn, NEW m \in Mutation, Send(c, m) PROVE ReceiptsInv'
  <2>1. at[c] \in Task
    BY <1>3 DEF Send, TypeOK, SocketsOK
  <2> DEFINE x == Queued(room[at[c]], [conn |-> c, mut |-> m])
  <2>2. x.pc = room[at[c]].pc /\ x.prepared = room[at[c]].prepared /\ x.acks = room[at[c]].acks
    BY <1>1, <2>1 DEF Queued, RoomState
  <2> QED BY <1>0, <1>3, <2>1, <2>2, ReceiptsTask DEF Send
<1>4. ASSUME NEW ctl \in outgoing, Dispatch(ctl), resident # NoTask PROVE ReceiptsInv'
  <2>1. resident \in Task
    BY <1>4 DEF TypeOK, SocketsOK
  <2> DEFINE r == room[resident]
             x == Notified(r, ctl)
             y == [r EXCEPT !.aborted = TRUE]
  <2>2. /\ x.pc = r.pc /\ x.prepared = r.prepared /\ x.acks = r.acks
        /\ y.pc = r.pc /\ y.prepared = r.prepared /\ y.acks = r.acks
    BY <1>1, <2>1 DEF Notified, RoomState
  <2>3. room' = [room EXCEPT ![resident] = x] \/ room' = [room EXCEPT ![resident] = y]
    BY <1>4 DEF Dispatch, Evict
  <2> QED BY <1>0, <2>1, <2>2, <2>3, ReceiptsTask
<1>5. ASSUME NEW ctl \in outgoing, Dispatch(ctl) PROVE ReceiptsInv'
  <2>1. CASE resident = NoTask
    BY <1>2, <1>5, <2>1 DEF Dispatch
  <2> QED BY <1>4, <1>5, <2>1
<1>6. CASE \/ \E c \in Conn : Admit(c) \/ JoinRefused(c) \/ LeaveUnmapped(c)
           \/ \E t \in Task, c \in Conn : Join(t, c)
           \/ \E a \in Actor, r \in Role : ChangeAcl(a, r) \/ LinkRedeem(a, r)
           \/ \E a \in Revocable : Revoke(a)
           \/ Delete \/ Restore
  BY <1>2, <1>6 DEF Admit, JoinRefused, LeaveUnmapped, Join, ChangeAcl, LinkRedeem, Revoke, Delete,
                    Restore
<1> QED BY <1>3, <1>5, <1>6

\* A crash forgets every batch.
LEMMA ReceiptsCrash ==
  ASSUME DurableInv, ReceiptsInv, Crash PROVE ReceiptsInv'
<1>1. UNCHANGED <<receipts, commits, doc>>
  BY DEF Crash, rows
<1>2. \A t \in Task : room[t].status = "unborn" => ~InBatch(room[t])
  BY DEF DurableInv, RoomInv, InBatch
<1>3. \A t \in Task : ~InBatch(room'[t])
  BY <1>2 DEF Crash, Ended, Unborn, InBatch
<1> QED BY <1>1, <1>3 DEF ReceiptsInv, Kept, InBatch

\* Every step keeps the receipts consistent, as long as rooms do not overlap.
LEMMA ReceiptsStep ==
  ASSUME TypeOK, TypeOK', DurableInv, ReceiptsInv, [Next]_vars PROVE ReceiptsInv'
<1>1. CASE UNCHANGED vars
  BY <1>1, ReceiptsSame DEF vars, rows, observed
<1>2. ASSUME NEW t \in Task, TaskStep(t) PROVE ReceiptsInv'
  BY <1>2, ReceiptsQuiet, ReceiptsCollect, ReceiptsStage, ReceiptsCommit, ReceiptsPublish DEF TaskStep
<1>3. ASSUME NEW t \in Task, Spawn(t) \/ LeaveTimeout(t) \/ IdleExit(t) \/ Shutdown(t)
      PROVE  ReceiptsInv'
  BY <1>3, ReceiptsQuiet, ReceiptsEnd
<1>4. ASSUME NEW t \in Task, NEW c \in Conn, Leave(t, c) PROVE ReceiptsInv'
  BY <1>4, ReceiptsEnd
<1>5. CASE Crash
  BY <1>5, ReceiptsCrash
<1>6. CASE \/ \E c \in Conn : Admit(c) \/ JoinRefused(c) \/ LeaveUnmapped(c)
           \/ \E t \in Task, c \in Conn : Join(t, c)
           \/ \E c \in Conn, m \in Mutation : Send(c, m)
           \/ \E a \in Actor, r \in Role : ChangeAcl(a, r) \/ LinkRedeem(a, r)
           \/ \E a \in Revocable : Revoke(a)
           \/ \E ctl \in outgoing : Dispatch(ctl)
           \/ Delete \/ Restore
  BY <1>6, ReceiptsHandlers
<1> QED BY <1>1, <1>2, <1>3, <1>4, <1>5, <1>6 DEF Next

\* The strengthened invariant of the receipts: what a batch is going to
\* answer agrees with every receipt sent or stored, and no sent receipt is
\* lost to a retry inside its window.
THEOREM ReceiptsInvariant ==
  ASSUME ~Overlap PROVE Spec => []ReceiptsInv
<1>1. Init => ReceiptsInv
  BY DEF Init, ReceiptsInv, Unborn
<1>2. TypeOK /\ TypeOK' /\ DurableInv /\ ReceiptsInv /\ [Next]_vars => ReceiptsInv'
  BY ReceiptsStep
<1> QED BY <1>1, <1>2, TypeCorrect, DurableInvariant, PTL DEF Spec

\* Retries of one mutation id always get the same receipt, and an id never
\* gets receipts for two payloads, unless they are more than the receipt
\* window apart - across batches, compactions, restarts and hand-overs,
\* provided a room starts only when its predecessor can no longer write.
THEOREM ReceiptsStayStable ==
  ASSUME ~Overlap PROVE Spec => []ReceiptsStable
<1>1. ReceiptsInv => ReceiptsStable
  BY DEF ReceiptsInv, ReceiptsStable
<1> QED BY <1>1, ReceiptsInvariant, PTL
=============================================================================
