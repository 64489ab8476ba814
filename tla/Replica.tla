------------------------------ MODULE Replica ------------------------------
(***************************************************************************)
(* The browser's side of a document: the tabs of one browser profile that  *)
(* have it open (EsbtEngine), the IndexedDB journal they share under the   *)
(* persist lock, the BroadcastChannel between them and the socket of each  *)
(* to the room.  An edit is an operation [site, seq, by, run]: site and    *)
(* seq are its identity for the engine; by and run, the tab and how many   *)
(* were opened before, stand for its content.  A version is the set of     *)
(* operations it covers.  The room is external: it commits a mutation,     *)
(* answers COMMITTED and relays what was new (module Room).                *)
(***************************************************************************)
EXTENDS Naturals, Sequences, FiniteSets, Functions, FiniteSetTheorems, TLAPS

CONSTANTS
  ReplicaTabs, \* the tabs that may open the document
  Access,      \* TRUE: documents of the service; FALSE: local-only documents
  Viewers,     \* the tabs whose ticket carries a read-only role
  InitialOpen, \* the tabs that opened it before any journal was written
  SoloReopen,  \* TRUE: a stored journal is opened by one tab at a time
  MaxEdits, MaxDrops, MaxOpens, MaxAsks, MaxCloses, MaxFaults, MaxSaves  \* bounds

ReplicaAssumption ==
  /\ IsFiniteSet(ReplicaTabs) /\ Viewers \subseteq ReplicaTabs /\ InitialOpen \subseteq ReplicaTabs
  /\ Access \in BOOLEAN /\ SoloReopen \in BOOLEAN
  /\ {MaxEdits, MaxDrops, MaxOpens, MaxAsks, MaxCloses, MaxFaults, MaxSaves} \subseteq Nat

VARIABLES
  tab,      \* the memory of each tab
  journal,  \* the IndexedDB record, or NoJournal
  server,   \* operations the room has committed
  told,     \* operations a completed append has reported as saved offline
  used      \* how much of each bound is spent

replicaVars == <<tab, journal, server, told, used>>

NoJournal == [site |-> 0, snap |-> {}, pending |-> <<>>]
Stored == journal.site # 0

Id(o) == <<o.site, o.seq>>
\* The engine applies an operation once per identity.
Import(S, T) == S \cup {o \in T : \A p \in S : Id(p) # Id(o)}

OpsOf(ms) == UNION {m.ops : m \in Range(ms)}
\* acknowledgePendingMutation, pendingMutations.delete: identifiers are unique
\* in a tail, so one mutation goes.
Without(ms, id) ==
  LET at == {n \in DOMAIN ms : ms[n].id = id}
      k == CHOOSE n \in at : TRUE
  IN  IF at = {} THEN ms ELSE SubSeq(ms, 1, k - 1) \o SubSeq(ms, k + 1, Len(ms))

\* Every mutation and every receipt some tab, queue or the journal still knows.
MutationsOf(r) == Range(r.pend) \cup Range(r.out) \cup
                  {j.m : j \in {k \in Range(r.jobs) : k.kind = "append"}}
ReceiptsOf(r) == {f.id : f \in {g \in Range(r.inb) : g.kind = "committed"}} \cup
                 {j.id : j \in {k \in Range(r.jobs) : k.kind = "ack"}}
Mutations == (UNION {MutationsOf(tab[t]) : t \in ReplicaTabs}) \cup Range(journal.pending)
Receipts == UNION {ReceiptsOf(tab[t]) : t \in ReplicaTabs}
\* randomMutationId: an identifier nobody holds.
FreshId ==
  LET ids == {m.id : m \in Mutations} \cup Receipts
  IN  CHOOSE n \in 1..(Cardinality(ids) + 1) : n \notin ids

Closed == [phase |-> "closed", site |-> 0, doc |-> {}, pend |-> <<>>, jobs |-> <<>>,
           sock |-> FALSE, synced |-> FALSE, status |-> "offline", svv |-> {},
           hasVV |-> FALSE, saved |-> FALSE, inb |-> <<>>, out |-> <<>>, chan |-> <<>>]

Live(r) == r.phase = "live"            \* neither destroyed nor storageFatal
CanEdit(t) == Live(tab[t]) /\ t \notin Viewers

------------------------------------------------------------------------------
(* Steps inside a tab: functions from its memory to its memory.             *)

SetStatus(r, s) == [r EXCEPT !.status = s]

Checkpoint(r) == [r EXCEPT !.jobs = Append(@, [kind |-> "checkpoint", fb |-> r.pend])]

\* sendMutation: only on an open, synced socket.
SendAll(r, ms) == IF r.sock /\ r.synced THEN [r EXCEPT !.out = @ \o ms] ELSE r

\* persistAndSendMutation up to its await: the mutation is pending in memory
\* and its append is queued behind the persist lock.
Persist(r, ops, broadcast, id) ==
  LET m == [id |-> id, ops |-> ops]
      p == Append(r.pend, m)
  IN  [r EXCEPT !.pend = p,
                !.status = IF Access /\ r.synced THEN "saving" ELSE @,
                !.jobs = Append(@, [kind |-> "append", m |-> m, fb |-> p,
                                    broadcast |-> broadcast])]

\* sendMissingSince: pending mutations first; otherwise what the version lacks.
SendMissing(r, version, id) ==
  IF r.pend # <<>> THEN SendAll(r, r.pend)
  ELSE IF r.doc = version
       THEN IF r.synced THEN SetStatus(r, "connected") ELSE r
       ELSE Persist(r, r.doc \ version, FALSE, id)

\* Mutant: a reconnected tab relies on the version alone.
SynchronizeByVersion(r, id) ==
  IF r.hasVV THEN SetStatus(r, "connected") ELSE r

\* synchronizeWithServer, on SYNCED.
Synchronize(r, id) ==
  IF r.pend # <<>> THEN SendAll(SetStatus(r, "saving"), r.pend)
  ELSE IF r.hasVV THEN SendMissing(r, r.svv, id) ELSE SetStatus(r, "connected")

\* onDisconnect with an ordinary close code.
Disconnect(r) == [r EXCEPT !.sock = FALSE, !.synced = FALSE, !.status = "offline",
                           !.inb = <<>>, !.out = <<>>]

\* enterTerminalRecovery: writing stops, a last checkpoint is queued.
Terminal(r) == [Checkpoint(Disconnect(r)) EXCEPT !.phase = "terminal"]

\* recordStorageError with fatal = TRUE.
StorageFatal(r) == [Disconnect(r) EXCEPT !.phase = "fatal", !.jobs = <<>>, !.saved = FALSE]

\* isDurable: what whenDurable waits for.
IsDurable(r) == /\ Live(r) /\ r.pend = <<>> /\ r.saved
                /\ Access => r.synced /\ r.status = "connected"

\* TabChannel.post: every other tab of the document that is not destroyed.
Posted(from, msg) ==
  [t \in ReplicaTabs |-> IF t # from /\ Live(tab[t])
                  THEN [tab[t] EXCEPT !.chan = Append(@, msg)] ELSE tab[t]]

Put(t, r) == tab' = [tab EXCEPT ![t] = r]
PutPosting(t, r, msg) == tab' = [Posted(t, msg) EXCEPT ![t] = r]
Spend(what) == used' = [used EXCEPT ![what] = @ + 1]

------------------------------------------------------------------------------
\* A site no ticket named before.
NewSite == Cardinality(InitialOpen) + used.opens + 1

Fresh(n) == Checkpoint([Closed EXCEPT !.phase = "live", !.site = n,
                                         !.status = IF Access THEN "connecting" ELSE "connected"])

\* The sites of the first tickets.
InitialSite == CHOOSE f \in [InitialOpen -> 1..Cardinality(InitialOpen)] :
                 \A t, u \in InitialOpen : f[t] = f[u] => t = u

ReplicaInit ==
  /\ tab = [t \in ReplicaTabs |-> IF t \in InitialOpen THEN Fresh(InitialSite[t]) ELSE Closed]
  /\ journal = NoJournal
  /\ server = {}
  /\ told = {}
  /\ used = [edits |-> 0, drops |-> 0, opens |-> 0, asks |-> 0, closes |-> 0, faults |-> 0,
             saves |-> 0]

\* EsbtEngine.open and start: the journal is read first; without one a room
\* ticket names a fresh site.  The snapshot fetch may succeed or be skipped.
Open(t) ==
  /\ tab[t].phase = "closed" /\ used.opens < MaxOpens
  /\ SoloReopen /\ Stored => \A u \in ReplicaTabs : tab[u].phase = "closed"
  /\ \E fetched \in BOOLEAN :
       /\ fetched => Access
       /\ LET r0 == IF Stored
                    THEN [Fresh(journal.site) EXCEPT
                            !.pend = journal.pending, !.saved = TRUE,
                            !.doc = Import(journal.snap, OpsOf(journal.pending))]
                    ELSE Fresh(NewSite)
          IN  PutPosting(t, [r0 EXCEPT !.doc = IF fetched THEN Import(@, server) ELSE @],
                         [kind |-> "ask"])
  /\ Spend("opens")
  /\ UNCHANGED <<journal, server, told>>

\* A local change of the editor: onLocalUpdate persists and sends it.
Edit(t) ==
  /\ CanEdit(t) /\ used.edits < MaxEdits
  /\ LET r == tab[t]
         o == [site |-> r.site, seq |-> 1 + Cardinality({p \in r.doc : p.site = r.site}),
               by |-> t, run |-> used.opens]
     IN  Put(t, Persist([r EXCEPT !.doc = @ \cup {o}, !.saved = FALSE], {o}, TRUE, FreshId))
  /\ Spend("edits")
  /\ UNCHANGED <<journal, server, told>>

\* The debounced save, a hidden page, or a maintenance pass.
SaveTimer(t) ==
  /\ Live(tab[t]) /\ ~\E j \in Range(tab[t].jobs) : j.kind = "checkpoint"
  /\ used.saves < MaxSaves
  /\ Put(t, Checkpoint(tab[t]))
  /\ Spend("saves")
  /\ UNCHANGED <<journal, server, told>>

\* connect, admission and the room's welcome: VV, what the replica lacks, SYNCED.
Connect(t) ==
  /\ Access /\ Live(tab[t]) /\ ~tab[t].sock
  /\ Put(t, [tab[t] EXCEPT !.sock = TRUE, !.synced = FALSE, !.status = "connecting",
               !.inb = <<[kind |-> "vv", ops |-> server],
                         [kind |-> "update", ops |-> server \ tab[t].doc],
                         [kind |-> "synced"]>>])
  /\ UNCHANGED <<journal, server, told, used>>

\* The network, a deadline or an offline event detaches the socket.
Drop(t) ==
  /\ Live(tab[t]) /\ tab[t].sock /\ used.drops < MaxDrops
  /\ Put(t, Disconnect(tab[t]))
  /\ Spend("drops")
  /\ UNCHANGED <<journal, server, told>>

Receiving(t, kind) == /\ Live(tab[t]) /\ tab[t].inb # <<>>
                      /\ Head(tab[t].inb).kind = kind
Consumed(t) == [tab[t] EXCEPT !.inb = Tail(@)]

OnServerVV(t) ==
  /\ Receiving(t, "vv")
  /\ Put(t, [Consumed(t) EXCEPT !.svv = Head(tab[t].inb).ops, !.hasVV = TRUE])
  /\ UNCHANGED <<journal, server, told, used>>

OnUpdate(t) ==
  /\ Receiving(t, "update")
  /\ Put(t, [Consumed(t) EXCEPT !.doc = Import(@, Head(tab[t].inb).ops)])
  /\ UNCHANGED <<journal, server, told, used>>

OnSynced(t) ==
  /\ Receiving(t, "synced")
  /\ Put(t, Synchronize([Consumed(t) EXCEPT !.synced = TRUE], FreshId))
  /\ UNCHANGED <<journal, server, told, used>>

\* handleCommitted: the receipt's version is kept, its journal write queued.
OnCommitted(t) ==
  /\ Receiving(t, "committed")
  /\ LET f == Head(tab[t].inb)
     IN  Put(t, [Consumed(t) EXCEPT !.svv = f.ops, !.hasVV = TRUE,
                   !.jobs = Append(@, [kind |-> "ack", id |-> f.id, ops |-> f.ops,
                                       fb |-> tab[t].pend])])
  /\ UNCHANGED <<journal, server, told, used>>

\* The room takes the next mutation of a writer's socket.
Commit(t) ==
  /\ Live(tab[t]) /\ tab[t].out # <<>> /\ t \notin Viewers
  /\ LET m == Head(tab[t].out)
         next == Import(server, m.ops)
         new == next \ server
     IN  /\ server' = next
         /\ tab' = [u \in ReplicaTabs |->
              IF u = t THEN [tab[t] EXCEPT !.out = Tail(@),
                               !.inb = Append(@, [kind |-> "committed", id |-> m.id, ops |-> next])]
              ELSE IF tab[u].sock /\ new # {}
                   THEN [tab[u] EXCEPT !.inb = Append(@, [kind |-> "update", ops |-> new])]
                   ELSE tab[u]]
  /\ UNCHANGED <<journal, told, used>>

\* A mutation of a reader: the room closes the socket with 4403.
Forbid(t) ==
  /\ Live(tab[t]) /\ tab[t].out # <<>> /\ t \in Viewers
  /\ Put(t, Terminal(tab[t]))
  /\ UNCHANGED <<journal, server, told, used>>

\* The record a job's transaction starts from: what is stored, or the
\* caller's own memory when it asked.
Base(r, job) == IF Stored THEN journal
                ELSE [site |-> r.site, snap |-> {}, pending |-> job.fb]

RunningHead(t, kind) ==
  /\ tab[t].phase \in {"live", "terminal", "closing"} /\ tab[t].jobs # <<>>
  /\ Head(tab[t].jobs).kind = kind
Ran(t) == [tab[t] EXCEPT !.jobs = Tail(@)]

\* appendPendingMutation and what follows it in persistAndSendMutation.
RunAppend(t) ==
  /\ RunningHead(t, "append")
  /\ LET job == Head(tab[t].jobs)
         base == Base(tab[t], job)
         r == [Ran(t) EXCEPT !.saved = TRUE]
         sent == IF Access THEN SendAll(r, <<job.m>>)
                 ELSE [r EXCEPT !.jobs = Append(@, [kind |-> "ack", id |-> job.m.id,
                                                    ops |-> r.doc, fb |-> r.pend])]
     IN  /\ journal' = [base EXCEPT !.pending =
                          IF \E m \in Range(@) : m.id = job.m.id THEN @ ELSE Append(@, job.m)]
         /\ told' = told \cup job.m.ops
         /\ IF ~Live(r) THEN Put(t, r)
            ELSE IF job.broadcast THEN PutPosting(t, sent, [kind |-> "update", ops |-> job.m.ops])
                 ELSE Put(t, sent)
  /\ UNCHANGED <<server, used>>

\* acknowledgePendingMutation: snapshot and removal in one transaction, then
\* the pending map, the status and whatever the receipt's version still lacks.
RunAck(t) ==
  /\ RunningHead(t, "ack")
  /\ LET job == Head(tab[t].jobs)
         base == Base(tab[t], job)
         r == [Ran(t) EXCEPT !.saved = TRUE, !.pend = Without(@, job.id)]
     IN  /\ journal' = [base EXCEPT !.snap = tab[t].doc, !.pending = Without(@, job.id)]
         /\ Put(t, IF ~Live(r) \/ ~Access THEN r
                   ELSE IF r.pend = <<>> THEN SendMissing(r, job.ops, FreshId)
                        ELSE IF r.synced THEN SetStatus(r, "saving") ELSE r)
  /\ UNCHANGED <<server, told, used>>

\* Mutant: a checkpoint that writes the tab's own view of the tail.
RunCheckpointWhole(t) ==
  /\ RunningHead(t, "checkpoint")
  /\ LET base == Base(tab[t], Head(tab[t].jobs))
     IN  journal' = [base EXCEPT !.snap = tab[t].doc, !.pending = tab[t].pend]
  /\ Put(t, [Ran(t) EXCEPT !.saved = TRUE])
  /\ UNCHANGED <<server, told, used>>

\* checkpointReplicaJournal: the replica exported inside the lock.
RunCheckpoint(t) ==
  /\ RunningHead(t, "checkpoint")
  /\ LET base == Base(tab[t], Head(tab[t].jobs))
     IN  journal' = [base EXCEPT !.snap = tab[t].doc]
  /\ Put(t, [Ran(t) EXCEPT !.saved = TRUE])
  /\ UNCHANGED <<server, told, used>>

\* The transaction fails or the lock times out: recordStorageError.
FailJob(t) ==
  /\ Live(tab[t]) /\ tab[t].jobs # <<>> /\ used.faults < MaxFaults
  /\ Put(t, StorageFatal(tab[t]))
  /\ Spend("faults")
  /\ UNCHANGED <<journal, server, told>>

Hearing(t, kind) == /\ Live(tab[t]) /\ tab[t].chan # <<>>
                    /\ Head(tab[t].chan).kind = kind
Heard(t) == [tab[t] EXCEPT !.chan = Tail(@)]

\* importFromTab, an update: imported, journaled and sent here as well.
OnTabUpdate(t) ==
  /\ Hearing(t, "update")
  /\ LET ops == Head(tab[t].chan).ops
     IN  Put(t, Persist([Heard(t) EXCEPT !.doc = Import(@, ops)], ops, FALSE, FreshId))
  /\ UNCHANGED <<journal, server, told, used>>

\* Mutant: a sibling's snapshot is left for the sibling to send.
OnTabSnapshotQuiet(t) ==
  /\ Hearing(t, "snapshot")
  /\ Put(t, [Heard(t) EXCEPT !.doc = Import(@, Head(tab[t].chan).ops)])
  /\ UNCHANGED <<journal, server, told, used>>

\* importFromTab, a snapshot: imported; what the server version on record
\* lacks is sent.
OnTabSnapshot(t) ==
  /\ Hearing(t, "snapshot")
  /\ LET r == [Heard(t) EXCEPT !.doc = Import(@, Head(tab[t].chan).ops)]
     IN  Put(t, IF r.hasVV THEN SendMissing(r, r.svv, FreshId) ELSE r)
  /\ UNCHANGED <<journal, server, told, used>>

\* hello and request-snapshot are answered with a full snapshot.
OnTabAsk(t) ==
  /\ Hearing(t, "ask")
  /\ IF tab[t].doc = {} THEN Put(t, Heard(t))
     ELSE PutPosting(t, Heard(t), [kind |-> "snapshot", ops |-> tab[t].doc])
  /\ UNCHANGED <<journal, server, told, used>>

\* A page that becomes visible asks its siblings for their state.
Visible(t) ==
  /\ Live(tab[t]) /\ used.asks < MaxAsks
  /\ PutPosting(t, tab[t], [kind |-> "ask"])
  /\ Spend("asks")
  /\ UNCHANGED <<journal, server, told>>

\* destroy: no more events; the final checkpoint waits behind the queued jobs.
Close(t) ==
  /\ Live(tab[t]) /\ used.closes < MaxCloses
  /\ Put(t, [Checkpoint(Disconnect(tab[t])) EXCEPT !.phase = "closing", !.chan = <<>>])
  /\ Spend("closes")
  /\ UNCHANGED <<journal, server, told>>

\* The tab is gone: after its last job, or killed at any moment.
Gone(t) ==
  /\ \/ tab[t].phase \in {"closing", "terminal"} /\ tab[t].jobs = <<>> /\ UNCHANGED used
     \/ tab[t].phase = "fatal" /\ UNCHANGED used
     \/ tab[t].phase # "closed" /\ used.closes < MaxCloses /\ Spend("closes")
  /\ Put(t, Closed)
  /\ UNCHANGED <<journal, server, told>>

ReplicaNext == \E t \in ReplicaTabs :
  \/ Open(t) \/ Edit(t) \/ SaveTimer(t) \/ Connect(t) \/ Drop(t)
  \/ OnServerVV(t) \/ OnUpdate(t) \/ OnSynced(t) \/ OnCommitted(t) \/ Commit(t) \/ Forbid(t)
  \/ RunAppend(t) \/ RunAck(t) \/ RunCheckpoint(t) \/ FailJob(t)
  \/ OnTabUpdate(t) \/ OnTabSnapshot(t) \/ OnTabAsk(t) \/ Visible(t) \/ Close(t) \/ Gone(t)

ReplicaSpec == ReplicaInit /\ [][ReplicaNext]_replicaVars

------------------------------------------------------------------------------
(* Properties.                                                              *)

JournalOps == journal.snap \cup OpsOf(journal.pending)

\* An edit whose append completed can be recovered from the journal or from
\* the room, whatever tabs crash, close or overwrite the shared snapshot
\* afterwards (appendPendingMutation, checkpointReplicaJournal,
\* acknowledgePendingMutation).
SavedEditsRecoverable == told \subseteq JournalOps \cup server

\* whenDurable resolves only when everything the tab shows is committed by
\* the room (isDurable: pending tail, local save, status).
DurableMeansCommitted ==
  Access => \A t \in ReplicaTabs : IsDurable(tab[t]) => tab[t].doc \subseteq server

\* An edit in an open writer's replica reaches the room, or the tab that holds
\* it ends: resends after every reconnect, receipts and journal writes make
\* progress together.
EditsReachServer ==
  \A t \in ReplicaTabs \ Viewers :
    [](Live(tab[t]) /\ tab[t].doc # {} => <>(tab[t].doc \subseteq server \/ ~Live(tab[t])))

------------------------------------------------------------------------------
(* Types, and the invariant behind SavedEditsRecoverable.                   *)

\* Where no tab opens later, an operation carries its tab's first site.
Op == {o \in [site: Nat, seq: Nat, by: ReplicaTabs, run: Nat] :
         MaxOpens = 0 => o.by \in InitialOpen /\ o.site = InitialSite[o.by] /\ o.run = 0}
Ops == {S \in SUBSET Op : IsFiniteSet(S)}
Mutation == [id: Nat, ops: Ops]
Pending == Seq(Mutation)
Job == [kind: {"checkpoint"}, fb: Pending]
       \cup [kind: {"append"}, m: Mutation, fb: Pending, broadcast: BOOLEAN]
       \cup [kind: {"ack"}, id: Nat, ops: Ops, fb: Pending]
Frame == [kind: {"vv", "update"}, ops: Ops] \cup [kind: {"synced"}]
         \cup [kind: {"committed"}, id: Nat, ops: Ops]
Message == [kind: {"ask"}] \cup [kind: {"update", "snapshot"}, ops: Ops]
TabState ==
  [phase: {"closed", "live", "terminal", "closing", "fatal"}, site: Nat, doc: Ops,
   pend: Pending, jobs: Seq(Job), sock: BOOLEAN, synced: BOOLEAN,
   status: {"offline", "connecting", "connected", "saving"}, svv: Ops, hasVV: BOOLEAN,
   saved: BOOLEAN, inb: Seq(Frame), out: Pending, chan: Seq(Message)]

Used == {u \in [{"edits", "drops", "opens", "asks", "closes", "faults", "saves"} -> Nat] :
           MaxOpens = 0 => u.opens = 0}

TypeOK ==
  /\ tab \in [ReplicaTabs -> TabState]
  /\ journal \in [site: Nat, snap: Ops, pending: Pending]
  /\ server \in Ops /\ told \in Ops
  /\ used \in Used

\* A tab that runs has a site, and where no tab opens later its first one.
Sited == \A t \in ReplicaTabs : tab[t].phase # "closed" =>
           /\ tab[t].site # 0
           /\ MaxOpens = 0 => t \in InitialOpen /\ tab[t].site = InitialSite[t]

\* Mutations under one identifier carry the same operations.
OneContent == \A m, n \in Mutations : m.id = n.id => m.ops = n.ops

\* A receipt says that the room has what was sent under its identifier.
Receipted == \A m \in Mutations : m.id \in Receipts => m.ops \subseteq server

\* Until a journal exists, what a job would write in its place is what the tab
\* still holds.
Carried ==
  ~Stored => /\ journal.pending = <<>>
             /\ \A t \in ReplicaTabs : \A j \in Range(tab[t].jobs) : Range(j.fb) \subseteq Range(tab[t].pend)

\* An edit told is in the tail or in the room: the snapshot is not counted on,
\* since a sibling that never saw the edit may overwrite it.
ToldKept == told \subseteq OpsOf(journal.pending) \cup server

ReplicaInv ==
  /\ TypeOK /\ IsFiniteSet(Mutations) /\ IsFiniteSet(Receipts)
  /\ Sited /\ OneContent /\ Receipted /\ Carried /\ ToldKept

\* No identity of an operation stands for two contents.
Distinct ==
  \A o, p \in server \cup (UNION {m.ops : m \in Mutations}) : Id(o) = Id(p) => o = p

------------------------------------------------------------------------------
(* Sequences and sets.                                                      *)

LEMMA RangeEmpty == Range(<<>>) = {}
  BY DEF Range

LEMMA RangeAppend ==
  ASSUME NEW S, NEW s \in Seq(S), NEW e \in S
  PROVE  Append(s, e) \in Seq(S) /\ Range(Append(s, e)) = Range(s) \cup {e}
<1>1. /\ Append(s, e) \in Seq(S) /\ DOMAIN Append(s, e) = 1..(Len(s) + 1)
      /\ Append(s, e)[Len(s) + 1] = e /\ \A i \in 1..Len(s) : Append(s, e)[i] = s[i]
      /\ DOMAIN s = 1..Len(s) /\ Len(s) \in Nat
  OBVIOUS
<1>2. 1..(Len(s) + 1) = 1..Len(s) \cup {Len(s) + 1}
  BY <1>1
<1>3. \A x \in Range(Append(s, e)) : x \in Range(s) \cup {e}
  <2> SUFFICES ASSUME NEW i \in 1..(Len(s) + 1) PROVE Append(s, e)[i] \in Range(s) \cup {e}
    BY <1>1 DEF Range
  <2> QED BY <1>1, <1>2 DEF Range
<1>4. \A x \in Range(s) : x \in Range(Append(s, e))
  <2> SUFFICES ASSUME NEW i \in 1..Len(s) PROVE s[i] \in Range(Append(s, e))
    BY <1>1 DEF Range
  <2> QED BY <1>1, <1>2 DEF Range
<1>5. e \in Range(Append(s, e))
  BY <1>1 DEF Range
<1> QED BY <1>1, <1>3, <1>4, <1>5

LEMMA RangeTail ==
  ASSUME NEW S, NEW s \in Seq(S), s # <<>>
  PROVE  /\ Tail(s) \in Seq(S) /\ Range(Tail(s)) \subseteq Range(s)
         /\ Head(s) \in S /\ Head(s) \in Range(s)
  BY DEF Range

LEMMA RangeConcat ==
  ASSUME NEW S, NEW s \in Seq(S), NEW u \in Seq(S)
  PROVE  s \o u \in Seq(S) /\ Range(s \o u) = Range(s) \cup Range(u)
<1>1. /\ s \o u \in Seq(S) /\ DOMAIN (s \o u) = 1..(Len(s) + Len(u))
      /\ Len(s) \in Nat /\ Len(u) \in Nat /\ DOMAIN s = 1..Len(s) /\ DOMAIN u = 1..Len(u)
  OBVIOUS
<1>2. \A i \in 1..Len(s) : i \in DOMAIN (s \o u) /\ (s \o u)[i] = s[i]
  BY <1>1
<1>3. \A i \in 1..Len(u) : Len(s) + i \in DOMAIN (s \o u) /\ (s \o u)[Len(s) + i] = u[i]
  BY <1>1
<1>4. \A i \in 1..(Len(s) + Len(u)) : i \in 1..Len(s) \/ \E k \in 1..Len(u) : i = Len(s) + k
  <2> TAKE i \in 1..(Len(s) + Len(u))
  <2>1. CASE i > Len(s)
    <3>1. i - Len(s) \in 1..Len(u) /\ i = Len(s) + (i - Len(s))
      BY <1>1, <2>1
    <3> QED BY <3>1
  <2> QED BY <1>1, <2>1
<1>5. Range(s \o u) \subseteq Range(s) \cup Range(u)
  <2> SUFFICES ASSUME NEW i \in 1..(Len(s) + Len(u)) PROVE (s \o u)[i] \in Range(s) \cup Range(u)
    BY <1>1 DEF Range
  <2> QED BY <1>1, <1>2, <1>3, <1>4 DEF Range
<1>6. Range(s) \cup Range(u) \subseteq Range(s \o u)
  BY <1>1, <1>2, <1>3, Zenon DEF Range
<1> QED BY <1>1, <1>5, <1>6

LEMMA RangeOf ==
  ASSUME NEW S, NEW s \in Seq(S)
  PROVE  Range(s) \subseteq S
  BY DEF Range

\* What leaves a tail has the identifier.
LEMMA RangeWithout ==
  ASSUME NEW s \in Pending, NEW id
  PROVE  /\ Without(s, id) \in Pending /\ Range(Without(s, id)) \subseteq Range(s)
         /\ \A m \in Range(s) : m.id # id => m \in Range(Without(s, id))
<1> DEFINE at == {n \in DOMAIN s : s[n].id = id}
           k == CHOOSE n \in at : TRUE
           a == SubSeq(s, 1, k - 1)
           b == SubSeq(s, k + 1, Len(s))
<1>1. CASE at = {}
  BY <1>1 DEF Without
<1>2. CASE at # {}
  <2>1. k \in 1..Len(s) /\ s[k].id = id /\ Len(s) \in Nat /\ s \in Seq(Mutation) /\ DOMAIN s = 1..Len(s)
    BY <1>2 DEF Pending
  <2>2. Without(s, id) = a \o b
    BY <1>2 DEF Without
  <2> HIDE DEF k, at
  <2>3. /\ a \in Seq(Mutation) /\ DOMAIN a = 1..(k - 1) /\ \A i \in 1..(k - 1) : a[i] = s[i]
        /\ b \in Seq(Mutation) /\ DOMAIN b = 1..(Len(s) - k)
        /\ \A i \in 1..(Len(s) - k) : b[i] = s[k + i]
    BY <2>1
  <2>4. 1..(k - 1) \subseteq 1..Len(s) /\ \A i \in 1..(Len(s) - k) : k + i \in 1..Len(s)
    BY <2>1
  <2>5. \A i \in 1..Len(s) : i = k \/ i \in 1..(k - 1) \/ \E n \in 1..(Len(s) - k) : i = k + n
    <3> TAKE i \in 1..Len(s)
    <3>1. CASE i > k
      <4>1. i - k \in 1..(Len(s) - k) /\ i = k + (i - k)
        BY <2>1, <3>1
      <4> QED BY <4>1
    <3> QED BY <2>1, <3>1
  <2>6. a \o b \in Seq(Mutation) /\ Range(a \o b) = Range(a) \cup Range(b)
    BY <2>3, RangeConcat
  <2> HIDE DEF a, b
  <2>7. Range(a) \cup Range(b) \subseteq Range(s)
    BY <2>1, <2>3, <2>4, Zenon DEF Range
  <2>8. \A m \in Range(s) : m.id # id => m \in Range(a) \cup Range(b)
    <3> SUFFICES ASSUME NEW i \in 1..Len(s), s[i].id # id PROVE s[i] \in Range(a) \cup Range(b)
      BY <2>1 DEF Range
    <3>1. CASE i \in 1..(k - 1)
      BY <2>3, <3>1 DEF Range
    <3>2. CASE \E n \in 1..(Len(s) - k) : i = k + n
      <4> PICK n \in 1..(Len(s) - k) : i = k + n
        BY <3>2
      <4>1. s[i] = b[n] /\ n \in DOMAIN b
        BY <2>3
      <4> QED BY <4>1 DEF Range
    <3> QED BY <2>1, <2>5, <3>1, <3>2
  <2> QED BY <2>2, <2>6, <2>7, <2>8 DEF Pending
<1> QED BY <1>1, <1>2

\* Sets of operations stay finite.
LEMMA OpsClosed ==
  ASSUME NEW S \in Ops, NEW T \in Ops
  PROVE  S \cup T \in Ops /\ S \ T \in Ops /\ Import(S, T) \in Ops /\ {} \in Ops
<1>1. IsFiniteSet(S) /\ IsFiniteSet(T)
  BY DEF Ops
<1>2. IsFiniteSet(S \cup T)
  BY <1>1, FS_Union
<1>3. Import(S, T) \subseteq S \cup T
  BY DEF Import
<1>4. IsFiniteSet(S \ T) /\ IsFiniteSet(Import(S, T)) /\ IsFiniteSet({})
  BY <1>1, <1>2, <1>3, FS_Subset, FS_EmptySet
<1> QED BY <1>2, <1>3, <1>4 DEF Ops

\* randomMutationId finds an identifier: fewer are held than it has to choose from.
LEMMA FreshIdFree ==
  ASSUME IsFiniteSet(Mutations), IsFiniteSet(Receipts)
  PROVE  FreshId \in Nat /\ FreshId \notin Receipts /\ \A m \in Mutations : m.id # FreshId
<1> DEFINE f == [m \in Mutations |-> m.id]
           names == {m.id : m \in Mutations}
           ids == names \cup Receipts
           K == Cardinality(ids)
<1>1. IsFiniteSet(names)
  <2>1. f \in Surjection(Mutations, names)
    BY DEF Surjection
  <2> HIDE DEF f, names
  <2> QED BY <2>1, FS_Surjection
<1>2. IsFiniteSet(ids)
  BY <1>1, FS_Union
<1> HIDE DEF f, ids
<1>3. Cardinality(1..(K + 1)) = K + 1 /\ K \in Nat
  <2>1. 1 \in Int /\ K + 1 \in Int /\ K \in Nat
    BY <1>2, FS_CardinalityType
  <2>2. Cardinality(1..(K + 1)) = IF 1 > K + 1 THEN 0 ELSE K + 1 - 1 + 1
    BY <2>1, FS_Interval
  <2> QED BY <2>1, <2>2
<1>4. ~(1..(K + 1) \subseteq ids)
  <2> SUFFICES ASSUME 1..(K + 1) \subseteq ids PROVE FALSE
    OBVIOUS
  <2>1. Cardinality(1..(K + 1)) <= K
    BY <1>2, FS_Subset
  <2> QED BY <1>3, <2>1
<1>5. FreshId = CHOOSE n \in 1..(K + 1) : n \notin ids
  BY DEF FreshId, ids
<1>6. FreshId \in 1..(K + 1) /\ FreshId \notin ids
  BY <1>4, <1>5
<1> QED BY <1>3, <1>6 DEF ids


------------------------------------------------------------------------------
(* What the steps inside a tab add.                                         *)

\* From memory r to memory q: mutations only of N are new, and receipts of R.
Grows(r, q, N, R) ==
  /\ q \in TabState
  /\ MutationsOf(q) \subseteq MutationsOf(r) \cup N
  /\ ReceiptsOf(q) \subseteq ReceiptsOf(r) \cup R
  /\ q.phase # "closed" => \/ r.phase # "closed" /\ q.site = r.site
                           \/ MaxOpens # 0 /\ q.site # 0

Fit(r) == \A j \in Range(r.jobs) : Range(j.fb) \subseteq Range(r.pend)

LEMMA GrowsOn ==
  ASSUME NEW r, NEW q, NEW p, NEW N, NEW R, Grows(r, q, N, R), Grows(q, p, N, R)
  PROVE  Grows(r, p, N, R)
  BY DEF Grows

LEMMA GrowsMore ==
  ASSUME NEW r, NEW q, NEW N, NEW R, NEW M, Grows(r, q, N, R), N \subseteq M
  PROVE  Grows(r, q, M, R)
  BY DEF Grows

\* A step that queues no job and adds nothing pending.
LEMMA Calm ==
  ASSUME NEW r \in TabState, NEW q \in TabState, NEW N, NEW R,
         q.pend = r.pend, q.jobs = r.jobs, q.site = r.site, q.phase = r.phase,
         Range(q.out) \subseteq MutationsOf(r) \cup N,
         \A f \in Range(q.inb) : f \in Range(r.inb) \/ f.kind # "committed" \/ f.id \in R
  PROVE  Grows(r, q, N, R) /\ (Fit(r) => Fit(q))
<1>1. MutationsOf(q) \subseteq MutationsOf(r) \cup N
  BY DEF MutationsOf
<1>2. ReceiptsOf(q) \subseteq ReceiptsOf(r) \cup R
  BY DEF ReceiptsOf
<1> QED BY <1>1, <1>2 DEF Grows, Fit

\* A job is queued, with the tail as it is or with one mutation more.
LEMMA Queued ==
  ASSUME NEW r \in TabState, NEW q \in TabState, NEW N, NEW R, NEW j \in Job,
         q.jobs = Append(r.jobs, j), q.site = r.site, q.phase # "closed", r.phase # "closed",
         Range(q.pend) \subseteq Range(r.pend) \cup N, Range(r.pend) \subseteq Range(q.pend),
         Range(j.fb) \subseteq Range(q.pend),
         j.kind = "append" => j.m \in MutationsOf(r) \cup N,
         j.kind = "ack" => j.id \in ReceiptsOf(r) \cup R,
         Range(q.out) \subseteq Range(r.out), Range(q.inb) \subseteq Range(r.inb)
  PROVE  Grows(r, q, N, R) /\ (Fit(r) => Fit(q))
<1>1. Range(q.jobs) = Range(r.jobs) \cup {j}
  BY RangeAppend DEF TabState
<1>2. MutationsOf(q) \subseteq MutationsOf(r) \cup N
  BY <1>1 DEF MutationsOf
<1>3. ReceiptsOf(q) \subseteq ReceiptsOf(r) \cup R
  BY <1>1 DEF ReceiptsOf
<1>4. Fit(r) => Fit(q)
  BY <1>1 DEF Fit
<1> QED BY <1>2, <1>3, <1>4 DEF Grows

LEMMA CheckpointGrows ==
  ASSUME NEW r \in TabState, NEW N, NEW R, r.phase # "closed"
  PROVE  /\ Grows(r, Checkpoint(r), N, R) /\ (Fit(r) => Fit(Checkpoint(r)))
         /\ Checkpoint(r).phase = r.phase /\ Checkpoint(r).site = r.site
<1> DEFINE j == [kind |-> "checkpoint", fb |-> r.pend]
           q == Checkpoint(r)
<1>1. r.jobs \in Seq(Job) /\ r.pend \in Pending
  BY DEF TabState
<1>2. j \in Job /\ j.kind = "checkpoint" /\ j.fb = r.pend
  BY <1>1 DEF Job
<1>3. Append(r.jobs, j) \in Seq(Job)
  BY <1>1, <1>2, RangeAppend
<1>4. /\ q \in TabState /\ q.jobs = Append(r.jobs, j) /\ q.pend = r.pend /\ q.phase = r.phase
      /\ q.site = r.site /\ q.out = r.out /\ q.inb = r.inb
  BY <1>3 DEF Checkpoint, TabState
<1> HIDE DEF j, q
<1>5. Grows(r, q, N, R) /\ (Fit(r) => Fit(q))
  BY <1>2, <1>4, Queued
<1> QED BY <1>4, <1>5 DEF q

LEMMA DisconnectGrows ==
  ASSUME NEW r \in TabState, NEW N, NEW R
  PROVE  /\ Grows(r, Disconnect(r), N, R) /\ (Fit(r) => Fit(Disconnect(r)))
         /\ Disconnect(r).phase = r.phase /\ Disconnect(r).site = r.site
         /\ Disconnect(r) \in TabState
<1> DEFINE q == Disconnect(r)
<1>0. <<>> \in Pending /\ <<>> \in Seq(Frame)
  BY DEF Pending
<1>1. /\ q \in TabState /\ q.pend = r.pend /\ q.jobs = r.jobs /\ q.site = r.site
      /\ q.phase = r.phase /\ q.out = <<>> /\ q.inb = <<>>
  BY <1>0 DEF Disconnect, TabState
<1> HIDE DEF q
<1>2. Range(q.out) = {} /\ Range(q.inb) = {}
  BY <1>1, RangeEmpty
<1>3. Grows(r, q, N, R) /\ (Fit(r) => Fit(q))
  BY <1>1, <1>2, Calm
<1> QED BY <1>1, <1>3 DEF q

LEMMA SendAllGrows ==
  ASSUME NEW r \in TabState, NEW N, NEW R, NEW ms \in Pending, Range(ms) \subseteq MutationsOf(r) \cup N
  PROVE  Grows(r, SendAll(r, ms), N, R) /\ (Fit(r) => Fit(SendAll(r, ms)))
<1> DEFINE q == SendAll(r, ms)
<1>1. r.out \o ms \in Pending /\ Range(r.out \o ms) = Range(r.out) \cup Range(ms)
  BY RangeConcat DEF TabState, Pending
<1>2. q \in TabState /\ q.pend = r.pend /\ q.jobs = r.jobs /\ q.site = r.site
      /\ q.phase = r.phase /\ q.inb = r.inb /\ q.out \in {r.out, r.out \o ms}
  BY <1>1 DEF SendAll, TabState
<1> HIDE DEF q
<1>3. Range(q.out) \subseteq MutationsOf(r) \cup N
  BY <1>1, <1>2 DEF MutationsOf
<1>4. Grows(r, q, N, R) /\ (Fit(r) => Fit(q))
  BY <1>2, <1>3, Calm
<1> QED BY <1>4 DEF q

LEMMA PersistGrows ==
  ASSUME NEW r \in TabState, NEW R, r.phase # "closed", NEW ops \in Ops, NEW id \in Nat,
         NEW broadcast \in BOOLEAN
  PROVE  LET q == Persist(r, ops, broadcast, id)
         IN  Grows(r, q, {[id |-> id, ops |-> ops]}, R) /\ (Fit(r) => Fit(q))
<1> DEFINE m == [id |-> id, ops |-> ops]
           p == Append(r.pend, m)
           j == [kind |-> "append", m |-> m, fb |-> p, broadcast |-> broadcast]
           q == Persist(r, ops, broadcast, id)
<1>1. m \in Mutation /\ r.pend \in Pending /\ r.jobs \in Seq(Job)
  BY DEF Mutation, TabState
<1> HIDE DEF m
<1>2. p \in Pending /\ Range(p) = Range(r.pend) \cup {m}
  BY <1>1, RangeAppend DEF Pending
<1> HIDE DEF p
<1>3. j \in Job /\ j.kind = "append" /\ j.m = m /\ j.fb = p
  BY <1>1, <1>2 DEF Job
<1>4. Append(r.jobs, j) \in Seq(Job)
  BY <1>1, <1>3, RangeAppend
<1>5. q = [r EXCEPT !.pend = p, !.status = IF Access /\ r.synced THEN "saving" ELSE r.status,
                    !.jobs = Append(r.jobs, j)]
  BY DEF Persist, m, p, j
<1> HIDE DEF j, q
<1>6. /\ q \in TabState /\ q.jobs = Append(r.jobs, j) /\ q.pend = p /\ q.phase = r.phase
      /\ q.site = r.site /\ q.out = r.out /\ q.inb = r.inb
  BY <1>2, <1>4, <1>5 DEF TabState
<1>7. Grows(r, q, {m}, R) /\ (Fit(r) => Fit(q))
  BY <1>2, <1>3, <1>6, Queued
<1> QED BY <1>7 DEF q, m

LEMMA StatusGrows ==
  ASSUME NEW r \in TabState, NEW N, NEW R, NEW s \in {"connected", "saving"}
  PROVE  /\ Grows(r, SetStatus(r, s), N, R) /\ (Fit(r) => Fit(SetStatus(r, s)))
         /\ SetStatus(r, s) \in TabState /\ MutationsOf(SetStatus(r, s)) = MutationsOf(r)
         /\ SetStatus(r, s).pend = r.pend /\ SetStatus(r, s).doc = r.doc
         /\ SetStatus(r, s).phase = r.phase
<1> DEFINE q == SetStatus(r, s)
<1>1. /\ q \in TabState /\ q.pend = r.pend /\ q.jobs = r.jobs /\ q.site = r.site
      /\ q.phase = r.phase /\ q.out = r.out /\ q.inb = r.inb /\ q.doc = r.doc
  BY DEF SetStatus, TabState
<1> HIDE DEF q
<1>2. MutationsOf(q) = MutationsOf(r) /\ Range(q.out) \subseteq MutationsOf(r) \cup N
  BY <1>1 DEF MutationsOf
<1>3. Grows(r, q, N, R) /\ (Fit(r) => Fit(q))
  BY <1>1, <1>2, Calm
<1> QED BY <1>1, <1>2, <1>3 DEF q

LEMMA SendMissingGrows ==
  ASSUME NEW r \in TabState, NEW R, r.phase # "closed", NEW version \in Ops, NEW id \in Nat
  PROVE  LET q == SendMissing(r, version, id)
         IN  Grows(r, q, {[id |-> id, ops |-> r.doc \ version]}, R) /\ (Fit(r) => Fit(q))
<1> DEFINE q == SendMissing(r, version, id)
           N == {[id |-> id, ops |-> r.doc \ version]}
<1>1. r.pend \in Pending /\ Range(r.pend) \subseteq MutationsOf(r) \cup N
      /\ r.doc \ version \in Ops
  BY OpsClosed DEF TabState, MutationsOf
<1>2. CASE r.pend # <<>>
  BY <1>1, <1>2, SendAllGrows DEF SendMissing
<1>3. CASE r.pend = <<>> /\ r.doc = version
  <2>1. q = IF r.synced THEN SetStatus(r, "connected") ELSE r
    BY <1>3 DEF SendMissing
  <2>2. Grows(r, r, N, R)
    BY DEF Grows
  <2> QED BY <2>1, <2>2, StatusGrows
<1>4. CASE r.pend = <<>> /\ r.doc # version
  <2>1. q = Persist(r, r.doc \ version, FALSE, id)
    BY <1>4 DEF SendMissing
  <2> QED BY <1>1, <2>1, PersistGrows
<1> QED BY <1>2, <1>3, <1>4

LEMMA SynchronizeGrows ==
  ASSUME NEW r \in TabState, NEW R, r.phase # "closed", NEW id \in Nat
  PROVE  LET q == Synchronize(r, id)
         IN  Grows(r, q, {[id |-> id, ops |-> r.doc \ r.svv]}, R) /\ (Fit(r) => Fit(q))
<1> DEFINE q == Synchronize(r, id)
           N == {[id |-> id, ops |-> r.doc \ r.svv]}
<1>1. r.pend \in Pending /\ Range(r.pend) \subseteq MutationsOf(r) /\ r.svv \in Ops
  BY DEF TabState, MutationsOf
<1>2. CASE r.pend # <<>>
  <2> DEFINE p == SetStatus(r, "saving")
  <2>1. Grows(r, p, N, R) /\ (Fit(r) => Fit(p)) /\ p \in TabState /\ MutationsOf(p) = MutationsOf(r)
    BY StatusGrows
  <2>2. q = SendAll(p, r.pend)
    BY <1>2 DEF Synchronize
  <2> HIDE DEF p
  <2>3. Grows(p, q, N, R) /\ (Fit(p) => Fit(q))
    BY <1>1, <2>1, <2>2, SendAllGrows
  <2> QED BY <2>1, <2>3, GrowsOn
<1>3. CASE r.pend = <<>> /\ r.hasVV
  <2>1. q = SendMissing(r, r.svv, id)
    BY <1>3 DEF Synchronize
  <2> QED BY <1>1, <2>1, SendMissingGrows
<1>4. CASE r.pend = <<>> /\ ~r.hasVV
  <2>1. q = SetStatus(r, "connected")
    BY <1>4 DEF Synchronize
  <2> QED BY <2>1, StatusGrows
<1> QED BY <1>2, <1>3, <1>4

------------------------------------------------------------------------------
(* A step of the whole.                                                     *)

LEMMA HeldBy ==
  \A m \in Mutations : m \in Range(journal.pending) \/ \E t \in ReplicaTabs : m \in MutationsOf(tab[t])
<1> SUFFICES ASSUME NEW m \in Mutations, m \notin Range(journal.pending)
             PROVE  \E t \in ReplicaTabs : m \in MutationsOf(tab[t])
  OBVIOUS
<1>1. m \in UNION {MutationsOf(tab[t]) : t \in ReplicaTabs}
  BY DEF Mutations
<1>2. PICK X \in {MutationsOf(tab[t]) : t \in ReplicaTabs} : m \in X
  BY <1>1
<1> QED BY <1>2

LEMMA MutationsAre ==
  Range(journal.pending) \subseteq Mutations /\ \A t \in ReplicaTabs : MutationsOf(tab[t]) \subseteq Mutations
<1>1. ASSUME NEW t \in ReplicaTabs PROVE MutationsOf(tab[t]) \subseteq Mutations
  <2>1. MutationsOf(tab[t]) \subseteq UNION {MutationsOf(tab[u]) : u \in ReplicaTabs}
    OBVIOUS
  <2> QED BY <2>1 DEF Mutations
<1>2. Range(journal.pending) \subseteq Mutations
  BY DEF Mutations
<1> QED BY <1>1, <1>2

\* What is known after a step that adds one mutation under a fresh identifier and
\* receipts R of mutations the room then has.
LEMMA Step ==
  ASSUME ReplicaInv, NEW n \in Mutation, n.id = FreshId,
         NEW R, IsFiniteSet(R),
         \A id \in R : \E m \in Mutations : m.id = id /\ m.ops \subseteq server',
         TypeOK', \A t \in ReplicaTabs : Grows(tab[t], tab'[t], Mutations \cup {n}, R),
         server \subseteq server', Range(journal'.pending) \subseteq Mutations, Carried', ToldKept'
  PROVE  ReplicaInv'
<1>1. /\ FreshId \notin Receipts /\ \A m \in Mutations : m.id # FreshId
  BY FreshIdFree DEF ReplicaInv
<1>2. Mutations' \subseteq Mutations \cup {n}
  <2> SUFFICES ASSUME NEW m \in Mutations' PROVE m \in Mutations \cup {n}
    OBVIOUS
  <2>1. CASE m \in Range(journal'.pending)
    BY <2>1
  <2>2. CASE \E t \in ReplicaTabs : m \in MutationsOf(tab[t])'
    <3>1. PICK t \in ReplicaTabs : m \in MutationsOf(tab[t])'
      BY <2>2
    <3>2. m \in MutationsOf(tab[t]) \cup Mutations \cup {n}
      BY <3>1 DEF Grows, MutationsOf
    <3> QED BY <3>2, MutationsAre
  <2>3. m \in Range(journal'.pending) \/ \E t \in ReplicaTabs : m \in MutationsOf(tab[t])'
    <3> SUFFICES ASSUME m \notin Range(journal'.pending)
                 PROVE  \E t \in ReplicaTabs : m \in MutationsOf(tab[t])'
      OBVIOUS
    <3>1. m \in (UNION {MutationsOf(tab[t]) : t \in ReplicaTabs})'
      BY DEF Mutations
    <3>2. PICK X \in {MutationsOf(tab[t])' : t \in ReplicaTabs} : m \in X
      BY <3>1
    <3> QED BY <3>2
  <2> QED BY <2>1, <2>2, <2>3
<1>3. Receipts' \subseteq Receipts \cup R
  BY DEF Grows, Receipts
<1>4. IsFiniteSet(Mutations')
  <2>1. IsFiniteSet(Mutations \cup {n})
    BY FS_AddElement DEF ReplicaInv
  <2> QED BY <1>2, <2>1, FS_Subset
<1>5. IsFiniteSet(Receipts')
  <2>1. IsFiniteSet(Receipts \cup R)
    BY FS_Union DEF ReplicaInv
  <2> QED BY <1>3, <2>1, FS_Subset
<1>6. Sited'
  BY DEF Grows, Sited, ReplicaInv
<1>7. OneContent'
  BY <1>1, <1>2 DEF OneContent, ReplicaInv
<1>8. Receipted'
  <2> SUFFICES ASSUME NEW m \in Mutations', m.id \in Receipts' PROVE m.ops \subseteq server'
    BY DEF Receipted
  <2>1. CASE m.id \in R
    <3>1. PICK k \in Mutations : k.id = m.id /\ k.ops \subseteq server'
      BY <2>1
    <3>2. m \in Mutations
      BY <1>1, <1>2, <3>1
    <3> QED BY <3>1, <3>2 DEF OneContent, ReplicaInv
  <2>2. CASE m.id \in Receipts
    <3>1. m \in Mutations
      BY <1>1, <1>2, <2>2
    <3> QED BY <2>2, <3>1 DEF Receipted, ReplicaInv
  <2> QED BY <1>3, <2>1, <2>2
<1> QED BY <1>4, <1>5, <1>6, <1>7, <1>8 DEF ReplicaInv

\* A step that leaves the journal and what was told alone.
LEMMA TabsStep ==
  ASSUME ReplicaInv, NEW n \in Mutation, n.id = FreshId,
         NEW R, IsFiniteSet(R),
         \A id \in R : \E m \in Mutations : m.id = id /\ m.ops \subseteq server',
         tab' \in [ReplicaTabs -> TabState],
         \A t \in ReplicaTabs : Grows(tab[t], tab'[t], Mutations \cup {n}, R) /\ (Fit(tab[t]) => Fit(tab'[t])),
         server' \in Ops, server \subseteq server', UNCHANGED <<journal, told>>,
         used' \in Used
  PROVE  ReplicaInv'
<1>1. TypeOK'
  BY DEF TypeOK, ReplicaInv
<1>2. Carried'
  BY DEF Carried, Stored, Fit, ReplicaInv
<1>3. ToldKept'
  BY DEF ToldKept, OpsOf, ReplicaInv
<1>4. Range(journal'.pending) \subseteq Mutations
  BY MutationsAre
<1> QED BY <1>1, <1>2, <1>3, <1>4, Step

\* One tab moves.
LEMMA PutStep ==
  ASSUME ReplicaInv, NEW t \in ReplicaTabs, NEW q, Put(t, q), NEW n \in Mutation, n.id = FreshId,
         Grows(tab[t], q, Mutations \cup {n}, {}), Fit(tab[t]) => Fit(q), UNCHANGED <<journal, server, told>>,
         used' \in Used
  PROVE  ReplicaInv'
<1>1. tab \in [ReplicaTabs -> TabState] /\ server \in Ops
  BY DEF ReplicaInv, TypeOK
<1>2. q \in TabState
  BY DEF Grows
<1>3. tab' \in [ReplicaTabs -> TabState] /\ tab'[t] = q /\ \A u \in ReplicaTabs \ {t} : tab'[u] = tab[u]
  BY <1>1, <1>2 DEF Put
<1>4. \A u \in ReplicaTabs : Grows(tab[u], tab[u], Mutations \cup {n}, {})
  BY <1>1 DEF Grows
<1>5. \A u \in ReplicaTabs : Grows(tab[u], tab'[u], Mutations \cup {n}, {}) /\ (Fit(tab[u]) => Fit(tab'[u]))
  BY <1>3, <1>4
<1> QED BY <1>1, <1>3, <1>5, FS_EmptySet, TabsStep

\* One tab moves and posts to its siblings.
LEMMA PostedGrows ==
  ASSUME tab \in [ReplicaTabs -> TabState], NEW t \in ReplicaTabs, NEW q \in TabState, NEW msg \in Message,
         PutPosting(t, q, msg)
  PROVE  /\ tab' \in [ReplicaTabs -> TabState] /\ tab'[t] = q
         /\ \A u \in ReplicaTabs \ {t} : \A N, R : Grows(tab[u], tab'[u], N, R) /\ (Fit(tab[u]) => Fit(tab'[u]))
         /\ \A u \in ReplicaTabs \ {t} : tab'[u].jobs = tab[u].jobs /\ tab'[u].pend = tab[u].pend
<1>1. tab' = [u \in ReplicaTabs |-> IF u = t THEN q
                             ELSE IF Live(tab[u]) THEN [tab[u] EXCEPT !.chan = Append(tab[u].chan, msg)]
                             ELSE tab[u]]
  BY DEF PutPosting, Posted
<1>2. \A u \in ReplicaTabs : LET x == [tab[u] EXCEPT !.chan = Append(tab[u].chan, msg)]
                      IN  /\ x \in TabState /\ x.pend = tab[u].pend /\ x.jobs = tab[u].jobs
                          /\ x.site = tab[u].site /\ x.phase = tab[u].phase
                          /\ x.out = tab[u].out /\ x.inb = tab[u].inb
  <2> TAKE u \in ReplicaTabs
  <2>1. tab[u] \in TabState /\ Append(tab[u].chan, msg) \in Seq(Message)
    BY RangeAppend DEF TabState
  <2> QED BY <2>1 DEF TabState
<1>3. \A u \in ReplicaTabs \ {t} : /\ tab'[u] \in TabState /\ tab'[u].pend = tab[u].pend
                                   /\ tab'[u].jobs = tab[u].jobs /\ tab'[u].site = tab[u].site
                                   /\ tab'[u].phase = tab[u].phase /\ tab'[u].out = tab[u].out
                                   /\ tab'[u].inb = tab[u].inb
  BY <1>1, <1>2
<1>4. tab' \in [ReplicaTabs -> TabState] /\ tab'[t] = q
  BY <1>1, <1>3
<1>5. ASSUME NEW u \in ReplicaTabs \ {t}, NEW N, NEW R
      PROVE  Grows(tab[u], tab'[u], N, R) /\ (Fit(tab[u]) => Fit(tab'[u]))
  <2>1. Range(tab'[u].out) \subseteq MutationsOf(tab[u]) \cup N
    BY <1>3 DEF MutationsOf
  <2> QED BY <1>3, <2>1, Calm
<1> QED BY <1>3, <1>4, <1>5

LEMMA PostStep ==
  ASSUME ReplicaInv, NEW t \in ReplicaTabs, NEW q, NEW msg \in Message, PutPosting(t, q, msg),
         NEW n \in Mutation, n.id = FreshId,
         Grows(tab[t], q, Mutations \cup {n}, {}), Fit(tab[t]) => Fit(q), UNCHANGED <<journal, server, told>>,
         used' \in Used
  PROVE  ReplicaInv'
<1>1. tab \in [ReplicaTabs -> TabState] /\ server \in Ops
  BY DEF ReplicaInv, TypeOK
<1>2. q \in TabState
  BY DEF Grows
<1>3. /\ tab' \in [ReplicaTabs -> TabState] /\ tab'[t] = q
      /\ \A u \in ReplicaTabs \ {t} : Grows(tab[u], tab'[u], Mutations \cup {n}, {}) /\ (Fit(tab[u]) => Fit(tab'[u]))
  BY <1>1, <1>2, PostedGrows
<1>4. \A u \in ReplicaTabs : Grows(tab[u], tab'[u], Mutations \cup {n}, {}) /\ (Fit(tab[u]) => Fit(tab'[u]))
  BY <1>3
<1> QED BY <1>1, <1>3, <1>4, FS_EmptySet, TabsStep

------------------------------------------------------------------------------
(* The actions.                                                             *)

LEMMA Facts ==
  ASSUME ReplicaInv, NEW t \in ReplicaTabs
  PROVE  /\ tab \in [ReplicaTabs -> TabState] /\ tab[t] \in TabState /\ used \in Used
         /\ journal \in [site: Nat, snap: Ops, pending: Pending] /\ server \in Ops
         /\ told \in Ops
         /\ tab[t].phase # "closed" => /\ tab[t].site # 0
                                       /\ MaxOpens = 0 => t \in InitialOpen /\ tab[t].site = InitialSite[t]
         /\ \A ops \in Ops : [id |-> FreshId, ops |-> ops] \in Mutation
         /\ FreshId \in Nat /\ {} \in Ops /\ <<>> \in Pending
<1>1. FreshId \in Nat
  BY FreshIdFree DEF ReplicaInv
<1>2. {} \in Ops
  BY FS_EmptySet DEF Ops
<1> QED BY <1>1, <1>2 DEF ReplicaInv, TypeOK, Used, Sited, Mutation, Pending

LEMMA Spent ==
  ASSUME used \in Used, NEW what \in {"edits", "drops", "opens", "asks", "closes", "faults", "saves"},
         Spend(what), what = "opens" => used.opens < MaxOpens
  PROVE  used' \in Used
  BY DEF Spend, Used

\* PutStep for a step that makes no mutation.
LEMMA CalmStep ==
  ASSUME ReplicaInv, NEW t \in ReplicaTabs, NEW q, Put(t, q), Grows(tab[t], q, Mutations, {}),
         Fit(tab[t]) => Fit(q), UNCHANGED <<journal, server, told>>, used' \in Used
  PROVE  ReplicaInv'
<1> DEFINE n == [id |-> FreshId, ops |-> {}]
<1>1. n \in Mutation /\ n.id = FreshId
  BY Facts
<1> HIDE DEF n
<1>2. Grows(tab[t], q, Mutations \cup {n}, {})
  BY GrowsMore
<1> QED BY <1>1, <1>2, PutStep DEF Used

LEMMA CalmPost ==
  ASSUME ReplicaInv, NEW t \in ReplicaTabs, NEW q, NEW msg \in Message, PutPosting(t, q, msg),
         Grows(tab[t], q, Mutations, {}), Fit(tab[t]) => Fit(q),
         UNCHANGED <<journal, server, told>>, used' \in Used
  PROVE  ReplicaInv'
<1> DEFINE n == [id |-> FreshId, ops |-> {}]
<1>1. n \in Mutation /\ n.id = FreshId
  BY Facts
<1> HIDE DEF n
<1>2. Grows(tab[t], q, Mutations \cup {n}, {})
  BY GrowsMore
<1> QED BY <1>1, <1>2, PostStep DEF Used

LEMMA ClosedGrows ==
  ASSUME NEW r, NEW N, NEW R
  PROVE  Closed \in TabState /\ Grows(r, Closed, N, R) /\ Fit(Closed)
<1>1. <<>> \in Pending /\ <<>> \in Seq(Frame) /\ <<>> \in Seq(Job) /\ <<>> \in Seq(Message) /\ {} \in Ops
  BY FS_EmptySet DEF Pending, Ops
<1>2. /\ Closed \in TabState /\ Closed.phase = "closed" /\ Closed.pend = <<>> /\ Closed.jobs = <<>>
      /\ Closed.out = <<>> /\ Closed.inb = <<>>
  BY <1>1 DEF Closed, TabState
<1> QED BY <1>2, RangeEmpty DEF Grows, Fit, MutationsOf, ReceiptsOf

\* A tab opens, on the journal if there is one.
LEMMA OpenInv ==
  ASSUME ReplicaInv, ReplicaAssumption, NEW t \in ReplicaTabs, Open(t)
  PROVE  ReplicaInv'
<1>1. used' \in Used
  BY Facts, Spent DEF Open
<1>2. NewSite \in Nat \ {0}
  <2>1. IsFiniteSet(InitialOpen)
    BY FS_Subset DEF ReplicaAssumption
  <2>2. Cardinality(InitialOpen) \in Nat
    BY <2>1, FS_CardinalityType
  <2> QED BY <2>2, Facts DEF NewSite, Used
<1>3. PICK fetched \in BOOLEAN :
        LET r0 == IF Stored
                  THEN [Fresh(journal.site) EXCEPT
                          !.pend = journal.pending, !.saved = TRUE,
                          !.doc = Import(journal.snap, OpsOf(journal.pending))]
                  ELSE Fresh(NewSite)
        IN  PutPosting(t, [r0 EXCEPT !.doc = IF fetched THEN Import(r0.doc, server) ELSE r0.doc],
                       [kind |-> "ask"])
  BY DEF Open
<1> DEFINE site == IF Stored THEN journal.site ELSE NewSite
           c == [Closed EXCEPT !.phase = "live", !.site = site,
                               !.status = IF Access THEN "connecting" ELSE "connected"]
           k == Checkpoint(c)
<1>4. site \in Nat \ {0}
  BY <1>2, Facts DEF Stored
<1>5. /\ c \in TabState /\ c.phase = "live" /\ c.site = site /\ c.pend = <<>> /\ c.out = <<>>
      /\ c.inb = <<>> /\ c.jobs = <<>> /\ c.doc = {}
  <2>1. Closed \in TabState
    BY ClosedGrows
  <2> HIDE DEF site
  <2> QED BY <1>4, <2>1 DEF Closed, TabState
<1>6. k = Fresh(site)
  BY DEF Fresh
<1>7. k = [c EXCEPT !.jobs = Append(c.jobs, [kind |-> "checkpoint", fb |-> c.pend])]
  BY DEF Checkpoint
<1> HIDE DEF site, c
<1>8. /\ k \in TabState /\ k.phase = "live" /\ k.site = site /\ k.pend = <<>> /\ k.out = <<>>
      /\ k.inb = <<>> /\ k.doc = {} /\ k.jobs = Append(<<>>, [kind |-> "checkpoint", fb |-> <<>>])
  <2>1. Grows(c, k, {}, {})
    BY <1>5, CheckpointGrows
  <2> QED BY <1>5, <1>7, <2>1 DEF Grows, TabState
<1> HIDE DEF k
<1> DEFINE pend == IF Stored THEN journal.pending ELSE <<>>
<1>9. OpsOf(journal.pending) \in Ops
  <2>1. IsFiniteSet(Range(journal.pending))
    BY MutationsAre, FS_Subset DEF ReplicaInv
  <2> DEFINE f == [m \in Range(journal.pending) |-> m.ops]
             S == {m.ops : m \in Range(journal.pending)}
  <2>2. f \in Surjection(Range(journal.pending), S)
    BY DEF Surjection
  <2>3. IsFiniteSet(S)
    BY <2>1, <2>2, FS_Surjection
  <2>4. S \subseteq Ops
    <3>1. Range(journal.pending) \subseteq Mutation
      BY Facts, RangeOf DEF Pending
    <3> QED BY <3>1 DEF Mutation
  <2>5. IsFiniteSet(UNION S) /\ UNION S \subseteq Op
    BY <2>3, <2>4, FS_UNION DEF Ops
  <2> QED BY <2>5 DEF OpsOf, Ops
<1>10. PICK q : /\ PutPosting(t, q, [kind |-> "ask"]) /\ q \in TabState /\ q.phase = "live"
                /\ q.site = site /\ q.pend = pend /\ q.out = <<>> /\ q.inb = <<>> /\ q.jobs = k.jobs
  <2> DEFINE r0 == IF Stored
                   THEN [Fresh(journal.site) EXCEPT
                          !.pend = journal.pending, !.saved = TRUE,
                          !.doc = Import(journal.snap, OpsOf(journal.pending))]
                   ELSE Fresh(NewSite)
             q == [r0 EXCEPT !.doc = IF fetched THEN Import(r0.doc, server) ELSE r0.doc]
  <2>1. PutPosting(t, q, [kind |-> "ask"])
    BY <1>3
  <2>2. r0 = IF Stored THEN [k EXCEPT !.pend = journal.pending, !.saved = TRUE,
                                      !.doc = Import(journal.snap, OpsOf(journal.pending))]
             ELSE k
    BY <1>6 DEF site
  <2> HIDE DEF r0
  <2>3. Import(journal.snap, OpsOf(journal.pending)) \in Ops
    BY <1>9, Facts, OpsClosed
  <2>4. /\ r0 \in TabState /\ r0.phase = "live" /\ r0.site = site /\ r0.pend = pend
        /\ r0.out = <<>> /\ r0.inb = <<>> /\ r0.jobs = k.jobs
    BY <1>8, <2>2, <2>3, Facts DEF TabState
  <2>5. Import(r0.doc, server) \in Ops /\ r0.doc \in Ops
    BY <2>4, Facts, OpsClosed DEF TabState
  <2>6. /\ q \in TabState /\ q.phase = "live" /\ q.site = site /\ q.pend = pend
        /\ q.out = <<>> /\ q.inb = <<>> /\ q.jobs = k.jobs
    BY <2>4, <2>5 DEF TabState
  <2> QED BY <2>1, <2>6
<1>11. Range(k.jobs) = {[kind |-> "checkpoint", fb |-> <<>>]}
  <2> DEFINE e == [kind |-> "checkpoint", fb |-> <<>>]
  <2>1. k.jobs = Append(<<>>, e)
    BY <1>8
  <2> HIDE DEF e
  <2>2. <<>> \in Seq({e}) /\ e \in {e}
    OBVIOUS
  <2>3. Range(Append(<<>>, e)) = {} \cup {e}
    BY <2>2, RangeAppend, RangeEmpty
  <2> QED BY <2>1, <2>3 DEF e
<1>12. Fit(q)
  BY <1>10, <1>11, RangeEmpty DEF Fit
<1>13. Grows(tab[t], q, Mutations, {})
  <2>0. MaxOpens # 0
    BY Facts DEF Open, ReplicaAssumption, Used
  <2>1. MutationsOf(q) \subseteq Mutations
    BY <1>10, <1>11, RangeEmpty, MutationsAre DEF MutationsOf
  <2>2. ReceiptsOf(q) = {}
    BY <1>10, <1>11, RangeEmpty DEF ReceiptsOf
  <2> QED BY <1>4, <1>10, <2>0, <2>1, <2>2 DEF Grows
<1>14. [kind |-> "ask"] \in Message
  BY DEF Message
<1> QED BY <1>1, <1>10, <1>12, <1>13, <1>14, CalmPost DEF Open


\* A tab edits.
LEMMA EditInv ==
  ASSUME ReplicaInv, NEW t \in ReplicaTabs, Edit(t)
  PROVE  ReplicaInv'
<1> DEFINE r == tab[t]
           o == [site |-> r.site, seq |-> 1 + Cardinality({p \in r.doc : p.site = r.site}),
                 by |-> t, run |-> used.opens]
           p == [r EXCEPT !.doc = r.doc \cup {o}, !.saved = FALSE]
           n == [id |-> FreshId, ops |-> {o}]
           q == Persist(p, {o}, TRUE, FreshId)
<1>1. r \in TabState /\ r.phase = "live" /\ FreshId \in Nat /\ used' \in Used
  BY Facts, Spent DEF Edit, CanEdit, Live
<1>2. {o} \in Ops /\ r.doc \cup {o} \in Ops
  <2>1. Cardinality({u \in r.doc : u.site = r.site}) \in Nat
    <3>1. IsFiniteSet({u \in r.doc : u.site = r.site})
      BY <1>1, FS_Subset DEF TabState, Ops
    <3> QED BY <3>1, FS_CardinalityType
  <2>2. o \in Op
    <3>1. r.site \in Nat
      BY <1>1 DEF TabState
    <3>2. MaxOpens = 0 => t \in InitialOpen /\ r.site = InitialSite[t]
      BY <1>1, Facts
    <3>3. used.opens \in Nat /\ (MaxOpens = 0 => used.opens = 0)
      BY Facts DEF Used
    <3> QED BY <2>1, <3>1, <3>2, <3>3 DEF Op
  <2>3. IsFiniteSet({o})
    BY FS_Singleton
  <2>4. {o} \in Ops
    BY <2>2, <2>3 DEF Ops
  <2>5. r.doc \in Ops
    BY <1>1 DEF TabState
  <2> QED BY <2>4, <2>5, OpsClosed
<1>3. Put(t, q)
  BY DEF Edit
<1> HIDE DEF o, r
<1>4. /\ p \in TabState /\ p.phase = "live" /\ p.pend = r.pend /\ p.jobs = r.jobs /\ p.site = r.site
      /\ p.out = r.out /\ p.inb = r.inb
  BY <1>1, <1>2 DEF TabState
<1> HIDE DEF p
<1>5. Grows(r, p, {n}, {}) /\ (Fit(r) => Fit(p))
  BY <1>1, <1>4, Calm DEF MutationsOf
<1>6. Grows(p, q, {n}, {}) /\ (Fit(p) => Fit(q))
  BY <1>1, <1>2, <1>4, PersistGrows
<1> HIDE DEF q
<1>7. n \in Mutation /\ n.id = FreshId
  BY <1>2, Facts
<1> HIDE DEF n
<1>8. Grows(r, q, Mutations \cup {n}, {})
  BY <1>5, <1>6, GrowsOn, GrowsMore
<1> QED BY <1>1, <1>3, <1>5, <1>6, <1>7, <1>8, PutStep DEF Edit, Used, r

\* A tab saves, connects, or loses its socket.
LEMMA SaveInv ==
  ASSUME ReplicaInv, NEW t \in ReplicaTabs, SaveTimer(t) \/ Connect(t) \/ Drop(t)
  PROVE  ReplicaInv'
<1> DEFINE r == tab[t]
<1>1. r \in TabState /\ r.phase = "live" /\ used' \in Used
  BY Facts, Spent DEF SaveTimer, Connect, Drop, Live
<1>2. CASE SaveTimer(t)
  <2>1. Grows(r, Checkpoint(r), Mutations, {}) /\ (Fit(r) => Fit(Checkpoint(r)))
    BY <1>1, CheckpointGrows
  <2> QED BY <1>1, <1>2, <2>1, CalmStep DEF SaveTimer
<1>3. CASE Connect(t)
  <2> DEFINE a == [kind |-> "vv", ops |-> server]
             b == [kind |-> "update", ops |-> server \ r.doc]
             c == [kind |-> "synced"]
             q == [r EXCEPT !.sock = TRUE, !.synced = FALSE, !.status = "connecting",
                            !.inb = <<a, b, c>>]
  <2>1. Put(t, q)
    BY <1>3 DEF Connect
  <2>2. a \in Frame /\ b \in Frame /\ c \in Frame
    <3>1. server \in Ops /\ server \ r.doc \in Ops
      BY <1>1, Facts, OpsClosed DEF TabState
    <3> QED BY <3>1 DEF Frame
  <2>3. a.kind # "committed" /\ b.kind # "committed" /\ c.kind # "committed"
    OBVIOUS
  <2> HIDE DEF a, b, c
  <2>4. <<a, b, c>> \in Seq(Frame) /\ \A f \in Range(<<a, b, c>>) : f.kind # "committed"
    BY <2>2, <2>3 DEF Range
  <2>5. /\ q \in TabState /\ q.pend = r.pend /\ q.jobs = r.jobs /\ q.site = r.site
        /\ q.phase = r.phase /\ q.out = r.out /\ q.inb = <<a, b, c>>
    BY <1>1, <2>4 DEF TabState
  <2> HIDE DEF q
  <2>6. Grows(r, q, Mutations, {}) /\ (Fit(r) => Fit(q))
    BY <1>1, <2>4, <2>5, Calm DEF MutationsOf
  <2> QED BY <1>1, <1>3, <2>1, <2>6, CalmStep DEF Connect
<1>4. CASE Drop(t)
  <2>1. Grows(r, Disconnect(r), Mutations, {}) /\ (Fit(r) => Fit(Disconnect(r)))
    BY <1>1, DisconnectGrows
  <2> QED BY <1>1, <1>4, <2>1, CalmStep DEF Drop
<1> QED BY <1>2, <1>3, <1>4

\* A consumed frame.
LEMMA ConsumedIs ==
  ASSUME ReplicaInv, NEW t \in ReplicaTabs, NEW kind, Receiving(t, kind)
  PROVE  LET r == tab[t]
             q == Consumed(t)
             f == Head(r.inb)
         IN  /\ q \in TabState /\ q.pend = r.pend /\ q.jobs = r.jobs /\ q.site = r.site
             /\ q.phase = r.phase /\ r.phase = "live" /\ q.out = r.out /\ q.doc = r.doc
             /\ q.svv = r.svv /\ q.hasVV = r.hasVV
             /\ Range(q.inb) \subseteq Range(r.inb) /\ f \in Frame /\ f \in Range(r.inb) /\ f.kind = kind
             /\ \A N, R : Grows(r, q, N, R)
             /\ Fit(r) => Fit(q)
<1> DEFINE r == tab[t]
           q == Consumed(t)
<1>1. r \in TabState /\ r.inb \in Seq(Frame) /\ r.inb # <<>> /\ r.phase = "live" /\ Head(r.inb).kind = kind
  BY Facts DEF Receiving, Live, TabState
<1>2. /\ Tail(r.inb) \in Seq(Frame) /\ Range(Tail(r.inb)) \subseteq Range(r.inb)
      /\ Head(r.inb) \in Frame /\ Head(r.inb) \in Range(r.inb)
  BY <1>1, RangeTail
<1>3. q = [r EXCEPT !.inb = Tail(r.inb)]
  BY DEF Consumed
<1> HIDE DEF r, q
<1>4. /\ q \in TabState /\ q.pend = r.pend /\ q.jobs = r.jobs /\ q.site = r.site
      /\ q.phase = r.phase /\ q.out = r.out /\ q.inb = Tail(r.inb)
      /\ q.doc = r.doc /\ q.svv = r.svv /\ q.hasVV = r.hasVV
  BY <1>1, <1>2, <1>3 DEF TabState
<1>5. ASSUME NEW N, NEW R PROVE Grows(r, q, N, R) /\ (Fit(r) => Fit(q))
  BY <1>1, <1>2, <1>4, Calm DEF MutationsOf
<1> QED BY <1>1, <1>2, <1>4, <1>5 DEF r, q

\* A tab takes in the room's version or an update.
LEMMA OnUpdateInv ==
  ASSUME ReplicaInv, NEW t \in ReplicaTabs, OnServerVV(t) \/ OnUpdate(t)
  PROVE  ReplicaInv'
<1> DEFINE r == tab[t]
           c == Consumed(t)
           ops == Head(r.inb).ops
<1>1. /\ c \in TabState /\ c.pend = r.pend /\ c.jobs = r.jobs /\ c.site = r.site /\ r \in TabState
      /\ c.phase = r.phase /\ c.out = r.out /\ Range(c.inb) \subseteq Range(r.inb) /\ ops \in Ops
      /\ used' \in Used /\ c.doc \in Ops
  <2>1. ops \in Ops
    BY ConsumedIs DEF OnServerVV, OnUpdate, Frame
  <2>2. c.doc \in Ops
    BY ConsumedIs DEF OnServerVV, OnUpdate, TabState
  <2> QED BY ConsumedIs, Facts, <2>1, <2>2 DEF OnServerVV, OnUpdate
<1>2. PICK q : /\ Put(t, q) /\ q \in TabState /\ q.pend = c.pend /\ q.jobs = c.jobs /\ q.site = c.site
               /\ q.phase = c.phase /\ q.out = c.out /\ q.inb = c.inb
  <2>1. CASE OnServerVV(t)
    <3> DEFINE q == [c EXCEPT !.svv = ops, !.hasVV = TRUE]
    <3>1. Put(t, q)
      BY <2>1 DEF OnServerVV
    <3> HIDE DEF c, ops
    <3>2. q \in TabState /\ q.pend = c.pend /\ q.jobs = c.jobs /\ q.site = c.site
          /\ q.phase = c.phase /\ q.out = c.out /\ q.inb = c.inb
      BY <1>1 DEF TabState
    <3> QED BY <3>1, <3>2
  <2>2. CASE OnUpdate(t)
    <3> DEFINE q == [c EXCEPT !.doc = Import(c.doc, ops)]
    <3>1. Put(t, q)
      BY <2>2 DEF OnUpdate
    <3> HIDE DEF c, ops
    <3>2. Import(c.doc, ops) \in Ops
      BY <1>1, OpsClosed
    <3>3. q \in TabState /\ q.pend = c.pend /\ q.jobs = c.jobs /\ q.site = c.site
          /\ q.phase = c.phase /\ q.out = c.out /\ q.inb = c.inb
      BY <1>1, <3>2 DEF TabState
    <3> QED BY <3>1, <3>3
  <2> QED BY <2>1, <2>2
<1> HIDE DEF c, ops
<1>3. Grows(r, q, Mutations, {}) /\ (Fit(r) => Fit(q))
  BY <1>1, <1>2, Calm DEF MutationsOf
<1> QED BY <1>1, <1>2, <1>3, CalmStep DEF OnServerVV, OnUpdate

\* A tab has caught up and sends what the room lacks.
LEMMA OnSyncedInv ==
  ASSUME ReplicaInv, NEW t \in ReplicaTabs, OnSynced(t)
  PROVE  ReplicaInv'
<1> DEFINE r == tab[t]
           c == Consumed(t)
           p == [c EXCEPT !.synced = TRUE]
           q == Synchronize(p, FreshId)
           n == [id |-> FreshId, ops |-> p.doc \ p.svv]
<1>1. /\ c \in TabState /\ c.pend = r.pend /\ c.jobs = r.jobs /\ c.site = r.site /\ r \in TabState
      /\ c.phase = r.phase /\ c.out = r.out /\ Range(c.inb) \subseteq Range(r.inb) /\ r.phase = "live"
      /\ used' \in Used /\ FreshId \in Nat /\ Put(t, q)
  BY ConsumedIs, Facts DEF OnSynced
<1> HIDE DEF c
<1>2. p \in TabState /\ p.pend = c.pend /\ p.jobs = c.jobs /\ p.site = c.site
      /\ p.phase = c.phase /\ p.out = c.out /\ p.inb = c.inb
  BY <1>1 DEF TabState
<1> HIDE DEF p
<1>3. Grows(r, p, {n}, {}) /\ (Fit(r) => Fit(p))
  BY <1>1, <1>2, Calm DEF MutationsOf
<1>4. Grows(p, q, {n}, {}) /\ (Fit(p) => Fit(q))
  BY <1>1, <1>2, SynchronizeGrows
<1>5. n \in Mutation /\ n.id = FreshId
  <2>1. p.doc \ p.svv \in Ops
    BY <1>2, OpsClosed DEF TabState
  <2> QED BY <2>1, Facts
<1> HIDE DEF q, n
<1>6. Grows(r, q, Mutations \cup {n}, {})
  BY <1>3, <1>4, GrowsOn, GrowsMore
<1> QED BY <1>1, <1>3, <1>4, <1>5, <1>6, PutStep DEF OnSynced, Used

\* A receipt arrives: its journal write is queued.
LEMMA OnCommittedInv ==
  ASSUME ReplicaInv, NEW t \in ReplicaTabs, OnCommitted(t)
  PROVE  ReplicaInv'
<1> DEFINE r == tab[t]
           c == Consumed(t)
           f == Head(r.inb)
           j == [kind |-> "ack", id |-> f.id, ops |-> f.ops, fb |-> r.pend]
           q == [c EXCEPT !.svv = f.ops, !.hasVV = TRUE, !.jobs = Append(c.jobs, j)]
<1>1. /\ c \in TabState /\ c.pend = r.pend /\ c.jobs = r.jobs /\ c.site = r.site /\ r \in TabState
      /\ c.phase = r.phase /\ c.out = r.out /\ Range(c.inb) \subseteq Range(r.inb) /\ r.phase = "live"
      /\ f \in Frame /\ f.kind = "committed" /\ f \in Range(r.inb) /\ used' \in Used
      /\ Put(t, q)
  BY ConsumedIs, Facts DEF OnCommitted
<1>2. f.id \in Nat /\ f.ops \in Ops /\ f.id \in ReceiptsOf(r)
  BY <1>1 DEF Frame, ReceiptsOf
<1>3. j \in Job /\ j.kind = "ack" /\ j.id = f.id /\ j.fb = r.pend
  BY <1>1, <1>2 DEF Job, TabState
<1> HIDE DEF c, f, j
<1>4. Append(c.jobs, j) \in Seq(Job)
  BY <1>1, <1>3, RangeAppend DEF TabState
<1>5. /\ q \in TabState /\ q.pend = r.pend /\ q.jobs = Append(r.jobs, j) /\ q.site = r.site
      /\ q.phase = "live" /\ q.out = r.out /\ q.inb = c.inb
  BY <1>1, <1>2, <1>4 DEF TabState
<1> HIDE DEF q
<1>6. Grows(r, q, Mutations, {}) /\ (Fit(r) => Fit(q))
  BY <1>1, <1>2, <1>3, <1>5, Queued
<1> QED BY <1>1, <1>6, CalmStep DEF OnCommitted

\* The room commits a mutation: it has all of it, since identities are distinct.
LEMMA CommitInv ==
  ASSUME ReplicaInv, Distinct, NEW t \in ReplicaTabs, Commit(t)
  PROVE  ReplicaInv'
<1> DEFINE r == tab[t]
           m == Head(r.out)
           next == Import(server, m.ops)
           new == next \ server
           a == [kind |-> "committed", id |-> m.id, ops |-> next]
           b == [kind |-> "update", ops |-> new]
           q == [r EXCEPT !.out = Tail(r.out), !.inb = Append(r.inb, a)]
           n == [id |-> FreshId, ops |-> {}]
<1>1. /\ r \in TabState /\ tab \in [ReplicaTabs -> TabState] /\ server \in Ops /\ used' \in Used
      /\ r.out \in Seq(Mutation) /\ r.out # <<>> /\ n \in Mutation /\ n.id = FreshId
  BY Facts DEF Commit, TabState, Pending
<1>2. /\ m \in Mutation /\ m \in Range(r.out) /\ Tail(r.out) \in Pending
      /\ Range(Tail(r.out)) \subseteq Range(r.out)
  BY <1>1, RangeTail DEF Pending
<1>3. m \in Mutations
  BY <1>2, MutationsAre DEF MutationsOf
<1>4. /\ server' = next
      /\ tab' = [u \in ReplicaTabs |->
           IF u = t THEN q
           ELSE IF tab[u].sock /\ new # {} THEN [tab[u] EXCEPT !.inb = Append(tab[u].inb, b)]
           ELSE tab[u]]
  BY DEF Commit
<1>5. next \in Ops /\ new \in Ops /\ m.ops \in Ops
  BY <1>1, <1>2, OpsClosed DEF Mutation
<1>6. server \subseteq next
  BY DEF Import
<1>7. m.ops \subseteq next
  <2> SUFFICES ASSUME NEW o \in m.ops PROVE o \in next
    OBVIOUS
  <2>1. o \in UNION {k.ops : k \in Mutations}
    BY <1>3
  <2>2. \A p \in server : Id(p) # Id(o) \/ p = o
    BY <2>1 DEF Distinct
  <2> QED BY <2>2 DEF Import
<1>8. a \in Frame /\ b \in Frame /\ a.id = m.id /\ b.kind = "update"
  BY <1>2, <1>5 DEF Frame, Mutation
<1> HIDE DEF m, next, new, a, b
<1>9. Grows(r, q, Mutations \cup {n}, {m.id}) /\ (Fit(r) => Fit(q)) /\ q \in TabState
  <2>1. Append(r.inb, a) \in Seq(Frame) /\ Range(Append(r.inb, a)) = Range(r.inb) \cup {a}
    BY <1>1, <1>8, RangeAppend DEF TabState
  <2>2. /\ q \in TabState /\ q.pend = r.pend /\ q.jobs = r.jobs /\ q.site = r.site
        /\ q.phase = r.phase /\ q.out = Tail(r.out) /\ q.inb = Append(r.inb, a)
    BY <1>1, <1>2, <2>1 DEF TabState
  <2> HIDE DEF q, r, n
  <2>3. Range(q.out) \subseteq MutationsOf(r) \cup (Mutations \cup {n})
    BY <1>2, <2>2 DEF MutationsOf
  <2>4. \A f \in Range(q.inb) : f \in Range(r.inb) \/ f.kind # "committed" \/ f.id \in {m.id}
    BY <1>8, <2>1, <2>2
  <2> QED BY <1>1, <2>2, <2>3, <2>4, Calm
<1>10. ASSUME NEW u \in ReplicaTabs
       PROVE  LET x == [tab[u] EXCEPT !.inb = Append(tab[u].inb, b)]
              IN  Grows(tab[u], x, Mutations \cup {n}, {m.id}) /\ (Fit(tab[u]) => Fit(x)) /\ x \in TabState
  <2> DEFINE s == tab[u]
             x == [s EXCEPT !.inb = Append(s.inb, b)]
  <2>1. s \in TabState
    BY <1>1
  <2> HIDE DEF s
  <2>2. Append(s.inb, b) \in Seq(Frame) /\ Range(Append(s.inb, b)) = Range(s.inb) \cup {b}
    BY <1>8, <2>1, RangeAppend DEF TabState
  <2>3. /\ x \in TabState /\ x.pend = s.pend /\ x.jobs = s.jobs /\ x.site = s.site
        /\ x.phase = s.phase /\ x.out = s.out /\ x.inb = Append(s.inb, b)
    BY <2>1, <2>2 DEF TabState
  <2> HIDE DEF x
  <2>4. Grows(s, x, Mutations \cup {n}, {m.id}) /\ (Fit(s) => Fit(x))
    BY <1>8, <2>1, <2>2, <2>3, Calm DEF MutationsOf
  <2> QED BY <2>3, <2>4 DEF x, s
<1> HIDE DEF q, n
<1>11. \A u \in ReplicaTabs : Grows(tab[u], tab[u], Mutations \cup {n}, {m.id})
  BY <1>1 DEF Grows
<1>12. \A u \in ReplicaTabs : /\ tab'[u] \in TabState /\ Grows(tab[u], tab'[u], Mutations \cup {n}, {m.id})
                              /\ Fit(tab[u]) => Fit(tab'[u])
  <2> TAKE u \in ReplicaTabs
  <2>1. CASE u = t
    BY <1>4, <1>9, <2>1
  <2>2. CASE u # t /\ tab[u].sock /\ new # {}
    BY <1>4, <1>10, <2>2
  <2>3. CASE u # t /\ ~(tab[u].sock /\ new # {})
    BY <1>1, <1>4, <1>11, <2>3
  <2> QED BY <2>1, <2>2, <2>3
<1>13. tab' \in [ReplicaTabs -> TabState]
  BY <1>4, <1>12
<1>14. IsFiniteSet({m.id}) /\ \A id \in {m.id} : \E k \in Mutations : k.id = id /\ k.ops \subseteq server'
  BY <1>3, <1>4, <1>7, FS_Singleton
<1> QED BY <1>1, <1>4, <1>5, <1>6, <1>12, <1>13, <1>14, TabsStep DEF Commit, Used

\* A tab that goes on in another phase, with any channel.
LEMMA Phased ==
  ASSUME NEW r \in TabState, NEW q \in TabState, NEW N, NEW R, r.phase # "closed",
         q.pend = r.pend, q.jobs = r.jobs, q.site = r.site, q.out = r.out, q.inb = r.inb
  PROVE  Grows(r, q, N, R) /\ (Fit(r) => Fit(q))
  BY DEF Grows, Fit, MutationsOf, ReceiptsOf

\* A tab stops writing, is closed, fails or is gone.
LEMMA StopInv ==
  ASSUME ReplicaInv, NEW t \in ReplicaTabs, Forbid(t) \/ FailJob(t) \/ Close(t) \/ Gone(t)
  PROVE  ReplicaInv'
<1> DEFINE r == tab[t]
           d == Disconnect(r)
           k == Checkpoint(d)
<1>1. r \in TabState
  BY Facts
<1>2. d \in TabState /\ d.phase = r.phase /\ d.site = r.site /\ Grows(r, d, Mutations, {}) /\ (Fit(r) => Fit(d))
  BY <1>1, DisconnectGrows
<1>3. ASSUME r.phase # "closed"
      PROVE  k \in TabState /\ k.phase # "closed" /\ Grows(r, k, Mutations, {}) /\ (Fit(r) => Fit(k))
  <2> HIDE DEF d
  <2>1. k.phase = d.phase /\ Grows(d, k, Mutations, {}) /\ (Fit(d) => Fit(k))
    BY <1>2, <1>3, CheckpointGrows
  <2>2. k \in TabState
    BY <2>1 DEF Grows
  <2> QED BY <1>2, <1>3, <2>1, <2>2, GrowsOn
<1>4. CASE Forbid(t)
  <2> DEFINE q == [k EXCEPT !.phase = "terminal"]
  <2>1. Put(t, q) /\ r.phase = "live"
    BY <1>4 DEF Forbid, Terminal, Live
  <2>2. used' \in Used
    BY <1>4, Facts DEF Forbid
  <2> HIDE DEF k
  <2>3. /\ q \in TabState /\ q.pend = k.pend /\ q.jobs = k.jobs /\ q.site = k.site
        /\ q.out = k.out /\ q.inb = k.inb
    BY <1>3, <2>1 DEF TabState
  <2> HIDE DEF q
  <2>4. Grows(k, q, Mutations, {}) /\ (Fit(k) => Fit(q))
    BY <1>3, <2>1, <2>3, Phased
  <2> QED BY <1>3, <1>4, <2>1, <2>2, <2>4, GrowsOn, CalmStep DEF Forbid
<1>5. CASE FailJob(t)
  <2> DEFINE q == [d EXCEPT !.phase = "fatal", !.jobs = <<>>, !.saved = FALSE]
  <2>1. Put(t, q) /\ r.phase = "live"
    BY <1>5 DEF FailJob, StorageFatal, Live
  <2>2. used' \in Used
    BY <1>5, Facts, Spent DEF FailJob
  <2> HIDE DEF d
  <2>3. /\ q \in TabState /\ q.pend = d.pend /\ q.jobs = <<>> /\ q.site = d.site
        /\ q.out = d.out /\ q.inb = d.inb
    <3>1. <<>> \in Seq(Job)
      OBVIOUS
    <3> QED BY <1>2, <3>1 DEF TabState
  <2> HIDE DEF q
  <2>4. Grows(d, q, Mutations, {}) /\ Fit(q)
    BY <1>2, <2>1, <2>3, RangeEmpty DEF Grows, Fit, MutationsOf, ReceiptsOf
  <2> QED BY <1>2, <1>5, <2>1, <2>2, <2>4, GrowsOn, CalmStep DEF FailJob
<1>6. CASE Close(t)
  <2> DEFINE q == [k EXCEPT !.phase = "closing", !.chan = <<>>]
  <2>1. Put(t, q) /\ r.phase = "live"
    BY <1>6 DEF Close, Live
  <2>2. used' \in Used
    BY <1>6, Facts, Spent DEF Close
  <2> HIDE DEF k
  <2>3. /\ q \in TabState /\ q.pend = k.pend /\ q.jobs = k.jobs /\ q.site = k.site
        /\ q.out = k.out /\ q.inb = k.inb
    <3>1. <<>> \in Seq(Message)
      OBVIOUS
    <3> QED BY <1>3, <2>1, <3>1 DEF TabState
  <2> HIDE DEF q
  <2>4. Grows(k, q, Mutations, {}) /\ (Fit(k) => Fit(q))
    BY <1>3, <2>1, <2>3, Phased
  <2> QED BY <1>3, <1>6, <2>1, <2>2, <2>4, GrowsOn, CalmStep DEF Close
<1>7. CASE Gone(t)
  <2>1. used' \in Used
    BY <1>7, Facts, Spent DEF Gone
  <2>2. Grows(r, Closed, Mutations, {}) /\ Fit(Closed)
    BY ClosedGrows
  <2> QED BY <1>7, <2>1, <2>2, CalmStep DEF Gone
<1> QED BY <1>4, <1>5, <1>6, <1>7

\* A consumed message of a sibling.
LEMMA HeardIs ==
  ASSUME ReplicaInv, NEW t \in ReplicaTabs, NEW kind, Hearing(t, kind)
  PROVE  LET r == tab[t]
             q == Heard(t)
             msg == Head(r.chan)
         IN  /\ r \in TabState /\ q \in TabState /\ q.pend = r.pend /\ q.jobs = r.jobs /\ q.site = r.site
             /\ q.phase = r.phase /\ r.phase = "live" /\ q.out = r.out /\ q.inb = r.inb
             /\ msg \in Message /\ msg.kind = kind
<1> DEFINE r == tab[t]
<1>1. r \in TabState /\ r.chan \in Seq(Message) /\ r.chan # <<>> /\ r.phase = "live" /\ Head(r.chan).kind = kind
  BY Facts DEF Hearing, Live, TabState
<1>2. Tail(r.chan) \in Seq(Message) /\ Head(r.chan) \in Message
  BY <1>1, RangeTail
<1>3. Heard(t) = [r EXCEPT !.chan = Tail(r.chan)]
  BY DEF Heard
<1> HIDE DEF r
<1>4. LET q == Heard(t)
      IN  q \in TabState /\ q.pend = r.pend /\ q.jobs = r.jobs /\ q.site = r.site
          /\ q.phase = r.phase /\ q.out = r.out /\ q.inb = r.inb
  BY <1>1, <1>2, <1>3 DEF TabState
<1> QED BY <1>1, <1>2, <1>4 DEF r

\* A tab imports what a sibling sent, and sends it on itself.
LEMMA OnTabInv ==
  ASSUME ReplicaInv, NEW t \in ReplicaTabs, OnTabUpdate(t) \/ OnTabSnapshot(t)
  PROVE  ReplicaInv'
<1> DEFINE r == tab[t]
           h == Heard(t)
           ops == Head(r.chan).ops
           p == [h EXCEPT !.doc = Import(h.doc, ops)]
<1>1. /\ r \in TabState /\ h \in TabState /\ h.pend = r.pend /\ h.jobs = r.jobs /\ h.site = r.site
      /\ h.phase = r.phase /\ r.phase = "live" /\ h.out = r.out /\ h.inb = r.inb /\ ops \in Ops
  <2>1. CASE OnTabUpdate(t)
    BY <2>1, HeardIs DEF OnTabUpdate, Message
  <2>2. CASE OnTabSnapshot(t)
    BY <2>2, HeardIs DEF OnTabSnapshot, Message
  <2> QED BY <2>1, <2>2
<1>2. used' \in Used /\ FreshId \in Nat /\ UNCHANGED <<journal, server, told>>
  BY Facts DEF OnTabUpdate, OnTabSnapshot
<1>3. \/ Put(t, Persist(p, ops, FALSE, FreshId))
      \/ Put(t, IF p.hasVV THEN SendMissing(p, p.svv, FreshId) ELSE p)
  BY DEF OnTabUpdate, OnTabSnapshot
<1> HIDE DEF h, ops
<1>4. Import(h.doc, ops) \in Ops
  BY <1>1, OpsClosed DEF TabState
<1>5. p \in TabState /\ p.pend = r.pend /\ p.jobs = r.jobs /\ p.site = r.site
      /\ p.phase = r.phase /\ p.out = r.out /\ p.inb = r.inb
  BY <1>1, <1>4 DEF TabState
<1> HIDE DEF p
<1>6. ASSUME NEW N PROVE Grows(r, p, N, {}) /\ (Fit(r) => Fit(p))
  BY <1>1, <1>5, Calm DEF MutationsOf
<1>7. CASE Put(t, Persist(p, ops, FALSE, FreshId))
  <2> DEFINE n == [id |-> FreshId, ops |-> ops]
             q == Persist(p, ops, FALSE, FreshId)
  <2>1. Grows(p, q, {n}, {}) /\ (Fit(p) => Fit(q))
    BY <1>1, <1>2, <1>5, PersistGrows
  <2>2. n \in Mutation /\ n.id = FreshId
    BY <1>1, Facts
  <2> HIDE DEF n, q
  <2>3. Grows(r, q, Mutations \cup {n}, {})
    BY <1>6, <2>1, GrowsOn, GrowsMore
  <2> QED BY <1>2, <1>6, <1>7, <2>1, <2>2, <2>3, PutStep DEF Used, q
<1>8. CASE Put(t, IF p.hasVV THEN SendMissing(p, p.svv, FreshId) ELSE p)
  <2> DEFINE n == [id |-> FreshId, ops |-> p.doc \ p.svv]
             q == SendMissing(p, p.svv, FreshId)
  <2>1. p.svv \in Ops /\ p.doc \ p.svv \in Ops
    BY <1>5, OpsClosed DEF TabState
  <2>2. Grows(p, q, {n}, {}) /\ (Fit(p) => Fit(q))
    BY <1>1, <1>2, <1>5, <2>1, SendMissingGrows
  <2>3. n \in Mutation /\ n.id = FreshId
    BY <2>1, Facts
  <2> HIDE DEF n
  <2>4. Grows(r, q, Mutations \cup {n}, {}) /\ Grows(r, p, Mutations \cup {n}, {})
    BY <1>6, <2>2, GrowsOn, GrowsMore
  <2>5. CASE p.hasVV
    <3>1. Put(t, q)
      BY <1>8, <2>5
    <3> HIDE DEF q
    <3> QED BY <1>2, <1>6, <2>2, <2>3, <2>4, <3>1, PutStep DEF Used
  <2>6. CASE ~p.hasVV
    <3>1. Put(t, p)
      BY <1>8, <2>6
    <3> QED BY <1>2, <1>6, <2>3, <2>4, <3>1, PutStep DEF Used
  <2> QED BY <2>5, <2>6
<1> QED BY <1>3, <1>7, <1>8

\* A tab answers or asks its siblings.
LEMMA AskInv ==
  ASSUME ReplicaInv, NEW t \in ReplicaTabs, OnTabAsk(t) \/ Visible(t)
  PROVE  ReplicaInv'
<1> DEFINE r == tab[t]
           h == Heard(t)
<1>1. r \in TabState /\ r.doc \in Ops
  BY Facts DEF TabState
<1>2. [kind |-> "ask"] \in Message /\ [kind |-> "snapshot", ops |-> r.doc] \in Message
  BY <1>1 DEF Message
<1>3. CASE OnTabAsk(t)
  <2>1. /\ h \in TabState /\ h.pend = r.pend /\ h.jobs = r.jobs /\ h.site = r.site
        /\ h.phase = r.phase /\ h.out = r.out /\ h.inb = r.inb /\ r.phase = "live"
    BY <1>3, HeardIs DEF OnTabAsk
  <2>2. used' \in Used
    BY <1>3, Facts DEF OnTabAsk
  <2>3. Put(t, h) \/ PutPosting(t, h, [kind |-> "snapshot", ops |-> r.doc])
    BY <1>3 DEF OnTabAsk
  <2> HIDE DEF h
  <2>4. Grows(r, h, Mutations, {}) /\ (Fit(r) => Fit(h))
    BY <1>1, <2>1, Phased
  <2>5. UNCHANGED <<journal, server, told>>
    BY <1>3 DEF OnTabAsk
  <2> QED BY <1>2, <2>2, <2>3, <2>4, <2>5, CalmStep, CalmPost
<1>4. CASE Visible(t)
  <2>1. used' \in Used
    BY <1>4, Facts, Spent DEF Visible
  <2>2. Grows(r, r, Mutations, {})
    BY <1>1 DEF Grows
  <2> QED BY <1>2, <1>4, <2>1, <2>2, CalmPost DEF Visible
<1> QED BY <1>3, <1>4

\* The record a job's transaction starts from holds only mutations that are known,
\* and every edit told that the room does not have.
LEMMA BaseIs ==
  ASSUME ReplicaInv, NEW t \in ReplicaTabs, NEW kind, RunningHead(t, kind)
  PROVE  LET r == tab[t]
             job == Head(r.jobs)
             base == Base(r, job)
             q == Ran(t)
         IN  /\ r \in TabState /\ r.phase # "closed" /\ job \in Job /\ job.kind = kind /\ job \in Range(r.jobs)
             /\ base \in [site: Nat, snap: Ops, pending: Pending] /\ base.site # 0
             /\ Range(base.pending) \subseteq Mutations
             /\ told \subseteq OpsOf(base.pending) \cup server
             /\ q = [r EXCEPT !.jobs = Tail(r.jobs)] /\ q \in TabState /\ q.pend = r.pend
             /\ q.site = r.site /\ q.phase = r.phase /\ q.out = r.out /\ q.inb = r.inb
             /\ q.synced = r.synced /\ q.sock = r.sock /\ q.doc = r.doc
             /\ Range(q.jobs) \subseteq Range(r.jobs)
<1> DEFINE r == tab[t]
           job == Head(r.jobs)
           base == Base(r, job)
<1>1. r \in TabState /\ r.jobs \in Seq(Job) /\ r.jobs # <<>> /\ r.phase # "closed" /\ job.kind = kind
  BY Facts DEF RunningHead, TabState
<1>2. /\ job \in Job /\ job \in Range(r.jobs) /\ Tail(r.jobs) \in Seq(Job)
      /\ Range(Tail(r.jobs)) \subseteq Range(r.jobs)
  BY <1>1, RangeTail
<1>3. job.fb \in Pending /\ r.site \in Nat \ {0} /\ {} \in Ops
  <2>1. job.fb \in Pending
    BY <1>2 DEF Job
  <2>2. r.site \in Nat
    BY <1>1 DEF TabState
  <2>3. r.site # 0 /\ {} \in Ops
    BY <1>1, Facts
  <2> QED BY <2>1, <2>2, <2>3
<1>4. base = IF Stored THEN journal ELSE [site |-> r.site, snap |-> {}, pending |-> job.fb]
  BY DEF Base
<1>5. /\ base \in [site: Nat, snap: Ops, pending: Pending] /\ base.site # 0
      /\ Range(base.pending) \subseteq Mutations
      /\ told \subseteq OpsOf(base.pending) \cup server
  <2>1. CASE Stored
    BY <1>4, <2>1, Facts, MutationsAre DEF Stored, ToldKept, ReplicaInv
  <2>2. CASE ~Stored
    <3>1. base = [site |-> r.site, snap |-> {}, pending |-> job.fb]
      BY <1>4, <2>2
    <3>2. Range(job.fb) \subseteq Range(r.pend) /\ journal.pending = <<>>
      BY <1>2, <2>2 DEF Carried, ReplicaInv
    <3>3. Range(r.pend) \subseteq Mutations
      BY MutationsAre DEF MutationsOf
    <3>4. told \subseteq server
      BY <3>2, RangeEmpty DEF ToldKept, OpsOf, ReplicaInv
    <3> HIDE DEF job, base, r
    <3>5. base \in [site: Nat, snap: Ops, pending: Pending] /\ base.site # 0 /\ base.pending = job.fb
      BY <1>3, <3>1
    <3> QED BY <3>2, <3>3, <3>4, <3>5
  <2> QED BY <2>1, <2>2
<1>6. Ran(t) = [r EXCEPT !.jobs = Tail(r.jobs)]
  BY DEF Ran
<1> HIDE DEF r, job, base
<1>7. LET q == Ran(t)
      IN  q \in TabState /\ q.pend = r.pend /\ q.site = r.site /\ q.phase = r.phase
          /\ q.out = r.out /\ q.inb = r.inb /\ q.jobs = Tail(r.jobs)
          /\ q.synced = r.synced /\ q.sock = r.sock /\ q.doc = r.doc
  BY <1>1, <1>2, <1>6 DEF TabState
<1> QED BY <1>1, <1>2, <1>5, <1>6, <1>7 DEF r, job, base

\* A job's step: the journal is written, one tab moves, its siblings at most hear.
LEMMA JournalStep ==
  ASSUME ReplicaInv, NEW t \in ReplicaTabs, NEW n \in Mutation, n.id = FreshId,
         tab' \in [ReplicaTabs -> TabState], Grows(tab[t], tab'[t], Mutations \cup {n}, {}),
         \A u \in ReplicaTabs \ {t} : Grows(tab[u], tab'[u], Mutations \cup {n}, {}),
         journal' \in [site: Nat, snap: Ops, pending: Pending], journal'.site # 0,
         Range(journal'.pending) \subseteq Mutations,
         told' \in Ops, told' \subseteq OpsOf(journal'.pending) \cup server, UNCHANGED <<server, used>>
  PROVE  ReplicaInv'
<1>1. TypeOK'
  BY DEF TypeOK, ReplicaInv
<1>2. Carried'
  BY DEF Carried, Stored
<1>3. ToldKept'
  BY DEF ToldKept, OpsOf
<1>4. IsFiniteSet({})
  BY FS_EmptySet
<1> QED BY <1>1, <1>2, <1>3, <1>4, Step

\* The snapshot is written; the tail stays.
LEMMA RunCheckpointInv ==
  ASSUME ReplicaInv, NEW t \in ReplicaTabs, RunCheckpoint(t)
  PROVE  ReplicaInv'
<1> DEFINE r == tab[t]
           base == Base(r, Head(r.jobs))
           c == Ran(t)
           q == [c EXCEPT !.saved = TRUE]
           n == [id |-> FreshId, ops |-> {}]
<1>1. /\ r \in TabState /\ base \in [site: Nat, snap: Ops, pending: Pending] /\ base.site # 0
      /\ Range(base.pending) \subseteq Mutations /\ told \subseteq OpsOf(base.pending) \cup server
      /\ c \in TabState /\ c.pend = r.pend /\ c.site = r.site /\ c.phase = r.phase /\ c.out = r.out
      /\ c.inb = r.inb /\ Range(c.jobs) \subseteq Range(r.jobs)
  BY BaseIs DEF RunCheckpoint
<1>2. /\ Put(t, q) /\ journal' = [base EXCEPT !.snap = r.doc] /\ UNCHANGED <<server, told, used>>
  BY DEF RunCheckpoint
<1>3. n \in Mutation /\ n.id = FreshId /\ tab \in [ReplicaTabs -> TabState] /\ told \in Ops /\ r.doc \in Ops
  <2>1. n \in Mutation /\ n.id = FreshId
    BY Facts
  <2>2. tab \in [ReplicaTabs -> TabState] /\ told \in Ops
    BY Facts
  <2>3. r.doc \in Ops
    BY <1>1 DEF TabState
  <2> QED BY <2>1, <2>2, <2>3
<1> HIDE DEF base, c, n
<1>4. /\ q \in TabState /\ q.pend = c.pend /\ q.site = c.site /\ q.phase = c.phase /\ q.out = c.out
      /\ q.inb = c.inb /\ q.jobs = c.jobs
  BY <1>1 DEF TabState
<1> HIDE DEF q
<1>5. Grows(r, q, Mutations \cup {n}, {})
  BY <1>1, <1>4 DEF Grows, MutationsOf, ReceiptsOf
<1>6. \A u \in ReplicaTabs : Grows(tab[u], tab[u], Mutations \cup {n}, {})
  BY <1>3 DEF Grows
<1>7. tab' \in [ReplicaTabs -> TabState] /\ tab'[t] = q /\ \A u \in ReplicaTabs \ {t} : tab'[u] = tab[u]
  BY <1>2, <1>3, <1>4 DEF Put
<1>8. /\ journal' \in [site: Nat, snap: Ops, pending: Pending] /\ journal'.site # 0
      /\ journal'.pending = base.pending
  BY <1>1, <1>2, <1>3
<1> QED BY <1>1, <1>2, <1>3, <1>5, <1>6, <1>7, <1>8, JournalStep

\* A mutation enters the tail, and is told.
LEMMA RunAppendInv ==
  ASSUME ReplicaInv, Access, NEW t \in ReplicaTabs, RunAppend(t)
  PROVE  ReplicaInv'
<1> DEFINE r == tab[t]
           job == Head(r.jobs)
           base == Base(r, job)
           c == Ran(t)
           q == [c EXCEPT !.saved = TRUE]
           sent == SendAll(q, <<job.m>>)
           n == [id |-> FreshId, ops |-> {}]
           msg == [kind |-> "update", ops |-> job.m.ops]
           present == \E m \in Range(base.pending) : m.id = job.m.id
<1>1. /\ r \in TabState /\ base \in [site: Nat, snap: Ops, pending: Pending] /\ base.site # 0
      /\ Range(base.pending) \subseteq Mutations /\ told \subseteq OpsOf(base.pending) \cup server
      /\ c \in TabState /\ c.pend = r.pend /\ c.site = r.site /\ c.phase = r.phase /\ c.out = r.out
      /\ c.inb = r.inb /\ Range(c.jobs) \subseteq Range(r.jobs)
      /\ job \in Job /\ job.kind = "append" /\ job \in Range(r.jobs)
  BY BaseIs DEF RunAppend
<1>2. /\ journal' = [base EXCEPT !.pending = IF present THEN base.pending
                                             ELSE Append(base.pending, job.m)]
      /\ told' = told \cup job.m.ops /\ UNCHANGED <<server, used>>
  BY DEF RunAppend
<1>3. Put(t, q) \/ Put(t, sent) \/ PutPosting(t, sent, msg)
  BY DEF RunAppend
<1>4. n \in Mutation /\ n.id = FreshId /\ tab \in [ReplicaTabs -> TabState] /\ told \in Ops
  <2>1. n \in Mutation /\ n.id = FreshId
    BY Facts
  <2>2. tab \in [ReplicaTabs -> TabState] /\ told \in Ops
    BY Facts
  <2> QED BY <2>1, <2>2
<1>5. /\ job.m \in Mutation /\ job.m \in MutationsOf(r) /\ job.m \in Mutations /\ job.m.ops \in Ops
      /\ msg \in Message
  <2>1. job.m \in MutationsOf(r)
    BY <1>1 DEF MutationsOf
  <2>2. job.m \in Mutation
    BY <1>1 DEF Job
  <2> HIDE DEF job
  <2>3. job.m.ops \in Ops
    BY <2>2 DEF Mutation
  <2> QED BY <2>1, <2>2, <2>3, MutationsAre DEF Message
<1> HIDE DEF base, c, n, job, msg, present
<1>6. /\ q \in TabState /\ q.pend = c.pend /\ q.site = c.site /\ q.phase = c.phase /\ q.out = c.out
      /\ q.inb = c.inb /\ q.jobs = c.jobs
  BY <1>1 DEF TabState
<1> HIDE DEF q
<1>7. Grows(r, q, Mutations \cup {n}, {})
  BY <1>1, <1>6 DEF Grows, MutationsOf, ReceiptsOf
<1>8. Grows(r, sent, Mutations \cup {n}, {})
  <2>1. <<job.m>> \in Pending /\ Range(<<job.m>>) \subseteq MutationsOf(q) \cup (Mutations \cup {n})
    BY <1>5 DEF Pending, Range
  <2>2. Grows(q, sent, Mutations \cup {n}, {})
    BY <1>6, <2>1, SendAllGrows
  <2> QED BY <1>7, <2>2, GrowsOn
<1>9. \A u \in ReplicaTabs : Grows(tab[u], tab[u], Mutations \cup {n}, {})
  BY <1>4 DEF Grows
<1>10. /\ tab' \in [ReplicaTabs -> TabState]
       /\ \A u \in ReplicaTabs : Grows(tab[u], tab'[u], Mutations \cup {n}, {})
  <2> HIDE DEF sent
  <2>1. q \in TabState /\ sent \in TabState
    BY <1>6, <1>8 DEF Grows
  <2>2. ASSUME NEW x \in {q, sent}, Put(t, x)
        PROVE  tab' \in [ReplicaTabs -> TabState] /\ \A u \in ReplicaTabs : Grows(tab[u], tab'[u], Mutations \cup {n}, {})
    <3>1. tab' \in [ReplicaTabs -> TabState] /\ tab'[t] = x /\ \A u \in ReplicaTabs \ {t} : tab'[u] = tab[u]
      BY <1>4, <2>1, <2>2 DEF Put
    <3> QED BY <1>7, <1>8, <1>9, <2>2, <3>1
  <2>3. CASE PutPosting(t, sent, msg)
    <3>1. /\ tab' \in [ReplicaTabs -> TabState] /\ tab'[t] = sent
          /\ \A u \in ReplicaTabs \ {t} : Grows(tab[u], tab'[u], Mutations \cup {n}, {})
      BY <1>4, <1>5, <2>1, <2>3, PostedGrows
    <3> QED BY <1>8, <3>1
  <2> QED BY <1>3, <2>2, <2>3
<1>11. /\ journal' \in [site: Nat, snap: Ops, pending: Pending] /\ journal'.site # 0
       /\ Range(base.pending) \subseteq Range(journal'.pending)
       /\ Range(journal'.pending) \subseteq Mutations
       /\ job.m.ops \subseteq OpsOf(journal'.pending)
  <2>1. CASE present
    <3>1. journal' \in [site: Nat, snap: Ops, pending: Pending] /\ journal'.site # 0
          /\ journal'.pending = base.pending
      BY <1>1, <1>2, <2>1
    <3>2. PICK m \in Range(base.pending) : m.id = job.m.id
      BY <2>1 DEF present
    <3>3. m.ops = job.m.ops
      BY <1>1, <1>5, <3>2 DEF OneContent, ReplicaInv
    <3> QED BY <1>1, <3>1, <3>2, <3>3 DEF OpsOf
  <2>2. CASE ~present
    <3>1. /\ Append(base.pending, job.m) \in Pending
          /\ Range(Append(base.pending, job.m)) = Range(base.pending) \cup {job.m}
      BY <1>1, <1>5, RangeAppend DEF Pending
    <3>2. journal' \in [site: Nat, snap: Ops, pending: Pending] /\ journal'.site # 0
          /\ journal'.pending = Append(base.pending, job.m)
      BY <1>1, <1>2, <2>2, <3>1
    <3> QED BY <1>1, <1>5, <3>1, <3>2 DEF OpsOf
  <2> QED BY <2>1, <2>2
<1>12. told' \in Ops /\ told' \subseteq OpsOf(journal'.pending) \cup server
  <2>1. OpsOf(base.pending) \subseteq OpsOf(journal'.pending)
    BY <1>11 DEF OpsOf
  <2> QED BY <1>1, <1>2, <1>4, <1>5, <1>11, <2>1, OpsClosed
<1> QED BY <1>2, <1>4, <1>10, <1>11, <1>12, JournalStep

\* A receipt removes its mutation from the tail: the room has what it removes.
LEMMA RunAckInv ==
  ASSUME ReplicaInv, Access, NEW t \in ReplicaTabs, RunAck(t)
  PROVE  ReplicaInv'
<1> DEFINE r == tab[t]
           job == Head(r.jobs)
           base == Base(r, job)
           c == Ran(t)
           q == [c EXCEPT !.saved = TRUE, !.pend = Without(c.pend, job.id)]
           n == [id |-> FreshId, ops |-> q.doc \ job.ops]
           x == IF ~Live(q) \/ ~Access THEN q
                ELSE IF q.pend = <<>> THEN SendMissing(q, job.ops, FreshId)
                     ELSE IF q.synced THEN SetStatus(q, "saving") ELSE q
<1>1. /\ r \in TabState /\ base \in [site: Nat, snap: Ops, pending: Pending] /\ base.site # 0
      /\ Range(base.pending) \subseteq Mutations /\ told \subseteq OpsOf(base.pending) \cup server
      /\ c \in TabState /\ c.pend = r.pend /\ c.site = r.site /\ c.phase = r.phase /\ c.out = r.out
      /\ c.inb = r.inb /\ Range(c.jobs) \subseteq Range(r.jobs) /\ r.phase # "closed"
      /\ job \in Job /\ job.kind = "ack" /\ job \in Range(r.jobs)
  BY BaseIs DEF RunAck
<1>2. /\ journal' = [base EXCEPT !.snap = r.doc, !.pending = Without(base.pending, job.id)]
      /\ Put(t, x) /\ UNCHANGED <<server, told, used>>
  BY DEF RunAck
<1>3. tab \in [ReplicaTabs -> TabState] /\ told \in Ops /\ FreshId \in Nat /\ r.doc \in Ops
  <2>1. tab \in [ReplicaTabs -> TabState] /\ told \in Ops /\ FreshId \in Nat
    BY Facts
  <2>2. r.doc \in Ops
    BY <1>1 DEF TabState
  <2> QED BY <2>1, <2>2
<1>4. job.id \in Receipts /\ job.ops \in Ops
  <2>1. job.id \in ReceiptsOf(r)
    BY <1>1 DEF ReceiptsOf
  <2>2. job.ops \in Ops
    BY <1>1 DEF Job
  <2> QED BY <2>1, <2>2 DEF Receipts
<1> HIDE DEF base, c, job
<1>5. Without(c.pend, job.id) \in Pending /\ Range(Without(c.pend, job.id)) \subseteq Range(c.pend)
  BY <1>1, RangeWithout DEF TabState
<1>6. /\ q \in TabState /\ Range(q.pend) \subseteq Range(r.pend) /\ q.site = r.site /\ q.phase = r.phase
      /\ q.out = r.out /\ q.inb = r.inb /\ q.jobs = c.jobs
  BY <1>1, <1>5 DEF TabState
<1> HIDE DEF q
<1>7. n \in Mutation /\ n.id = FreshId
  <2>1. q.doc \ job.ops \in Ops
    BY <1>4, <1>6, OpsClosed DEF TabState
  <2> QED BY <2>1, Facts
<1>8. Grows(r, q, {n}, {})
  BY <1>1, <1>6 DEF Grows, MutationsOf, ReceiptsOf
<1>9. Grows(q, x, {n}, {})
  <2>1. Grows(q, SendMissing(q, job.ops, FreshId), {n}, {})
    BY <1>1, <1>3, <1>4, <1>6, SendMissingGrows
  <2>2. Grows(q, SetStatus(q, "saving"), {n}, {})
    BY <1>6, StatusGrows
  <2>3. Grows(q, q, {n}, {})
    BY <1>6 DEF Grows
  <2> QED BY <2>1, <2>2, <2>3
<1> HIDE DEF x, n
<1>10. Grows(r, x, Mutations \cup {n}, {}) /\ x \in TabState
  <2>1. Grows(r, x, {n}, {})
    BY <1>8, <1>9, GrowsOn
  <2> QED BY <2>1, GrowsMore DEF Grows
<1>11. \A u \in ReplicaTabs : Grows(tab[u], tab[u], Mutations \cup {n}, {})
  BY <1>3 DEF Grows
<1>12. tab' \in [ReplicaTabs -> TabState] /\ tab'[t] = x /\ \A u \in ReplicaTabs \ {t} : tab'[u] = tab[u]
  BY <1>2, <1>3, <1>10 DEF Put
<1>13. /\ Without(base.pending, job.id) \in Pending
       /\ Range(Without(base.pending, job.id)) \subseteq Range(base.pending)
       /\ \A m \in Range(base.pending) : m.id # job.id => m \in Range(Without(base.pending, job.id))
  BY <1>1, RangeWithout
<1>14. /\ journal' \in [site: Nat, snap: Ops, pending: Pending] /\ journal'.site # 0
       /\ journal'.pending = Without(base.pending, job.id)
  BY <1>1, <1>2, <1>3, <1>13
<1>15. told \subseteq OpsOf(journal'.pending) \cup server
  <2> SUFFICES ASSUME NEW o \in told, o \notin server PROVE o \in OpsOf(journal'.pending)
    OBVIOUS
  <2>1. PICK m \in Range(base.pending) : o \in m.ops
    BY <1>1 DEF OpsOf
  <2>2. m.id # job.id
    BY <1>1, <1>4, <2>1 DEF Receipted, ReplicaInv
  <2> QED BY <1>13, <1>14, <2>1, <2>2 DEF OpsOf
<1> QED BY <1>1, <1>2, <1>3, <1>7, <1>10, <1>11, <1>12, <1>13, <1>14, <1>15, JournalStep

\* The first tabs have different sites.
LEMMA Sites ==
  ASSUME ReplicaAssumption
  PROVE  /\ InitialSite \in [InitialOpen -> Nat \ {0}]
         /\ \A t, u \in InitialOpen : InitialSite[t] = InitialSite[u] => t = u
<1> DEFINE k == Cardinality(InitialOpen)
<1>1. IsFiniteSet(InitialOpen) /\ k \in Nat
  BY FS_Subset, FS_CardinalityType DEF ReplicaAssumption
<1>2. IsFiniteSet(1..k) /\ Cardinality(1..k) = k
  <2>1. IsFiniteSet(1..k) /\ Cardinality(1..k) = IF 1 > k THEN 0 ELSE k - 1 + 1
    BY <1>1, FS_Interval
  <2> QED BY <1>1, <2>1
<1>3. PICK f \in Bijection(InitialOpen, 1..k) : TRUE
  <2>1. ExistsBijection(InitialOpen, 1..k)
    BY <1>1, <1>2, FS_SameCardinalityBij
  <2> QED BY <2>1 DEF ExistsBijection
<1>4. f \in [InitialOpen -> 1..k] /\ \A t, u \in InitialOpen : f[t] = f[u] => t = u
  BY <1>3 DEF Bijection, Injection, IsInjective
<1>5. /\ InitialSite \in [InitialOpen -> 1..k]
      /\ \A t, u \in InitialOpen : InitialSite[t] = InitialSite[u] => t = u
  BY <1>4 DEF InitialSite
<1> QED BY <1>1, <1>5

LEMMA StartInv ==
  ASSUME ReplicaAssumption, ReplicaInit
  PROVE  ReplicaInv
<1> DEFINE site == InitialSite
<1>3. site \in [InitialOpen -> Nat \ {0}]
  BY Sites
<1>4. tab = [t \in ReplicaTabs |-> IF t \in InitialOpen THEN Fresh(site[t]) ELSE Closed]
  BY DEF ReplicaInit
<1>5. journal = NoJournal /\ server = {} /\ told = {} /\ used \in Used
  BY DEF ReplicaInit, Used
<1> HIDE DEF site
<1>6. Closed \in TabState /\ <<>> \in Pending /\ {} \in Ops
  BY ClosedGrows, FS_EmptySet DEF Pending, Ops
<1>7. ASSUME NEW t \in InitialOpen
      PROVE  LET q == Fresh(site[t])
             IN  q \in TabState /\ q.site = site[t] /\ MutationsOf(q) = {} /\ ReceiptsOf(q) = {} /\ Fit(q)
  <2> DEFINE c == [Closed EXCEPT !.phase = "live", !.site = site[t],
                                 !.status = IF Access THEN "connecting" ELSE "connected"]
             q == Checkpoint(c)
  <2>1. site[t] \in Nat \ {0}
    BY <1>3
  <2>2. c \in TabState /\ c.phase = "live" /\ c.site = site[t] /\ c.pend = <<>> /\ c.out = <<>>
        /\ c.inb = <<>> /\ c.jobs = <<>>
    BY <1>6, <2>1 DEF Closed, TabState
  <2>3. q = Fresh(site[t])
    BY DEF Fresh
  <2> HIDE DEF c
  <2>4. Grows(c, q, {}, {}) /\ (Fit(c) => Fit(q)) /\ q.site = c.site /\ q.phase = c.phase
    BY <2>2, CheckpointGrows
  <2>5. MutationsOf(c) = {} /\ ReceiptsOf(c) = {} /\ Fit(c)
    BY <2>2, RangeEmpty DEF MutationsOf, ReceiptsOf, Fit
  <2>6. q \in TabState /\ q.site = site[t] /\ MutationsOf(q) = {} /\ ReceiptsOf(q) = {} /\ Fit(q)
    BY <2>1, <2>2, <2>4, <2>5 DEF Grows
  <2> QED BY <2>3, <2>6
<1>8. MutationsOf(Closed) = {} /\ ReceiptsOf(Closed) = {} /\ Fit(Closed) /\ Closed.phase = "closed"
  BY RangeEmpty DEF Closed, MutationsOf, ReceiptsOf, Fit
<1>9. \A t \in ReplicaTabs : /\ tab[t] \in TabState /\ MutationsOf(tab[t]) = {} /\ ReceiptsOf(tab[t]) = {}
                             /\ Fit(tab[t]) /\ (tab[t].phase = "closed" \/ (t \in InitialOpen /\ tab[t].site = site[t]))
  <2> TAKE t \in ReplicaTabs
  <2>1. CASE t \in InitialOpen
    BY <1>4, <1>7, <2>1
  <2>2. CASE t \notin InitialOpen
    <3>1. tab[t] = Closed
      BY <1>4, <2>2
    <3> QED BY <1>6, <1>8, <3>1
  <2> QED BY <2>1, <2>2
<1>10. journal \in [site: Nat, snap: Ops, pending: Pending] /\ journal.pending = <<>>
  BY <1>5, <1>6 DEF NoJournal
<1>11. Mutations = {}
  BY <1>9, <1>10, HeldBy, RangeEmpty
<1>12. Receipts = {}
  <2> SUFFICES ASSUME NEW id \in UNION {ReceiptsOf(tab[t]) : t \in ReplicaTabs} PROVE FALSE
    BY DEF Receipts
  <2>1. PICK X \in {ReceiptsOf(tab[t]) : t \in ReplicaTabs} : id \in X
    OBVIOUS
  <2> QED BY <1>9, <2>1
<1>13. TypeOK
  <2>1. tab \in [ReplicaTabs -> TabState]
    BY <1>4, <1>9
  <2> QED BY <1>5, <1>6, <1>10, <2>1 DEF TypeOK, Used
<1>14. Carried
  BY <1>9, <1>10 DEF Carried, Fit
<1>15. Sited
  BY <1>3, <1>9 DEF Sited, site
<1>16. IsFiniteSet({})
  BY FS_EmptySet
<1> QED BY <1>5, <1>11, <1>12, <1>13, <1>14, <1>15, <1>16
        DEF ReplicaInv, OneContent, Receipted, ToldKept

LEMMA NextInv ==
  ASSUME ReplicaAssumption, Access, ReplicaInv, Distinct, [ReplicaNext]_replicaVars
  PROVE  ReplicaInv'
<1>1. CASE UNCHANGED replicaVars
  <2>1. UNCHANGED <<tab, journal, server, told, used>>
    BY <1>1 DEF replicaVars
  <2>2. Mutations' = Mutations /\ Receipts' = Receipts
    BY <2>1 DEF Mutations, Receipts, MutationsOf, ReceiptsOf
  <2>3. TypeOK' /\ Sited' /\ ToldKept'
    BY <2>1 DEF ReplicaInv, TypeOK, Sited, ToldKept, OpsOf
  <2>4. OneContent' /\ Receipted' /\ IsFiniteSet(Mutations') /\ IsFiniteSet(Receipts')
    BY <2>1, <2>2 DEF ReplicaInv, OneContent, Receipted
  <2>5. Carried'
    BY <2>1 DEF ReplicaInv, Carried, Stored
  <2> QED BY <2>3, <2>4, <2>5 DEF ReplicaInv
<1>2. ASSUME NEW t \in ReplicaTabs,
             \/ Open(t) \/ Edit(t) \/ SaveTimer(t) \/ Connect(t) \/ Drop(t)
             \/ OnServerVV(t) \/ OnUpdate(t) \/ OnSynced(t) \/ OnCommitted(t) \/ Commit(t) \/ Forbid(t)
             \/ RunAppend(t) \/ RunAck(t) \/ RunCheckpoint(t) \/ FailJob(t)
             \/ OnTabUpdate(t) \/ OnTabSnapshot(t) \/ OnTabAsk(t) \/ Visible(t) \/ Close(t) \/ Gone(t)
      PROVE  ReplicaInv'
  BY <1>2, OpenInv, EditInv, SaveInv, OnUpdateInv, OnSyncedInv, OnCommittedInv, CommitInv, StopInv,
     RunAppendInv, RunAckInv, RunCheckpointInv, OnTabInv, AskInv, Zenon
<1> QED BY <1>1, <1>2 DEF ReplicaNext

\* For a document of the service and any tabs of a browser, opened, closed, killed
\* and reopened in any order: as long as no identity stands for two operations,
\* an edit told to be saved offline is in the journal's tail or in the room
\* (appendPendingMutation, acknowledgePendingMutation), ...
THEOREM ReplicaInvariant ==
  ASSUME ReplicaAssumption, Access
  PROVE  ReplicaSpec /\ []Distinct => []ReplicaInv
<1>1. ReplicaInit => ReplicaInv
  BY StartInv
<1>2. ReplicaInv /\ Distinct /\ [ReplicaNext]_replicaVars => ReplicaInv'
  BY NextInv
<1> QED BY <1>1, <1>2, PTL DEF ReplicaSpec

\* ... so it can be recovered, whatever a sibling's checkpoint wrote over the
\* snapshot (checkpointReplicaJournal).
THEOREM SavedEditsStayRecoverable ==
  ASSUME ReplicaAssumption, Access
  PROVE  ReplicaSpec /\ []Distinct => []SavedEditsRecoverable
<1>1. ReplicaInv => SavedEditsRecoverable
  BY DEF ReplicaInv, ToldKept, SavedEditsRecoverable, JournalOps
<1> QED BY <1>1, ReplicaInvariant, PTL

\* Known mutations have their types.
LEMMA MutationsTyped ==
  ASSUME ReplicaInv
  PROVE  Mutations \subseteq Mutation
<1>1. ASSUME NEW t \in ReplicaTabs PROVE MutationsOf(tab[t]) \subseteq Mutation
  <2>1. /\ Range(tab[t].pend) \subseteq Mutation /\ Range(tab[t].out) \subseteq Mutation
        /\ Range(tab[t].jobs) \subseteq Job
    BY Facts, RangeOf DEF TabState, Pending
  <2>2. \A j \in Job : j.kind = "append" => j.m \in Mutation
    BY DEF Job
  <2> QED BY <2>1, <2>2 DEF MutationsOf
<1>2. Range(journal.pending) \subseteq Mutation
  <2>1. journal.pending \in Pending
    BY DEF ReplicaInv, TypeOK
  <2> QED BY <2>1, RangeOf DEF Pending
<1> QED BY <1>1, <1>2, HeldBy

LEMMA FirstTabsDistinct ==
  ASSUME ReplicaAssumption, MaxOpens = 0, ReplicaInv
  PROVE  Distinct
<1>1. UNION {m.ops : m \in Mutations} \subseteq Op
  <2>1. \A m \in Mutations : m.ops \subseteq Op
    BY MutationsTyped DEF Mutation, Ops
  <2> QED BY <2>1
<1>2. server \subseteq Op
  BY DEF ReplicaInv, TypeOK, Ops
<1>3. \A o, p \in Op : Id(o) = Id(p) => o = p
  <2> SUFFICES ASSUME NEW o \in Op, NEW p \in Op, Id(o) = Id(p) PROVE o = p
    OBVIOUS
  <2>1. o.site = p.site /\ o.seq = p.seq
    BY DEF Id
  <2>2. o.by = p.by
    BY <2>1, Sites DEF Op
  <2>3. o \in [site: Nat, seq: Nat, by: ReplicaTabs, run: Nat] /\ p \in [site: Nat, seq: Nat, by: ReplicaTabs, run: Nat]
    BY DEF Op
  <2>4. o.run = p.run
    BY DEF Op
  <2> QED BY <2>1, <2>2, <2>3, <2>4
<1> QED BY <1>1, <1>2, <1>3 DEF Distinct

\* The tabs that have a document of the service open, each with the site of its own
\* ticket, never repeat an identity: while they edit, lose their socket, fail and
\* close, an edit told to be saved offline can be recovered.
THEOREM FirstTabsKeepEdits ==
  ASSUME ReplicaAssumption, Access, MaxOpens = 0
  PROVE  ReplicaSpec => []SavedEditsRecoverable
<1>1. ReplicaInit => ReplicaInv
  BY StartInv
<1>2. ReplicaInv /\ [ReplicaNext]_replicaVars => ReplicaInv'
  BY FirstTabsDistinct, NextInv
<1>3. ReplicaInv => SavedEditsRecoverable
  BY DEF ReplicaInv, ToldKept, SavedEditsRecoverable, JournalOps
<1> QED BY <1>1, <1>2, <1>3, PTL DEF ReplicaSpec

------------------------------------------------------------------------------
(* The invariant behind DurableMeansCommitted: whatever tabs are opened,    *)
(* closed and killed, and whatever the identities of their operations.      *)

IsSequence(s) == s \in Seq(Range(s))

\* A tab has the fields of a tab.
Tabular(r) == DOMAIN r = DOMAIN Closed

\* Versions and operations a tab has from the room are among S, what it is
\* about to hear and to store included; an append or acknowledgement carries a tail.
FromRoom(r, S) ==
  /\ IsSequence(r.pend) /\ IsSequence(r.jobs) /\ IsSequence(r.inb)
  /\ r.svv \subseteq S
  /\ \A f \in Range(r.inb) : f.kind \in {"vv", "update", "committed"} => f.ops \subseteq S
  /\ \A j \in Range(r.jobs) : IsSequence(j.fb) /\ (j.kind = "ack" => j.ops \subseteq S)

\* The welcome names the room's version before it says that the tab is synced.
Greeted(r) ==
  /\ r.synced => r.hasVV
  /\ \/ r.hasVV \/ \A f \in Range(r.inb) : f.kind # "synced"
     \/ r.inb # <<>> /\ Head(r.inb).kind = "vv"

\* A synced tab with no pending mutation holds nothing that the room has not.
Settled(r, S) == Live(r) /\ r.synced /\ r.pend = <<>> => r.doc \subseteq S

Sound(r, S) == Tabular(r) /\ FromRoom(r, S) /\ Greeted(r)

DurableInv ==
  /\ DOMAIN tab = ReplicaTabs
  /\ \A t \in ReplicaTabs : Sound(tab[t], server) /\ Settled(tab[t], server)
  /\ DOMAIN journal = {"site", "snap", "pending"} /\ IsSequence(journal.pending)

------------------------------------------------------------------------------
(* Sequences of anything. *)

LEMMA EmptyIsSequence == IsSequence(<<>>) /\ Range(<<>>) = {}
  BY RangeEmpty DEF IsSequence

LEMMA SequenceIn ==
  ASSUME NEW S, NEW s \in Seq(S)
  PROVE  IsSequence(s)
<1>1. DOMAIN s = 1..Len(s) /\ Len(s) \in Nat
  OBVIOUS
<1>2. \A i \in 1..Len(s) : s[i] \in Range(s)
  BY <1>1 DEF Range
<1>3. s = [i \in 1..Len(s) |-> s[i]]
  BY <1>1
<1> QED BY <1>1, <1>2, <1>3 DEF IsSequence

LEMMA AppendSequence ==
  ASSUME NEW s, IsSequence(s), NEW e
  PROVE  /\ IsSequence(Append(s, e)) /\ Range(Append(s, e)) = Range(s) \cup {e} /\ Append(s, e) # <<>>
         /\ s # <<>> => Head(Append(s, e)) = Head(s)
<1> DEFINE S == Range(s) \cup {e}
<1>1. s \in Seq(S) /\ e \in S
  BY DEF IsSequence
<1> HIDE DEF S
<1>2. Append(s, e) \in Seq(S) /\ Range(Append(s, e)) = Range(s) \cup {e}
  BY <1>1, RangeAppend
<1>3. Append(s, e) # <<>> /\ (s # <<>> => Head(Append(s, e)) = Head(s))
  BY <1>1
<1> QED BY <1>2, <1>3, SequenceIn

LEMMA TailSequence ==
  ASSUME NEW s, IsSequence(s), s # <<>>
  PROVE  /\ IsSequence(Tail(s)) /\ Range(Tail(s)) \subseteq Range(s) /\ Head(s) \in Range(s)
<1>1. s \in Seq(Range(s))
  BY DEF IsSequence
<1> QED BY <1>1, RangeTail, SequenceIn

\* What is left of a tail is a tail.
LEMMA WithoutSequence ==
  ASSUME NEW s, IsSequence(s), NEW id
  PROVE  IsSequence(Without(s, id))
<1> DEFINE at == {n \in DOMAIN s : s[n].id = id}
           k == CHOOSE n \in at : TRUE
           S == Range(s)
<1>1. s \in Seq(S)
  BY DEF IsSequence
<1>2. CASE at = {}
  BY <1>2 DEF Without
<1>3. CASE at # {}
  <2>1. k \in 1..Len(s) /\ Len(s) \in Nat
    BY <1>1, <1>3
  <2>2. Without(s, id) = SubSeq(s, 1, k - 1) \o SubSeq(s, k + 1, Len(s))
    BY <1>3 DEF Without
  <2> HIDE DEF k, at, S
  <2>3. SubSeq(s, 1, k - 1) \in Seq(S) /\ SubSeq(s, k + 1, Len(s)) \in Seq(S)
    BY <1>1, <2>1
  <2>4. SubSeq(s, 1, k - 1) \o SubSeq(s, k + 1, Len(s)) \in Seq(S)
    BY <2>3
  <2> QED BY <2>2, <2>4, SequenceIn
<1> QED BY <1>2, <1>3

------------------------------------------------------------------------------
(* Steps inside a tab. *)

Same(r, q) == /\ Tabular(q) /\ q.pend = r.pend /\ q.jobs = r.jobs /\ q.inb = r.inb /\ q.svv = r.svv
              /\ q.hasVV = r.hasVV /\ q.synced = r.synced /\ q.doc = r.doc /\ q.phase = r.phase

LEMMA SameSound ==
  ASSUME NEW r, NEW q, NEW S, Same(r, q)
  PROVE  (Sound(r, S) => Sound(q, S)) /\ (Settled(r, S) => Settled(q, S))
BY DEF Same, Sound, FromRoom, Greeted, Settled, Live

LEMMA SendAllSame ==
  ASSUME NEW r, Tabular(r), NEW ms
  PROVE  Same(r, SendAll(r, ms))
BY DEF Same, SendAll, Tabular, Closed

LEMMA StatusSame ==
  ASSUME NEW r, Tabular(r), NEW s
  PROVE  Same(r, SetStatus(r, s))
BY DEF Same, SetStatus, Tabular, Closed

LEMMA MoreServer ==
  ASSUME NEW r, NEW S, NEW T, S \subseteq T
  PROVE  (Sound(r, S) => Sound(r, T)) /\ (Settled(r, S) => Settled(r, T))
BY DEF Sound, FromRoom, Greeted, Settled

LEMMA CheckpointSound ==
  ASSUME NEW r, NEW S, Sound(r, S)
  PROVE  /\ Sound(Checkpoint(r), S) /\ (Settled(r, S) => Settled(Checkpoint(r), S))
         /\ Checkpoint(r).phase = r.phase /\ Checkpoint(r).synced = r.synced
<1> DEFINE j == [kind |-> "checkpoint", fb |-> r.pend]
           q == Checkpoint(r)
<1>1. q.jobs = Append(r.jobs, j) /\ Tabular(q) /\ q.pend = r.pend /\ q.inb = r.inb /\ q.svv = r.svv
      /\ q.hasVV = r.hasVV /\ q.synced = r.synced /\ q.doc = r.doc /\ q.phase = r.phase
  BY DEF Checkpoint, Sound, Tabular, Closed
<1>2. j.kind = "checkpoint" /\ j.fb = r.pend
  OBVIOUS
<1> HIDE DEF q, j
<1>3. IsSequence(q.jobs) /\ Range(q.jobs) = Range(r.jobs) \cup {j}
  BY <1>1, AppendSequence DEF Sound, FromRoom
<1>4. Sound(q, S) /\ (Settled(r, S) => Settled(q, S))
  BY <1>1, <1>2, <1>3 DEF Sound, FromRoom, Greeted, Settled, Live
<1> QED BY <1>1, <1>4 DEF q

LEMMA DisconnectSound ==
  ASSUME NEW r, NEW S, Sound(r, S)
  PROVE  Sound(Disconnect(r), S) /\ Settled(Disconnect(r), S) /\ Disconnect(r).phase = r.phase
         /\ ~Disconnect(r).synced
<1> DEFINE q == Disconnect(r)
<1>1. Tabular(q) /\ q.pend = r.pend /\ q.jobs = r.jobs /\ q.inb = <<>> /\ q.svv = r.svv
      /\ q.hasVV = r.hasVV /\ ~q.synced /\ q.phase = r.phase
  BY DEF Disconnect, Sound, Tabular, Closed
<1> HIDE DEF q
<1>2. Sound(q, S) /\ Settled(q, S)
  BY <1>1, EmptyIsSequence DEF Sound, FromRoom, Greeted, Settled
<1> QED BY <1>1, <1>2 DEF q

\* A persisted mutation is pending.
LEMMA PersistSound ==
  ASSUME NEW r, NEW S, Sound(r, S), NEW ops, NEW broadcast, NEW id
  PROVE  Sound(Persist(r, ops, broadcast, id), S) /\ Settled(Persist(r, ops, broadcast, id), S)
<1> DEFINE m == [id |-> id, ops |-> ops]
           p == Append(r.pend, m)
           j == [kind |-> "append", m |-> m, fb |-> p, broadcast |-> broadcast]
           q == Persist(r, ops, broadcast, id)
<1>1. IsSequence(p) /\ p # <<>>
  BY AppendSequence DEF Sound, FromRoom
<1>2. q.jobs = Append(r.jobs, j) /\ Tabular(q) /\ q.pend = p /\ q.inb = r.inb /\ q.svv = r.svv
      /\ q.hasVV = r.hasVV /\ q.synced = r.synced
  BY DEF Persist, Sound, Tabular, Closed
<1>3. j.kind = "append" /\ j.fb = p
  OBVIOUS
<1> HIDE DEF q, j, p
<1>4. IsSequence(q.jobs) /\ Range(q.jobs) = Range(r.jobs) \cup {j}
  BY <1>2, AppendSequence DEF Sound, FromRoom
<1>5. Sound(q, S) /\ Settled(q, S)
  BY <1>1, <1>2, <1>3, <1>4 DEF Sound, FromRoom, Greeted, Settled
<1> QED BY <1>5 DEF q

\* What is missing is pending afterwards, or the tab holds a version of the room.
LEMMA SendMissingSound ==
  ASSUME NEW r, NEW S, Sound(r, S), NEW version, version \subseteq S, NEW id
  PROVE  Sound(SendMissing(r, version, id), S) /\ Settled(SendMissing(r, version, id), S)
<1>0. Tabular(r)
  BY DEF Sound
<1>1. CASE r.pend # <<>>
  <2>1. SendMissing(r, version, id) = SendAll(r, r.pend)
    BY <1>1 DEF SendMissing
  <2>2. Settled(r, S)
    BY <1>1 DEF Settled
  <2> QED BY <1>0, <2>1, <2>2, SendAllSame, SameSound
<1>2. CASE r.pend = <<>> /\ r.doc = version
  <2>1. SendMissing(r, version, id) \in {SetStatus(r, "connected"), r}
    BY <1>2 DEF SendMissing
  <2>2. Settled(r, S)
    BY <1>2 DEF Settled
  <2> QED BY <1>0, <2>1, <2>2, StatusSame, SameSound
<1>3. CASE r.pend = <<>> /\ r.doc # version
  <2>1. SendMissing(r, version, id) = Persist(r, r.doc \ version, FALSE, id)
    BY <1>3 DEF SendMissing
  <2> QED BY <2>1, PersistSound
<1> QED BY <1>1, <1>2, <1>3

LEMMA SynchronizeSound ==
  ASSUME NEW r, NEW S, Sound(r, S), r.hasVV, NEW id
  PROVE  Sound(Synchronize(r, id), S) /\ Settled(Synchronize(r, id), S)
<1>0. Tabular(r) /\ r.svv \subseteq S
  BY DEF Sound, FromRoom
<1>1. CASE r.pend # <<>>
  <2> DEFINE q == SetStatus(r, "saving")
  <2>1. Synchronize(r, id) = SendAll(q, r.pend) /\ Same(r, q)
    BY <1>0, <1>1, StatusSame DEF Synchronize
  <2> HIDE DEF q
  <2>2. Settled(r, S) /\ Tabular(q)
    BY <1>1, <2>1 DEF Settled, Same
  <2>3. Sound(q, S) /\ Settled(q, S)
    BY <2>1, <2>2, SameSound
  <2> QED BY <2>1, <2>2, <2>3, SendAllSame, SameSound
<1>2. CASE r.pend = <<>>
  <2>1. Synchronize(r, id) = SendMissing(r, r.svv, id)
    BY <1>2 DEF Synchronize
  <2> QED BY <1>0, <2>1, SendMissingSound
<1> QED BY <1>1, <1>2

------------------------------------------------------------------------------
(* Steps. *)

JournalSound == DOMAIN journal = {"site", "snap", "pending"} /\ IsSequence(journal.pending)

LEMMA PutDurable ==
  ASSUME DurableInv, NEW t \in ReplicaTabs, NEW r, Sound(r, server), Settled(r, server),
         Put(t, r), server' = server, JournalSound'
  PROVE  DurableInv'
<1>1. DOMAIN tab' = ReplicaTabs /\ tab'[t] = r /\ \A u \in ReplicaTabs : u # t => tab'[u] = tab[u]
  BY DEF DurableInv, Put
<1> QED BY <1>1 DEF DurableInv, JournalSound

LEMMA PostDurable ==
  ASSUME DurableInv, NEW t \in ReplicaTabs, NEW r, Sound(r, server), Settled(r, server),
         NEW msg, PutPosting(t, r, msg), server' = server, JournalSound'
  PROVE  DurableInv'
<1>1. /\ DOMAIN tab' = ReplicaTabs /\ tab'[t] = r
      /\ \A u \in ReplicaTabs : u # t => tab'[u] \in {tab[u], [tab[u] EXCEPT !.chan = Append(@, msg)]}
  BY DEF PutPosting, Posted
<1>2. ASSUME NEW u \in ReplicaTabs, u # t PROVE Sound(tab'[u], server) /\ Settled(tab'[u], server)
  <2>1. Sound(tab[u], server) /\ Settled(tab[u], server) /\ Tabular(tab[u])
    BY DEF DurableInv, Sound
  <2>2. Same(tab[u], [tab[u] EXCEPT !.chan = Append(@, msg)]) /\ Same(tab[u], tab[u])
    BY <2>1 DEF Same, Tabular, Closed
  <2>3. Same(tab[u], tab'[u])
    BY <1>1, <1>2, <2>2
  <2> QED BY <2>1, <2>3, SameSound
<1> QED BY <1>1, <1>2 DEF DurableInv, JournalSound

LEMMA TabIs ==
  ASSUME DurableInv, NEW t \in ReplicaTabs
  PROVE  /\ Sound(tab[t], server) /\ Settled(tab[t], server) /\ Tabular(tab[t]) /\ JournalSound
BY DEF DurableInv, Sound, JournalSound

LEMMA ClosedSound == Sound(Closed, server) /\ Settled(Closed, server)
BY EmptyIsSequence DEF Sound, Tabular, FromRoom, Greeted, Settled, Closed

LEMMA FreshSound ==
  ASSUME NEW n
  PROVE  Sound(Fresh(n), server) /\ Settled(Fresh(n), server) /\ ~Fresh(n).synced /\ Fresh(n).inb = <<>>
<1> DEFINE c == [Closed EXCEPT !.phase = "live", !.site = n, !.status = IF Access THEN "connecting" ELSE "connected"]
<1>1. Sound(c, server) /\ Settled(c, server) /\ ~c.synced /\ c.inb = <<>>
  BY EmptyIsSequence DEF Sound, Tabular, FromRoom, Greeted, Settled, Closed
<1>2. Fresh(n) = Checkpoint(c)
  BY DEF Fresh
<1>3. Checkpoint(c).inb = c.inb
  BY DEF Checkpoint, Closed
<1> HIDE DEF c
<1> QED BY <1>1, <1>2, <1>3, CheckpointSound

\* A step that leaves everything the tab has from the room, and is not synced.
LEMMA OpenDurable == ASSUME DurableInv, NEW t \in ReplicaTabs, Open(t) PROVE DurableInv'
<1>1. PICK fetched \in BOOLEAN :
        PutPosting(t, [(IF Stored
                        THEN [Fresh(journal.site) EXCEPT
                                !.pend = journal.pending, !.saved = TRUE,
                                !.doc = Import(journal.snap, OpsOf(journal.pending))]
                        ELSE Fresh(NewSite)) EXCEPT !.doc = IF fetched THEN Import(@, server) ELSE @],
                   [kind |-> "ask"])
  BY DEF Open
<1> DEFINE r0 == IF Stored
                 THEN [Fresh(journal.site) EXCEPT
                         !.pend = journal.pending, !.saved = TRUE,
                         !.doc = Import(journal.snap, OpsOf(journal.pending))]
                 ELSE Fresh(NewSite)
           r == [r0 EXCEPT !.doc = IF fetched THEN Import(@, server) ELSE @]
<1>2. PutPosting(t, r, [kind |-> "ask"]) /\ server' = server /\ journal' = journal
  BY <1>1 DEF Open
<1>3. Sound(r0, server) /\ ~r0.synced
  <2>1. CASE Stored
    <3> DEFINE f == Fresh(journal.site)
    <3>1. Sound(f, server) /\ ~f.synced /\ f.inb = <<>>
      BY FreshSound
    <3>2. r0 = [f EXCEPT !.pend = journal.pending, !.saved = TRUE,
                         !.doc = Import(journal.snap, OpsOf(journal.pending))]
      BY <2>1
    <3> HIDE DEF f, r0
    <3>3. /\ Tabular(r0) /\ r0.pend = journal.pending /\ r0.jobs = f.jobs /\ r0.inb = f.inb
          /\ r0.svv = f.svv /\ r0.hasVV = f.hasVV /\ r0.synced = f.synced
      BY <3>1, <3>2 DEF Sound, Tabular, Closed
    <3> QED BY <3>1, <3>3 DEF Sound, FromRoom, Greeted, DurableInv
  <2>2. CASE ~Stored
    BY <2>2, FreshSound
  <2> QED BY <2>1, <2>2
<1> HIDE DEF r0
<1>4. /\ Tabular(r) /\ r.pend = r0.pend /\ r.jobs = r0.jobs /\ r.inb = r0.inb
      /\ r.svv = r0.svv /\ r.hasVV = r0.hasVV /\ r.synced = r0.synced
  BY <1>3 DEF Sound, Tabular, Closed
<1> HIDE DEF r
<1>5. Sound(r, server) /\ Settled(r, server)
  BY <1>3, <1>4 DEF Sound, FromRoom, Greeted, Settled
<1>6. JournalSound'
  BY <1>2 DEF DurableInv, JournalSound
<1> QED BY <1>2, <1>5, <1>6, PostDurable

\* The replica shows more; nothing else changes but what is no claim's subject.
LEMMA ShownSound ==
  ASSUME NEW r, NEW q, NEW S, Sound(r, S), Tabular(q), q.pend = r.pend, q.jobs = r.jobs,
         q.inb = r.inb, q.svv = r.svv, q.hasVV = r.hasVV, q.synced = r.synced
  PROVE  Sound(q, S)
BY DEF Sound, FromRoom, Greeted

LEMMA EditDurable == ASSUME DurableInv, NEW t \in ReplicaTabs, Edit(t) PROVE DurableInv'
<1>1. PICK o : Put(t, Persist([tab[t] EXCEPT !.doc = @ \cup {o}, !.saved = FALSE], {o}, TRUE, FreshId))
  BY DEF Edit
<1> DEFINE q == [tab[t] EXCEPT !.doc = @ \cup {o}, !.saved = FALSE]
<1>2. /\ Tabular(q) /\ q.pend = tab[t].pend /\ q.jobs = tab[t].jobs /\ q.inb = tab[t].inb
      /\ q.svv = tab[t].svv /\ q.hasVV = tab[t].hasVV /\ q.synced = tab[t].synced
  BY TabIs DEF Tabular, Closed
<1>3. Put(t, Persist(q, {o}, TRUE, FreshId))
  BY <1>1
<1> HIDE DEF q
<1>4. Sound(q, server)
  BY <1>2, TabIs, ShownSound
<1>5. server' = server /\ JournalSound'
  BY TabIs DEF Edit, JournalSound
<1> QED BY <1>3, <1>4, <1>5, PersistSound, PutDurable

LEMMA SaveDurable == ASSUME DurableInv, NEW t \in ReplicaTabs, SaveTimer(t) PROVE DurableInv'
<1>1. Put(t, Checkpoint(tab[t])) /\ server' = server /\ JournalSound'
  BY TabIs DEF SaveTimer, JournalSound
<1> QED BY <1>1, TabIs, CheckpointSound, PutDurable

LEMMA ConnectDurable == ASSUME DurableInv, NEW t \in ReplicaTabs, Connect(t) PROVE DurableInv'
<1> DEFINE v == [kind |-> "vv", ops |-> server]
           u == [kind |-> "update", ops |-> server \ tab[t].doc]
           y == [kind |-> "synced"]
           r == [tab[t] EXCEPT !.sock = TRUE, !.synced = FALSE, !.status = "connecting", !.inb = <<v, u, y>>]
<1>1. Put(t, r) /\ server' = server /\ JournalSound'
  BY TabIs DEF Connect, JournalSound
<1>2. /\ Tabular(r) /\ r.pend = tab[t].pend /\ r.jobs = tab[t].jobs /\ r.inb = <<v, u, y>>
      /\ r.svv = tab[t].svv /\ r.hasVV = tab[t].hasVV /\ ~r.synced
  BY TabIs DEF Tabular, Closed
<1>3. v.kind = "vv" /\ v.ops \subseteq server /\ u.kind = "update" /\ u.ops \subseteq server /\ y.kind = "synced"
  OBVIOUS
<1> HIDE DEF v, u, y, r
<1>4. <<v, u, y>> \in Seq({v, u, y}) /\ Head(<<v, u, y>>) = v /\ <<v, u, y>> # <<>>
  OBVIOUS
<1>5. IsSequence(<<v, u, y>>) /\ Range(<<v, u, y>>) \subseteq {v, u, y}
  BY <1>4, SequenceIn, RangeOf
<1>6. Sound(r, server) /\ Settled(r, server)
  BY <1>2, <1>3, <1>4, <1>5, TabIs DEF Sound, FromRoom, Greeted, Settled
<1> QED BY <1>1, <1>6, PutDurable

LEMMA DropDurable == ASSUME DurableInv, NEW t \in ReplicaTabs, Drop(t) PROVE DurableInv'
<1>1. Put(t, Disconnect(tab[t])) /\ server' = server /\ JournalSound'
  BY TabIs DEF Drop, JournalSound
<1> QED BY <1>1, TabIs, DisconnectSound, PutDurable

\* A frame is taken from the socket.
LEMMA Taken ==
  ASSUME DurableInv, NEW t \in ReplicaTabs, NEW kind, Receiving(t, kind)
  PROVE  /\ LET q == Consumed(t)
            IN  /\ Tabular(q) /\ q.pend = tab[t].pend /\ q.jobs = tab[t].jobs /\ q.svv = tab[t].svv
                /\ q.hasVV = tab[t].hasVV /\ q.synced = tab[t].synced /\ q.doc = tab[t].doc
                /\ q.inb = Tail(tab[t].inb) /\ q.phase = tab[t].phase
         /\ IsSequence(Tail(tab[t].inb)) /\ Range(Tail(tab[t].inb)) \subseteq Range(tab[t].inb)
         /\ Head(tab[t].inb) \in Range(tab[t].inb) /\ Head(tab[t].inb).kind = kind
         /\ kind \in {"vv", "update", "committed"} => Head(tab[t].inb).ops \subseteq server
<1>1. IsSequence(tab[t].inb) /\ tab[t].inb # <<>> /\ Head(tab[t].inb).kind = kind
  BY TabIs DEF Sound, FromRoom, Receiving
<1>2. /\ IsSequence(Tail(tab[t].inb)) /\ Range(Tail(tab[t].inb)) \subseteq Range(tab[t].inb)
      /\ Head(tab[t].inb) \in Range(tab[t].inb)
  BY <1>1, TailSequence
<1>3. kind \in {"vv", "update", "committed"} => Head(tab[t].inb).ops \subseteq server
  BY <1>1, <1>2, TabIs DEF Sound, FromRoom
<1> QED BY <1>1, <1>2, <1>3, TabIs DEF Consumed, Tabular, Closed

LEMMA OnServerVVDurable == ASSUME DurableInv, NEW t \in ReplicaTabs, OnServerVV(t) PROVE DurableInv'
<1> DEFINE r == [Consumed(t) EXCEPT !.svv = Head(tab[t].inb).ops, !.hasVV = TRUE]
<1>1. Receiving(t, "vv") /\ Put(t, r) /\ server' = server /\ JournalSound'
  BY TabIs DEF OnServerVV, JournalSound
<1>2. /\ Tabular(r) /\ r.pend = tab[t].pend /\ r.jobs = tab[t].jobs /\ r.svv = Head(tab[t].inb).ops
      /\ r.hasVV /\ r.synced = tab[t].synced /\ r.doc = tab[t].doc
      /\ r.inb = Tail(tab[t].inb) /\ r.phase = tab[t].phase
  BY <1>1, Taken DEF Tabular, Closed
<1> HIDE DEF r
<1>3. Sound(r, server) /\ Settled(r, server)
  BY <1>1, <1>2, TabIs, Taken DEF Sound, FromRoom, Greeted, Settled, Live
<1> QED BY <1>1, <1>3, PutDurable

LEMMA OnUpdateDurable == ASSUME DurableInv, NEW t \in ReplicaTabs, OnUpdate(t) PROVE DurableInv'
<1> DEFINE f == Head(tab[t].inb)
           r == [Consumed(t) EXCEPT !.doc = Import(@, f.ops)]
<1>1. Receiving(t, "update") /\ Put(t, r) /\ server' = server /\ JournalSound'
  BY TabIs DEF OnUpdate, JournalSound
<1>2. /\ Tabular(r) /\ r.pend = tab[t].pend /\ r.jobs = tab[t].jobs /\ r.svv = tab[t].svv
      /\ r.hasVV = tab[t].hasVV /\ r.synced = tab[t].synced /\ r.doc = Import(tab[t].doc, f.ops)
      /\ r.inb = Tail(tab[t].inb) /\ r.phase = tab[t].phase
  BY <1>1, Taken DEF Tabular, Closed
<1> HIDE DEF r
<1>3. Import(tab[t].doc, f.ops) \subseteq tab[t].doc \cup f.ops
  BY DEF Import
<1>4. f.kind = "update" /\ f.ops \subseteq server
  BY <1>1, Taken
<1>5. Sound(r, server)
  BY <1>1, <1>2, <1>4, TabIs, Taken DEF Sound, FromRoom, Greeted
<1>6. Settled(r, server)
  BY <1>2, <1>3, <1>4, TabIs DEF Settled, Live
<1> QED BY <1>1, <1>5, <1>6, PutDurable

LEMMA OnSyncedDurable == ASSUME DurableInv, NEW t \in ReplicaTabs, OnSynced(t) PROVE DurableInv'
<1> DEFINE r == [Consumed(t) EXCEPT !.synced = TRUE]
<1>1. Receiving(t, "synced") /\ Put(t, Synchronize(r, FreshId)) /\ server' = server /\ JournalSound'
  BY TabIs DEF OnSynced, JournalSound
<1>2. /\ Tabular(r) /\ r.pend = tab[t].pend /\ r.jobs = tab[t].jobs /\ r.svv = tab[t].svv
      /\ r.hasVV = tab[t].hasVV /\ r.inb = Tail(tab[t].inb)
  BY <1>1, Taken DEF Tabular, Closed
<1>3. tab[t].hasVV
  BY <1>1, Taken, TabIs DEF Sound, Greeted
<1> HIDE DEF r
<1>4. Sound(r, server) /\ r.hasVV
  BY <1>1, <1>2, <1>3, Taken, TabIs DEF Sound, FromRoom, Greeted
<1> QED BY <1>1, <1>4, SynchronizeSound, PutDurable

LEMMA OnCommittedDurable == ASSUME DurableInv, NEW t \in ReplicaTabs, OnCommitted(t) PROVE DurableInv'
<1> DEFINE f == Head(tab[t].inb)
           j == [kind |-> "ack", id |-> f.id, ops |-> f.ops, fb |-> tab[t].pend]
           r == [Consumed(t) EXCEPT !.svv = f.ops, !.hasVV = TRUE, !.jobs = Append(@, j)]
<1>1. Receiving(t, "committed") /\ Put(t, r) /\ server' = server /\ JournalSound'
  BY TabIs DEF OnCommitted, JournalSound
<1>2. /\ Tabular(r) /\ r.pend = tab[t].pend /\ r.jobs = Append(tab[t].jobs, j) /\ r.svv = f.ops
      /\ r.hasVV /\ r.synced = tab[t].synced /\ r.doc = tab[t].doc
      /\ r.inb = Tail(tab[t].inb) /\ r.phase = tab[t].phase
  BY <1>1, Taken DEF Tabular, Closed
<1>3. j.kind = "ack" /\ j.ops = f.ops /\ j.fb = tab[t].pend
  OBVIOUS
<1> HIDE DEF r, j
<1>4. f.ops \subseteq server
  BY <1>1, Taken
<1>5. IsSequence(r.jobs) /\ Range(r.jobs) = Range(tab[t].jobs) \cup {j}
  BY <1>2, TabIs, AppendSequence DEF Sound, FromRoom
<1>6. Sound(r, server) /\ Settled(r, server)
  BY <1>1, <1>2, <1>3, <1>4, <1>5, TabIs, Taken DEF Sound, FromRoom, Greeted, Settled, Live
<1> QED BY <1>1, <1>6, PutDurable

\* A frame of the room that does not say that the tab is synced.
LEMMA FrameArrives ==
  ASSUME NEW r, NEW q, NEW S, Sound(r, S), Settled(r, S), Tabular(q), NEW f,
         f.kind # "synced", f.ops \subseteq S, q.inb = Append(r.inb, f),
         q.pend = r.pend, q.jobs = r.jobs, q.svv = r.svv, q.hasVV = r.hasVV,
         q.synced = r.synced, q.doc = r.doc, q.phase = r.phase
  PROVE  Sound(q, S) /\ Settled(q, S)
<1>1. /\ IsSequence(q.inb) /\ Range(q.inb) = Range(r.inb) \cup {f} /\ q.inb # <<>>
      /\ r.inb # <<>> => Head(q.inb) = Head(r.inb)
  BY AppendSequence DEF Sound, FromRoom
<1> QED BY <1>1 DEF Sound, FromRoom, Greeted, Settled, Live

LEMMA CommitDurable == ASSUME DurableInv, NEW t \in ReplicaTabs, Commit(t) PROVE DurableInv'
<1> DEFINE m == Head(tab[t].out)
           next == Import(server, m.ops)
           new == next \ server
           c == [kind |-> "committed", id |-> m.id, ops |-> next]
           u == [kind |-> "update", ops |-> new]
<1>1. /\ server' = next /\ journal' = journal
      /\ tab' = [w \in ReplicaTabs |->
           IF w = t THEN [tab[t] EXCEPT !.out = Tail(@), !.inb = Append(@, c)]
           ELSE IF tab[w].sock /\ new # {} THEN [tab[w] EXCEPT !.inb = Append(@, u)] ELSE tab[w]]
  BY DEF Commit
<1>2. server \subseteq next /\ new \subseteq next
  BY DEF Import
<1>3. c.kind = "committed" /\ c.ops = next /\ u.kind = "update" /\ u.ops = new
  OBVIOUS
<1> HIDE DEF next, new, c, u
<1>4. ASSUME NEW w \in ReplicaTabs PROVE Sound(tab'[w], next) /\ Settled(tab'[w], next)
  <2>1. Sound(tab[w], next) /\ Settled(tab[w], next) /\ Tabular(tab[w])
    BY <1>2, TabIs, MoreServer
  <2>2. CASE w = t
    <3> DEFINE q == [tab[t] EXCEPT !.out = Tail(@), !.inb = Append(@, c)]
    <3>1. /\ Tabular(q) /\ q.inb = Append(tab[w].inb, c) /\ q.pend = tab[w].pend /\ q.jobs = tab[w].jobs
          /\ q.svv = tab[w].svv /\ q.hasVV = tab[w].hasVV /\ q.synced = tab[w].synced
          /\ q.doc = tab[w].doc /\ q.phase = tab[w].phase /\ tab'[w] = q
      BY <1>1, <2>1, <2>2 DEF Tabular, Closed
    <3> HIDE DEF q
    <3> QED BY <1>3, <2>1, <3>1, FrameArrives
  <2>3. CASE w # t /\ tab[w].sock /\ new # {}
    <3> DEFINE q == [tab[w] EXCEPT !.inb = Append(@, u)]
    <3>1. /\ Tabular(q) /\ q.inb = Append(tab[w].inb, u) /\ q.pend = tab[w].pend /\ q.jobs = tab[w].jobs
          /\ q.svv = tab[w].svv /\ q.hasVV = tab[w].hasVV /\ q.synced = tab[w].synced
          /\ q.doc = tab[w].doc /\ q.phase = tab[w].phase /\ tab'[w] = q
      BY <1>1, <2>1, <2>3 DEF Tabular, Closed
    <3> HIDE DEF q
    <3> QED BY <1>2, <1>3, <2>1, <3>1, FrameArrives
  <2>4. CASE w # t /\ ~(tab[w].sock /\ new # {})
    BY <1>1, <2>1, <2>4
  <2> QED BY <2>2, <2>3, <2>4
<1> QED BY <1>1, <1>4 DEF DurableInv

\* A tab that is not live makes no claim.
LEMMA StoppedSound ==
  ASSUME NEW r, NEW q, NEW S, Sound(r, S), Tabular(q), q.pend = r.pend, q.jobs \in {r.jobs, <<>>},
         q.inb = r.inb, q.svv = r.svv, q.hasVV = r.hasVV, q.synced = r.synced, q.phase # "live"
  PROVE  Sound(q, S) /\ Settled(q, S)
<1>1. IsSequence(q.jobs) /\ Range(q.jobs) \subseteq Range(r.jobs)
  BY EmptyIsSequence DEF Sound, FromRoom
<1> QED BY <1>1 DEF Sound, FromRoom, Greeted, Settled, Live

LEMMA StopDurable ==
  ASSUME DurableInv, NEW t \in ReplicaTabs, Forbid(t) \/ FailJob(t) \/ Close(t) \/ Gone(t)
  PROVE  DurableInv'
<1> DEFINE d == Disconnect(tab[t])
           c == Checkpoint(d)
<1>0. server' = server /\ JournalSound'
  BY TabIs DEF Forbid, FailJob, Close, Gone, JournalSound
<1>1. Sound(d, server) /\ Sound(c, server) /\ Tabular(d) /\ Tabular(c)
  BY TabIs, DisconnectSound, CheckpointSound DEF Sound
<1> HIDE DEF d, c
<1>2. CASE Forbid(t)
  <2> DEFINE q == [c EXCEPT !.phase = "terminal"]
  <2>1. Put(t, q)
    BY <1>2 DEF Forbid, Terminal, c, d
  <2>2. /\ Tabular(q) /\ q.pend = c.pend /\ q.jobs = c.jobs /\ q.inb = c.inb /\ q.svv = c.svv
        /\ q.hasVV = c.hasVV /\ q.synced = c.synced /\ q.phase # "live"
    BY <1>1 DEF Tabular, Closed
  <2> HIDE DEF q
  <2>3. Sound(q, server) /\ Settled(q, server)
    BY <1>1, <2>2, StoppedSound
  <2> QED BY <1>0, <2>1, <2>3, PutDurable
<1>3. CASE FailJob(t)
  <2> DEFINE q == [d EXCEPT !.phase = "fatal", !.jobs = <<>>, !.saved = FALSE]
  <2>1. Put(t, q)
    BY <1>3 DEF FailJob, StorageFatal, d
  <2>2. /\ Tabular(q) /\ q.pend = d.pend /\ q.jobs = <<>> /\ q.inb = d.inb /\ q.svv = d.svv
        /\ q.hasVV = d.hasVV /\ q.synced = d.synced /\ q.phase # "live"
    BY <1>1 DEF Tabular, Closed
  <2> HIDE DEF q
  <2>3. Sound(q, server) /\ Settled(q, server)
    BY <1>1, <2>2, StoppedSound
  <2> QED BY <1>0, <2>1, <2>3, PutDurable
<1>4. CASE Close(t)
  <2> DEFINE q == [c EXCEPT !.phase = "closing", !.chan = <<>>]
  <2>1. Put(t, q)
    BY <1>4 DEF Close, c, d
  <2>2. /\ Tabular(q) /\ q.pend = c.pend /\ q.jobs = c.jobs /\ q.inb = c.inb /\ q.svv = c.svv
        /\ q.hasVV = c.hasVV /\ q.synced = c.synced /\ q.phase # "live"
    BY <1>1 DEF Tabular, Closed
  <2> HIDE DEF q
  <2>3. Sound(q, server) /\ Settled(q, server)
    BY <1>1, <2>2, StoppedSound
  <2> QED BY <1>0, <2>1, <2>3, PutDurable
<1>5. CASE Gone(t)
  <2>1. Put(t, Closed)
    BY <1>5 DEF Gone
  <2> QED BY <1>0, <2>1, ClosedSound, PutDurable
<1> QED BY <1>2, <1>3, <1>4, <1>5

\* A message of another tab is heard.
LEMMA HeardSame ==
  ASSUME DurableInv, NEW t \in ReplicaTabs
  PROVE  Same(tab[t], Heard(t))
BY TabIs DEF Same, Heard, Tabular, Closed

LEMMA HearDurable ==
  ASSUME DurableInv, NEW t \in ReplicaTabs, OnTabUpdate(t) \/ OnTabSnapshot(t) \/ OnTabAsk(t) \/ Visible(t)
  PROVE  DurableInv'
<1> DEFINE h == Heard(t)
           ops == Head(tab[t].chan).ops
           r == [h EXCEPT !.doc = Import(@, ops)]
<1>0. server' = server /\ JournalSound'
  BY TabIs DEF OnTabUpdate, OnTabSnapshot, OnTabAsk, Visible, JournalSound
<1>1. Sound(h, server) /\ Settled(h, server) /\ Tabular(h)
  BY HeardSame, TabIs, SameSound DEF Same
<1>2. /\ Tabular(r) /\ r.pend = h.pend /\ r.jobs = h.jobs /\ r.inb = h.inb /\ r.svv = h.svv
      /\ r.hasVV = h.hasVV /\ r.synced = h.synced
  <2> HIDE DEF h, ops
  <2> QED BY <1>1 DEF Tabular, Closed
<1>3. CASE OnTabUpdate(t)
  <2>1. Put(t, Persist(r, ops, FALSE, FreshId))
    BY <1>3 DEF OnTabUpdate
  <2> HIDE DEF r, h, ops
  <2>2. Sound(r, server)
    BY <1>1, <1>2, ShownSound
  <2> QED BY <1>0, <2>1, <2>2, PersistSound, PutDurable
<1>4. CASE OnTabSnapshot(t)
  <2>1. Put(t, IF r.hasVV THEN SendMissing(r, r.svv, FreshId) ELSE r)
    BY <1>4 DEF OnTabSnapshot
  <2> HIDE DEF r, h, ops
  <2>2. Sound(r, server) /\ r.svv \subseteq server
    BY <1>1, <1>2, ShownSound DEF Sound, FromRoom
  <2>3. CASE r.hasVV
    BY <1>0, <2>1, <2>2, <2>3, SendMissingSound, PutDurable
  <2>4. CASE ~r.hasVV
    <3>1. Settled(r, server)
      BY <2>2, <2>4 DEF Sound, Greeted, Settled
    <3> QED BY <1>0, <2>1, <2>2, <2>4, <3>1, PutDurable
  <2> QED BY <2>3, <2>4
<1>5. CASE OnTabAsk(t)
  <2>1. Put(t, h) \/ PutPosting(t, h, [kind |-> "snapshot", ops |-> tab[t].doc])
    BY <1>5 DEF OnTabAsk
  <2> HIDE DEF h
  <2> QED BY <1>0, <1>1, <2>1, PutDurable, PostDurable
<1>6. CASE Visible(t)
  <2>1. PutPosting(t, tab[t], [kind |-> "ask"])
    BY <1>6 DEF Visible
  <2> QED BY <1>0, <2>1, TabIs, PostDurable
<1> QED BY <1>3, <1>4, <1>5, <1>6

\* A journal write that runs.
LEMMA RunIs ==
  ASSUME DurableInv, NEW t \in ReplicaTabs, NEW kind, RunningHead(t, kind)
  PROVE  LET q == [Ran(t) EXCEPT !.saved = TRUE]
             job == Head(tab[t].jobs)
         IN  /\ Sound(q, server) /\ Settled(q, server) /\ Tabular(q)
             /\ q.pend = tab[t].pend /\ q.doc = tab[t].doc /\ q.phase = tab[t].phase
             /\ kind = "ack" => job.ops \subseteq server
             /\ DOMAIN Base(tab[t], job) = {"site", "snap", "pending"} /\ IsSequence(Base(tab[t], job).pending)
<1> DEFINE q == [Ran(t) EXCEPT !.saved = TRUE]
           job == Head(tab[t].jobs)
<1>1. IsSequence(tab[t].jobs) /\ tab[t].jobs # <<>> /\ job.kind = kind
  BY TabIs DEF Sound, FromRoom, RunningHead
<1>2. IsSequence(Tail(tab[t].jobs)) /\ Range(Tail(tab[t].jobs)) \subseteq Range(tab[t].jobs) /\ job \in Range(tab[t].jobs)
  BY <1>1, TailSequence
<1>3. /\ Tabular(q) /\ q.pend = tab[t].pend /\ q.jobs = Tail(tab[t].jobs) /\ q.inb = tab[t].inb /\ q.svv = tab[t].svv
      /\ q.hasVV = tab[t].hasVV /\ q.synced = tab[t].synced /\ q.doc = tab[t].doc /\ q.phase = tab[t].phase
  BY TabIs DEF Ran, Tabular, Closed
<1>4. IsSequence(job.fb) /\ (kind = "ack" => job.ops \subseteq server)
  BY <1>1, <1>2, TabIs DEF Sound, FromRoom
<1>5. DOMAIN Base(tab[t], job) = {"site", "snap", "pending"} /\ IsSequence(Base(tab[t], job).pending)
  BY <1>4 DEF Base, DurableInv
<1> HIDE DEF q, job
<1>6. Sound(q, server) /\ Settled(q, server)
  BY <1>2, <1>3, TabIs DEF Sound, FromRoom, Greeted, Settled, Live
<1> QED BY <1>3, <1>4, <1>5, <1>6 DEF q, job

LEMMA RunCheckpointDurable == ASSUME DurableInv, NEW t \in ReplicaTabs, RunCheckpoint(t) PROVE DurableInv'
<1> DEFINE base == Base(tab[t], Head(tab[t].jobs))
           q == [Ran(t) EXCEPT !.saved = TRUE]
<1>1. /\ RunningHead(t, "checkpoint") /\ journal' = [base EXCEPT !.snap = tab[t].doc]
      /\ Put(t, q) /\ server' = server
  BY DEF RunCheckpoint
<1>2. /\ Sound(q, server) /\ Settled(q, server)
      /\ DOMAIN base = {"site", "snap", "pending"} /\ IsSequence(base.pending)
  BY <1>1, RunIs
<1> HIDE DEF base, q
<1>3. JournalSound'
  BY <1>1, <1>2 DEF JournalSound
<1> QED BY <1>1, <1>2, <1>3, PutDurable

LEMMA RunAppendDurable ==
  ASSUME DurableInv, Access, NEW t \in ReplicaTabs, RunAppend(t)
  PROVE  DurableInv'
<1> DEFINE job == Head(tab[t].jobs)
           base == Base(tab[t], job)
           q == [Ran(t) EXCEPT !.saved = TRUE]
           msg == [kind |-> "update", ops |-> job.m.ops]
<1>1. /\ RunningHead(t, "append") /\ server' = server
      /\ journal' = [base EXCEPT !.pending = IF \E m \in Range(@) : m.id = job.m.id THEN @ ELSE Append(@, job.m)]
      /\ \/ Put(t, q) \/ Put(t, SendAll(q, <<job.m>>)) \/ PutPosting(t, SendAll(q, <<job.m>>), msg)
  BY DEF RunAppend
<1>2. /\ Sound(q, server) /\ Settled(q, server) /\ Tabular(q)
      /\ DOMAIN base = {"site", "snap", "pending"} /\ IsSequence(base.pending)
  BY <1>1, RunIs
<1> HIDE DEF base, q, msg
<1>3. JournalSound'
  <2>1. DOMAIN journal' = {"site", "snap", "pending"} /\ journal'.pending \in {base.pending, Append(base.pending, job.m)}
    BY <1>1, <1>2
  <2> QED BY <1>2, <2>1, AppendSequence DEF JournalSound
<1>4. Sound(SendAll(q, <<job.m>>), server) /\ Settled(SendAll(q, <<job.m>>), server)
  BY <1>2, SendAllSame, SameSound
<1> QED BY <1>1, <1>2, <1>3, <1>4, PutDurable, PostDurable

LEMMA RunAckDurable ==
  ASSUME DurableInv, Access, NEW t \in ReplicaTabs, RunAck(t)
  PROVE  DurableInv'
<1> DEFINE job == Head(tab[t].jobs)
           base == Base(tab[t], job)
           q == [Ran(t) EXCEPT !.saved = TRUE]
           r == [Ran(t) EXCEPT !.saved = TRUE, !.pend = Without(@, job.id)]
<1>1. /\ RunningHead(t, "ack") /\ server' = server
      /\ journal' = [base EXCEPT !.snap = tab[t].doc, !.pending = Without(@, job.id)]
      /\ Put(t, IF ~Live(r) THEN r
                ELSE IF r.pend = <<>> THEN SendMissing(r, job.ops, FreshId)
                     ELSE IF r.synced THEN SetStatus(r, "saving") ELSE r)
  BY DEF RunAck
<1>2. /\ Sound(q, server) /\ Tabular(q) /\ job.ops \subseteq server
      /\ DOMAIN base = {"site", "snap", "pending"} /\ IsSequence(base.pending)
  BY <1>1, RunIs
<1>3. /\ Tabular(r) /\ r.pend = Without(q.pend, job.id) /\ r.jobs = q.jobs /\ r.inb = q.inb /\ r.svv = q.svv
      /\ r.hasVV = q.hasVV /\ r.synced = q.synced
  BY TabIs DEF Ran, Tabular, Closed
<1> HIDE DEF base, q, r
<1>4. JournalSound'
  <2>1. DOMAIN journal' = {"site", "snap", "pending"} /\ journal'.pending = Without(base.pending, job.id)
    BY <1>1, <1>2
  <2> QED BY <1>2, <2>1, WithoutSequence DEF JournalSound
<1>5. Sound(r, server)
  <2>1. IsSequence(r.pend)
    BY <1>2, <1>3, WithoutSequence DEF Sound, FromRoom
  <2> QED BY <1>2, <1>3, <2>1 DEF Sound, FromRoom, Greeted
<1>6. CASE Live(r) /\ r.pend = <<>>
  BY <1>1, <1>2, <1>4, <1>5, <1>6, SendMissingSound, PutDurable
<1>7. CASE ~(Live(r) /\ r.pend = <<>>)
  <2>1. Settled(r, server)
    BY <1>7 DEF Settled
  <2>2. Put(t, r) \/ Put(t, SetStatus(r, "saving"))
    BY <1>1, <1>7
  <2>3. Sound(SetStatus(r, "saving"), server) /\ Settled(SetStatus(r, "saving"), server)
    BY <1>3, <1>5, <2>1, StatusSame, SameSound
  <2> QED BY <1>1, <1>4, <1>5, <2>1, <2>2, <2>3, PutDurable
<1> QED BY <1>6, <1>7

LEMMA DurableStarts == ReplicaInit => DurableInv
<1> SUFFICES ASSUME ReplicaInit PROVE DurableInv
  OBVIOUS
<1>1. ASSUME NEW t \in ReplicaTabs PROVE Sound(tab[t], server) /\ Settled(tab[t], server)
  BY ClosedSound, FreshSound DEF ReplicaInit
<1>2. DOMAIN journal = {"site", "snap", "pending"} /\ journal.pending = <<>>
  BY DEF ReplicaInit, NoJournal
<1> QED BY <1>1, <1>2, EmptyIsSequence DEF DurableInv, ReplicaInit

LEMMA DurableSteps == Access /\ DurableInv /\ [ReplicaNext]_replicaVars => DurableInv'
<1> SUFFICES ASSUME Access, DurableInv, [ReplicaNext]_replicaVars PROVE DurableInv'
  OBVIOUS
<1>1. CASE UNCHANGED replicaVars
  BY <1>1 DEF replicaVars, DurableInv
<1>2. CASE ReplicaNext
  <2> PICK t \in ReplicaTabs :
        \/ Open(t) \/ Edit(t) \/ SaveTimer(t) \/ Connect(t) \/ Drop(t)
        \/ OnServerVV(t) \/ OnUpdate(t) \/ OnSynced(t) \/ OnCommitted(t) \/ Commit(t) \/ Forbid(t)
        \/ RunAppend(t) \/ RunAck(t) \/ RunCheckpoint(t) \/ FailJob(t)
        \/ OnTabUpdate(t) \/ OnTabSnapshot(t) \/ OnTabAsk(t) \/ Visible(t) \/ Close(t) \/ Gone(t)
    BY <1>2 DEF ReplicaNext
  <2>1. CASE Open(t) \/ Edit(t) \/ SaveTimer(t) \/ Connect(t) \/ Drop(t)
    BY <2>1, OpenDurable, EditDurable, SaveDurable, ConnectDurable, DropDurable
  <2>2. CASE OnServerVV(t) \/ OnUpdate(t) \/ OnSynced(t) \/ OnCommitted(t) \/ Commit(t)
    BY <2>2, OnServerVVDurable, OnUpdateDurable, OnSyncedDurable, OnCommittedDurable, CommitDurable
  <2>3. CASE RunAppend(t) \/ RunAck(t) \/ RunCheckpoint(t)
    BY <2>3, RunAppendDurable, RunAckDurable, RunCheckpointDurable
  <2>4. CASE Forbid(t) \/ FailJob(t) \/ Close(t) \/ Gone(t)
    BY <2>4, StopDurable
  <2>5. CASE OnTabUpdate(t) \/ OnTabSnapshot(t) \/ OnTabAsk(t) \/ Visible(t)
    BY <2>5, HearDurable
  <2> QED BY <2>1, <2>2, <2>3, <2>4, <2>5
<1> QED BY <1>1, <1>2

\* What whenDurable waits for is never reported of operations the room has not
\* committed: for any tabs, readers among them, opened, closed and killed in any
\* order, and without the assumption that identities are not repeated.
THEOREM DurableStaysCommitted == ReplicaSpec => []DurableMeansCommitted
<1>1. ReplicaInit => (Access => DurableInv)
  BY DurableStarts
<1>2. (Access => DurableInv) /\ [ReplicaNext]_replicaVars => (Access => DurableInv)'
  BY DurableSteps
<1>3. (Access => DurableInv) => DurableMeansCommitted
  BY DEF DurableInv, DurableMeansCommitted, IsDurable, Settled
<1> QED BY <1>1, <1>2, <1>3, PTL DEF ReplicaSpec
==============================================================================
