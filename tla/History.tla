------------------------------ MODULE History ------------------------------
(***************************************************************************)
(* The history a replica may forget: compaction of a long local log and    *)
(* pruning through what the room acknowledged (esbt-engine.ts, compact-    *)
(* DurableLocalHistory, maybePrune, runHistoryMaintenance), beside the     *)
(* stored writes of one tab, the room's receipts and crashes.  An update  *)
(* is its number; a pruned one can no longer be exported as an update.     *)
(* A mutation is the set of the updates it carries.  The tab's stored     *)
(* writes run in the order they were asked for (module PersistLock).       *)
(***************************************************************************)
EXTENDS Naturals, Sequences, FiniteSets

CONSTANTS
  Threshold,  \* JOURNAL_RETAINED_THRESHOLD: 32768 in the code
  MaxUpdates, MaxTimers, MaxCuts, MaxCrashes  \* bounds

HistoryAssumption == {Threshold, MaxUpdates, MaxTimers, MaxCuts, MaxCrashes} \subseteq Nat

VARIABLES
  doc,      \* all: operations applied; floor: those whose history is pruned
  pend,     \* pendingMutations, a map: only what is in it matters
  jobs,     \* stored writes asked for, in order
  busy,     \* historyMaintenance is not null
  pruned,   \* lastPruneAt > 0
  idle,     \* the prune interval has passed since
  stored,  \* the stored record: all, floor, pending
  status,   \* "offline", "saving" (synced, something is pending), "connected"
  roomHas,   \* operations the room committed
  acks,     \* receipts on their way
  waiter,   \* a caller of whenDurable
  spent      \* bounds spent

historyVars == <<doc, pend, jobs, busy, pruned, idle, stored, status, roomHas, acks, waiter, spent>>

HistoryInit ==
  /\ doc = [all |-> {}, floor |-> {}] /\ pend = {} /\ jobs = <<>>
  /\ busy = FALSE /\ pruned = FALSE /\ idle = FALSE
  /\ stored = [all |-> {}, floor |-> {}, pending |-> {}]
  /\ status = "offline" /\ roomHas = {} /\ acks = <<>>
  /\ waiter = "none"
  /\ spent = [edits |-> 0, saves |-> 0, drops |-> 0, crashes |-> 0]

Retained == Cardinality(doc.all \ doc.floor)

\* isDurable; resolveDurabilityWaiters.
DurableWhen(p, st) == p = {} /\ st = "connected"
Resolve(p, st) == waiter' = IF waiter = "waiting" /\ DurableWhen(p, st) THEN "resolved" ELSE waiter

\* persistAndSendMutation up to its await.
PersistUpdate(p, js, m) == [pend |-> p \cup {m}, jobs |-> Append(js, [kind |-> "append", m |-> m]), status |-> "saving"]

\* exportReconnectPayload: the missing updates, or a snapshot when one of them is pruned.
ReconnectPayload(version) == IF doc.all \cap doc.floor \subseteq version THEN doc.all \ version ELSE doc.all

\* sendMissingSince and synchronizeWithServer on a synced socket.
SendMissingUpdates(p, js, version) ==
  IF p # {} THEN [pend |-> p, jobs |-> js, status |-> "saving"]
  ELSE IF doc.all = version THEN [pend |-> p, jobs |-> js, status |-> "connected"]
  ELSE PersistUpdate(p, js, ReconnectPayload(version))

------------------------------------------------------------------------------
\* Mutant: the mutation is pending only once it is in the stored.
EditLater ==
  LET o == spent.edits + 1 IN
  /\ spent.edits < MaxUpdates
  /\ doc' = [doc EXCEPT !.all = @ \cup {o}]
  /\ jobs' = Append(jobs, [kind |-> "append", m |-> {o}])
  /\ spent' = [spent EXCEPT !.edits = o]
  /\ UNCHANGED <<pend, busy, pruned, idle, stored, status, roomHas, acks, waiter>>

\* A local change of the editor.
EditLocal ==
  LET o == spent.edits + 1
      f == PersistUpdate(pend, jobs, {o})
  IN /\ spent.edits < MaxUpdates
     /\ doc' = [doc EXCEPT !.all = @ \cup {o}]
     /\ pend' = f.pend /\ jobs' = f.jobs
     /\ status' = IF status = "offline" THEN status ELSE f.status
     /\ spent' = [spent EXCEPT !.edits = o]
     /\ UNCHANGED <<busy, pruned, idle, stored, roomHas, acks, waiter>>

\* The debounced save.
TimedSave ==
  /\ spent.saves < MaxTimers
  /\ jobs' = Append(jobs, [kind |-> "checkpoint"])
  /\ spent' = [spent EXCEPT !.saves = @ + 1]
  /\ UNCHANGED <<doc, pend, busy, pruned, idle, stored, status, roomHas, acks, waiter>>

\* runHistoryMaintenance: a pass under way stands for every later one.
Maintain == ~busy

Running(kind) == jobs # <<>> /\ Head(jobs).kind = kind

\* The append completes: the mutation is sent, and a log over the threshold starts compaction.
AppendStored ==
  LET m == Head(jobs).m IN
  /\ Running("append")
  /\ stored' = [stored EXCEPT !.pending = @ \cup {m}]
  /\ pend' = pend \cup {m}
  /\ IF Maintain /\ Retained > Threshold
       THEN busy' = TRUE /\ jobs' = Append(Tail(jobs), [kind |-> "archive"])
       ELSE jobs' = Tail(jobs) /\ UNCHANGED busy
  /\ UNCHANGED <<doc, pruned, idle, status, roomHas, acks, waiter, spent>>

\* The archive of the unpruned replica is stored: now the replica is pruned through its own
\* version and stored again.
ArchiveStored ==
  /\ Running("archive")
  /\ stored' = [stored EXCEPT !.all = doc.all, !.floor = doc.floor]
  /\ doc' = [doc EXCEPT !.floor = doc.all]
  /\ pruned' = TRUE /\ idle' = FALSE
  /\ jobs' = Append(Tail(jobs), [kind |-> "maintenance"])
  /\ UNCHANGED <<pend, busy, status, roomHas, acks, waiter, spent>>

\* checkpointJournal: the replica as it is when the lock is granted.
CheckpointStored ==
  /\ Running("checkpoint") \/ Running("maintenance")
  /\ stored' = [stored EXCEPT !.all = doc.all, !.floor = doc.floor]
  /\ busy' = IF Head(jobs).kind = "maintenance" THEN FALSE ELSE busy
  /\ jobs' = Tail(jobs)
  /\ Resolve(pend, status)
  /\ UNCHANGED <<doc, pend, pruned, idle, status, roomHas, acks, spent>>

\* maybePrune's argument: the room's version, as far as the replica has it.
PruneVersion(version) == version \cap doc.all

\* maybePrune: over the threshold, or some time after a prune.
PrunesNow == Maintain /\ (Retained > Threshold \/ (pruned /\ idle))

MaybePrune(version, rest, sent) ==
  IF PrunesNow
  THEN /\ doc' = [doc EXCEPT !.floor = @ \cup PruneVersion(version)]
       /\ pruned' = TRUE /\ idle' = FALSE /\ busy' = TRUE
       /\ jobs' = Append(rest, [kind |-> "maintenance"]) \o sent
  ELSE jobs' = rest \o sent /\ UNCHANGED <<doc, pruned, idle, busy>>

\* The acknowledgement is stored with the replica, then history is pruned and what the
\* receipt's version still lacks is sent.
AckStored ==
  LET job == Head(jobs)
      rest == pend \ {job.m}
      f == IF status = "offline" THEN [pend |-> rest, jobs |-> <<>>, status |-> status]
           ELSE SendMissingUpdates(rest, <<>>, job.version)
  IN /\ Running("ack")
     /\ stored' = [all |-> doc.all, floor |-> doc.floor,
                    pending |-> stored.pending \ {job.m}]
     /\ pend' = f.pend /\ status' = f.status
     /\ MaybePrune(job.version, Tail(jobs), f.jobs)
     /\ Resolve(f.pend, f.status)
     /\ UNCHANGED <<roomHas, acks, spent>>

------------------------------------------------------------------------------
(* The room. *)

\* VV and SYNCED: the version may start a prune, then both sides exchange what they lack.
ConnectRoom ==
  LET f == SendMissingUpdates(pend, <<>>, roomHas) IN
  /\ status = "offline"
  /\ pend' = f.pend /\ status' = f.status
  /\ MaybePrune(roomHas, jobs, f.jobs)
  /\ Resolve(f.pend, f.status)
  /\ UNCHANGED <<stored, roomHas, acks, spent>>

CutOff ==
  /\ spent.drops < MaxCuts /\ spent' = [spent EXCEPT !.drops = @ + 1]
  /\ status # "offline" /\ status' = "offline" /\ acks' = <<>>
  /\ UNCHANGED <<doc, pend, jobs, busy, pruned, idle, stored, roomHas, waiter>>

\* The room commits a journaled pending mutation, or one it has already.
CommitPending(m) ==
  /\ status # "offline" /\ m \in stored.pending
  /\ ~\E i \in DOMAIN acks : acks[i].m = m
  /\ ~\E i \in DOMAIN jobs : jobs[i].kind = "ack" /\ jobs[i].m = m
  /\ roomHas' = roomHas \cup m
  /\ acks' = Append(acks, [m |-> m, version |-> roomHas'])
  /\ UNCHANGED <<doc, pend, jobs, busy, pruned, idle, stored, status, waiter, spent>>

\* handleCommitted.
Committed ==
  /\ acks # <<>> /\ acks' = Tail(acks)
  /\ jobs' = Append(jobs, [kind |-> "ack", m |-> Head(acks).m, version |-> Head(acks).version])
  /\ UNCHANGED <<doc, pend, busy, pruned, idle, stored, status, roomHas, waiter, spent>>

\* JOURNAL_PRUNE_INTERVAL_MS after the last prune.
Interval == pruned /\ ~idle /\ idle' = TRUE
  /\ UNCHANGED <<doc, pend, jobs, busy, pruned, stored, status, roomHas, acks, waiter, spent>>

\* The tab dies and the document is opened again from the stored.
CrashAndReopen ==
  /\ spent.crashes < MaxCrashes
  /\ doc' = [all |-> stored.all \cup UNION stored.pending, floor |-> stored.floor]
  /\ pend' = stored.pending
  /\ jobs' = <<>> /\ busy' = FALSE /\ status' = "offline" /\ acks' = <<>>
  /\ waiter' = "none"
  /\ spent' = [spent EXCEPT !.crashes = @ + 1]
  /\ UNCHANGED <<pruned, idle, stored, roomHas>>

------------------------------------------------------------------------------
(* whenDurable. *)

WhenDurable ==
  /\ waiter = "none"
  /\ waiter' = IF DurableWhen(pend, status) THEN "resolved" ELSE "waiting"
  /\ UNCHANGED <<doc, pend, jobs, busy, pruned, idle, stored, status, roomHas, acks, spent>>

DurabilityTimeout ==
  /\ waiter = "waiting" /\ waiter' = "rejected"
  /\ UNCHANGED <<doc, pend, jobs, busy, pruned, idle, stored, status, roomHas, acks, spent>>

HistoryNext ==
  \/ EditLocal \/ TimedSave \/ AppendStored \/ ArchiveStored \/ CheckpointStored \/ AckStored
  \/ ConnectRoom \/ CutOff \/ Committed \/ Interval \/ CrashAndReopen
  \/ WhenDurable \/ DurabilityTimeout
  \/ \E m \in pend : CommitPending(m)

HistorySpec == HistoryInit /\ [][HistoryNext]_historyVars

------------------------------------------------------------------------------
(* Properties. *)

\* What a live replica can no longer export is known to the room or still pending as the
\* exact update (esbt-engine.ts: "a compacted replica can still resend those exact updates").
\* A replica opened from the journal after a crash may hold an update that a checkpoint
\* stored before its append did: it is in no pending mutation, and goes out in a snapshot.
PrunedIsSendable == spent.crashes = 0 => doc.floor \subseteq roomHas \cup UNION pend
=============================================================================
