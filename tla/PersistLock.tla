---------------------------- MODULE PersistLock ----------------------------
(***************************************************************************)
(* Journal writes of one document (persist-lock.ts): a queue in each page, *)
(* the browser's Web Lock between pages, one budget per write, and a lane  *)
(* poisoned by the first write that exceeds it.  A write that exceeded its *)
(* budget goes on in the background.  The page frees its replica behind a  *)
(* final checkpoint.                                                       *)
(***************************************************************************)
EXTENDS Naturals, Sequences, FiniteSets

CONSTANTS
  Tabs,
  Jobs,       \* writes: a bound on how many are requested
  TabOf,      \* the page that requests a write
  Final,      \* Final[t]: the write that is page t's final checkpoint
  WebLocks,   \* the browser has navigator.locks
  Failing,    \* pages whose transactions may abort (quota) rather than hang
  NoJob

ASSUME PersistLockAssumption ==
  /\ TabOf \in [Jobs -> Tabs] /\ Final \in [Tabs -> Jobs]
  /\ \A t \in Tabs : TabOf[Final[t]] = t
  /\ WebLocks \in BOOLEAN /\ Failing \subseteq Tabs /\ NoJob \notin Jobs

VARIABLES
  lane,     \* lane[t]: the process queue, first the running write
  st,       \* new, queued, locking, working or ended
  call,     \* what the caller's promise shows: none, pending, ok or failed
  poisoned, \* pages whose lane is poisoned
  holder,   \* the write that holds the Web Lock
  fatal,    \* pages with storageFatal
  replica,  \* live, closing or freed
  dead      \* writes whose exporter met a freed replica

vars == <<lane, st, call, poisoned, holder, fatal, replica, dead>>

Init ==
  /\ lane = [t \in Tabs |-> <<>>]
  /\ st = [j \in Jobs |-> "new"] /\ call = [j \in Jobs |-> "none"]
  /\ poisoned = {} /\ holder = NoJob /\ fatal = {} /\ dead = {}
  /\ replica = [t \in Tabs |-> "live"]

------------------------------------------------------------------------------
\* withPersistLock: refused at once on a poisoned lane, otherwise queued.
Enter(j) ==
  LET t == TabOf[j] IN
  IF t \in poisoned
  THEN /\ st' = [st EXCEPT ![j] = "ended"] /\ call' = [call EXCEPT ![j] = "failed"]
       /\ fatal' = fatal \cup {t} /\ UNCHANGED lane
  ELSE /\ st' = [st EXCEPT ![j] = "queued"] /\ call' = [call EXCEPT ![j] = "pending"]
       /\ lane' = [lane EXCEPT ![t] = Append(@, j)] /\ UNCHANGED fatal

Request(j) ==
  /\ st[j] = "new" /\ j # Final[TabOf[j]]
  /\ replica[TabOf[j]] = "live" /\ TabOf[j] \notin fatal
  /\ Enter(j)
  /\ UNCHANGED <<poisoned, holder, replica, dead>>

\* destroy: the final checkpoint is skipped after a storage failure, and the
\* replica is released when its promise settles.
Destroy(t) ==
  /\ replica[t] = "live"
  /\ IF t \in fatal
     THEN replica' = [replica EXCEPT ![t] = "freed"] /\ UNCHANGED <<st, call, lane, fatal>>
     ELSE replica' = [replica EXCEPT ![t] = "closing"] /\ Enter(Final[t])
  /\ UNCHANGED <<poisoned, holder, dead>>

\* releaseReplicaAfterCheckpoint; its own timer is behind the write's budget.
Release(t) ==
  /\ replica[t] = "closing" /\ call[Final[t]] # "pending"
  /\ replica' = [replica EXCEPT ![t] = "freed"]
  /\ UNCHANGED <<lane, st, call, poisoned, holder, fatal, dead>>

------------------------------------------------------------------------------
\* A run in the queue settles: the next one may start, the Web Lock is free.
Settle(j) ==
  /\ st' = [st EXCEPT ![j] = "ended"]
  /\ lane' = [lane EXCEPT ![TabOf[j]] = Tail(@)]
  /\ holder' = IF holder = j THEN NoJob ELSE holder

Rejects(j) ==
  /\ call' = [call EXCEPT ![j] = IF @ = "pending" THEN "failed" ELSE @]
  /\ fatal' = IF call[j] = "pending" THEN fatal \cup {TabOf[j]} ELSE fatal

Healthy(j) == TabOf[j] \notin poisoned /\ call[j] = "pending"

\* The exporter runs synchronously at the head of the work.
StartWork(j) ==
  IF replica[TabOf[j]] = "freed"
  THEN /\ dead' = dead \cup {j} /\ Settle(j) /\ Rejects(j)
  ELSE /\ st' = [st EXCEPT ![j] = "working"]
       /\ holder' = IF WebLocks THEN j ELSE holder
       /\ UNCHANGED <<lane, call, fatal, dead>>

\* Mutant: a write does not wait for the one before it in the page.
TurnUnqueued(j) ==
  /\ st[j] = "queued"
  /\ StartWork(j)
  /\ UNCHANGED <<poisoned, replica>>

\* Its turn in the process queue.
Turn(j) ==
  /\ st[j] = "queued" /\ Head(lane[TabOf[j]]) = j
  /\ IF ~Healthy(j) THEN Settle(j) /\ Rejects(j) /\ UNCHANGED dead
     ELSE IF WebLocks
     THEN st' = [st EXCEPT ![j] = "locking"] /\ UNCHANGED <<lane, holder, call, fatal, dead>>
     ELSE StartWork(j)
  /\ UNCHANGED <<poisoned, replica>>

\* The browser grants the Web Lock.
Grant(j) ==
  /\ st[j] = "locking" /\ holder = NoJob
  /\ IF ~Healthy(j) THEN Settle(j) /\ Rejects(j) /\ UNCHANGED dead ELSE StartWork(j)
  /\ UNCHANGED <<poisoned, replica>>

Finish(j) ==
  /\ st[j] = "working"
  /\ Settle(j)
  /\ call' = [call EXCEPT ![j] = IF @ = "pending" THEN "ok" ELSE @]
  /\ UNCHANGED <<poisoned, fatal, replica, dead>>

\* The transaction aborts within the budget: the lane stays healthy.
Aborts(j) ==
  /\ TabOf[j] \in Failing /\ st[j] = "working"
  /\ Settle(j) /\ Rejects(j)
  /\ UNCHANGED <<poisoned, replica, dead>>

\* Budgets are equal, so they run out in the order of the requests.
Due(j) ==
  /\ call[j] = "pending"
  /\ \A i \in 1..Len(lane[TabOf[j]]) :
       call[lane[TabOf[j]][i]] = "pending" =>
         \E k \in i..Len(lane[TabOf[j]]) : lane[TabOf[j]][k] = j

\* The budget runs out: the caller sees a failure and the lane is poisoned.  A
\* lock request is withdrawn; queued and running work stay where they are.
Timeout(j) ==
  /\ Due(j)
  /\ call' = [call EXCEPT ![j] = "failed"]
  /\ poisoned' = poisoned \cup {TabOf[j]} /\ fatal' = fatal \cup {TabOf[j]}
  /\ IF st[j] = "locking" THEN Settle(j) ELSE UNCHANGED <<st, lane, holder>>
  /\ UNCHANGED <<replica, dead>>

Next ==
  \/ \E j \in Jobs : Request(j) \/ Turn(j) \/ Grant(j) \/ Finish(j) \/ Aborts(j) \/ Timeout(j)
  \/ \E t \in Tabs : Destroy(t) \/ Release(t)

Spec == Init /\ [][Next]_vars

------------------------------------------------------------------------------
\* Writes never overlap: in one page because a timed-out write keeps its lane,
\* and between pages where there are Web Locks (withProcessLock).
NoOverlap ==
  \A j, k \in Jobs :
    st[j] = "working" /\ st[k] = "working" /\ (WebLocks \/ TabOf[j] = TabOf[k]) => j = k

\* No exporter runs on a replica that was freed, in a page whose transactions
\* may hang but do not abort: destroy waits for the final checkpoint, behind
\* every other write (releaseReplicaAfterCheckpoint).
ExportsLiveReplica == \A j \in dead : TabOf[j] \in Failing

\* A write has the journal to itself and a live replica to export, whatever
\* times out, aborts, hangs or is closed meanwhile (withPersistLock, destroy).
WritesSafe == NoOverlap /\ ExportsLiveReplica
==============================================================================
