---------------------------- MODULE BrowserProofs ----------------------------
(***************************************************************************)
(* Journal writes have the journal to themselves and a live replica, for   *)
(* any number of pages and writes, with or without Web Locks (WritesSafe). *)
(* NoOverlap is not inductive: that two writes of one page are not both at *)
(* work follows from the shape of the lane, that two pages are not from    *)
(* the lock's holder.  That exporters meet a live replica follows from the *)
(* place of the final checkpoint, last in its lane.  And what a replica    *)
(* has pruned can still be sent, by the room's receipts and what is        *)
(* pending (PrunedIsSendable), for any threshold and any number of edits.  *)
(* A local workspace keeps its documents and counts its versions whatever  *)
(* its tabs do (LocalKept), and the command runtime and the agent's plan   *)
(* keep the order of approval, effect and receipt (CommandsInOrder).       *)
(* The review drawer lists the oldest thread when no more are offered, its *)
(* pages meet unless a refresh overtook one, and a saved version holds the *)
(* edits made before it (ReviewExact).  An idle preview shows the blocks   *)
(* of the source as they are rendered (ShownIsSource): what the worker     *)
(* takes the page to hold is on the page, or is forgotten by a reset       *)
(* before it answers again.  Of the diagrams none is forgotten, one is     *)
(* drawn at a time and the cache is of the page's theme (DiagramsExact).   *)
(***************************************************************************)
EXTENDS PersistLock, History, LocalStore, Commands, ReviewPanel, Preview, Diagrams,
        SequenceTheorems, FiniteSetTheorems, TLAPS

Active == {"queued", "locking", "working"}

Typed ==
  /\ lane \in [Tabs -> Seq(Jobs)]
  /\ st \in [Jobs -> {"new", "queued", "locking", "working", "ended"}]
  /\ call \in [Jobs -> {"none", "pending", "ok", "failed"}]
  /\ poisoned \subseteq Tabs /\ fatal \subseteq Tabs
  /\ holder \in Jobs \cup {NoJob}
  /\ replica \in [Tabs -> {"live", "closing", "freed"}]

\* A lane holds writes of its page that have not ended, each once, and only
\* the first is past its turn.
LaneInOrder ==
  \A t \in Tabs : \A i \in 1..Len(lane[t]) :
    /\ TabOf[lane[t][i]] = t /\ st[lane[t][i]] \in Active
    /\ i > 1 => st[lane[t][i]] = "queued"
    /\ \A k \in 1..Len(lane[t]) : lane[t][i] = lane[t][k] => i = k

\* A write that was requested and has not ended is in the lane of its page.
InLane ==
  \A j \in Jobs : st[j] \in Active => \E i \in 1..Len(lane[TabOf[j]]) : lane[TabOf[j]][i] = j

\* A caller waits only for a write that has not ended.
WaitsForWrite == \A j \in Jobs : call[j] = "pending" => st[j] \in Active

\* The Web Lock is held by the write at work.
HeldByWork ==
  /\ holder # NoJob => st[holder] = "working"
  /\ WebLocks => \A j \in Jobs : st[j] = "working" => holder = j

\* A page whose transactions do not abort fails only with a poisoned lane, and
\* once it is destroyed the final checkpoint is the last of a healthy lane.
ClosesBehindLane ==
  \A t \in Tabs :
    /\ replica[t] = "live" => st[Final[t]] = "new"
    /\ t \notin Failing /\ t \notin poisoned =>
         /\ t \notin fatal
         /\ \A j \in Jobs : TabOf[j] = t => call[j] # "failed"
         /\ replica[t] = "closing" =>
              \/ call[Final[t]] = "ok" /\ lane[t] = <<>>
              \/ /\ call[Final[t]] = "pending" /\ lane[t] # <<>>
                 /\ lane[t][Len(lane[t])] = Final[t]
         /\ replica[t] = "freed" => lane[t] = <<>>

Inv ==
  /\ Typed /\ LaneInOrder /\ InLane /\ WaitsForWrite /\ HeldByWork /\ ClosesBehindLane
  /\ ExportsLiveReplica

-----------------------------------------------------------------------------
\* The four ways in which a step changes a lane and the state of a write.

\* A write joins the lane (Enter on a healthy lane).
LEMMA LaneQueues ==
  ASSUME Typed, LaneInOrder, InLane, NEW j \in Jobs, st[j] = "new",
         st' = [st EXCEPT ![j] = "queued"],
         lane' = [lane EXCEPT ![TabOf[j]] = Append(@, j)]
  PROVE  /\ LaneInOrder' /\ InLane'
         /\ lane' \in [Tabs -> Seq(Jobs)]
         /\ st' \in [Jobs -> {"new", "queued", "locking", "working", "ended"}]
<1> DEFINE t == TabOf[j]
<1>1. t \in Tabs /\ lane[t] \in Seq(Jobs)
  BY PersistLockAssumption DEF Typed
<1>2. /\ lane'[t] = Append(lane[t], j) /\ Len(lane'[t]) = Len(lane[t]) + 1
      /\ lane'[t][Len(lane[t]) + 1] = j
      /\ \A i \in 1..Len(lane[t]) : lane'[t][i] = lane[t][i]
      /\ \A u \in Tabs : u # t => lane'[u] = lane[u]
      /\ lane' \in [Tabs -> Seq(Jobs)]
  BY <1>1 DEF Typed
<1>3. /\ st' \in [Jobs -> {"new", "queued", "locking", "working", "ended"}]
      /\ st'[j] = "queued" /\ \A k \in Jobs : k # j => st'[k] = st[k]
  BY DEF Typed
<1>4. \A u \in Tabs : \A i \in 1..Len(lane[u]) : lane[u][i] \in Jobs /\ lane[u][i] # j
  BY DEF Typed, LaneInOrder, Active
<1>5. LaneInOrder'
  <2> SUFFICES ASSUME NEW u \in Tabs, NEW i \in 1..Len(lane'[u])
               PROVE  /\ TabOf[lane'[u][i]] = u /\ st'[lane'[u][i]] \in Active
                      /\ i > 1 => st'[lane'[u][i]] = "queued"
                      /\ \A k \in 1..Len(lane'[u]) : lane'[u][i] = lane'[u][k] => i = k
    BY DEF LaneInOrder
  <2>1. CASE u # t
    BY <2>1, <1>2, <1>3, <1>4 DEF LaneInOrder
  <2>2. CASE u = t /\ i \in 1..Len(lane[t])
    <3>1. \A k \in 1..Len(lane'[u]) : lane'[u][i] = lane'[u][k] => i = k
      BY <2>2, <1>1, <1>2, <1>4 DEF LaneInOrder
    <3> QED BY <3>1, <2>2, <1>1, <1>2, <1>3, <1>4 DEF LaneInOrder
  <2>3. CASE u = t /\ i = Len(lane[t]) + 1
    BY <2>3, <1>1, <1>2, <1>3, <1>4 DEF Active
  <2> QED BY <2>1, <2>2, <2>3, <1>1, <1>2
<1>6. InLane'
  <2> SUFFICES ASSUME NEW k \in Jobs, st'[k] \in Active
               PROVE  \E i \in 1..Len(lane'[TabOf[k]]) : lane'[TabOf[k]][i] = k
    BY DEF InLane
  <2>1. CASE k = j
    BY <2>1, <1>1, <1>2
  <2>2. CASE k # j
    <3>1. PICK i \in 1..Len(lane[TabOf[k]]) : lane[TabOf[k]][i] = k
      BY <2>2, <1>3 DEF InLane
    <3>2. TabOf[k] \in Tabs
      BY PersistLockAssumption
    <3> QED BY <3>1, <3>2, <1>1, <1>2
  <2> QED BY <2>1, <2>2
<1> QED BY <1>2, <1>3, <1>5, <1>6

\* A write outside the lane ends at once (Enter on a poisoned lane).
LEMMA LaneRefuses ==
  ASSUME Typed, LaneInOrder, InLane, NEW j \in Jobs, st[j] = "new",
         st' = [st EXCEPT ![j] = "ended"], UNCHANGED lane
  PROVE  /\ LaneInOrder' /\ InLane'
         /\ st' \in [Jobs -> {"new", "queued", "locking", "working", "ended"}]
<1>1. /\ st' \in [Jobs -> {"new", "queued", "locking", "working", "ended"}]
      /\ st'[j] = "ended" /\ \A k \in Jobs : k # j => st'[k] = st[k]
  BY DEF Typed
<1>2. \A u \in Tabs : \A i \in 1..Len(lane[u]) : lane[u][i] \in Jobs /\ lane[u][i] # j
  BY DEF Typed, LaneInOrder, Active
<1>3. LaneInOrder'
  BY <1>1, <1>2 DEF LaneInOrder
<1>4. InLane'
  BY <1>1 DEF InLane, Active
<1> QED BY <1>1, <1>3, <1>4

\* The first write of a lane goes on (Turn, Grant).
LEMMA LaneAdvances ==
  ASSUME Typed, LaneInOrder, InLane, NEW j \in Jobs,
         lane[TabOf[j]] # <<>>, Head(lane[TabOf[j]]) = j,
         NEW s \in {"locking", "working"},
         st' = [st EXCEPT ![j] = s], UNCHANGED lane
  PROVE  /\ LaneInOrder' /\ InLane'
         /\ st' \in [Jobs -> {"new", "queued", "locking", "working", "ended"}]
<1>1. /\ st' \in [Jobs -> {"new", "queued", "locking", "working", "ended"}]
      /\ st'[j] = s /\ \A k \in Jobs : k # j => st'[k] = st[k]
  BY DEF Typed
<1>2. TabOf[j] \in Tabs /\ lane[TabOf[j]] \in Seq(Jobs)
  BY PersistLockAssumption DEF Typed
<1>3. 1 \in 1..Len(lane[TabOf[j]]) /\ lane[TabOf[j]][1] = j
  BY <1>2
<1>4. \A u \in Tabs : \A i \in 1..Len(lane[u]) :
        lane[u][i] \in Jobs /\ (lane[u][i] = j => u = TabOf[j] /\ i = 1)
  BY <1>2, <1>3 DEF Typed, LaneInOrder
<1>5. LaneInOrder'
  <2> SUFFICES ASSUME NEW u \in Tabs, NEW i \in 1..Len(lane[u])
               PROVE  /\ TabOf[lane[u][i]] = u /\ st'[lane[u][i]] \in Active
                      /\ i > 1 => st'[lane[u][i]] = "queued"
                      /\ \A k \in 1..Len(lane[u]) : lane[u][i] = lane[u][k] => i = k
    BY DEF LaneInOrder
  <2>1. CASE lane[u][i] = j
    BY <2>1, <1>1, <1>4 DEF LaneInOrder, Active
  <2>2. CASE lane[u][i] # j
    BY <2>2, <1>1, <1>4 DEF LaneInOrder
  <2> QED BY <2>1, <2>2
<1>6. InLane'
  BY <1>1, <1>3 DEF InLane, Active
<1> QED BY <1>1, <1>5, <1>6

\* The first write of a lane ends and leaves it (Settle).
LEMMA LaneSettles ==
  ASSUME Typed, LaneInOrder, InLane, NEW j \in Jobs,
         lane[TabOf[j]] # <<>>, Head(lane[TabOf[j]]) = j,
         st' = [st EXCEPT ![j] = "ended"],
         lane' = [lane EXCEPT ![TabOf[j]] = Tail(@)]
  PROVE  /\ LaneInOrder' /\ InLane'
         /\ lane' \in [Tabs -> Seq(Jobs)]
         /\ st' \in [Jobs -> {"new", "queued", "locking", "working", "ended"}]
<1> DEFINE t == TabOf[j]
<1>1. t \in Tabs /\ lane[t] \in Seq(Jobs) /\ lane[t][1] = j /\ Len(lane[t]) \in Nat \ {0}
  <2>1. t \in Tabs /\ lane[t] \in Seq(Jobs)
    BY PersistLockAssumption DEF Typed
  <2> QED BY <2>1
<1>2. /\ lane'[t] = Tail(lane[t]) /\ Len(lane'[t]) = Len(lane[t]) - 1
      /\ \A i \in 1..Len(lane'[t]) : i + 1 \in 1..Len(lane[t]) /\ lane'[t][i] = lane[t][i + 1]
      /\ \A u \in Tabs : u # t => lane'[u] = lane[u]
      /\ lane' \in [Tabs -> Seq(Jobs)]
  BY <1>1 DEF Typed
<1>3. /\ st' \in [Jobs -> {"new", "queued", "locking", "working", "ended"}]
      /\ st'[j] = "ended" /\ \A k \in Jobs : k # j => st'[k] = st[k]
  BY DEF Typed
<1>4. \A u \in Tabs : \A i \in 1..Len(lane[u]) :
        lane[u][i] \in Jobs /\ (lane[u][i] = j => u = t /\ i = 1)
  BY <1>1 DEF Typed, LaneInOrder
<1>5. LaneInOrder'
  <2> SUFFICES ASSUME NEW u \in Tabs, NEW i \in 1..Len(lane'[u])
               PROVE  /\ TabOf[lane'[u][i]] = u /\ st'[lane'[u][i]] \in Active
                      /\ i > 1 => st'[lane'[u][i]] = "queued"
                      /\ \A k \in 1..Len(lane'[u]) : lane'[u][i] = lane'[u][k] => i = k
    BY DEF LaneInOrder
  <2>1. CASE u # t
    BY <2>1, <1>2, <1>3, <1>4 DEF LaneInOrder
  <2>2. CASE u = t
    <3>1. /\ i \in Nat \ {0} /\ i + 1 \in 1..Len(lane[t]) /\ lane'[t][i] = lane[t][i + 1]
          /\ lane[t][i + 1] \in Jobs /\ lane[t][i + 1] # j
      BY <2>2, <1>1, <1>2, <1>4
    <3>2. /\ TabOf[lane[t][i + 1]] = t /\ st[lane[t][i + 1]] \in Active
          /\ st[lane[t][i + 1]] = "queued"
      BY <3>1, <1>1 DEF LaneInOrder
    <3>3. ASSUME NEW k \in 1..Len(lane'[t]), lane'[t][i] = lane'[t][k] PROVE i = k
      <4>1. k \in Nat /\ k + 1 \in 1..Len(lane[t]) /\ lane[t][i + 1] = lane[t][k + 1]
        BY <3>1, <3>3, <1>1, <1>2
      <4>2. i + 1 = k + 1
        BY <4>1, <3>1, <1>1 DEF LaneInOrder
      <4> QED BY <4>1, <4>2, <3>1
    <3> QED BY <2>2, <3>1, <3>2, <3>3, <1>3
  <2> QED BY <2>1, <2>2
<1>6. InLane'
  <2> SUFFICES ASSUME NEW k \in Jobs, st'[k] \in Active
               PROVE  \E i \in 1..Len(lane'[TabOf[k]]) : lane'[TabOf[k]][i] = k
    BY DEF InLane
  <2>1. k # j
    BY <1>3 DEF Active
  <2>2. PICK i \in 1..Len(lane[TabOf[k]]) : lane[TabOf[k]][i] = k
    BY <2>1, <1>3 DEF InLane
  <2>3. TabOf[k] \in Tabs
    BY PersistLockAssumption
  <2>4. CASE TabOf[k] # t
    BY <2>2, <2>3, <2>4, <1>2
  <2>5. CASE TabOf[k] = t
    <3>1. i \in Nat /\ i > 1
      BY <2>1, <2>2, <2>5, <1>1
    <3>2. i - 1 \in 1..Len(lane'[t]) /\ lane'[t][i - 1] = lane[t][i]
      <4>1. i - 1 \in 1..Len(lane'[t])
        BY <3>1, <2>2, <2>5, <1>1, <1>2
      <4>2. lane'[t][i - 1] = lane[t][(i - 1) + 1]
        BY <4>1, <1>2
      <4> QED BY <4>1, <4>2, <3>1
    <3> QED BY <3>2, <2>2, <2>5
  <2> QED BY <2>4, <2>5
<1> QED BY <1>2, <1>3, <1>5, <1>6

-----------------------------------------------------------------------------
\* The same for the whole invariant.

\* A write past its turn is the first of its lane.
LEMMA AtHead ==
  ASSUME Inv, NEW j \in Jobs, st[j] \in {"locking", "working"}
  PROVE  lane[TabOf[j]] # <<>> /\ Head(lane[TabOf[j]]) = j
<1>1. TabOf[j] \in Tabs /\ lane[TabOf[j]] \in Seq(Jobs)
  BY PersistLockAssumption DEF Inv, Typed
<1>2. PICK i \in 1..Len(lane[TabOf[j]]) : lane[TabOf[j]][i] = j
  BY DEF Inv, InLane, Active
<1>3. i = 1
  BY <1>1, <1>2 DEF Inv, LaneInOrder
<1> QED BY <1>1, <1>2, <1>3

LEMMA EnterKeeps ==
  ASSUME Inv, NEW j \in Jobs, st[j] = "new", replica[TabOf[j]] = "live", TabOf[j] \notin fatal,
         Enter(j), UNCHANGED <<poisoned, holder, dead>>,
         \/ j # Final[TabOf[j]] /\ UNCHANGED replica
         \/ j = Final[TabOf[j]] /\ replica' = [replica EXCEPT ![TabOf[j]] = "closing"]
  PROVE  Inv'
<1> DEFINE t == TabOf[j]
<1> USE DEF Inv
<1>1. /\ t \in Tabs /\ lane[t] \in Seq(Jobs)
      /\ \A u \in Tabs : Final[u] \in Jobs /\ TabOf[Final[u]] = u
  BY PersistLockAssumption DEF Typed
<1>2. \A k \in Jobs : k # j => st'[k] = st[k] /\ call'[k] = call[k]
  BY DEF Enter, Typed
<1>3. CASE t \in poisoned
  <2>1. /\ st' = [st EXCEPT ![j] = "ended"] /\ call' = [call EXCEPT ![j] = "failed"]
        /\ fatal' = fatal \cup {t} /\ UNCHANGED lane
    BY <1>3 DEF Enter
  <2>2. LaneInOrder' /\ InLane' /\ Typed'
    BY <2>1, <1>1, LaneRefuses DEF Typed
  <2>3. WaitsForWrite'
    BY <2>1, <1>2 DEF WaitsForWrite, Typed
  <2>4. HeldByWork'
    BY <2>1, <1>2 DEF HeldByWork, Typed
  <2>5. ClosesBehindLane'
    BY <2>1, <1>1, <1>2, <1>3 DEF ClosesBehindLane, Typed
  <2> QED BY <2>2, <2>3, <2>4, <2>5 DEF ExportsLiveReplica
<1>4. CASE t \notin poisoned
  <2>1. /\ st' = [st EXCEPT ![j] = "queued"] /\ call' = [call EXCEPT ![j] = "pending"]
        /\ lane' = [lane EXCEPT ![t] = Append(@, j)] /\ UNCHANGED fatal
    BY <1>4 DEF Enter
  <2>2. LaneInOrder' /\ InLane' /\ Typed'
    BY <2>1, <1>1, LaneQueues DEF Typed
  <2>3. WaitsForWrite'
    BY <2>1, <1>2 DEF WaitsForWrite, Typed, Active
  <2>4. HeldByWork'
    BY <2>1, <1>2 DEF HeldByWork, Typed
  <2>5. ClosesBehindLane'
    <3>1. /\ lane'[t] # <<>> /\ lane'[t][Len(lane'[t])] = j
          /\ \A u \in Tabs : u # t => lane'[u] = lane[u] /\ replica'[u] = replica[u]
      <4>1. lane'[t] = Append(lane[t], j) /\ \A u \in Tabs : u # t => lane'[u] = lane[u]
        BY <2>1, <1>1 DEF Typed
      <4>2. Len(lane'[t]) = Len(lane[t]) + 1 /\ lane'[t][Len(lane[t]) + 1] = j
        BY <4>1, <1>1
      <4>3. lane'[t] # <<>>
        BY <4>2, <1>1, EmptySeq
      <4>4. \A u \in Tabs : u # t => replica'[u] = replica[u]
        BY <1>1 DEF Typed
      <4> QED BY <4>1, <4>2, <4>3, <4>4
    <3>2. call'[j] = "pending"
      BY <2>1 DEF Typed
    <3>3. ASSUME NEW u \in Tabs, u # t
          PROVE  /\ replica'[u] = "live" => st'[Final[u]] = "new"
                 /\ call'[Final[u]] = call[Final[u]]
                 /\ \A k \in Jobs : TabOf[k] = u => call'[k] = call[k]
      BY <3>1, <3>3, <1>1, <1>2 DEF ClosesBehindLane
    <3>4. /\ replica'[t] = "live" => st'[Final[t]] = "new"
          /\ replica'[t] = "closing" => j = Final[t]
          /\ replica'[t] # "freed"
      BY <1>1, <1>2 DEF ClosesBehindLane, Typed
    <3>5. ASSUME t \notin Failing, NEW k \in Jobs, TabOf[k] = t PROVE call'[k] # "failed"
      BY <3>2, <3>5, <1>1, <1>2, <1>4 DEF ClosesBehindLane
    <3> QED BY <3>1, <3>2, <3>3, <3>4, <3>5, <2>1, <1>1 DEF ClosesBehindLane
  <2> QED BY <2>2, <2>3, <2>4, <2>5 DEF ExportsLiveReplica
<1> QED BY <1>3, <1>4

\* The first write of a lane goes on to the lock or to its work.
LEMMA AdvanceKeeps ==
  ASSUME Inv, NEW j \in Jobs, lane[TabOf[j]] # <<>>, Head(lane[TabOf[j]]) = j,
         NEW s \in {"locking", "working"}, st[j] \in {"queued", "locking"},
         st' = [st EXCEPT ![j] = s],
         \/ s = "locking" /\ st[j] = "queued" /\ UNCHANGED holder
         \/ s = "working" /\ holder = NoJob /\ WebLocks /\ holder' = j
         \/ s = "working" /\ ~WebLocks /\ UNCHANGED holder,
         UNCHANGED <<lane, call, poisoned, fatal, replica, dead>>
  PROVE  Inv'
<1> USE DEF Inv
<1>1. \A k \in Jobs : k # j => st'[k] = st[k]
  BY DEF Typed
<1>2. st'[j] = s
  BY DEF Typed
<1>3. LaneInOrder' /\ InLane' /\ Typed'
  BY LaneAdvances DEF Typed
<1>4. WaitsForWrite'
  BY <1>1, <1>2 DEF WaitsForWrite, Active
<1>5. HeldByWork'
  <2>1. holder' \in Jobs \cup {NoJob} /\ NoJob \notin Jobs
    BY <1>3, PersistLockAssumption DEF Typed
  <2> QED BY <2>1, <1>1, <1>2 DEF HeldByWork
<1>6. ClosesBehindLane'
  <2>1. \A t \in Tabs : Final[t] \in Jobs
    BY PersistLockAssumption
  <2> QED BY <2>1, <1>1 DEF ClosesBehindLane
<1> QED BY <1>3, <1>4, <1>5, <1>6 DEF ExportsLiveReplica

\* The first write of a lane ends.  Where the lane stays healthy and its page's
\* transactions do not abort, a caller who still waited is told of success.
LEMMA SettleKeeps ==
  ASSUME Inv, NEW j \in Jobs, lane[TabOf[j]] # <<>>, Head(lane[TabOf[j]]) = j, Settle(j),
         UNCHANGED replica, poisoned' \in {poisoned, poisoned \cup {TabOf[j]}},
         fatal' \in {fatal, fatal \cup {TabOf[j]}},
         call' \in [Jobs -> {"none", "pending", "ok", "failed"}],
         call'[j] # "pending", \A k \in Jobs : k # j => call'[k] = call[k],
         \/ TabOf[j] \in Failing \/ TabOf[j] \in poisoned'
         \/ fatal' = fatal /\ call'[j] = IF call[j] = "pending" THEN "ok" ELSE call[j],
         \A k \in dead' : k \in dead \/ TabOf[k] \in Failing
  PROVE  Inv'
<1> DEFINE t == TabOf[j]
<1> USE DEF Inv
<1>1. /\ t \in Tabs /\ lane[t] \in Seq(Jobs) /\ NoJob \notin Jobs
      /\ \A u \in Tabs : Final[u] \in Jobs /\ TabOf[Final[u]] = u
  BY PersistLockAssumption DEF Typed
<1>2. /\ st' = [st EXCEPT ![j] = "ended"] /\ lane' = [lane EXCEPT ![t] = Tail(@)]
      /\ holder' = IF holder = j THEN NoJob ELSE holder
  BY DEF Settle
<1>3. st'[j] = "ended" /\ \A k \in Jobs : k # j => st'[k] = st[k]
  BY <1>2 DEF Typed
<1>4. LaneInOrder' /\ InLane' /\ Typed'
  BY <1>1, <1>2, LaneSettles DEF Typed
<1>5. WaitsForWrite'
  BY <1>3 DEF WaitsForWrite
<1>6. HeldByWork'
  BY <1>1, <1>2, <1>3 DEF HeldByWork, Typed
<1>7. ClosesBehindLane'
  <2>1. /\ lane[t][1] = j /\ Len(lane[t]) \in Nat \ {0}
        /\ lane'[t] = Tail(lane[t]) /\ \A u \in Tabs : u # t => lane'[u] = lane[u]
    BY <1>1, <1>2 DEF Typed
  <2>0. /\ Len(lane'[t]) = Len(lane[t]) - 1
        /\ \A i \in 1..Len(lane'[t]) : lane'[t][i] = lane[t][i + 1]
    BY <1>1, <2>1, HeadTailProperties
  <2>2. st[j] \in Active /\ \A i \in 1..Len(lane[t]) : lane[t][i] = j => i = 1
    BY <1>1, <2>1 DEF LaneInOrder
  <2>3. \A u \in Tabs : replica'[u] = "live" => st'[Final[u]] = "new"
    BY <1>1, <1>3, <2>2 DEF ClosesBehindLane, Active
  <2>4. ASSUME NEW u \in Tabs, u # t
        PROVE  /\ call'[Final[u]] = call[Final[u]] /\ (u \in fatal' => u \in fatal)
               /\ (u \in poisoned' <=> u \in poisoned)
               /\ \A k \in Jobs : TabOf[k] = u => call'[k] = call[k]
    BY <1>1, <2>4
  <2>5. ASSUME t \notin Failing, t \notin poisoned'
        PROVE  /\ t \notin fatal'
               /\ \A k \in Jobs : TabOf[k] = t => call'[k] # "failed"
               /\ replica'[t] = "closing" =>
                    \/ call'[Final[t]] = "ok" /\ lane'[t] = <<>>
                    \/ /\ call'[Final[t]] = "pending" /\ lane'[t] # <<>>
                       /\ lane'[t][Len(lane'[t])] = Final[t]
               /\ replica'[t] = "freed" => lane'[t] = <<>>
    <3>1. t \notin poisoned /\ fatal' = fatal
      BY <2>5
    <3>2. call'[j] = IF call[j] = "pending" THEN "ok" ELSE call[j]
      BY <2>5
    <3>3. t \notin fatal' /\ \A k \in Jobs : TabOf[k] = t => call'[k] # "failed"
      BY <1>1, <2>5, <3>1, <3>2 DEF ClosesBehindLane
    <3>4. replica[t] # "freed"
      BY <1>1, <2>5, <3>1 DEF ClosesBehindLane
    <3>5. ASSUME replica[t] = "closing"
          PROVE  \/ call'[Final[t]] = "ok" /\ lane'[t] = <<>>
                 \/ /\ call'[Final[t]] = "pending" /\ lane'[t] # <<>>
                    /\ lane'[t][Len(lane'[t])] = Final[t]
      <4>1. call[Final[t]] = "pending" /\ lane[t][Len(lane[t])] = Final[t]
        BY <1>1, <2>5, <3>1, <3>5 DEF ClosesBehindLane
      <4>2. CASE j = Final[t]
        <5>1. Len(lane[t]) \in 1..Len(lane[t])
          BY <2>1
        <5>2. Len(lane[t]) = 1
          BY <2>2, <4>1, <4>2, <5>1
        <5>4. Len(lane'[t]) = 0
          BY <2>0, <5>2
        <5>3. lane'[t] = <<>>
          BY <1>1, <1>4, <5>4, EmptySeq DEF Typed
        <5> QED BY <3>2, <4>1, <4>2, <5>3
      <4>3. CASE j # Final[t]
        <5>1. Len(lane[t]) > 1
          BY <2>1, <4>1, <4>3
        <5>2. Len(lane'[t]) = Len(lane[t]) - 1 /\ Len(lane'[t]) \in 1..Len(lane'[t])
          BY <2>0, <2>1, <5>1
        <5>4. lane'[t][Len(lane'[t])] = lane[t][Len(lane'[t]) + 1]
          BY <2>0, <5>2
        <5>5. Len(lane'[t]) + 1 = Len(lane[t])
          BY <2>1, <5>2
        <5>6. lane'[t] # <<>>
          <6>1. Len(lane'[t]) # 0
            <7> HIDE DEF t
            <7> QED BY <5>2
          <6> QED BY <6>1, EmptySeq
        <5>3. call'[Final[t]] = call[Final[t]]
          BY <1>1, <4>3
        <5> QED BY <4>1, <5>3, <5>4, <5>5, <5>6
      <4> QED BY <4>2, <4>3
    <3> QED BY <3>3, <3>4, <3>5
  <2>6. ASSUME NEW u \in Tabs, u # t, u \notin Failing, u \notin poisoned'
        PROVE  /\ u \notin fatal'
               /\ \A k \in Jobs : TabOf[k] = u => call'[k] # "failed"
               /\ replica'[u] = "closing" =>
                    \/ call'[Final[u]] = "ok" /\ lane'[u] = <<>>
                    \/ /\ call'[Final[u]] = "pending" /\ lane'[u] # <<>>
                       /\ lane'[u][Len(lane'[u])] = Final[u]
               /\ replica'[u] = "freed" => lane'[u] = <<>>
    BY <2>1, <2>4, <2>6 DEF ClosesBehindLane
  <2> QED BY <2>3, <2>5, <2>6 DEF ClosesBehindLane
<1>8. ExportsLiveReplica'
  BY DEF ExportsLiveReplica
<1> QED BY <1>4, <1>5, <1>6, <1>7, <1>8

-----------------------------------------------------------------------------
\* The actions.

LEMMA RequestKeeps == ASSUME Inv, NEW j \in Jobs, Request(j) PROVE Inv'
  BY EnterKeeps DEF Request

LEMMA DestroyKeeps == ASSUME Inv, NEW t \in Tabs, Destroy(t) PROVE Inv'
<1>1. /\ Final[t] \in Jobs /\ TabOf[Final[t]] = t
      /\ \A u \in Tabs : Final[u] \in Jobs /\ TabOf[Final[u]] = u
  BY PersistLockAssumption
<1>2. replica[t] = "live" /\ st[Final[t]] = "new" /\ UNCHANGED <<poisoned, holder, dead>>
  BY DEF Destroy, Inv, ClosesBehindLane
<1>3. CASE t \in fatal
  <2>1. replica' = [replica EXCEPT ![t] = "freed"] /\ UNCHANGED <<st, call, lane, fatal>>
    BY <1>3 DEF Destroy
  <2>2. Typed' /\ LaneInOrder' /\ InLane' /\ WaitsForWrite' /\ HeldByWork'
    <3>1. Typed'
      BY <1>2, <2>1 DEF Inv, Typed
    <3>2. LaneInOrder' /\ InLane'
      BY <1>2, <2>1 DEF Inv, LaneInOrder, InLane
    <3>3. WaitsForWrite' /\ HeldByWork'
      BY <1>2, <2>1 DEF Inv, WaitsForWrite, HeldByWork
    <3> QED BY <3>1, <3>2, <3>3
  <2>3. ClosesBehindLane'
    BY <1>1, <1>2, <1>3, <2>1 DEF Inv, ClosesBehindLane, Typed
  <2> QED BY <1>2, <2>2, <2>3 DEF Inv, ExportsLiveReplica
<1>4. CASE t \notin fatal
  <2>1. replica' = [replica EXCEPT ![t] = "closing"] /\ Enter(Final[t])
    BY <1>4 DEF Destroy
  <2> QED BY <1>1, <1>2, <1>4, <2>1, EnterKeeps
<1> QED BY <1>3, <1>4

LEMMA ReleaseKeeps == ASSUME Inv, NEW t \in Tabs, Release(t) PROVE Inv'
<1>1. \A u \in Tabs : Final[u] \in Jobs /\ TabOf[Final[u]] = u
  BY PersistLockAssumption
<1>2. /\ replica[t] = "closing" /\ call[Final[t]] # "pending"
      /\ replica' = [replica EXCEPT ![t] = "freed"]
      /\ UNCHANGED <<lane, st, call, poisoned, holder, fatal, dead>>
  BY DEF Release
<1>3. Typed' /\ LaneInOrder' /\ InLane' /\ WaitsForWrite' /\ HeldByWork'
  BY <1>2 DEF Inv, Typed, LaneInOrder, InLane, WaitsForWrite, HeldByWork
<1>4. ClosesBehindLane'
  BY <1>1, <1>2 DEF Inv, ClosesBehindLane, Typed
<1> QED BY <1>2, <1>3, <1>4 DEF Inv, ExportsLiveReplica

\* The call a write that is not healthy is refused with.
LEMMA UnhealthyKeeps ==
  ASSUME Inv, NEW j \in Jobs, lane[TabOf[j]] # <<>>, Head(lane[TabOf[j]]) = j,
         ~Healthy(j), Settle(j), Rejects(j), UNCHANGED <<dead, poisoned, replica>>
  PROVE  Inv'
<1>1. TabOf[j] \in poisoned \/ call[j] # "pending"
  BY DEF Healthy
<1>2. /\ call' \in [Jobs -> {"none", "pending", "ok", "failed"}]
      /\ call'[j] # "pending" /\ \A k \in Jobs : k # j => call'[k] = call[k]
      /\ call[j] # "pending" => call'[j] = call[j] /\ fatal' = fatal
      /\ fatal' \in {fatal, fatal \cup {TabOf[j]}}
  BY DEF Rejects, Inv, Typed
<1> QED BY <1>1, <1>2, SettleKeeps DEF Inv, ExportsLiveReplica

\* The exporter runs: on a live replica, or in a page whose transactions abort.
LEMMA StartKeeps ==
  ASSUME Inv, NEW j \in Jobs, lane[TabOf[j]] # <<>>, Head(lane[TabOf[j]]) = j,
         st[j] \in {"queued", "locking"}, WebLocks => holder = NoJob,
         Healthy(j), StartWork(j), UNCHANGED <<poisoned, replica>>
  PROVE  Inv'
<1>1. TabOf[j] \in Tabs /\ WebLocks \in BOOLEAN
  BY PersistLockAssumption
<1>2. CASE replica[TabOf[j]] = "freed"
  <2>1. TabOf[j] \in Failing
    BY <1>1, <1>2 DEF Inv, ClosesBehindLane, Healthy
  <2>2. dead' = dead \cup {j} /\ Settle(j) /\ Rejects(j)
    BY <1>2 DEF StartWork
  <2>3. /\ call' \in [Jobs -> {"none", "pending", "ok", "failed"}]
        /\ call'[j] # "pending" /\ \A k \in Jobs : k # j => call'[k] = call[k]
        /\ fatal' \in {fatal, fatal \cup {TabOf[j]}}
    BY <2>2 DEF Rejects, Inv, Typed
  <2> QED BY <2>1, <2>2, <2>3, SettleKeeps
<1>3. CASE replica[TabOf[j]] # "freed"
  <2>1. /\ st' = [st EXCEPT ![j] = "working"] /\ holder' = IF WebLocks THEN j ELSE holder
        /\ UNCHANGED <<lane, call, fatal, dead>>
    BY <1>3 DEF StartWork
  <2> QED BY <1>1, <2>1, AdvanceKeeps
<1> QED BY <1>2, <1>3

LEMMA TurnKeeps == ASSUME Inv, NEW j \in Jobs, Turn(j) PROVE Inv'
<1>1. TabOf[j] \in Tabs /\ lane[TabOf[j]] \in Seq(Jobs) /\ WebLocks \in BOOLEAN
  BY PersistLockAssumption DEF Inv, Typed
<1>2. st[j] = "queued" /\ Head(lane[TabOf[j]]) = j /\ UNCHANGED <<poisoned, replica>>
  BY DEF Turn
<1>3. PICK i \in 1..Len(lane[TabOf[j]]) : lane[TabOf[j]][i] = j
  BY <1>2 DEF Inv, InLane, Active
<1>4. lane[TabOf[j]] # <<>>
  BY <1>3, EmptySeq
<1>5. CASE ~Healthy(j)
  BY <1>2, <1>4, <1>5, UnhealthyKeeps DEF Turn
<1>6. CASE Healthy(j) /\ WebLocks
  BY <1>2, <1>4, <1>6, AdvanceKeeps DEF Turn
<1>7. CASE Healthy(j) /\ ~WebLocks
  BY <1>2, <1>4, <1>7, StartKeeps DEF Turn
<1> QED BY <1>1, <1>5, <1>6, <1>7

LEMMA GrantKeeps == ASSUME Inv, NEW j \in Jobs, Grant(j) PROVE Inv'
<1>1. st[j] = "locking" /\ holder = NoJob /\ UNCHANGED <<poisoned, replica>>
  BY DEF Grant
<1>2. lane[TabOf[j]] # <<>> /\ Head(lane[TabOf[j]]) = j
  BY <1>1, AtHead
<1>3. CASE ~Healthy(j)
  BY <1>1, <1>2, <1>3, UnhealthyKeeps DEF Grant
<1>4. CASE Healthy(j)
  BY <1>1, <1>2, <1>4, StartKeeps DEF Grant
<1> QED BY <1>3, <1>4

LEMMA FinishKeeps == ASSUME Inv, NEW j \in Jobs, Finish(j) PROVE Inv'
<1>1. lane[TabOf[j]] # <<>> /\ Head(lane[TabOf[j]]) = j
  BY AtHead DEF Finish
<1>2. /\ call' \in [Jobs -> {"none", "pending", "ok", "failed"}]
      /\ call'[j] = IF call[j] = "pending" THEN "ok" ELSE call[j]
      /\ \A k \in Jobs : k # j => call'[k] = call[k]
  BY DEF Finish, Inv, Typed
<1> QED BY <1>1, <1>2, SettleKeeps DEF Finish

LEMMA AbortsKeeps == ASSUME Inv, NEW j \in Jobs, Aborts(j) PROVE Inv'
<1>1. lane[TabOf[j]] # <<>> /\ Head(lane[TabOf[j]]) = j
  BY AtHead DEF Aborts
<1>2. /\ call' \in [Jobs -> {"none", "pending", "ok", "failed"}]
      /\ call'[j] # "pending" /\ \A k \in Jobs : k # j => call'[k] = call[k]
      /\ fatal' \in {fatal, fatal \cup {TabOf[j]}}
  BY DEF Aborts, Rejects, Inv, Typed
<1> QED BY <1>1, <1>2, SettleKeeps DEF Aborts

LEMMA TimeoutKeeps == ASSUME Inv, NEW j \in Jobs, Timeout(j) PROVE Inv'
<1>1. /\ call' = [call EXCEPT ![j] = "failed"]
      /\ poisoned' = poisoned \cup {TabOf[j]} /\ fatal' = fatal \cup {TabOf[j]}
      /\ UNCHANGED <<replica, dead>>
  BY DEF Timeout
<1>2. /\ call' \in [Jobs -> {"none", "pending", "ok", "failed"}]
      /\ call'[j] = "failed" /\ \A k \in Jobs : k # j => call'[k] = call[k]
  BY <1>1 DEF Inv, Typed
<1>3. CASE st[j] = "locking"
  <2>1. lane[TabOf[j]] # <<>> /\ Head(lane[TabOf[j]]) = j /\ Settle(j)
    BY <1>3, AtHead DEF Timeout
  <2> QED BY <1>1, <1>2, <2>1, SettleKeeps
<1>4. CASE st[j] # "locking"
  <2>1. UNCHANGED <<st, lane, holder>>
    BY <1>4 DEF Timeout
  <2>2. TabOf[j] \in Tabs /\ \A u \in Tabs : Final[u] \in Jobs /\ TabOf[Final[u]] = u
    BY PersistLockAssumption
  <2>3. Typed' /\ LaneInOrder' /\ InLane' /\ WaitsForWrite' /\ HeldByWork'
    <3>1. Typed'
      BY <1>1, <1>2, <2>1, <2>2 DEF Inv, Typed
    <3>2. LaneInOrder' /\ InLane' /\ HeldByWork'
      BY <2>1 DEF Inv, LaneInOrder, InLane, HeldByWork
    <3>3. WaitsForWrite'
      BY <1>2, <2>1 DEF Inv, WaitsForWrite
    <3> QED BY <3>1, <3>2, <3>3
  <2>4. ClosesBehindLane'
    BY <1>1, <1>2, <2>1, <2>2 DEF Inv, ClosesBehindLane
  <2> QED BY <1>1, <2>3, <2>4 DEF Inv, ExportsLiveReplica
<1> QED BY <1>3, <1>4

LEMMA InitInv == ASSUME Init PROVE Inv
<1>1. Typed
  BY PersistLockAssumption, EmptySeq DEF Init, Typed
<1>2. \A t \in Tabs : Len(lane[t]) = 0 /\ lane[t] = <<>>
  BY EmptySeq DEF Init
<1>3. LaneInOrder /\ InLane /\ WaitsForWrite /\ HeldByWork
  BY <1>2, PersistLockAssumption DEF Init, LaneInOrder, InLane, WaitsForWrite, HeldByWork, Active
<1>4. ClosesBehindLane /\ ExportsLiveReplica
  BY PersistLockAssumption DEF Init, ClosesBehindLane, ExportsLiveReplica
<1> QED BY <1>1, <1>3, <1>4 DEF Inv

LEMMA StepInv == ASSUME Inv, [Next]_vars PROVE Inv'
<1>1. CASE UNCHANGED vars
  BY <1>1 DEF Inv, Typed, LaneInOrder, InLane, WaitsForWrite, HeldByWork, ClosesBehindLane,
              ExportsLiveReplica, vars
<1>2. CASE Next
  BY <1>2, RequestKeeps, TurnKeeps, GrantKeeps, FinishKeeps, AbortsKeeps, TimeoutKeeps,
     DestroyKeeps, ReleaseKeeps DEF Next
<1> QED BY <1>1, <1>2

LEMMA InvIsSafe == ASSUME Inv PROVE WritesSafe
<1>1. ASSUME NEW j \in Jobs, NEW k \in Jobs, st[j] = "working", st[k] = "working", TabOf[j] = TabOf[k]
      PROVE  j = k
  BY <1>1, AtHead
<1>2. ASSUME NEW j \in Jobs, NEW k \in Jobs, st[j] = "working", st[k] = "working", WebLocks
      PROVE  j = k
  BY <1>2 DEF Inv, HeldByWork
<1> QED BY <1>1, <1>2 DEF Inv, WritesSafe, NoOverlap

\* For every number of pages and writes and with or without Web Locks, writes of
\* one page never overlap, nor do writes of two pages where there are locks, and
\* an exporter meets a freed replica only in a page whose transactions abort
\* (withPersistLock, withProcessLock, destroy, releaseReplicaAfterCheckpoint).
THEOREM WritesStaySafe == Spec => []WritesSafe
<1>1. Init => Inv
  BY InitInv
<1>2. Inv /\ [Next]_vars => Inv'
  BY StepInv
<1>3. Inv => WritesSafe
  BY InvIsSafe
<1> QED BY <1>1, <1>2, <1>3, PTL DEF Spec

-----------------------------------------------------------------------------
(* The maintenance of the history: types, and the invariant. *)

\* What a job or a receipt acknowledges is among S.
JobsOver(S) ==
  [kind : {"checkpoint", "archive", "maintenance"}]
    \cup [kind : {"append"}, m : SUBSET Nat]
    \cup [kind : {"ack"}, m : SUBSET S, version : SUBSET Nat]
ReceiptsOver(S) == [m : SUBSET S, version : SUBSET Nat]

HistoryTyped ==
  /\ doc \in [all : SUBSET Nat, floor : SUBSET Nat] /\ pend \subseteq SUBSET Nat
  /\ stored \in [all : SUBSET Nat, floor : SUBSET Nat, pending : SUBSET (SUBSET Nat)]
  /\ spent \in [edits : Nat, saves : Nat, drops : Nat, crashes : Nat]
  /\ roomHas \subseteq Nat

\* Only what the room has is acknowledged.
Acknowledged == jobs \in Seq(JobsOver(roomHas)) /\ acks \in Seq(ReceiptsOver(roomHas))

\* Until a crash nothing the replica holds is in the snapshot alone.
Held ==
  spent.crashes = 0 => doc.floor \subseteq doc.all /\ doc.all \subseteq roomHas \cup UNION pend

HistoryInv == HistoryTyped /\ Acknowledged /\ Held

-----------------------------------------------------------------------------
LEMMA RoomGrows ==
  ASSUME NEW S, NEW T, S \subseteq T
  PROVE  JobsOver(S) \subseteq JobsOver(T) /\ ReceiptsOver(S) \subseteq ReceiptsOver(T)
BY DEF JobsOver, ReceiptsOver

\* The job that runs is one of those asked for, and leaves the others.
LEMMA JobRuns ==
  ASSUME HistoryInv, NEW kind, Running(kind)
  PROVE  /\ Head(jobs) \in JobsOver(roomHas) /\ Tail(jobs) \in Seq(JobsOver(roomHas))
         /\ Head(jobs).kind = kind
<1>1. jobs \in Seq(JobsOver(roomHas)) /\ jobs # <<>>
  BY DEF HistoryInv, Acknowledged, Running
<1>2. Head(jobs) \in JobsOver(roomHas) /\ Tail(jobs) \in Seq(JobsOver(roomHas))
  BY <1>1, HeadTailProperties
<1> QED BY <1>2 DEF Running

\* Another job is queued.
LEMMA JobQueued ==
  ASSUME NEW s \in Seq(JobsOver(roomHas)), NEW j \in JobsOver(roomHas)
  PROVE  Append(s, j) \in Seq(JobsOver(roomHas))
BY AppendProperties

\* What a synced replica sends: nothing leaves the pending mutations.
LEMMA SendKeeps ==
  ASSUME HistoryTyped, NEW p \in SUBSET (SUBSET Nat), NEW version \in SUBSET Nat
  PROVE  /\ SendMissingUpdates(p, <<>>, version).pend \subseteq SUBSET Nat
         /\ p \subseteq SendMissingUpdates(p, <<>>, version).pend
         /\ SendMissingUpdates(p, <<>>, version).jobs \in Seq(JobsOver(roomHas))
<1> DEFINE f == SendMissingUpdates(p, <<>>, version)
           m == ReconnectPayload(version)
           j == [kind |-> "append", m |-> m]
<1>1. m \in SUBSET Nat
  BY DEF ReconnectPayload, HistoryTyped
<1>2. j \in JobsOver(roomHas) /\ <<>> \in Seq(JobsOver(roomHas))
  BY <1>1 DEF JobsOver
<1>3. Append(<<>>, j) \in Seq(JobsOver(roomHas))
  BY <1>2, JobQueued
<1>4. f \in {[pend |-> p, jobs |-> <<>>, status |-> "saving"],
             [pend |-> p, jobs |-> <<>>, status |-> "connected"],
             [pend |-> p \cup {m}, jobs |-> Append(<<>>, j), status |-> "saving"]}
  BY DEF SendMissingUpdates, PersistUpdate
<1> HIDE DEF f, m, j
<1>5. f.pend \in {p, p \cup {m}} /\ f.jobs \in {<<>>, Append(<<>>, j)}
  BY <1>4
<1> QED BY <1>1, <1>2, <1>3, <1>5 DEF f

\* A prune forgets only what the replica holds.
LEMMA PruneKeeps ==
  ASSUME HistoryTyped, NEW version \in SUBSET Nat,
         NEW rest \in Seq(JobsOver(roomHas)), NEW sent \in Seq(JobsOver(roomHas)),
         MaybePrune(version, rest, sent)
  PROVE  /\ jobs' \in Seq(JobsOver(roomHas))
         /\ doc' \in [all : SUBSET Nat, floor : SUBSET Nat] /\ doc'.all = doc.all
         /\ doc.floor \subseteq doc.all => doc'.floor \subseteq doc.all
<1> DEFINE j == [kind |-> "maintenance"]
<1>1. j \in JobsOver(roomHas)
  BY DEF JobsOver
<1>2. Append(rest, j) \in Seq(JobsOver(roomHas))
  BY <1>1, JobQueued
<1>3. Append(rest, j) \o sent \in Seq(JobsOver(roomHas)) /\ rest \o sent \in Seq(JobsOver(roomHas))
  BY <1>2, ConcatProperties
<1>4. \/ jobs' = Append(rest, j) \o sent /\ doc' = [doc EXCEPT !.floor = @ \cup (version \cap doc.all)]
      \/ jobs' = rest \o sent /\ doc' = doc
  BY DEF MaybePrune, PruneVersion
<1>5. doc \in [all : SUBSET Nat, floor : SUBSET Nat]
  BY DEF HistoryTyped
<1> HIDE DEF j
<1>6. CASE doc' = doc
  BY <1>3, <1>4, <1>5, <1>6
<1>7. CASE doc' = [doc EXCEPT !.floor = @ \cup (version \cap doc.all)]
  <2>1. doc'.all = doc.all /\ doc'.floor = doc.floor \cup (version \cap doc.all)
        /\ doc' \in [all : SUBSET Nat, floor : SUBSET Nat]
    BY <1>5, <1>7
  <2> QED BY <1>3, <1>4, <2>1
<1> QED BY <1>4, <1>6, <1>7

LEMMA HistoryStarts == HistoryInit => HistoryInv
<1> SUFFICES ASSUME HistoryInit PROVE HistoryInv
  OBVIOUS
<1>1. HistoryTyped
  BY DEF HistoryInit, HistoryTyped
<1>2. Acknowledged
  BY DEF HistoryInit, Acknowledged
<1>3. Held
  BY DEF HistoryInit, Held
<1> QED BY <1>1, <1>2, <1>3 DEF HistoryInv

LEMMA HistorySteps == HistoryInv /\ [HistoryNext]_historyVars => HistoryInv'
<1> SUFFICES ASSUME HistoryInv, [HistoryNext]_historyVars PROVE HistoryInv'
  OBVIOUS
<1> DEFINE S == Seq(JobsOver(roomHas))
<1>0. HistoryTyped /\ Acknowledged /\ Held /\ jobs \in S
  BY DEF HistoryInv, Acknowledged
<1>a. /\ [kind |-> "checkpoint"] \in JobsOver(roomHas) /\ [kind |-> "archive"] \in JobsOver(roomHas)
      /\ [kind |-> "maintenance"] \in JobsOver(roomHas)
      /\ \A m \in SUBSET Nat : [kind |-> "append", m |-> m] \in JobsOver(roomHas)
  BY DEF JobsOver
<1>1. CASE EditLocal
  <2>1. spent.edits + 1 \in Nat
    BY <1>0 DEF HistoryTyped
  <2> DEFINE o == spent.edits + 1
             j == [kind |-> "append", m |-> {o}]
  <2>2. /\ doc' = [doc EXCEPT !.all = @ \cup {o}] /\ pend' = pend \cup {{o}} /\ jobs' = Append(jobs, j)
        /\ spent' = [spent EXCEPT !.edits = o] /\ UNCHANGED <<stored, roomHas, acks>>
    BY <1>1 DEF EditLocal, PersistUpdate
  <2>3. j \in JobsOver(roomHas)
    BY <2>1, <1>a
  <2>4. jobs' \in S
    <3> HIDE DEF j
    <3> QED BY <1>0, <2>2, <2>3, JobQueued
  <2>5. HistoryTyped'
    BY <1>0, <2>1, <2>2 DEF HistoryTyped
  <2>6. Held'
    <3>1. doc'.all = doc.all \cup {o} /\ doc'.floor = doc.floor /\ spent'.crashes = spent.crashes
      BY <1>0, <2>2 DEF HistoryTyped
    <3>2. UNION pend \subseteq UNION pend' /\ o \in UNION pend'
      <4>1. pend \subseteq pend' /\ {o} \in pend'
        BY <2>2
      <4> HIDE DEF o
      <4> QED BY <4>1
    <3>3. roomHas' = roomHas /\ Held
      BY <1>0, <2>2
    <3> HIDE DEF o
    <3>4. spent.crashes = 0 => doc.floor \subseteq doc.all /\ doc.all \subseteq roomHas \cup UNION pend
      BY <3>3 DEF Held
    <3>5. spent'.crashes = 0 => doc'.floor \subseteq doc'.all /\ doc'.all \subseteq roomHas' \cup UNION pend'
      BY <3>1, <3>2, <3>3, <3>4
    <3> QED BY <3>5 DEF Held
  <2>7. Acknowledged'
    BY <1>0, <2>2, <2>4 DEF Acknowledged
  <2> QED BY <2>5, <2>6, <2>7 DEF HistoryInv
<1>2. CASE TimedSave
  <2>1. /\ jobs' = Append(jobs, [kind |-> "checkpoint"]) /\ spent' = [spent EXCEPT !.saves = @ + 1]
        /\ UNCHANGED <<doc, pend, stored, roomHas, acks>>
    BY <1>2 DEF TimedSave
  <2>2. jobs' \in S
    BY <1>0, <1>a, <2>1, JobQueued
  <2>3. spent' \in [edits : Nat, saves : Nat, drops : Nat, crashes : Nat] /\ spent'.crashes = spent.crashes
    <3>1. spent \in [edits : Nat, saves : Nat, drops : Nat, crashes : Nat]
      BY <1>0 DEF HistoryTyped
    <3>2. spent.saves + 1 \in Nat /\ spent' = [spent EXCEPT !.saves = spent.saves + 1]
      BY <2>1, <3>1
    <3> QED BY <3>1, <3>2
  <2>4. HistoryTyped' /\ Held' /\ Acknowledged'
    BY <1>0, <2>1, <2>2, <2>3 DEF HistoryTyped, Held, Acknowledged
  <2> QED BY <2>4 DEF HistoryInv
<1>3. CASE AppendStored
  <2>1. Head(jobs) \in JobsOver(roomHas) /\ Tail(jobs) \in S /\ Head(jobs).kind = "append"
    BY <1>3, JobRuns DEF AppendStored
  <2>2. Head(jobs).m \in SUBSET Nat
    BY <2>1 DEF JobsOver
  <2>3. /\ stored' = [stored EXCEPT !.pending = @ \cup {Head(jobs).m}] /\ pend' = pend \cup {Head(jobs).m}
        /\ jobs' \in {Tail(jobs), Append(Tail(jobs), [kind |-> "archive"])}
        /\ UNCHANGED <<doc, roomHas, acks, spent>>
    BY <1>3 DEF AppendStored
  <2>4. jobs' \in S
    BY <1>a, <2>1, <2>3, JobQueued
  <2>5. HistoryTyped' /\ Held' /\ Acknowledged'
    BY <1>0, <2>2, <2>3, <2>4 DEF HistoryTyped, Held, Acknowledged
  <2> QED BY <2>5 DEF HistoryInv
<1>4. CASE ArchiveStored
  <2>1. Tail(jobs) \in S
    BY <1>4, JobRuns DEF ArchiveStored
  <2>2. /\ stored' = [stored EXCEPT !.all = doc.all, !.floor = doc.floor]
        /\ doc' = [doc EXCEPT !.floor = doc.all]
        /\ jobs' = Append(Tail(jobs), [kind |-> "maintenance"])
        /\ UNCHANGED <<pend, roomHas, acks, spent>>
    BY <1>4 DEF ArchiveStored
  <2>3. jobs' \in S
    BY <1>a, <2>1, <2>2, JobQueued
  <2>4. HistoryTyped' /\ Held' /\ Acknowledged'
    BY <1>0, <2>2, <2>3 DEF HistoryTyped, Held, Acknowledged
  <2> QED BY <2>4 DEF HistoryInv
<1>5. CASE CheckpointStored
  <2>1. Tail(jobs) \in S
    BY <1>5, JobRuns DEF CheckpointStored
  <2>2. /\ stored' = [stored EXCEPT !.all = doc.all, !.floor = doc.floor]
        /\ jobs' = Tail(jobs) /\ UNCHANGED <<doc, pend, roomHas, acks, spent>>
    BY <1>5 DEF CheckpointStored
  <2>3. HistoryTyped' /\ Held' /\ Acknowledged'
    BY <1>0, <2>1, <2>2 DEF HistoryTyped, Held, Acknowledged
  <2> QED BY <2>3 DEF HistoryInv
<1>6. CASE AckStored
  <2> DEFINE job == Head(jobs)
             rest == pend \ {job.m}
             f == IF status = "offline" THEN [pend |-> rest, jobs |-> <<>>, status |-> status]
                  ELSE SendMissingUpdates(rest, <<>>, job.version)
  <2>1. job \in JobsOver(roomHas) /\ Tail(jobs) \in S /\ job.kind = "ack"
    BY <1>6, JobRuns DEF AckStored
  <2>2. job.m \subseteq roomHas /\ job.version \in SUBSET Nat
    BY <2>1 DEF JobsOver
  <2>3. /\ stored' = [all |-> doc.all, floor |-> doc.floor, pending |-> stored.pending \ {job.m}]
        /\ pend' = f.pend /\ MaybePrune(job.version, Tail(jobs), f.jobs)
        /\ UNCHANGED <<roomHas, acks, spent>>
    BY <1>6 DEF AckStored
  <2>4. f.pend \subseteq SUBSET Nat /\ rest \subseteq f.pend /\ f.jobs \in S
    <3>0. <<>> \in S
      OBVIOUS
    <3>1. rest \in SUBSET (SUBSET Nat)
      BY <1>0 DEF HistoryTyped
    <3>2. CASE status = "offline"
      BY <3>0, <3>1, <3>2
    <3>3. CASE status # "offline"
      <4>1. f = SendMissingUpdates(rest, <<>>, job.version)
        BY <3>3
      <4>2. HistoryTyped /\ job.version \in SUBSET Nat
        BY <1>0, <2>2
      <4> HIDE DEF f, rest, job, S
      <4>3. /\ SendMissingUpdates(rest, <<>>, job.version).pend \subseteq SUBSET Nat
            /\ rest \subseteq SendMissingUpdates(rest, <<>>, job.version).pend
            /\ SendMissingUpdates(rest, <<>>, job.version).jobs \in Seq(JobsOver(roomHas))
        BY <3>1, <4>2, SendKeeps
      <4> QED BY <4>1, <4>3 DEF S
    <3> QED BY <3>2, <3>3
  <2> HIDE DEF f
  <2>5. /\ jobs' \in S /\ doc' \in [all : SUBSET Nat, floor : SUBSET Nat] /\ doc'.all = doc.all
        /\ doc.floor \subseteq doc.all => doc'.floor \subseteq doc.all
    BY <1>0, <2>1, <2>2, <2>3, <2>4, PruneKeeps
  <2>6. HistoryTyped' /\ Acknowledged'
    BY <1>0, <2>3, <2>4, <2>5 DEF HistoryTyped, Acknowledged
  <2>7. Held'
    BY <1>0, <2>2, <2>3, <2>4, <2>5 DEF Held
  <2> QED BY <2>6, <2>7 DEF HistoryInv
<1>7. CASE ConnectRoom
  <2> DEFINE f == SendMissingUpdates(pend, <<>>, roomHas)
  <2>1. pend' = f.pend /\ MaybePrune(roomHas, jobs, f.jobs) /\ UNCHANGED <<stored, roomHas, acks, spent>>
    BY <1>7 DEF ConnectRoom
  <2>2. f.pend \subseteq SUBSET Nat /\ pend \subseteq f.pend /\ f.jobs \in S
    BY <1>0, SendKeeps DEF HistoryTyped
  <2> HIDE DEF f
  <2>3. /\ jobs' \in S /\ doc' \in [all : SUBSET Nat, floor : SUBSET Nat] /\ doc'.all = doc.all
        /\ doc.floor \subseteq doc.all => doc'.floor \subseteq doc.all
    <3>1. roomHas \in SUBSET Nat
      BY <1>0 DEF HistoryTyped
    <3> QED BY <1>0, <2>1, <2>2, <3>1, PruneKeeps
  <2>4. HistoryTyped' /\ Held' /\ Acknowledged'
    BY <1>0, <2>1, <2>2, <2>3 DEF HistoryTyped, Held, Acknowledged
  <2> QED BY <2>4 DEF HistoryInv
<1>8. CASE CutOff
  <2>1. spent' = [spent EXCEPT !.drops = @ + 1] /\ acks' = <<>> /\ UNCHANGED <<doc, pend, jobs, stored, roomHas>>
    BY <1>8 DEF CutOff
  <2>2. spent' \in [edits : Nat, saves : Nat, drops : Nat, crashes : Nat] /\ spent'.crashes = spent.crashes
    BY <1>0, <2>1 DEF HistoryTyped
  <2>3. HistoryTyped' /\ Held' /\ Acknowledged'
    BY <1>0, <2>1, <2>2 DEF HistoryTyped, Held, Acknowledged
  <2> QED BY <2>3 DEF HistoryInv
<1>9. CASE Committed
  <2> DEFINE a == Head(acks)
             j == [kind |-> "ack", m |-> a.m, version |-> a.version]
  <2>1. /\ acks # <<>> /\ acks' = Tail(acks) /\ jobs' = Append(jobs, j)
        /\ UNCHANGED <<doc, pend, stored, roomHas, spent>>
    BY <1>9 DEF Committed
  <2>2. a \in ReceiptsOver(roomHas) /\ Tail(acks) \in Seq(ReceiptsOver(roomHas))
    BY <1>0, <2>1, HeadTailProperties DEF Acknowledged
  <2>3. j \in JobsOver(roomHas)
    BY <2>2 DEF JobsOver, ReceiptsOver
  <2> HIDE DEF j
  <2>4. jobs' \in S
    BY <1>0, <2>1, <2>3, JobQueued
  <2>5. HistoryTyped' /\ Held' /\ Acknowledged'
    BY <1>0, <2>1, <2>2, <2>4 DEF HistoryTyped, Held, Acknowledged
  <2> QED BY <2>5 DEF HistoryInv
<1>10. CASE CrashAndReopen
  <2>1. /\ doc' = [all |-> stored.all \cup UNION stored.pending, floor |-> stored.floor]
        /\ pend' = stored.pending /\ jobs' = <<>> /\ acks' = <<>>
        /\ spent' = [spent EXCEPT !.crashes = @ + 1] /\ UNCHANGED <<stored, roomHas>>
    BY <1>10 DEF CrashAndReopen
  <2>2. spent'.crashes # 0
    BY <1>0, <2>1 DEF HistoryTyped
  <2>3. HistoryTyped' /\ Acknowledged'
    BY <1>0, <2>1 DEF HistoryTyped, Acknowledged
  <2> QED BY <2>2, <2>3 DEF HistoryInv, Held
<1>11. ASSUME NEW m \in pend, CommitPending(m) PROVE HistoryInv'
  <2> DEFINE a == [m |-> m, version |-> roomHas']
  <2>1. /\ m \in stored.pending /\ roomHas' = roomHas \cup m /\ acks' = Append(acks, a)
        /\ UNCHANGED <<doc, pend, jobs, stored, spent>>
    BY <1>11 DEF CommitPending
  <2>2. roomHas \subseteq roomHas' /\ roomHas' \in SUBSET Nat /\ m \subseteq roomHas'
    BY <1>0, <2>1 DEF HistoryTyped
  <2>3. JobsOver(roomHas) \subseteq JobsOver(roomHas') /\ ReceiptsOver(roomHas) \subseteq ReceiptsOver(roomHas')
    BY <2>2, RoomGrows
  <2>4. jobs \in Seq(JobsOver(roomHas')) /\ acks \in Seq(ReceiptsOver(roomHas'))
    BY <1>0, <2>3 DEF Acknowledged
  <2>5. a \in ReceiptsOver(roomHas')
    BY <2>2 DEF ReceiptsOver
  <2> HIDE DEF a
  <2>6. acks' \in Seq(ReceiptsOver(roomHas'))
    BY <2>1, <2>4, <2>5, AppendProperties
  <2>7. HistoryTyped' /\ Held' /\ Acknowledged'
    BY <1>0, <2>1, <2>2, <2>4, <2>6 DEF HistoryTyped, Held, Acknowledged
  <2> QED BY <2>7 DEF HistoryInv
<1>12. CASE Interval \/ WhenDurable \/ DurabilityTimeout \/ UNCHANGED historyVars
  <2>1. UNCHANGED <<doc, pend, jobs, stored, roomHas, acks, spent>>
    BY <1>12 DEF Interval, WhenDurable, DurabilityTimeout, historyVars
  <2> QED BY <1>0, <2>1 DEF HistoryInv, HistoryTyped, Held, Acknowledged
<1> QED BY <1>1, <1>2, <1>3, <1>4, <1>5, <1>6, <1>7, <1>8, <1>9, <1>10, <1>11, <1>12 DEF HistoryNext

\* Until a crash, what a replica has pruned the room has, or a pending mutation
\* carries it as the exact update: for any threshold and any number of edits,
\* saves and interruptions.
THEOREM PrunedStaysSendable == HistorySpec => []PrunedIsSendable
<1>1. HistoryInv => PrunedIsSendable
  BY DEF HistoryInv, Held, PrunedIsSendable
<1> QED BY <1>1, HistoryStarts, HistorySteps, PTL DEF HistorySpec

-----------------------------------------------------------------------------
(* The local workspace.  The two lists recover what neither a purge took   *)
(* nor a refused write lost; that a counter counts rests on the numbers of  *)
(* the versions, each taken from the saves before it.                      *)

\* Some documents, each with a date.
Dates == UNION {[E -> Nat] : E \in SUBSET Docs}

PurgeType == [doc : Docs \union {"none"}, left : SUBSET {"review", "assets"}]

TabType == [shown : Dates, purge : PurgeType, migration : {"none", "read", "written", "done"},
            read : SUBSET Legacy]

BudgetType == [saves : Nat, faults : Nat, reloads : Nat, refused : SUBSET Docs]

LocalTypeOK ==
  /\ docs \in SUBSET Docs /\ trash \in Dates /\ legacy \in SUBSET Legacy
  /\ thread \in [Docs -> Nat] /\ versions \in [Docs -> SUBSET (0..MaxSaves)] /\ meta \in [Docs -> Nat]
  /\ asset \in [Docs -> BOOLEAN] /\ journal \in [Docs -> BOOLEAN]
  /\ tab \in [LocalTabs -> TabType]
  /\ now \in Nat /\ budget \in BudgetType
  /\ ever \in SUBSET Docs /\ kept \in [Docs -> Nat]

\* A version is numbered by the saves before it, and an older client's by none.
Numbered == \A d \in Docs \ Legacy : \A v \in versions[d] : v < budget.saves

LocalInv == LocalTypeOK /\ Numbered /\ LocalKept

-----------------------------------------------------------------------------
LEMMA LocalConstants ==
  /\ Seeds \in SUBSET Docs /\ Legacy \in SUBSET Docs /\ Legacy \in SUBSET Seeds
  /\ Cleanup \in BOOLEAN
  /\ Retention \in Nat /\ MaxTime \in Nat /\ MaxVersions \in Nat /\ MaxEdits \in Nat
  /\ MaxSaves \in Nat /\ MaxFaults \in Nat /\ MaxReloads \in Nat
BY LocalStoreAssumption

LEMMA DatesWithout == ASSUME NEW f \in Dates, NEW d PROVE Without(f, d) \in Dates
<1>1. PICK E \in SUBSET Docs : f \in [E -> Nat]
  BY DEF Dates
<1>2. Without(f, d) \in [E \ {d} -> Nat] /\ E \ {d} \in SUBSET Docs
  BY <1>1 DEF Without
<1> QED BY <1>2 DEF Dates

LEMMA DatesWith == ASSUME NEW f \in Dates, NEW d \in Docs, NEW x \in Nat PROVE With(f, d, x) \in Dates
<1>1. PICK E \in SUBSET Docs : f \in [E -> Nat]
  BY DEF Dates
<1>2. With(f, d, x) \in [E \union {d} -> Nat] /\ E \union {d} \in SUBSET Docs
  BY <1>1 DEF With
<1> QED BY <1>2 DEF Dates

LEMMA DatesNone == <<>> \in Dates
<1>1. <<>> \in [{} -> Nat]
  OBVIOUS
<1> QED BY <1>1 DEF Dates

LEMMA DatesDomain == ASSUME NEW f \in Dates PROVE DOMAIN f \in SUBSET Docs
BY DEF Dates

LEMMA NewTabTyped == NewTab \in TabType /\ NoPurge \in PurgeType
<1>1. NoPurge \in PurgeType
  BY DEF NoPurge, PurgeType
<1> QED BY <1>1, DatesNone DEF NewTab, TabType

-----------------------------------------------------------------------------
LEMMA LocalInitTyped == LocalInit => LocalTypeOK
<1> SUFFICES ASSUME LocalInit PROVE LocalTypeOK
  OBVIOUS
<1>1. tab \in [LocalTabs -> TabType]
  BY NewTabTyped DEF LocalInit
<1>2. budget \in BudgetType
  BY DEF LocalInit, BudgetType
<1>3. trash \in Dates
  BY DatesNone DEF LocalInit
<1>4. versions \in [Docs -> SUBSET (0..MaxSaves)] /\ kept \in [Docs -> Nat]
  BY DEF LocalInit
<1>5. /\ docs \in SUBSET Docs /\ legacy \in SUBSET Legacy /\ ever \in SUBSET Docs
      /\ thread \in [Docs -> Nat] /\ meta \in [Docs -> Nat]
      /\ asset \in [Docs -> BOOLEAN] /\ journal \in [Docs -> BOOLEAN] /\ now \in Nat
  BY LocalConstants DEF LocalInit
<1> QED BY <1>1, <1>2, <1>3, <1>4, <1>5 DEF LocalTypeOK

LEMMA LocalInitInv == LocalInit => LocalInv
<1> SUFFICES ASSUME LocalInit PROVE LocalInv
  OBVIOUS
<1>1. LocalTypeOK
  BY LocalInitTyped
<1>2. Numbered
  BY DEF LocalInit, Numbered
<1>3. Recoverable
  BY DEF LocalInit, Recoverable
<1>4. VersionsCounted
  BY FS_EmptySet, LocalConstants DEF LocalInit, VersionsCounted
<1> QED BY <1>1, <1>2, <1>3, <1>4 DEF LocalInv, LocalKept

-----------------------------------------------------------------------------
(* Types. *)

LEMMA TabSet ==
  ASSUME NEW f \in [LocalTabs -> TabType], NEW t \in LocalTabs
  PROVE /\ \A x \in Dates : [f EXCEPT ![t].shown = x] \in [LocalTabs -> TabType]
        /\ \A x \in PurgeType : [f EXCEPT ![t].purge = x] \in [LocalTabs -> TabType]
        /\ \A x \in {"none", "read", "written", "done"}, y \in SUBSET Legacy :
             /\ [f EXCEPT ![t].migration = x] \in [LocalTabs -> TabType]
             /\ [f EXCEPT ![t].migration = x, ![t].read = y] \in [LocalTabs -> TabType]
        /\ [f EXCEPT ![t] = NewTab] \in [LocalTabs -> TabType]
<1>0. f[t] \in TabType
  OBVIOUS
<1>1. \A x \in Dates : [f[t] EXCEPT !.shown = x] \in TabType
  BY <1>0 DEF TabType
<1>2. \A x \in PurgeType : [f[t] EXCEPT !.purge = x] \in TabType
  BY <1>0 DEF TabType
<1>3. \A x \in {"none", "read", "written", "done"} : [f[t] EXCEPT !.migration = x] \in TabType
  BY <1>0 DEF TabType
<1>4. \A x \in {"none", "read", "written", "done"}, y \in SUBSET Legacy :
        [[f[t] EXCEPT !.migration = x] EXCEPT !.read = y] \in TabType
  BY <1>3 DEF TabType
<1>5. \A x \in {"none", "read", "written", "done"}, y \in SUBSET Legacy :
        [f EXCEPT ![t].migration = x, ![t].read = y] =
        [f EXCEPT ![t] = [[f[t] EXCEPT !.migration = x] EXCEPT !.read = y]]
  OBVIOUS
<1>6. \A x \in {"none", "read", "written", "done"}, y \in SUBSET Legacy :
        [f EXCEPT ![t].migration = x, ![t].read = y] \in [LocalTabs -> TabType]
  BY <1>4, <1>5
<1> QED BY <1>1, <1>2, <1>3, <1>6, NewTabTyped

LEMMA LocalTyped == ASSUME LocalTypeOK, LocalNext PROVE LocalTypeOK'
<1> USE LocalConstants DEF LocalTypeOK
<1>1. ASSUME NEW d \in Docs, CreateDocument(d) PROVE LocalTypeOK'
  BY <1>1 DEF CreateDocument
<1>2. ASSUME NEW d \in Docs, Quota(d) PROVE budget' \in BudgetType
  <2>1. budget.faults + 1 \in Nat /\ budget.refused \union {d} \in SUBSET Docs
    BY DEF BudgetType
  <2> DEFINE n == budget.faults + 1
             r == budget.refused \union {d}
  <2>2. budget' = [budget EXCEPT !.faults = n, !.refused = r]
    BY <1>2 DEF Quota
  <2> HIDE DEF n, r
  <2> QED BY <2>1, <2>2 DEF BudgetType, n, r
<1>3. ASSUME NEW d \in Docs, DeleteDocument(d) PROVE LocalTypeOK'
  <2>1. Trashed(d) \in Dates
    BY DatesWith DEF Trashed
  <2> QED BY <1>2, <1>3, <2>1 DEF DeleteDocument
<1>4. ASSUME NEW d \in Docs, UploadAsset(d) PROVE LocalTypeOK'
  BY <1>4 DEF UploadAsset
<1>5. ASSUME NEW t \in LocalTabs, NEW d \in Docs, RestoreDocument(t, d) PROVE LocalTypeOK'
  <2>1. Without(trash, d) \in Dates
    BY DatesWithout
  <2>2. [tab EXCEPT ![t].shown = Without(trash, d)] \in [LocalTabs -> TabType]
    BY <2>1, TabSet
  <2>3. docs \union {d} \in SUBSET Docs
    OBVIOUS
  <2>4. docs' \in SUBSET Docs /\ trash' \in Dates /\ tab' \in [LocalTabs -> TabType] /\ budget' \in BudgetType
    BY <1>2, <1>5, <2>1, <2>2, <2>3 DEF RestoreDocument, Restored
  <2> QED BY <1>5, <2>4 DEF RestoreDocument
<1>6. ASSUME NEW t \in LocalTabs, OpenTrash(t) PROVE LocalTypeOK'
  BY <1>6, TabSet DEF OpenTrash
<1>7. ASSUME NEW t \in LocalTabs, NEW d \in Docs, BeginPurge(t, d) PROVE LocalTypeOK'
  <2>1. [doc |-> d, left |-> {"review", "assets"}] \in PurgeType
    BY DEF PurgeType
  <2> QED BY <1>7, <2>1, TabSet DEF BeginPurge
<1>8. ASSUME NEW t \in LocalTabs, NEW x, [tab EXCEPT ![t].purge.left = @ \ {x}] = tab'
      PROVE tab' \in [LocalTabs -> TabType]
  <2>1. tab[t].purge \in PurgeType
    BY DEF TabType
  <2>2. [tab[t].purge EXCEPT !.left = @ \ {x}] \in PurgeType
    BY <2>1 DEF PurgeType
  <2>3. tab' = [tab EXCEPT ![t].purge = [tab[t].purge EXCEPT !.left = @ \ {x}]]
    BY <1>8
  <2> QED BY <2>2, <2>3, TabSet
<1>9. ASSUME NEW t \in LocalTabs, PurgeReview(t) PROVE LocalTypeOK'
  <2>1. tab' \in [LocalTabs -> TabType]
    BY <1>8, <1>9 DEF PurgeReview
  <2>2. thread' \in [Docs -> Nat] /\ versions' \in [Docs -> SUBSET (0..MaxSaves)] /\ meta' \in [Docs -> Nat]
    BY <1>9 DEF PurgeReview
  <2> QED BY <1>9, <2>1, <2>2 DEF PurgeReview
<1>10. ASSUME NEW t \in LocalTabs, PurgeAssets(t) PROVE LocalTypeOK'
  <2>1. tab' \in [LocalTabs -> TabType]
    BY <1>8, <1>10 DEF PurgeAssets
  <2> QED BY <1>10, <2>1 DEF PurgeAssets
<1>11. ASSUME NEW t \in LocalTabs, PurgeEnds(t) PROVE LocalTypeOK'
  <2> DEFINE d == tab[t].purge.doc
  <2>0. Without(trash, d) \in Dates
    BY DatesWithout
  <2>1. trash' \in Dates
    BY <1>11, <2>0 DEF PurgeEnds
  <2>2. ever' \in SUBSET Docs /\ kept' \in [Docs -> Nat]
    BY <1>11 DEF PurgeEnds
  <2> DEFINE sh == IF d \in DOMAIN trash /\ ~PurgeDue(d) THEN tab[t].shown ELSE trash'
  <2>3. sh \in Dates
    BY <2>1 DEF TabType
  <2>4. tab' = [tab EXCEPT ![t].purge = NoPurge,
                             ![t].shown = IF d \in DOMAIN trash /\ ~PurgeDue(d) THEN @ ELSE trash']
    BY <1>11 DEF PurgeEnds
  <2>5. tab[t] \in TabType
    OBVIOUS
  <2>6. [tab[t] EXCEPT !.purge = NoPurge] \in TabType /\ [tab[t] EXCEPT !.purge = NoPurge].shown = tab[t].shown
    BY <2>5, NewTabTyped DEF TabType
  <2>7. tab' = [tab EXCEPT ![t] = [[tab[t] EXCEPT !.purge = NoPurge] EXCEPT !.shown = sh]]
    BY <2>4, <2>6
  <2> HIDE DEF sh, d
  <2>8. [[tab[t] EXCEPT !.purge = NoPurge] EXCEPT !.shown = sh] \in TabType
    BY <2>3, <2>6 DEF TabType
  <2>9. tab' \in [LocalTabs -> TabType]
    BY <2>7, <2>8
  <2> QED BY <1>11, <2>1, <2>2, <2>9 DEF PurgeEnds
<1>12. ASSUME NEW t \in LocalTabs, MigrationReads(t) PROVE LocalTypeOK'
  <2> DEFINE m == IF legacy = {} THEN "done" ELSE "read"
  <2>1. m \in {"none", "read", "written", "done"}
    OBVIOUS
  <2>2. tab' = [tab EXCEPT ![t].migration = m, ![t].read = legacy]
    BY <1>12 DEF MigrationReads
  <2> HIDE DEF m
  <2>3. tab' \in [LocalTabs -> TabType]
    BY <2>1, <2>2, TabSet
  <2> QED BY <1>12, <2>3 DEF MigrationReads
<1>13. ASSUME NEW t \in LocalTabs, MigrationWrites(t) PROVE LocalTypeOK'
  <2>1. OldVersion \in 0..MaxSaves
    BY DEF OldVersion
  <2>2. tab' \in [LocalTabs -> TabType]
    BY <1>13, TabSet DEF MigrationWrites
  <2>3. \A d \in Docs : versions[d] \union (IF d \in tab[t].read THEN {OldVersion} ELSE {}) \in SUBSET (0..MaxSaves)
    BY <2>1
  <2>4. versions' \in [Docs -> SUBSET (0..MaxSaves)]
    BY <1>13, <2>3 DEF MigrationWrites
  <2>5. thread' \in [Docs -> Nat] /\ meta' \in [Docs -> Nat]
    BY <1>13 DEF MigrationWrites
  <2> QED BY <1>13, <2>2, <2>4, <2>5 DEF MigrationWrites
<1>14. ASSUME NEW t \in LocalTabs, MigrationCleans(t) PROVE LocalTypeOK'
  <2>1. tab' \in [LocalTabs -> TabType]
    BY <1>14, TabSet DEF MigrationCleans
  <2> QED BY <1>14, <2>1 DEF MigrationCleans
<1>15. ASSUME NEW t \in LocalTabs, ReloadTab(t) PROVE LocalTypeOK'
  <2>1. budget.reloads + 1 \in Nat
    BY DEF BudgetType
  <2>2. budget' \in BudgetType
    BY <1>15, <2>1 DEF ReloadTab, BudgetType
  <2>3. tab' \in [LocalTabs -> TabType]
    BY <1>15, TabSet DEF ReloadTab
  <2> QED BY <1>15, <2>2, <2>3 DEF ReloadTab
<1>16. ASSUME NEW t \in LocalTabs, NEW d \in Docs, WriteThread(t, d) PROVE LocalTypeOK'
  BY <1>16 DEF WriteThread
<1>17. ASSUME NEW t \in LocalTabs, NEW d \in Docs, CreateVersion(t, d) PROVE LocalTypeOK'
  <2>1. budget.saves \in 0..MaxSaves /\ budget.saves + 1 \in Nat
    BY <1>17 DEF CreateVersion, BudgetType
  <2>2. budget' \in BudgetType
    BY <1>17, <2>1 DEF CreateVersion, BudgetType
  <2>3. versions' \in [Docs -> SUBSET (0..MaxSaves)] /\ meta' \in [Docs -> Nat]
    BY <1>17, <2>1 DEF CreateVersion
  <2> QED BY <1>17, <2>2, <2>3 DEF CreateVersion
<1>18. ASSUME NEW t \in LocalTabs, NEW d \in Docs, NEW v \in 0..MaxSaves, DeleteVersion(t, d, v)
       PROVE LocalTypeOK'
  <2>1. Counted(d, v) \in Nat
    BY DEF Counted
  <2>2. versions' \in [Docs -> SUBSET (0..MaxSaves)] /\ meta' \in [Docs -> Nat]
    BY <1>18, <2>1 DEF DeleteVersion
  <2> QED BY <1>18, <2>2 DEF DeleteVersion
<1>19. ASSUME Tick PROVE LocalTypeOK'
  BY <1>19 DEF Tick
<1> QED BY <1>1, <1>3, <1>4, <1>5, <1>6, <1>7, <1>9, <1>10, <1>11, <1>12, <1>13, <1>14, <1>15, <1>16, <1>17,
           <1>18, <1>19 DEF LocalNext

-----------------------------------------------------------------------------
(* The two lists. *)

LEMMA LocalRecovers ==
  ASSUME LocalTypeOK, LocalNext, Recoverable
  PROVE Recoverable'
<1> DEFINE Spared(d) == budget'.refused = budget.refused \union {d}
<1>1. budget \in BudgetType
  BY DEF LocalTypeOK
<1>2. ASSUME NEW d \in Docs, Quota(d) PROVE Spared(d)
  BY <1>1, <1>2 DEF Quota, BudgetType
<1>3. budget'.refused = budget.refused \/ \E d \in Docs : Quota(d)
  BY <1>1 DEF LocalNext, CreateDocument, DeleteDocument, UploadAsset, OpenTrash, PurgeReview, PurgeAssets, PurgeEnds,
              MigrationReads, MigrationWrites, MigrationCleans, ReloadTab, RestoreDocument, BeginPurge, WriteThread,
              CreateVersion, DeleteVersion, Tick, BudgetType
<1>0. budget.refused \subseteq budget'.refused
  BY <1>2, <1>3
<1>4. ASSUME UNCHANGED <<docs, trash, ever>> PROVE Recoverable'
  BY <1>0, <1>4 DEF Recoverable
<1>5. ASSUME NEW d \in Docs, CreateDocument(d) PROVE Recoverable'
  BY <1>0, <1>5 DEF CreateDocument, Recoverable
<1>6. ASSUME NEW d \in Docs, DeleteDocument(d) PROVE Recoverable'
  <2>1. /\ docs' = docs \ {d} /\ ever' = ever
        /\ trash' = Trashed(d) \/ (Spared(d) /\ trash' = trash)
    BY <1>2, <1>6 DEF DeleteDocument
  <2>2. DOMAIN Trashed(d) = DOMAIN trash \union {d}
    BY DEF Trashed, With
  <2>3. CASE trash' = Trashed(d)
    BY <1>0, <2>1, <2>2, <2>3 DEF Recoverable
  <2>4. CASE Spared(d) /\ trash' = trash
    BY <2>1, <2>4 DEF Recoverable
  <2> QED BY <2>1, <2>3, <2>4
<1>7. ASSUME NEW t \in LocalTabs, NEW d \in Docs, RestoreDocument(t, d) PROVE Recoverable'
  <2>1. CASE d \notin DOMAIN trash
    BY <1>4, <1>7, <2>1 DEF RestoreDocument
  <2>2. CASE d \in DOMAIN trash
    <3>1. /\ DOMAIN trash' = DOMAIN trash \ {d} /\ ever' = ever
          /\ docs' = docs \union {d} \/ (Spared(d) /\ docs' = docs)
      BY <1>2, <1>7, <2>2 DEF RestoreDocument, Restored, Without
    <3>2. CASE docs' = docs \union {d}
      BY <1>0, <3>1, <3>2 DEF Recoverable
    <3>3. CASE Spared(d) /\ docs' = docs
      BY <3>1, <3>3 DEF Recoverable
    <3> QED BY <3>1, <3>2, <3>3
  <2> QED BY <2>1, <2>2
<1>8. ASSUME NEW t \in LocalTabs, PurgeEnds(t) PROVE Recoverable'
  <2> DEFINE d == tab[t].purge.doc
  <2>1. CASE PurgeDue(d)
    <3>1. docs' = docs /\ DOMAIN trash' = DOMAIN trash \ {d} /\ ever' = ever \ {d}
      BY <1>8, <2>1 DEF PurgeEnds, Without
    <3> QED BY <1>0, <3>1 DEF Recoverable
  <2>2. CASE ~PurgeDue(d)
    BY <1>4, <1>8, <2>2 DEF PurgeEnds
  <2> QED BY <2>1, <2>2
<1> QED BY <1>4, <1>5, <1>6, <1>7, <1>8
        DEF LocalNext, UploadAsset, OpenTrash, PurgeReview, PurgeAssets, MigrationReads, MigrationWrites,
            MigrationCleans, ReloadTab, BeginPurge, WriteThread, CreateVersion, DeleteVersion, Tick

-----------------------------------------------------------------------------
(* The counter of versions. *)

LEMMA VersionsFinite == ASSUME LocalTypeOK, NEW d \in Docs PROVE IsFiniteSet(versions[d])
<1>1. IsFiniteSet(0..MaxSaves)
  BY FS_Interval, LocalConstants
<1>2. versions[d] \in SUBSET (0..MaxSaves)
  BY DEF LocalTypeOK
<1> QED BY <1>1, <1>2, FS_Subset

LEMMA LocalCounts ==
  ASSUME LocalTypeOK, LocalNext, Numbered, VersionsCounted
  PROVE Numbered' /\ VersionsCounted'
<1> USE LocalConstants
<1>1. ASSUME UNCHANGED <<versions, meta>>, budget'.saves = budget.saves PROVE Numbered' /\ VersionsCounted'
  BY <1>1 DEF Numbered, VersionsCounted
<1>2. ASSUME NEW d \in Docs, Quota(d) PROVE budget'.saves = budget.saves
  BY <1>2 DEF Quota, LocalTypeOK, BudgetType
<1>3. ASSUME NEW d \in Docs, DeleteDocument(d) PROVE Numbered' /\ VersionsCounted'
  BY <1>1, <1>2, <1>3 DEF DeleteDocument
<1>4. ASSUME NEW t \in LocalTabs, NEW d \in Docs, RestoreDocument(t, d) PROVE Numbered' /\ VersionsCounted'
  BY <1>1, <1>2, <1>4 DEF RestoreDocument
<1>5. ASSUME NEW t \in LocalTabs, PurgeReview(t) PROVE Numbered' /\ VersionsCounted'
  <2> DEFINE d == tab[t].purge.doc
  <2>1. /\ versions' = [versions EXCEPT ![d] = {}] /\ meta' = [meta EXCEPT ![d] = 0]
        /\ budget' = budget
    BY <1>5 DEF PurgeReview
  <2> HIDE DEF d
  <2>2. \A e \in Docs : \/ versions'[e] = versions[e] /\ meta'[e] = meta[e]
                        \/ versions'[e] = {} /\ meta'[e] = 0
    BY <2>1 DEF LocalTypeOK
  <2>3. Cardinality({}) = 0
    BY FS_EmptySet
  <2> QED BY <2>1, <2>2, <2>3 DEF Numbered, VersionsCounted
<1>6. ASSUME NEW t \in LocalTabs, MigrationWrites(t) PROVE Numbered' /\ VersionsCounted'
  <2>1. tab[t].read \in SUBSET Legacy
    BY DEF LocalTypeOK, TabType
  <2>2. \A d \in Docs \ Legacy : versions'[d] = versions[d] /\ meta'[d] = meta[d]
    BY <1>6, <2>1 DEF MigrationWrites
  <2> QED BY <1>6, <2>2 DEF MigrationWrites, Numbered, VersionsCounted
<1>7. ASSUME NEW t \in LocalTabs, ReloadTab(t) PROVE Numbered' /\ VersionsCounted'
  <2>1. budget'.saves = budget.saves
    BY <1>7 DEF ReloadTab, LocalTypeOK, BudgetType
  <2> QED BY <1>1, <1>7, <2>1 DEF ReloadTab
<1>8. ASSUME NEW t \in LocalTabs, NEW d \in Docs, CreateVersion(t, d) PROVE Numbered' /\ VersionsCounted'
  <2>1. /\ versions' = [versions EXCEPT ![d] = @ \union {budget.saves}]
        /\ meta' = [meta EXCEPT ![d] = @ + 1]
        /\ meta[d] < MaxVersions
    BY <1>8 DEF CreateVersion
  <2>2. budget'.saves = budget.saves + 1 /\ budget.saves \in Nat
    BY <1>8 DEF CreateVersion, LocalTypeOK, BudgetType
  <2>3. \A e \in Docs : \A v \in versions[e] : v \in Nat
    BY DEF LocalTypeOK
  <2>4. Numbered'
    BY <2>1, <2>2, <2>3 DEF Numbered, LocalTypeOK
  <2>5. ASSUME d \notin Legacy
        PROVE Cardinality(versions[d] \union {budget.saves}) = meta[d] + 1 /\ meta[d] + 1 <= MaxVersions
    <3>1. budget.saves \notin versions[d]
      BY <2>2, <2>3, <2>5 DEF Numbered
    <3>2. Cardinality(versions[d] \union {budget.saves}) = Cardinality(versions[d]) + 1
      BY <3>1, VersionsFinite, FS_AddElement
    <3>3. meta[d] \in Nat
      BY DEF LocalTypeOK
    <3> QED BY <2>1, <2>5, <3>2, <3>3 DEF VersionsCounted
  <2>6. \A e \in Docs : e # d => versions'[e] = versions[e] /\ meta'[e] = meta[e]
    BY <2>1 DEF LocalTypeOK
  <2>7. versions'[d] = versions[d] \union {budget.saves} /\ meta'[d] = meta[d] + 1
    BY <2>1 DEF LocalTypeOK
  <2>8. VersionsCounted'
    BY <2>5, <2>6, <2>7 DEF VersionsCounted
  <2> QED BY <2>4, <2>8
<1>9. ASSUME NEW t \in LocalTabs, NEW d \in Docs, NEW v \in 0..MaxSaves, DeleteVersion(t, d, v)
      PROVE Numbered' /\ VersionsCounted'
  <2>1. /\ versions'[d] = versions[d] \ {v} /\ meta'[d] = Counted(d, v)
        /\ \A e \in Docs : e # d => versions'[e] = versions[e] /\ meta'[e] = meta[e]
        /\ budget' = budget
    BY <1>9 DEF DeleteVersion, LocalTypeOK
  <2>2. Numbered'
    BY <2>1 DEF Numbered
  <2>3. IsFiniteSet(versions[d])
    BY VersionsFinite
  <2>4. ASSUME d \notin Legacy
        PROVE Cardinality(versions[d] \ {v}) = Counted(d, v) /\ Counted(d, v) <= MaxVersions
    <3>1. Cardinality(versions[d]) = meta[d] /\ meta[d] <= MaxVersions /\ meta[d] \in Nat
      BY <2>4 DEF VersionsCounted, LocalTypeOK
    <3>2. CASE v \notin versions[d]
      <4>1. versions[d] \ {v} = versions[d]
        BY <3>2
      <4> QED BY <3>1, <3>2, <4>1 DEF Counted
    <3>3. CASE v \in versions[d]
      <4>1. Cardinality(versions[d] \ {v}) = Cardinality(versions[d]) - 1
        BY <2>3, <3>3, FS_RemoveElement
      <4>2. Cardinality(versions[d]) # 0
        BY <2>3, <3>3, FS_EmptySet
      <4>3. meta[d] > 0
        BY <3>1, <4>2
      <4>4. Counted(d, v) = meta[d] - 1
        BY <3>3, <4>3 DEF Counted
      <4> QED BY <3>1, <4>1, <4>3, <4>4
    <3> QED BY <3>2, <3>3
  <2>5. VersionsCounted'
    BY <2>1, <2>4 DEF VersionsCounted
  <2> QED BY <2>2, <2>5
<1> QED BY <1>1, <1>3, <1>4, <1>5, <1>6, <1>7, <1>8, <1>9
        DEF LocalNext, CreateDocument, UploadAsset, OpenTrash, PurgeAssets, PurgeEnds, MigrationReads,
            MigrationCleans, BeginPurge, WriteThread, Tick

\* In every build and with any number of tabs, a local document that was created and not purged is
\* in the list or in the trash unless the quota refused the second write of its own move between
\* them, and the counter that enforces the version limit is the number of versions
\* (demo/workspace.ts, data/review.ts).
THEOREM LocalStaysKept == LocalSpec => []LocalKept
<1>1. LocalInv /\ [LocalNext]_localVars => LocalInv'
  <2> SUFFICES ASSUME LocalInv, [LocalNext]_localVars PROVE LocalInv'
    OBVIOUS
  <2>1. CASE LocalNext
    BY <2>1, LocalTyped, LocalRecovers, LocalCounts DEF LocalInv, LocalKept
  <2>2. CASE UNCHANGED localVars
    BY <2>2 DEF localVars, LocalInv, LocalTypeOK, Numbered, LocalKept, Recoverable, VersionsCounted
  <2> QED BY <2>1, <2>2
<1>2. LocalInv => LocalKept
  BY DEF LocalInv
<1> QED BY <1>1, <1>2, LocalInitInv, PTL DEF LocalSpec

-----------------------------------------------------------------------------
(* The command runtime.  Every action makes its runs go on (Goes): each    *)
(* stays sound, and keeps what an earlier step settled.  A run executes    *)
(* only while it is cleared, and the dialog belongs to a cleared run.      *)

Stages == {"none", "queued", "observe", "actions", "commands", "picker", "durable", "end"}
Statuses == {"proposed", "awaiting-approval", "running"} \union Terminal

RunType ==
  [kind : {"ui", "edit", "image"}, src : {"human", "agent", "bridge"}, status : Statuses,
   pending : BOOLEAN, receipts : Seq(Terminal), aborted : BOOLEAN, approved : BOOLEAN,
   applied : BOOLEAN, view : Nat, listening : BOOLEAN, insert : {"none", "loading", "uploading"},
   stage : Stages]

\* A run that needs no approval, or has it.
Cleared(x) == x.src = "human" \/ x.kind = "edit" \/ x.approved

\* A run is executed only once it is cleared, from the moment it is proposed until the image it
\* asked for is inserted; the receipt tells whether it is pending.
RunSound(x) ==
  /\ x \in RunType
  /\ x.receipts = IF x.pending THEN <<>> ELSE <<x.status>>
  /\ ~x.pending => x.status \in Terminal
  /\ x.applied \/ x.insert # "none" \/ x.stage \notin {"none", "end"} \/ x.status = "proposed" => Cleared(x)

\* What no step takes back from a run.
Later(x, y) ==
  /\ y.kind = x.kind /\ y.src = x.src /\ (x.approved => y.approved)
  /\ ~x.pending => ~y.pending /\ y.status = x.status

Goes(x, y) == RunSound(y) /\ Later(x, y)

-----------------------------------------------------------------------------
LEMMA FinishFields ==
  ASSUME NEW x \in RunType, NEW s \in Terminal, x.pending
  PROVE /\ FinishRun(x, s) \in RunType
        /\ ~FinishRun(x, s).pending /\ FinishRun(x, s).status = s
        /\ FinishRun(x, s).receipts = Append(x.receipts, s)
        /\ FinishRun(x, s).kind = x.kind /\ FinishRun(x, s).src = x.src
        /\ FinishRun(x, s).approved = x.approved /\ FinishRun(x, s).applied = x.applied
        /\ FinishRun(x, s).insert = x.insert /\ FinishRun(x, s).stage = x.stage
<1> DEFINE a == [x EXCEPT !.pending = FALSE]
           b == [a EXCEPT !.status = s]
           c == [b EXCEPT !.receipts = Append(x.receipts, s)]
<1>1. /\ a \in RunType /\ a.pending = FALSE /\ a.receipts = x.receipts /\ a.kind = x.kind /\ a.src = x.src
      /\ a.approved = x.approved /\ a.applied = x.applied /\ a.insert = x.insert /\ a.stage = x.stage
  BY DEF RunType
<1>2. /\ b \in RunType /\ b.pending = FALSE /\ b.status = s /\ b.receipts = x.receipts /\ b.kind = x.kind /\ b.src = x.src
      /\ b.approved = x.approved /\ b.applied = x.applied /\ b.insert = x.insert /\ b.stage = x.stage
  <2> HIDE DEF a
  <2> QED BY <1>1 DEF RunType, Statuses
<1>3. Append(x.receipts, s) \in Seq(Terminal)
  BY DEF RunType
<1>4. /\ c \in RunType /\ c.pending = FALSE /\ c.status = s /\ c.receipts = Append(x.receipts, s)
      /\ c.kind = x.kind /\ c.src = x.src
      /\ c.approved = x.approved /\ c.applied = x.applied /\ c.insert = x.insert /\ c.stage = x.stage
  <2> HIDE DEF b
  <2> QED BY <1>2, <1>3 DEF RunType
<1>5. FinishRun(x, s) = c
  BY DEF FinishRun, RunType
<1> QED BY <1>4, <1>5

LEMMA FinishGoes ==
  ASSUME NEW x, RunSound(x), NEW s \in Terminal
  PROVE Goes(x, FinishRun(x, s))
<1>1. CASE ~x.pending
  BY <1>1 DEF FinishRun, Goes, Later
<1>2. CASE x.pending
  <2>1. x \in RunType /\ x.receipts = <<>>
    BY <1>2 DEF RunSound
  <2> DEFINE y == FinishRun(x, s)
  <2>2. /\ y \in RunType /\ ~y.pending /\ y.status = s
        /\ y.receipts = Append(x.receipts, s) /\ y.kind = x.kind /\ y.src = x.src
        /\ y.approved = x.approved /\ y.applied = x.applied /\ y.insert = x.insert /\ y.stage = x.stage
    BY <1>2, <2>1, FinishFields
  <2> HIDE DEF y
  <2>3. y.receipts = <<y.status>>
    BY <2>1, <2>2
  <2>4. Later(x, y)
    BY <1>2, <2>2 DEF Later
  <2>5. y.status \in Terminal /\ y.status # "proposed"
    BY <2>2 DEF Terminal
  <2>6. RunSound(y)
    BY <2>2, <2>3, <2>5 DEF RunSound, Cleared
  <2>7. Goes(x, y)
    BY <2>4, <2>6 DEF Goes
  <2> QED BY <2>7 DEF y
<1> QED BY <1>1, <1>2

LEMMA GoesChain == ASSUME NEW x, NEW y, NEW z, Goes(x, y), Goes(y, z) PROVE Goes(x, z)
BY DEF Goes, Later

LEMMA GoesSame == ASSUME NEW x, RunSound(x) PROVE Goes(x, x)
BY DEF Goes, Later

\* A step of the executor's own: the stage, the insertion, the signal.
LEMMA StageGoes ==
  ASSUME NEW x, RunSound(x), NEW g \in Stages, g \in {"none", "end"} \/ Cleared(x)
  PROVE Goes(x, [x EXCEPT !.stage = g])
BY DEF RunSound, RunType, Goes, Later, Cleared

LEMMA AbortedGoes ==
  ASSUME NEW x, RunSound(x), NEW b \in BOOLEAN
  PROVE Goes(x, [x EXCEPT !.aborted = b]) /\ Goes(x, [x EXCEPT !.listening = b])
BY DEF RunSound, RunType, Goes, Later, Cleared

LEMMA ViewGoes ==
  ASSUME NEW x, RunSound(x), NEW v \in Nat
  PROVE Goes(x, [x EXCEPT !.view = v])
BY DEF RunSound, RunType, Goes, Later, Cleared

LEMMA InsertGoes ==
  ASSUME NEW x, RunSound(x), NEW i \in {"none", "loading", "uploading"}, i = "none" \/ Cleared(x)
  PROVE Goes(x, [x EXCEPT !.insert = i])
BY DEF RunSound, RunType, Goes, Later, Cleared

LEMMA AppliedGoes ==
  ASSUME NEW x, RunSound(x), NEW b \in BOOLEAN, Cleared(x)
  PROVE Goes(x, [x EXCEPT !.applied = b])
BY DEF RunSound, RunType, Goes, Later, Cleared

LEMMA StatusGoes ==
  ASSUME NEW x, RunSound(x), NEW s \in Statuses, Cleared(x), x.pending
  PROVE Goes(x, [x EXCEPT !.status = s])
BY DEF RunSound, RunType, Goes, Later, Cleared

LEMMA EndGoes == ASSUME NEW x, RunSound(x), NEW ok \in BOOLEAN PROVE Goes(x, End(x, ok))
<1> DEFINE y == [x EXCEPT !.stage = "end"]
           s == IF x.aborted THEN "cancelled" ELSE IF ok THEN "succeeded" ELSE "failed"
<1>1. Goes(x, y)
  BY StageGoes DEF Stages
<1>2. s \in Terminal
  BY DEF Terminal
<1> HIDE DEF y, s
<1>3. Goes(y, FinishRun(y, s))
  BY <1>1, <1>2, FinishGoes DEF Goes
<1>4. End(x, ok) = FinishRun(y, s)
  BY DEF End, y, s
<1> QED BY <1>1, <1>3, <1>4, GoesChain

LEMMA CancelGoes == ASSUME NEW x, RunSound(x) PROVE Goes(x, CancelledRun(x))
<1> DEFINE y == [x EXCEPT !.aborted = TRUE]
           g == IF y.stage = "picker" THEN "end" ELSE y.stage
           z == [y EXCEPT !.stage = g]
<1>1. Goes(x, y)
  BY AbortedGoes
<1> HIDE DEF y
<1>2. RunSound(y)
  BY <1>1 DEF Goes
<1>3. g \in Stages /\ (g \in {"none", "end"} \/ Cleared(y))
  BY <1>2 DEF RunSound, RunType, Stages
<1> HIDE DEF g
<1>4. Goes(y, z)
  BY <1>2, <1>3, StageGoes
<1>5. Abort(x) = z
  <2>1. x \in RunType /\ y.stage = x.stage
    BY DEF RunSound, RunType, y
  <2> QED BY <2>1 DEF Abort, g, y, RunType
<1> HIDE DEF z
<1>6. Goes(z, FinishRun(z, "cancelled"))
  BY <1>4, FinishGoes DEF Goes, Terminal
<1> QED BY <1>1, <1>4, <1>5, <1>6, GoesChain DEF CancelledRun

LEMMA ExecuteGoes == ASSUME NEW x, RunSound(x), x.pending PROVE Goes(x, Execute(x))
<1>1. CASE x.status # "proposed"
  BY <1>1, GoesSame DEF Execute
<1>2. CASE x.status = "proposed" /\ ~Available(x.kind)
  <2> DEFINE y == [x EXCEPT !.stage = "end"]
  <2>1. Goes(x, y)
    BY StageGoes DEF Stages
  <2> HIDE DEF y
  <2>2. Goes(y, FinishRun(y, "failed"))
    BY <2>1, FinishGoes DEF Goes, Terminal
  <2>3. Execute(x) = FinishRun(y, "failed")
    BY <1>2 DEF Execute, y
  <2> QED BY <2>1, <2>2, <2>3, GoesChain
<1>3. CASE x.status = "proposed" /\ Available(x.kind)
  <2> DEFINE y == [x EXCEPT !.status = "running"]
             z == [y EXCEPT !.stage = "observe"]
  <2>1. Cleared(x)
    BY <1>3 DEF RunSound
  <2>2. Goes(x, y)
    BY <2>1, StatusGoes DEF Statuses
  <2>3. Execute(x) = z
    BY <1>3 DEF Execute, RunSound, RunType
  <2> HIDE DEF y
  <2>4. Cleared(y) /\ RunSound(y)
    BY <2>1, <2>2 DEF Goes, Later, Cleared
  <2>5. Goes(y, z)
    BY <2>4, StageGoes DEF Stages
  <2> QED BY <2>2, <2>3, <2>5, GoesChain
<1> QED BY <1>1, <1>2, <1>3

LEMMA PickedGoes == ASSUME NEW x, RunSound(x), NEW v \in BOOLEAN PROVE Goes(x, Picked(x, v))
<1>1. CASE x.stage # "picker"
  BY <1>1, GoesSame DEF Picked
<1>2. CASE x.stage = "picker" /\ v
  BY <1>2, StageGoes DEF Picked, Stages, RunSound
<1>3. CASE x.stage = "picker" /\ ~v
  BY <1>3, EndGoes DEF Picked
<1> QED BY <1>1, <1>2, <1>3

LEMMA CreatedSound ==
  ASSUME NEW k \in Kinds, NEW s \in {"human", "agent", "bridge"}, NEW valid \in BOOLEAN
  PROVE RunSound(Created(k, s, valid))
<1> DEFINE ok == Available(k) /\ Valid(s, valid)
           born == IF ~ok THEN "failed" ELSE IF NeedsApproval(k, s) THEN "awaiting-approval" ELSE "proposed"
           g == IF born = "proposed" THEN "queued" ELSE "none"
           x == [kind |-> k, src |-> s, status |-> born, pending |-> TRUE, receipts |-> <<>>,
                 aborted |-> FALSE, approved |-> FALSE, applied |-> FALSE, view |-> 0,
                 listening |-> FALSE, insert |-> "none", stage |-> g]
<1>1. k \in {"ui", "edit", "image"}
  BY CommandsAssumption
<1>2. born \in Statuses /\ (born = "proposed" => s = "human" \/ k = "edit")
  BY <1>1 DEF NeedsApproval, Statuses, Terminal
<1>3. g \in Stages /\ (g # "none" => born = "proposed")
  BY DEF Stages
<1>4. Created(k, s, valid) = IF ok THEN x ELSE FinishRun(x, "failed")
  BY DEF Created
<1> HIDE DEF ok, born, g
<1>5. <<>> \in Seq(Terminal)
  OBVIOUS
<1>6. x \in RunType
  BY <1>1, <1>2, <1>3, <1>5 DEF RunType
<1>7. RunSound(x)
  BY <1>2, <1>3, <1>6 DEF RunSound, Cleared
<1> HIDE DEF x
<1>8. RunSound(FinishRun(x, "failed"))
  BY <1>7, FinishGoes DEF Goes, Terminal
<1> QED BY <1>4, <1>7, <1>8

-----------------------------------------------------------------------------
CommandsTypeOK ==
  /\ command \in Seq(RunType)
  /\ env \in [edit : BOOLEAN, view : Nat]
  /\ picker \in [of : Nat, dialog : BOOLEAN, file : BOOLEAN]
  /\ plan \in [runs : Seq(Nat), active : Nat, aborted : BOOLEAN, ended : BOOLEAN]
  /\ changes \in [env : Nat, views : Nat]

RunsSound == \A r \in Runs : RunSound(command[r])

\* The dialog that is up belongs to a run that was cleared.
PickerCleared ==
  /\ picker.dialog => picker.of # 0
  /\ picker.of # 0 => picker.of \in Runs /\ Cleared(command[picker.of])

\* A run of the plan that ended well.
Succeeded(r) == ~command[r].pending /\ command[r].status = "succeeded"

\* Every run of the plan but the last succeeded; the last is the one it awaits, or it succeeded
\* too, or the plan is over.
PlanKept ==
  /\ \A i \in 1..Len(plan.runs) : plan.runs[i] \in Runs
  /\ \A i \in 1..Len(plan.runs) : i < Len(plan.runs) => Succeeded(plan.runs[i])
  /\ plan.active # 0 => Len(plan.runs) > 0 /\ plan.active = plan.runs[Len(plan.runs)]
  /\ plan.active = 0 /\ ~plan.ended /\ Len(plan.runs) > 0 => Succeeded(plan.runs[Len(plan.runs)])

CommandsInv == CommandsTypeOK /\ RunsSound /\ PickerCleared /\ PlanKept

\* A step of the runtime: the runs there were go on soundly, and a new one is sound.
Advances ==
  /\ command' \in Seq(RunType)
  /\ \A r \in Runs : r \in Runs' /\ Goes(command[r], command'[r])
  /\ RunsSound'

LEMMA MovesAdvances ==
  ASSUME CommandsTypeOK, RunsSound, NEW r \in Runs, NEW x, Goes(command[r], x), Moves(r, x)
  PROVE Advances
<1>1. x \in RunType /\ RunSound(x)
  BY DEF Goes, RunSound
<1>2. command \in Seq(RunType)
  BY DEF CommandsTypeOK
<1>3. command' \in Seq(RunType) /\ Runs' = Runs
  BY <1>1, <1>2 DEF Moves, Runs
<1>4. \A q \in Runs : command'[q] = IF q = r THEN x ELSE command[q]
  BY DEF Moves, Runs
<1>5. \A q \in Runs : Goes(command[q], command'[q])
  BY <1>4, GoesSame DEF RunsSound
<1>6. \A q \in Runs : RunSound(command'[q])
  BY <1>5 DEF Goes
<1> QED BY <1>3, <1>5, <1>6 DEF Advances, RunsSound

LEMMA ShowAdvances ==
  ASSUME CommandsTypeOK, RunsSound, NEW x, RunSound(x), Show(x)
  PROVE Advances /\ Len(command) + 1 \in Runs'
<1>1. command \in Seq(RunType) /\ x \in RunType
  BY DEF CommandsTypeOK, RunSound
<1>2. command' = Append(command, x)
  BY DEF Show
<1>3. /\ command' \in Seq(RunType) /\ Len(command') = Len(command) + 1
      /\ \A q \in 1..Len(command) : command'[q] = command[q]
      /\ command'[Len(command) + 1] = x
  BY <1>1, <1>2
<1>4. Runs = 1..Len(command) /\ Runs' = 1..(Len(command) + 1)
  BY <1>1, <1>3 DEF Runs
<1>5. Len(command) \in Nat
  BY <1>1
<1>6. \A q \in Runs : q \in Runs' /\ command'[q] = command[q]
  BY <1>3, <1>4, <1>5
<1>7. \A q \in Runs' : q \in Runs \/ command'[q] = x
  BY <1>3, <1>4, <1>5
<1>8. \A q \in Runs : Goes(command[q], command'[q])
  BY <1>6, GoesSame DEF RunsSound
<1>9. \A q \in Runs' : RunSound(command'[q])
  BY <1>7, <1>8 DEF Goes
<1> QED BY <1>3, <1>4, <1>5, <1>6, <1>8, <1>9 DEF Advances, RunsSound

\* Each run by its own change.
LEMMA EachAdvances ==
  ASSUME CommandsTypeOK, RunsSound, DOMAIN command' = Runs, command' = [q \in Runs |-> command'[q]],
         \A q \in Runs : Goes(command[q], command'[q])
  PROVE Advances
<1>1. Runs' = Runs
  BY DEF Runs
<1>2. \A q \in Runs : RunSound(command'[q]) /\ command'[q] \in RunType
  BY DEF Goes, RunSound
<1>3. command \in Seq(RunType) /\ Runs = 1..Len(command) /\ Len(command) \in Nat
  BY DEF CommandsTypeOK, Runs
<1>4. command' \in [1..Len(command) -> RunType]
  BY <1>2, <1>3
<1>5. command' \in Seq(RunType)
  BY <1>3, <1>4
<1> QED BY <1>1, <1>2, <1>5 DEF Advances, RunsSound

LEMMA SameAdvances == ASSUME CommandsTypeOK, RunsSound, UNCHANGED command PROVE Advances
BY GoesSame DEF Advances, RunsSound, CommandsTypeOK, Runs

-----------------------------------------------------------------------------
LEMMA PickerStays ==
  ASSUME CommandsTypeOK, PickerCleared, Advances, UNCHANGED picker
  PROVE PickerCleared'
<1>1. ASSUME picker.of # 0 PROVE picker.of \in Runs' /\ Cleared(command'[picker.of])
  BY <1>1 DEF PickerCleared, Advances, Goes, Later, Cleared
<1> QED BY <1>1 DEF PickerCleared

LEMMA PlanStays ==
  ASSUME CommandsTypeOK, PlanKept, Advances, UNCHANGED plan
  PROVE PlanKept'
<1>1. \A q \in Runs : q \in Runs' /\ (Succeeded(q) => ~command'[q].pending /\ command'[q].status = "succeeded")
  BY DEF Advances, Goes, Later, Succeeded
<1>2. Len(plan.runs) \in Nat
  BY DEF CommandsTypeOK
<1> QED BY <1>1, <1>2 DEF PlanKept, Succeeded

\* The runtime and the executor: the plan and the picker stay as they are.
LEMMA RunSteps ==
  ASSUME CommandsInv, Advances, UNCHANGED <<picker, plan>>, env' \in [edit : BOOLEAN, view : Nat],
         changes' \in [env : Nat, views : Nat]
  PROVE CommandsInv'
BY PickerStays, PlanStays DEF CommandsInv, CommandsTypeOK, Advances

LEMMA RunTyped ==
  ASSUME CommandsInv, NEW r \in Runs
  PROVE RunSound(command[r]) /\ command[r] \in RunType
BY DEF CommandsInv, RunsSound, RunSound

LEMMA StartStep ==
  ASSUME CommandsInv, NEW k \in Kinds, NEW s \in Sources, NEW valid \in BOOLEAN, Start(k, s, valid)
  PROVE CommandsInv'
<1>1. RunSound(Created(k, s, valid))
  BY CreatedSound, CommandsAssumption
<1>2. Advances
  BY <1>1, ShowAdvances DEF Start, CommandsInv
<1> QED BY <1>2, RunSteps DEF Start, CommandsInv, CommandsTypeOK

LEMMA BridgeStep ==
  ASSUME CommandsInv, NEW k \in Kinds, NEW valid \in BOOLEAN, NEW gone \in BOOLEAN, BridgeCall(k, valid, gone)
  PROVE CommandsInv'
<1> DEFINE x == Created(k, "bridge", valid)
           y == IF gone /\ x.pending THEN CancelledRun(x) ELSE x
<1>1. RunSound(x)
  BY CreatedSound
<1>2. RunSound(y)
  BY <1>1, CancelGoes DEF Goes
<1>3. Show(y) /\ UNCHANGED <<env, picker, plan, changes>>
  BY DEF BridgeCall
<1> HIDE DEF y
<1>4. Advances
  BY <1>2, <1>3, ShowAdvances DEF CommandsInv
<1> QED BY <1>3, <1>4, RunSteps DEF CommandsInv, CommandsTypeOK

LEMMA RuntimeSteps ==
  ASSUME CommandsInv, NEW r \in Runs, Microtask(r) \/ Approve(r) \/ Cancel(r)
  PROVE CommandsInv'
<1>0. RunSound(command[r]) /\ command[r] \in RunType
  BY RunTyped
<1>1. ASSUME NEW x, Goes(command[r], x), Moves(r, x), UNCHANGED <<env, picker, plan, changes>> PROVE CommandsInv'
  <2>1. Advances
    BY <1>1, MovesAdvances DEF CommandsInv
  <2> QED BY <1>1, <2>1, RunSteps DEF CommandsInv, CommandsTypeOK
<1>2. CASE Microtask(r)
  <2>1. Goes(command[r], IF command[r].pending THEN Execute(command[r]) ELSE [command[r] EXCEPT !.stage = "end"])
    BY <1>0, ExecuteGoes, StageGoes DEF Stages
  <2> QED BY <1>1, <1>2, <2>1 DEF Microtask
<1>3. CASE Approve(r)
  <2> DEFINE x == command[r]
             y == [x EXCEPT !.approved = TRUE]
             z == [y EXCEPT !.status = "proposed"]
  <2>1. x.pending
    BY <1>3 DEF Approve
  <2>2. Goes(x, y) /\ Cleared(y) /\ y.pending
    BY <1>0, <2>1 DEF RunSound, RunType, Goes, Later, Cleared
  <2>3. [x EXCEPT !.status = "proposed", !.approved = TRUE] = z
    BY <1>0 DEF RunType
  <2> HIDE DEF y
  <2>4. Goes(y, z) /\ z.pending
    <3>1. RunSound(y) /\ y \in RunType
      BY <2>2 DEF Goes, RunSound
    <3>2. z.pending = y.pending
      BY <3>1 DEF RunType
    <3> QED BY <2>2, <3>1, <3>2, StatusGoes DEF Statuses
  <2> HIDE DEF z
  <2>5. Goes(z, Execute(z))
    BY <2>4, ExecuteGoes DEF Goes
  <2>6. Goes(x, Execute(z))
    BY <2>2, <2>4, <2>5, GoesChain
  <2> QED BY <1>1, <1>3, <2>3, <2>6 DEF Approve
<1>4. CASE Cancel(r)
  BY <1>0, <1>1, <1>4, CancelGoes DEF Cancel
<1> QED BY <1>2, <1>3, <1>4

LEMMA CloseStep == ASSUME CommandsInv, Close PROVE CommandsInv'
<1>1. \A q \in Runs : RunSound(command[q])
  BY DEF CommandsInv, RunsSound
<1>2. command' = [q \in Runs |-> IF command[q].pending THEN CancelledRun(command[q]) ELSE command[q]]
  BY DEF Close
<1>3. \A q \in Runs : Goes(command[q], command'[q])
  BY <1>1, <1>2, CancelGoes, GoesSame
<1>4. DOMAIN command' = Runs /\ command' = [q \in Runs |-> command'[q]]
  BY <1>2
<1>5. Advances
  BY <1>3, <1>4, EachAdvances DEF CommandsInv
<1>6. env' \in [edit : BOOLEAN, view : Nat] /\ UNCHANGED <<picker, plan, changes>>
  BY DEF Close, CommandsInv, CommandsTypeOK
<1> QED BY <1>5, <1>6, RunSteps DEF CommandsInv, CommandsTypeOK

LEMMA BeginStep == ASSUME CommandsInv, NEW r \in Runs, Begin(r) PROVE CommandsInv'
<1> DEFINE x == command[r]
<1>0. RunSound(x) /\ x \in RunType /\ x.stage = "observe" /\ Cleared(x)
  BY RunTyped DEF Begin, RunSound
<1>1. UNCHANGED <<env, plan, changes>> /\ env \in [edit : BOOLEAN, view : Nat]
  BY DEF Begin, CommandsInv, CommandsTypeOK
<1>2. ASSUME NEW y, Goes(x, y), Moves(r, y), UNCHANGED picker PROVE CommandsInv'
  <2>1. Advances
    BY <1>2, MovesAdvances DEF CommandsInv
  <2> QED BY <1>1, <1>2, <2>1, RunSteps DEF CommandsInv, CommandsTypeOK
<1>3. CASE Moves(r, End(x, FALSE)) /\ UNCHANGED picker
  BY <1>0, <1>2, <1>3, EndGoes
<1>4. CASE BeginUi(r)
  <2> DEFINE y == [x EXCEPT !.applied = TRUE]
  <2>1. Goes(x, y)
    BY <1>0, AppliedGoes
  <2>2. Goes(y, End(y, TRUE))
    BY <2>1, EndGoes DEF Goes
  <2>3. Goes(x, End(y, TRUE))
    BY <2>1, <2>2, GoesChain
  <2> QED BY <1>2, <1>4, <2>3 DEF BeginUi
<1>5. CASE BeginEdit(r)
  <2> DEFINE y == [x EXCEPT !.stage = "actions"]
             z == [y EXCEPT !.view = env.view]
  <2>1. Goes(x, y)
    BY <1>0, StageGoes DEF Stages
  <2>2. Goes(y, z)
    BY <1>1, <2>1, ViewGoes DEF Goes
  <2>3. z = [x EXCEPT !.stage = "actions", !.view = env.view]
    BY <1>0 DEF RunType
  <2>4. Goes(x, z)
    BY <2>1, <2>2, GoesChain
  <2> QED BY <1>2, <1>5, <2>3, <2>4 DEF BeginEdit
<1>6. CASE BeginImage(r)
  <2> DEFINE y == [x EXCEPT !.stage = "picker"]
             z == [y EXCEPT !.listening = TRUE]
  <2>1. Goes(x, y)
    BY <1>0, StageGoes DEF Stages
  <2>2. Goes(y, z)
    BY <2>1, AbortedGoes DEF Goes
  <2>3. z = [x EXCEPT !.stage = "picker", !.listening = TRUE]
    BY <1>0 DEF RunType
  <2>4. Goes(x, z)
    BY <2>1, <2>2, GoesChain
  <2> HIDE DEF y, z
  <2>5. command' = [o \in Runs |-> IF o = r THEN z ELSE IF o = picker.of THEN Picked(command[o], FALSE) ELSE command[o]]
    BY <1>6, <2>3 DEF BeginImage, ReplacePicker
  <2>6. \A o \in Runs : RunSound(command[o])
    BY DEF CommandsInv, RunsSound
  <2>7. \A o \in Runs : Goes(command[o], command'[o])
    BY <2>4, <2>5, <2>6, PickedGoes, GoesSame
  <2>8. DOMAIN command' = Runs /\ command' = [q \in Runs |-> command'[q]]
    BY <2>5
  <2>9. Advances
    BY <2>7, <2>8, EachAdvances DEF CommandsInv
  <2>10. picker' = [of |-> r, dialog |-> TRUE, file |-> FALSE]
    BY <1>6 DEF BeginImage
  <2>11. r \in Nat \ {0} /\ r \in Runs'
    BY <2>9 DEF Advances, CommandsInv, CommandsTypeOK, Runs
  <2>12. Cleared(command'[r])
    BY <1>0, <2>7 DEF Goes, Later, Cleared
  <2>13. PickerCleared' /\ picker' \in [of : Nat, dialog : BOOLEAN, file : BOOLEAN]
    BY <2>10, <2>11, <2>12 DEF PickerCleared
  <2>14. PlanKept'
    BY <1>1, <2>9, PlanStays DEF CommandsInv
  <2> QED BY <1>1, <2>9, <2>13, <2>14 DEF CommandsInv, CommandsTypeOK, Advances
<1> QED BY <1>3, <1>4, <1>5, <1>6 DEF Begin

LEMMA ExecutorSteps ==
  ASSUME CommandsInv, NEW r \in Runs,
         \/ Actions(r) \/ Dispatch(r) \/ FocusCheck(r) \/ Upload(r)
         \/ \E ok \in BOOLEAN : Durable(r, ok) \/ Uploaded(r, ok)
  PROVE CommandsInv'
<1> DEFINE x == command[r]
<1>0. RunSound(x) /\ x \in RunType /\ env.edit \in BOOLEAN
  BY RunTyped DEF CommandsInv, CommandsTypeOK
<1>1. ASSUME NEW y, Goes(x, y), Moves(r, y), UNCHANGED <<env, picker, plan, changes>> PROVE CommandsInv'
  <2>1. Advances
    BY <1>1, MovesAdvances DEF CommandsInv
  <2> QED BY <1>1, <2>1, RunSteps DEF CommandsInv, CommandsTypeOK
<1>2. CASE Actions(r)
  <2>1. Cleared(x)
    BY <1>0, <1>2 DEF Actions, RunSound
  <2>2. Goes(x, IF x.aborted THEN End(x, FALSE) ELSE [x EXCEPT !.stage = "commands"])
    BY <1>0, <2>1, EndGoes, StageGoes DEF Stages
  <2> QED BY <1>1, <1>2, <2>2 DEF Actions
<1>3. CASE Dispatch(r)
  <2> DEFINE b == x.applied \/ Edits(r)
             y == [x EXCEPT !.stage = "durable"]
             z == [y EXCEPT !.applied = b]
  <2>0. b \in BOOLEAN
    BY <1>0 DEF Edits, RunType
  <2>1. Cleared(x)
    BY <1>0, <1>3 DEF Dispatch, RunSound
  <2>2. Goes(x, y) /\ Cleared(y)
    BY <1>0, <2>1, StageGoes DEF Stages, Goes, Later, Cleared
  <2>3. z = [x EXCEPT !.stage = "durable", !.applied = @ \/ Edits(r)]
    BY <1>0 DEF RunType
  <2> HIDE DEF b
  <2>4. Goes(y, z)
    BY <2>0, <2>2, AppliedGoes DEF Goes
  <2>5. Goes(x, z)
    BY <2>2, <2>4, GoesChain
  <2> QED BY <1>1, <1>3, <2>3, <2>5 DEF Dispatch
<1>4. CASE FocusCheck(r)
  <2> DEFINE y == [x EXCEPT !.listening = FALSE]
  <2>1. Goes(x, y)
    BY <1>0, AbortedGoes
  <2>2. Goes(y, Picked(y, FALSE)) /\ Goes(y, y)
    BY <2>1, PickedGoes, GoesSame DEF Goes
  <2>3. Goes(x, IF picker.of = r /\ ~picker.file THEN Picked(y, FALSE) ELSE y)
    BY <2>1, <2>2, GoesChain
  <2>4. Moves(r, IF picker.of = r /\ ~picker.file THEN Picked(y, FALSE) ELSE y)
    BY <1>4 DEF FocusCheck
  <2> QED BY <1>1, <1>4, <2>3, <2>4 DEF FocusCheck
<1>5. CASE Upload(r)
  <2>1. Cleared(x)
    BY <1>0, <1>5 DEF Upload, RunSound
  <2> DEFINE y == [x EXCEPT !.insert = "none"]
  <2>2. Goes(x, y)
    BY <1>0, InsertGoes
  <2>3. Goes(x, Picked(y, FALSE))
    BY <2>2, PickedGoes, GoesChain DEF Goes
  <2>4. Goes(x, [x EXCEPT !.insert = "uploading"])
    BY <1>0, <2>1, InsertGoes
  <2>5. Goes(x, IF env.edit THEN [x EXCEPT !.insert = "uploading"] ELSE Picked(y, FALSE))
    BY <2>3, <2>4
  <2> QED BY <1>1, <1>5, <2>5 DEF Upload
<1>6. ASSUME NEW ok \in BOOLEAN, Durable(r, ok) PROVE CommandsInv'
  BY <1>0, <1>1, <1>6, EndGoes DEF Durable
<1>7. ASSUME NEW ok \in BOOLEAN, Uploaded(r, ok) PROVE CommandsInv'
  <2> DEFINE done == ok /\ env.edit
             b == x.applied \/ done
             y == [x EXCEPT !.insert = "none"]
             z == [y EXCEPT !.applied = b]
  <2>0. done \in BOOLEAN /\ b \in BOOLEAN
    BY <1>0 DEF RunType
  <2>1. Cleared(x)
    BY <1>0, <1>7 DEF Uploaded, RunSound
  <2>2. Goes(x, y) /\ Cleared(y)
    BY <1>0, <2>1, InsertGoes DEF Goes, Later, Cleared
  <2>3. z = [x EXCEPT !.insert = "none", !.applied = @ \/ done]
    BY <1>0 DEF RunType
  <2>6. Moves(r, Picked([x EXCEPT !.insert = "none", !.applied = @ \/ done], done))
    BY <1>7 DEF Uploaded
  <2> HIDE DEF b, done
  <2>4. Goes(y, z)
    BY <2>0, <2>2, AppliedGoes DEF Goes
  <2>5. Goes(x, Picked(z, done))
    <3>1. Goes(z, Picked(z, done))
      BY <2>0, <2>4, PickedGoes DEF Goes
    <3> QED BY <2>2, <2>4, <3>1, GoesChain
  <2> QED BY <1>1, <1>7, <2>3, <2>5, <2>6 DEF Uploaded
<1> QED BY <1>2, <1>3, <1>4, <1>5, <1>6, <1>7

LEMMA DialogSteps == ASSUME CommandsInv, FileChosen \/ DialogDismissed PROVE CommandsInv'
<1> DEFINE r == picker.of
           x == command[r]
<1>0. r \in Runs /\ Cleared(x) /\ RunSound(x)
  BY DEF FileChosen, DialogDismissed, CommandsInv, PickerCleared, RunsSound
<1>1. UNCHANGED <<env, plan, changes>> /\ picker' \in [of : Nat, dialog : BOOLEAN, file : BOOLEAN] /\ picker'.of = r
      /\ ~picker'.dialog
  BY DEF FileChosen, DialogDismissed, CommandsInv, CommandsTypeOK
<1>2. Advances
  <2>1. CASE FileChosen
    <3>1. Goes(x, IF env.view = 0 \/ x.aborted THEN Picked(x, FALSE) ELSE [x EXCEPT !.insert = "loading"])
      BY <1>0, PickedGoes, InsertGoes
    <3>2. Moves(r, IF env.view = 0 \/ x.aborted THEN Picked(x, FALSE) ELSE [x EXCEPT !.insert = "loading"])
      BY <2>1 DEF FileChosen
    <3> QED BY <1>0, <3>1, <3>2, MovesAdvances DEF CommandsInv
  <2>2. CASE DialogDismissed
    BY <2>2, SameAdvances DEF DialogDismissed, CommandsInv
  <2> QED BY <2>1, <2>2
<1>3. r \in Runs' /\ Cleared(command'[r])
  BY <1>0, <1>2 DEF Advances, Goes, Later, Cleared
<1>4. PickerCleared'
  BY <1>1, <1>3 DEF PickerCleared
<1>5. PlanKept'
  BY <1>1, <1>2, PlanStays DEF CommandsInv
<1> QED BY <1>1, <1>2, <1>4, <1>5 DEF CommandsInv, CommandsTypeOK, Advances

LEMMA EnvStep == ASSUME CommandsInv, ChangeEnv PROVE CommandsInv'
<1>1. Advances
  BY SameAdvances DEF ChangeEnv, CommandsInv
<1>2. changes.env + 1 \in Nat /\ changes.views + 1 \in Nat /\ (~env.edit) \in BOOLEAN
  BY DEF CommandsInv, CommandsTypeOK
<1>3. env' \in [edit : BOOLEAN, view : Nat]
  <2>1. env \in [edit : BOOLEAN, view : Nat]
    BY DEF CommandsInv, CommandsTypeOK
  <2> DEFINE b == ~env.edit
  <2>2. b \in BOOLEAN
    BY <1>2
  <2> HIDE DEF b
  <2>3. [env EXCEPT !.edit = b] \in [edit : BOOLEAN, view : Nat]
    BY <2>1, <2>2
  <2>4. \A v \in Nat : [env EXCEPT !.view = v] \in [edit : BOOLEAN, view : Nat]
    BY <2>1
  <2>5. \/ env' = [env EXCEPT !.edit = b]
        \/ env' = [env EXCEPT !.view = 0]
        \/ env' = [env EXCEPT !.view = changes.views + 1]
    BY DEF ChangeEnv, b
  <2> QED BY <1>2, <2>3, <2>4, <2>5
<1>4. [changes EXCEPT !.env = @ + 1] \in [env : Nat, views : Nat]
  BY <1>2 DEF CommandsInv, CommandsTypeOK
<1>5. [changes EXCEPT !.env = @ + 1, !.views = @ + 1] \in [env : Nat, views : Nat]
  BY <1>2 DEF CommandsInv, CommandsTypeOK
<1>6. changes' \in [env : Nat, views : Nat]
  BY <1>4, <1>5 DEF ChangeEnv
<1> QED BY <1>1, <1>3, <1>6, RunSteps DEF ChangeEnv

-----------------------------------------------------------------------------
(* The agent's plan. *)

LEMMA PlanStepStep == ASSUME CommandsInv, NEW k \in Kinds, PlanStep(k) PROVE CommandsInv'
<1> DEFINE n == Len(command) + 1
           m == Len(plan.runs)
<1>1. RunSound(Created(k, "agent", TRUE))
  BY CreatedSound
<1>2. Advances /\ n \in Runs'
  BY <1>1, ShowAdvances DEF PlanStep, CommandsInv
<1>3. UNCHANGED <<env, picker, changes>> /\ plan.active = 0 /\ ~plan.ended
  BY DEF PlanStep
<1>4. plan \in [runs : Seq(Nat), active : Nat, aborted : BOOLEAN, ended : BOOLEAN] /\ n \in Nat /\ m \in Nat
  BY DEF CommandsInv, CommandsTypeOK
<1>5. plan'.runs = Append(plan.runs, n) /\ plan'.active = n
  BY <1>4 DEF PlanStep
<1>6. plan' \in [runs : Seq(Nat), active : Nat, aborted : BOOLEAN, ended : BOOLEAN]
  <2> DEFINE a == [plan EXCEPT !.runs = Append(@, n)]
  <2>1. a \in [runs : Seq(Nat), active : Nat, aborted : BOOLEAN, ended : BOOLEAN]
    BY <1>4
  <2>2. plan' = [a EXCEPT !.active = n]
    BY <1>4 DEF PlanStep
  <2> QED BY <1>4, <2>1, <2>2
<1>7. /\ Len(plan'.runs) = m + 1 /\ plan'.runs[m + 1] = n
      /\ \A i \in 1..m : plan'.runs[i] = plan.runs[i]
  BY <1>4, <1>5
<1> HIDE DEF n, m
<1>8. \A i \in 1..m : plan.runs[i] \in Runs /\ Succeeded(plan.runs[i])
  BY <1>3, <1>4 DEF CommandsInv, PlanKept, m
<1>9. \A i \in 1..m : plan'.runs[i] \in Runs' /\ ~command'[plan'.runs[i]].pending
                      /\ command'[plan'.runs[i]].status = "succeeded"
  BY <1>2, <1>7, <1>8 DEF Advances, Goes, Later, Succeeded
<1>10. \A i \in 1..(m + 1) : plan'.runs[i] \in Runs'
  BY <1>2, <1>4, <1>7, <1>9
<1>11. n # 0
  BY DEF n, CommandsInv, CommandsTypeOK
<1>12. PlanKept'
  BY <1>4, <1>5, <1>7, <1>9, <1>10, <1>11 DEF PlanKept, Succeeded
<1>13. PickerCleared'
  BY <1>2, <1>3, PickerStays DEF CommandsInv
<1> QED BY <1>2, <1>3, <1>6, <1>12, <1>13 DEF CommandsInv, CommandsTypeOK, Advances

LEMMA PlanReceiptStep == ASSUME CommandsInv, PlanReceipt PROVE CommandsInv'
<1> DEFINE e == ~GoesOn(command[plan.active].status) \/ plan.aborted \/ ~HasStep
           a == [plan EXCEPT !.active = 0]
<1>1. Advances
  BY SameAdvances DEF PlanReceipt, CommandsInv
<1>2. plan' = [plan EXCEPT !.active = 0, !.ended = e]
  BY DEF PlanReceipt
<1>3. plan \in [runs : Seq(Nat), active : Nat, aborted : BOOLEAN, ended : BOOLEAN]
  BY DEF CommandsInv, CommandsTypeOK
<1>4. e \in BOOLEAN /\ (~e => command[plan.active].status = "succeeded")
  BY <1>3 DEF GoesOn, HasStep
<1> HIDE DEF e
<1>5. plan' \in [runs : Seq(Nat), active : Nat, aborted : BOOLEAN, ended : BOOLEAN]
  <2>1. a \in [runs : Seq(Nat), active : Nat, aborted : BOOLEAN, ended : BOOLEAN]
    BY <1>3
  <2>2. plan' = [a EXCEPT !.ended = e]
    BY <1>2, <1>3
  <2> QED BY <1>4, <2>1, <2>2
<1>6. plan'.runs = plan.runs /\ plan'.active = 0 /\ plan'.ended = e
  BY <1>2, <1>3
<1>7. plan.active = plan.runs[Len(plan.runs)] /\ ~command[plan.active].pending
  BY DEF PlanReceipt, CommandsInv, PlanKept
<1>8. UNCHANGED <<command, env, picker, changes>>
  BY DEF PlanReceipt
<1>9. Runs' = Runs
  BY <1>8 DEF Runs
<1>10. PlanKept'
  BY <1>4, <1>6, <1>7, <1>8, <1>9 DEF CommandsInv, PlanKept, Succeeded
<1>11. PickerCleared'
  BY <1>1, <1>8, PickerStays DEF CommandsInv
<1> QED BY <1>1, <1>5, <1>8, <1>10, <1>11 DEF CommandsInv, CommandsTypeOK, Advances

LEMMA PlanStopStep == ASSUME CommandsInv, PlanStop PROVE CommandsInv'
<1> DEFINE e == (plan.active = 0)
           a == [plan EXCEPT !.aborted = TRUE]
<1>1. plan \in [runs : Seq(Nat), active : Nat, aborted : BOOLEAN, ended : BOOLEAN]
  BY DEF CommandsInv, CommandsTypeOK
<1>2. plan' = [a EXCEPT !.ended = e] /\ UNCHANGED <<env, picker, changes>>
  BY <1>1 DEF PlanStop
<1>3. a \in [runs : Seq(Nat), active : Nat, aborted : BOOLEAN, ended : BOOLEAN]
      /\ a.runs = plan.runs /\ a.active = plan.active
  BY <1>1
<1>4. e \in BOOLEAN
  OBVIOUS
<1> HIDE DEF a
<1>5. plan' \in [runs : Seq(Nat), active : Nat, aborted : BOOLEAN, ended : BOOLEAN]
      /\ plan'.runs = plan.runs /\ plan'.active = plan.active /\ plan'.ended = e
  BY <1>2, <1>3, <1>4
<1>6. Advances
  <2>1. CASE plan.active # 0 /\ command[plan.active].pending
    <3>1. plan.active \in Runs
      BY <1>1, <2>1 DEF CommandsInv, PlanKept
    <3>2. Goes(command[plan.active], CancelledRun(command[plan.active]))
      BY <3>1, RunTyped, CancelGoes
    <3> QED BY <2>1, <3>1, <3>2, MovesAdvances DEF PlanStop, CommandsInv
  <2>2. CASE UNCHANGED command
    BY <2>2, SameAdvances DEF CommandsInv
  <2> QED BY <2>1, <2>2 DEF PlanStop
<1>7. \A q \in Runs : q \in Runs' /\ (Succeeded(q) => ~command'[q].pending /\ command'[q].status = "succeeded")
  BY <1>6 DEF Advances, Goes, Later, Succeeded
<1>8. PlanKept'
  BY <1>1, <1>5, <1>7 DEF CommandsInv, PlanKept, Succeeded
<1>9. PickerCleared'
  BY <1>2, <1>6, PickerStays DEF CommandsInv
<1> QED BY <1>2, <1>5, <1>6, <1>8, <1>9 DEF CommandsInv, CommandsTypeOK, Advances

-----------------------------------------------------------------------------
LEMMA CommandsInitInv == CommandsInit => CommandsInv
<1> SUFFICES ASSUME CommandsInit PROVE CommandsInv
  OBVIOUS
<1>1. Runs = {} /\ plan.runs = <<>> /\ plan.active = 0
  BY DEF CommandsInit, Runs, NoPlan
<1>2. CommandsTypeOK
  BY DEF CommandsInit, CommandsTypeOK, NoPlan
<1> QED BY <1>1, <1>2 DEF CommandsInit, CommandsInv, RunsSound, PickerCleared, PlanKept

LEMMA CommandsImplied == CommandsInv => CommandsInOrder
<1> SUFFICES ASSUME CommandsInv PROVE CommandsInOrder
  OBVIOUS
<1>1. ApprovedFirst
  BY DEF CommandsInv, RunsSound, RunSound, Cleared, ApprovedFirst
<1>2. FinishedOnce
  BY DEF CommandsInv, RunsSound, RunSound, FinishedOnce
<1>3. DOMAIN plan.runs = 1..Len(plan.runs)
  BY DEF CommandsInv, CommandsTypeOK
<1>4. PlanInOrder
  BY <1>3 DEF CommandsInv, PlanKept, Succeeded, PlanInOrder
<1> QED BY <1>1, <1>2, <1>4 DEF CommandsInOrder

\* For any number of runs and of plan steps: an external command that an agent or a page script
\* asked for takes effect only after approve was called for that run, a run that is no longer
\* pending has one receipt, its status, and a plan starts a command only after every earlier one
\* succeeded (commands/runtime.ts, executor.ts, agent/execution.ts).
THEOREM CommandsStayInOrder == CommandsSpec => []CommandsInOrder
<1>1. CommandsInv /\ [CommandsNext]_commandsVars => CommandsInv'
  <2> SUFFICES ASSUME CommandsInv, [CommandsNext]_commandsVars PROVE CommandsInv'
    OBVIOUS
  <2>1. CASE UNCHANGED commandsVars
    <3>1. Advances
      BY <2>1, SameAdvances DEF commandsVars, CommandsInv
    <3> QED BY <2>1, <3>1, RunSteps DEF commandsVars, CommandsInv, CommandsTypeOK
  <2>2. ASSUME NEW k \in Kinds, NEW s \in Sources \ {"bridge"}, NEW valid \in BOOLEAN, Start(k, s, valid)
        PROVE CommandsInv'
    BY <2>2, StartStep
  <2>3. CASE \E r \in Runs : Microtask(r) \/ Approve(r) \/ Cancel(r)
    BY <2>3, RuntimeSteps
  <2>4. CASE \E r \in Runs : Begin(r)
    BY <2>4, BeginStep
  <2>5. CASE \E r \in Runs : \/ Actions(r) \/ Dispatch(r) \/ FocusCheck(r) \/ Upload(r)
                             \/ \E ok \in BOOLEAN : Durable(r, ok) \/ Uploaded(r, ok)
    BY <2>5, ExecutorSteps
  <2>6. CASE \E k \in Kinds, valid \in BOOLEAN, gone \in BOOLEAN : BridgeCall(k, valid, gone)
    BY <2>6, BridgeStep
  <2>7. CASE \E k \in Kinds : PlanStep(k)
    BY <2>7, PlanStepStep
  <2>8. CASE Close \/ FileChosen \/ DialogDismissed \/ ChangeEnv \/ PlanReceipt \/ PlanStop
    BY <2>8, CloseStep, DialogSteps, EnvStep, PlanReceiptStep, PlanStopStep
  <2> QED BY <2>1, <2>2, <2>3, <2>4, <2>5, <2>6, <2>7, <2>8 DEF CommandsNext
<1> QED BY <1>1, CommandsInitInv, CommandsImplied, PTL DEF CommandsSpec

-----------------------------------------------------------------------------
(***************************************************************************)
(* The review drawer.                                                      *)
(***************************************************************************)

ReqType == [st : {"idle", "sent", "answered"}, kind : {"none", "list", "earlier"},
            from : Nat, ans : SUBSET Nat, next : Nat]
VersionType == [need : Nat, text : Nat, live : BOOLEAN]
SaveType == [st : {"idle", "waiting", "sent"}, need : Nat]

ReviewTyped ==
  /\ threads \in 0..MaxThreads /\ listed \in SUBSET Nat /\ cursor \in Nat
  /\ req \in [1..MaxRequests -> ReqType]
  /\ saved \in Seq(VersionType) /\ saving \in SaveType
  /\ typed \in Nat /\ committed \in Nat

\* A place where a page of threads begins: there is one above the oldest.
Begins(n) == 2 <= n /\ n <= threads

\* Threads without a gap, and none below n when there are more.
Gapless(S) == \A j, k \in S : j..k \subseteq S
Ends(S, n) == n # 0 => n \in S /\ \A k \in S : n <= k

\* An earlier page goes on where the list it was asked from ended.
Joins(S, n) == n - 1 \in S /\ \A k \in S : k < n

\* A request asks for the first page or for one that begins at a place there is;
\* an answer has no gap, one without a next page has the oldest thread, and an
\* earlier page joins the place it was asked for.
RequestSound(r) ==
  /\ r.st = "sent" => r.kind \in {"list", "earlier"}
  /\ r.st = "sent" /\ r.kind = "list" => r.from = MaxThreads + 1
  /\ r.st = "sent" /\ r.kind = "earlier" => Begins(r.from)
  /\ r.st = "answered" =>
       /\ r.kind \in {"list", "earlier"}
       /\ r.next = 0 \/ Begins(r.next)
       /\ r.next = 0 /\ r.ans # {} => 1 \in r.ans
       /\ Gapless(r.ans) /\ Ends(r.ans, r.next)
       /\ r.kind = "earlier" => r.from >= 2 /\ Joins(r.ans, r.from)

RequestsSound == \A i \in 1..MaxRequests : RequestSound(req[i])

CursorBegins == cursor = 0 \/ Begins(cursor)

\* A save that was sent waited for its edits.
SentCommitted == saving.st = "sent" => committed >= saving.need

ReviewInv ==
  /\ ReviewTyped /\ CursorBegins /\ RequestsSound /\ SentCommitted
  /\ OldestReachable /\ PagesMeet /\ VersionCoversEdits

LEMMA ReviewConstants ==
  /\ Page \in Nat \ {0} /\ MaxThreads \in Nat /\ MaxRequests \in Nat /\ MaxSaved \in Nat
  /\ MaxTyped \in Nat /\ MaxFailed \in Nat
BY ReviewPanelAssumption

\* A page is the threads from one place to another.
LEMMA PageOfThreads ==
  ASSUME ReviewTyped, NEW n \in Nat, n = MaxThreads + 1 \/ Begins(n)
  PROVE /\ PageBelow(n) \subseteq 1..threads
        /\ NextCursor(n) = 0 \/ Begins(NextCursor(n))
        /\ NextCursor(n) \in Nat
        /\ NextCursor(n) = 0 /\ PageBelow(n) # {} => 1 \in PageBelow(n)
        /\ Gapless(PageBelow(n)) /\ Ends(PageBelow(n), NextCursor(n))
        /\ Begins(n) => n >= 2 /\ Joins(PageBelow(n), n)
<1> DEFINE e == IF n > threads THEN threads + 1 ELSE n
           S == PageBelow(n)
           lo == IF e - Page >= 1 THEN e - Page ELSE 1
<1>1. threads \in Nat /\ threads <= MaxThreads /\ MaxThreads \in Nat /\ Page \in Nat \ {0}
  BY ReviewConstants DEF ReviewTyped
<1>2. e \in Nat /\ e <= threads + 1 /\ e >= 1 /\ lo \in Nat /\ lo >= 1
  BY <1>1 DEF Begins
<1>3. S = {k \in 1..threads : k < e /\ k >= lo}
  <2>1. \A k \in 1..threads : k < n <=> k < e
    BY <1>1
  <2>2. \A k \in 1..threads : k >= e - Page <=> k >= lo
    BY <1>1, <1>2
  <2>3. S = {k \in 1..threads : k < n /\ k >= e - Page}
    BY DEF PageBelow
  <2> HIDE DEF S, e, lo
  <2> QED BY <2>1, <2>2, <2>3
<1>4. Begins(n) => e = n
  BY <1>1 DEF Begins
<1>5. lo < e \/ e = 1
  BY <1>1, <1>2
<1> HIDE DEF e, lo
<1>6. S # {} => lo \in S
  BY <1>1, <1>2, <1>3, <1>5
<1>7. Begins(n) => n >= 2 /\ Joins(S, n)
  BY <1>1, <1>2, <1>3, <1>4, <1>5 DEF Begins, Joins, lo
<1>13. Gapless(S)
  BY <1>1, <1>2, <1>3 DEF Gapless
<1>8. S # {} => Oldest(S) = lo
  <2> SUFFICES ASSUME S # {} PROVE Oldest(S) = lo
    OBVIOUS
  <2>1. lo \in S /\ \A j \in S : lo <= j
    BY <1>3, <1>6
  <2>2. \A k \in S : (\A j \in S : k <= j) => k = lo
    <3>1. \A k \in S : k \in Nat
      BY <1>3
    <3> QED BY <1>2, <2>1, <3>1
  <2> HIDE DEF S
  <2> QED BY <2>1, <2>2 DEF Oldest
<1>9. NextCursor(n) = IF S = {} \/ lo = 1 THEN 0 ELSE lo
  BY <1>8 DEF NextCursor
<1>10. S # {} /\ lo # 1 => Begins(lo)
  BY <1>2, <1>3, <1>6 DEF Begins
<1>11. S \subseteq 1..threads
  BY <1>3
<1>14. Ends(S, NextCursor(n))
  <2>1. \A k \in S : lo <= k
    BY <1>3
  <2> QED BY <1>6, <1>9, <2>1 DEF Ends
<1> HIDE DEF S
<1>12. /\ S \subseteq 1..threads
       /\ NextCursor(n) = 0 \/ Begins(NextCursor(n))
       /\ NextCursor(n) \in Nat
       /\ NextCursor(n) = 0 /\ S # {} => 1 \in S
       /\ Gapless(S) /\ Ends(S, NextCursor(n))
       /\ Begins(n) => n >= 2 /\ Joins(S, n)
  BY <1>2, <1>6, <1>7, <1>9, <1>10, <1>11, <1>13, <1>14
<1> QED BY <1>12 DEF S

LEMMA ReviewInitInv == ReviewInit => ReviewInv
<1> SUFFICES ASSUME ReviewInit PROVE ReviewInv
  OBVIOUS
<1>1. NoReq \in ReqType /\ NoReq.st = "idle" /\ NoSave \in SaveType /\ NoSave.st = "idle"
  BY DEF NoReq, ReqType, NoSave, SaveType
<1>2. saved \in Seq(VersionType) /\ DOMAIN saved = {}
  BY DEF ReviewInit
<1>3. ReviewTyped
  BY <1>1, <1>2, ReviewConstants DEF ReviewInit, ReviewTyped
<1>4. RequestsSound
  BY <1>1 DEF ReviewInit, RequestsSound, RequestSound
<1>5. CursorBegins /\ SentCommitted /\ OldestReachable /\ PagesMeet /\ VersionCoversEdits
  BY <1>1, <1>2 DEF ReviewInit, CursorBegins, SentCommitted, OldestReachable, PagesMeet, VersionCoversEdits
<1> QED BY <1>3, <1>4, <1>5 DEF ReviewInv

-----------------------------------------------------------------------------
(* The threads. *)

\* A step of the threads leaves the versions alone.
LEMMA ThreadsApart ==
  ASSUME ReviewInv, UNCHANGED versionVars
  PROVE SentCommitted' /\ VersionCoversEdits'
        /\ saved' \in Seq(VersionType) /\ saving' \in SaveType /\ typed' \in Nat /\ committed' \in Nat
BY DEF ReviewInv, ReviewTyped, versionVars, SentCommitted, VersionCoversEdits

\* One request changes, and threads are only added.
LEMMA RequestChanges ==
  ASSUME ReviewInv, NEW i \in 1..MaxRequests, NEW r \in ReqType, req' = [req EXCEPT ![i] = r],
         threads' \in 0..MaxThreads, threads <= threads',
         RequestSound(r)
  PROVE /\ req' \in [1..MaxRequests -> ReqType] /\ RequestsSound' /\ CursorBegins
        /\ \A n \in Nat : Begins(n) => Begins(n)'
<1>1. threads \in Nat /\ threads' \in Nat /\ req \in [1..MaxRequests -> ReqType]
  BY ReviewConstants DEF ReviewInv, ReviewTyped
<1>2. \A n \in Nat : Begins(n) => Begins(n)'
  BY <1>1 DEF Begins
<1>3. \A q \in ReqType : RequestSound(q) => RequestSound(q)'
  BY <1>2 DEF RequestSound, ReqType
<1>4. req' \in [1..MaxRequests -> ReqType] /\ \A j \in 1..MaxRequests : req'[j] = IF j = i THEN r ELSE req[j]
  BY <1>1
<1>5. ASSUME NEW j \in 1..MaxRequests PROVE RequestSound(req[j])' 
  <2>1. req'[j] \in {r, req[j]} /\ req[j] \in ReqType
    BY <1>1, <1>4
  <2>2. RequestSound(req[j])
    BY DEF ReviewInv, RequestsSound
  <2> QED BY <1>2, <2>1, <2>2 DEF RequestSound, ReqType
<1>6. CursorBegins
  BY DEF ReviewInv
<1> QED BY <1>2, <1>4, <1>5, <1>6 DEF RequestsSound

\* What a step of the threads must show.
LEMMA ThreadsKept ==
  ASSUME ReviewInv, UNCHANGED versionVars,
         NEW i \in 1..MaxRequests, NEW r \in ReqType, req' = [req EXCEPT ![i] = r],
         threads' \in 0..MaxThreads, threads <= threads', RequestSound(r),
         listed' \in SUBSET Nat, cursor' \in Nat, CursorBegins', OldestReachable', PagesMeet'
  PROVE ReviewInv'
<1>1. req' \in [1..MaxRequests -> ReqType] /\ RequestsSound'
  BY RequestChanges
<1>2. /\ SentCommitted' /\ VersionCoversEdits'
      /\ saved' \in Seq(VersionType) /\ saving' \in SaveType /\ typed' \in Nat /\ committed' \in Nat
  BY ThreadsApart
<1> QED BY <1>1, <1>2 DEF ReviewInv, ReviewTyped

\* The drawer is as it was.
LEMMA DrawerKept ==
  ASSUME ReviewInv, UNCHANGED versionVars, UNCHANGED <<listed, cursor, gapped>>,
         NEW i \in 1..MaxRequests, NEW r \in ReqType, req' = [req EXCEPT ![i] = r],
         threads' \in 0..MaxThreads, threads <= threads', RequestSound(r)
  PROVE ReviewInv'
<1>1. listed' \in SUBSET Nat /\ cursor' \in Nat /\ OldestReachable' /\ PagesMeet'
  BY DEF ReviewInv, ReviewTyped, OldestReachable, PagesMeet
<1>2. CursorBegins'
  <2>1. CursorBegins /\ \A n \in Nat : Begins(n) => Begins(n)'
    BY RequestChanges
  <2>2. cursor \in Nat /\ cursor' = cursor
    BY DEF ReviewInv, ReviewTyped
  <2>3. cursor = 0 \/ Begins(cursor)
    BY <2>1 DEF CursorBegins
  <2> QED BY <2>1, <2>2, <2>3 DEF CursorBegins, Begins
<1> QED BY <1>1, <1>2, ThreadsKept

LEMMA RefreshKept ==
  ASSUME ReviewInv, UNCHANGED versionVars, UNCHANGED <<listed, cursor, gapped>>,
         threads' \in 0..MaxThreads, threads <= threads',
         NEW i \in 1..MaxRequests, Refresh(i)
  PROVE ReviewInv'
<1> DEFINE m == MaxThreads + 1
           r == [NoReq EXCEPT !.st = "sent", !.kind = "list", !.from = m]
<1>0. m \in Nat
  BY ReviewConstants
<1> HIDE DEF m
<1>1. r \in ReqType /\ r.st = "sent" /\ r.kind = "list" /\ r.from = m
  BY <1>0 DEF NoReq, ReqType
<1>2. r \in ReqType /\ RequestSound(r)
  BY <1>1 DEF m, RequestSound
<1>3. req' = [req EXCEPT ![i] = r]
  BY DEF m, Refresh
<1> HIDE DEF r
<1> QED BY <1>2, <1>3, DrawerKept

LEMMA CommentsKept ==
  ASSUME ReviewInv, AddComment \/ ChangeThread \/ PeerComments
  PROVE ReviewInv'
<1>0. threads \in 0..MaxThreads /\ MaxThreads \in Nat
  BY ReviewConstants DEF ReviewInv, ReviewTyped
<1>1. CASE AddComment
  <2>1. threads' \in 0..MaxThreads /\ threads <= threads'
    BY <1>0, <1>1 DEF AddComment
  <2>2. UNCHANGED versionVars /\ UNCHANGED <<listed, cursor, gapped>>
    BY <1>1 DEF AddComment
  <2>3. PICK i \in 1..MaxRequests : Refresh(i)
    BY <1>1 DEF AddComment
  <2> QED BY <2>1, <2>2, <2>3, RefreshKept
<1>2. CASE ChangeThread
  <2>1. threads' \in 0..MaxThreads /\ threads <= threads'
    BY <1>0, <1>2 DEF ChangeThread
  <2>2. UNCHANGED versionVars /\ UNCHANGED <<listed, cursor, gapped>>
    BY <1>2 DEF ChangeThread
  <2>3. PICK i \in 1..MaxRequests : Refresh(i)
    BY <1>2 DEF ChangeThread
  <2> QED BY <2>1, <2>2, <2>3, RefreshKept
<1>3. CASE PeerComments
  <2>1. threads' \in 0..MaxThreads /\ threads <= threads' /\ threads \in Nat /\ threads' \in Nat
    BY <1>0, <1>3 DEF PeerComments
  <2>2. UNCHANGED versionVars /\ UNCHANGED <<listed, cursor, gapped, req>>
    BY <1>3 DEF PeerComments
  <2>3. \A n \in Nat : Begins(n) => Begins(n)'
    BY <2>1 DEF Begins
  <2>4. RequestsSound'
    <3>1. ASSUME NEW j \in 1..MaxRequests PROVE RequestSound(req[j])'
      <4>1. req'[j] = req[j] /\ req[j] \in ReqType /\ RequestSound(req[j])
        BY <2>2 DEF ReviewInv, ReviewTyped, RequestsSound
      <4> QED BY <2>3, <4>1 DEF RequestSound, ReqType
    <3> QED BY <3>1 DEF RequestsSound
  <2>5. CursorBegins'
    <3>1. cursor \in Nat /\ (cursor = 0 \/ Begins(cursor))
      BY DEF ReviewInv, ReviewTyped, CursorBegins
    <3> QED BY <2>2, <2>3, <3>1 DEF CursorBegins, Begins
  <2>6. ReviewTyped' /\ OldestReachable' /\ PagesMeet'
    BY <2>1, <2>2, ThreadsApart DEF ReviewInv, ReviewTyped, OldestReachable, PagesMeet
  <2>7. SentCommitted' /\ VersionCoversEdits'
    BY <2>2, ThreadsApart
  <2> QED BY <2>4, <2>5, <2>6, <2>7 DEF ReviewInv
<1> QED BY <1>1, <1>2, <1>3

LEMMA EarlierKept ==
  ASSUME ReviewInv, LoadEarlier
  PROVE ReviewInv'
<1>1. PICK i \in 1..MaxRequests :
        req' = [req EXCEPT ![i] = [NoReq EXCEPT !.st = "sent", !.kind = "earlier", !.from = cursor]]
  BY DEF LoadEarlier
<1> DEFINE r == [NoReq EXCEPT !.st = "sent", !.kind = "earlier", !.from = cursor]
<1>2. cursor \in Nat /\ Begins(cursor)
  BY DEF LoadEarlier, ReviewInv, ReviewTyped, CursorBegins
<1>3. r \in ReqType /\ r.st = "sent" /\ r.kind = "earlier" /\ r.from = cursor
  BY <1>2 DEF NoReq, ReqType
<1>4. r \in ReqType /\ RequestSound(r)
  BY <1>2, <1>3 DEF RequestSound
<1>5. req' = [req EXCEPT ![i] = r]
  BY <1>1
<1> HIDE DEF r
<1>6. /\ UNCHANGED versionVars /\ UNCHANGED <<listed, cursor, gapped>>
      /\ threads' \in 0..MaxThreads /\ threads <= threads'
  BY ReviewConstants DEF LoadEarlier, ReviewInv, ReviewTyped
<1> QED BY <1>4, <1>5, <1>6, DrawerKept

LEMMA ListsKept ==
  ASSUME ReviewInv, NEW i \in 1..MaxRequests, ServerLists(i)
  PROVE ReviewInv'
<1> DEFINE q == req[i]
           n == q.from
           p == PageBelow(n)
           m == NextCursor(n)
           a == [q EXCEPT !.st = "answered"]
           b == [a EXCEPT !.ans = p]
           r == [b EXCEPT !.next = m]
<1>1. q \in ReqType /\ q.st = "sent" /\ RequestSound(q) /\ req \in [1..MaxRequests -> ReqType]
  BY DEF ServerLists, ReviewInv, ReviewTyped, RequestsSound
<1>2. n \in Nat /\ (n = MaxThreads + 1 \/ Begins(n)) /\ q.kind \in {"list", "earlier"}
      /\ (q.kind = "earlier" => Begins(n))
  BY <1>1 DEF ReqType, RequestSound
<1>3. ReviewTyped
  BY DEF ReviewInv
<1>4. /\ p \subseteq 1..threads
      /\ m = 0 \/ Begins(m)
      /\ m \in Nat
      /\ m = 0 /\ p # {} => 1 \in p
      /\ Gapless(p) /\ Ends(p, m)
      /\ Begins(n) => n >= 2 /\ Joins(p, n)
  BY <1>2, <1>3, PageOfThreads
<1>5. req' = [req EXCEPT ![i].st = "answered", ![i].ans = p, ![i].next = m]
  BY DEF ServerLists
<1> HIDE DEF p, m
<1>6. req' = [req EXCEPT ![i] = r]
  <2> DEFINE f == [req EXCEPT ![i] = a]
             g == [f EXCEPT ![i] = b]
  <2>1. req' = [[f EXCEPT ![i].ans = p] EXCEPT ![i].next = m]
    BY <1>5
  <2>2. f[i] = a
    BY <1>1
  <2> HIDE DEF a
  <2>3. [f EXCEPT ![i].ans = p] = g
    BY <2>2
  <2>4. g[i] = b /\ g = [req EXCEPT ![i] = b]
    BY <1>1, <2>2
  <2> HIDE DEF b, g
  <2>5. req' = [g EXCEPT ![i] = r]
    BY <2>1, <2>3, <2>4
  <2>6. [g EXCEPT ![i] = r] = [req EXCEPT ![i] = r]
    BY <1>1, <2>4
  <2> QED BY <2>5, <2>6
<1> HIDE DEF q
<1>7. r \in ReqType /\ r.st = "answered" /\ r.kind = q.kind /\ r.from = n /\ r.ans = p /\ r.next = m
  <2>1. a \in ReqType /\ a.st = "answered" /\ a.kind = q.kind /\ a.from = n
    BY <1>1 DEF ReqType
  <2>2. p \in SUBSET Nat
    BY <1>3, <1>4 DEF ReviewTyped
  <2> HIDE DEF a
  <2>3. b \in ReqType /\ b.st = a.st /\ b.kind = a.kind /\ b.from = a.from /\ b.ans = p
    BY <2>1, <2>2 DEF ReqType
  <2> HIDE DEF b
  <2>4. r \in ReqType /\ r.st = b.st /\ r.kind = b.kind /\ r.from = b.from /\ r.ans = b.ans /\ r.next = m
    BY <1>4, <2>3 DEF ReqType
  <2> QED BY <2>1, <2>3, <2>4
<1> HIDE DEF r
<1>8. RequestSound(r)
  BY <1>2, <1>4, <1>7 DEF RequestSound
<1>9. /\ UNCHANGED versionVars /\ UNCHANGED <<listed, cursor, gapped>>
      /\ threads' \in 0..MaxThreads /\ threads <= threads'
  BY ReviewConstants DEF ServerLists, ReviewInv, ReviewTyped
<1> QED BY <1>6, <1>7, <1>8, <1>9, DrawerKept

LEMMA IdleSound == NoReq \in ReqType /\ RequestSound(NoReq)
BY DEF NoReq, ReqType, RequestSound

LEMMA ArrivesKept ==
  ASSUME ReviewInv, NEW i \in 1..MaxRequests, ListArrives(i)
  PROVE ReviewInv'
<1> DEFINE q == req[i]
<1>1. q \in ReqType /\ q.st = "answered" /\ RequestSound(q)
  BY DEF ListArrives, ReviewInv, ReviewTyped, RequestsSound
<1>2. q.next \in Nat /\ (q.next = 0 \/ Begins(q.next)) /\ q.ans \in SUBSET Nat
      /\ (q.next = 0 /\ q.ans # {} => 1 \in q.ans)
      /\ Gapless(q.ans) /\ Ends(q.ans, q.next)
      /\ (q.kind = "earlier" => q.from \in Nat /\ q.from >= 2 /\ Joins(q.ans, q.from))
      /\ q.kind \in {"list", "earlier"}
  BY <1>1 DEF ReqType, RequestSound
<1>3. /\ listed' = IF q.kind = "list" THEN q.ans ELSE listed \union q.ans
      /\ gapped' = (q.kind = "earlier" /\ (gapped \/ q.from # cursor))
      /\ cursor' = q.next /\ req' = [req EXCEPT ![i] = NoReq]
      /\ threads' = threads /\ UNCHANGED versionVars
  BY DEF ListArrives, CursorAfter
<1>4. listed \in SUBSET Nat /\ threads \in 0..MaxThreads /\ MaxThreads \in Nat
  BY ReviewConstants DEF ReviewInv, ReviewTyped
<1> HIDE DEF q
<1>5. listed' \in SUBSET Nat /\ cursor' \in Nat /\ threads' \in 0..MaxThreads /\ threads <= threads'
  <2>1. threads' \in 0..MaxThreads /\ threads <= threads' /\ cursor' \in Nat
    BY <1>2, <1>3, <1>4
  <2>2. listed \union q.ans \in SUBSET Nat
    BY <1>2, <1>4
  <2> QED BY <1>2, <1>3, <2>1, <2>2
<1>6. CursorBegins'
  BY <1>2, <1>3 DEF CursorBegins, Begins
<1>7. OldestReachable'
  <2>1. ASSUME listed' # {}, cursor' = 0 PROVE 1 \in listed'
    <3>1. CASE q.kind = "list"
      BY <1>2, <1>3, <2>1, <3>1
    <3>2. CASE q.kind = "earlier"
      BY <1>2, <1>3, <2>1, <3>2 DEF Joins
    <3> QED BY <1>2, <3>1, <3>2
  <2> QED BY <2>1 DEF OldestReachable
<1>8. PagesMeet'
  <2>1. CASE q.kind = "list"
    BY <1>2, <1>3, <2>1 DEF PagesMeet, Gapless, Ends
  <2>2. CASE q.kind = "earlier"
    <3>1. SUFFICES ASSUME ~gapped' PROVE Gapless(listed') /\ Ends(listed', cursor')
      BY DEF PagesMeet, Gapless, Ends
    <3> DEFINE n == q.from
    <3>2. /\ n \in Nat /\ n >= 2 /\ Gapless(listed) /\ n \in listed /\ \A k \in listed : n <= k
      <4>1. n \in Nat /\ n >= 2 /\ ~gapped /\ cursor = n
        BY <1>2, <1>3, <2>2, <3>1
      <4>2. ~gapped => Gapless(listed) /\ (cursor # 0 => cursor \in listed /\ \A k \in listed : cursor <= k)
        BY DEF ReviewInv, PagesMeet, Gapless
      <4> HIDE DEF n
      <4> QED BY <4>1, <4>2
    <3>3. n - 1 \in q.ans /\ (\A k \in q.ans : k < n) /\ Gapless(q.ans) /\ Ends(q.ans, q.next)
      BY <1>2, <2>2 DEF Joins
    <3>4. listed' = listed \union q.ans /\ cursor' = q.next
      BY <1>3, <2>2
    <3> HIDE DEF n
    <3>5. ASSUME NEW j \in listed', NEW k \in listed', NEW m \in j..k PROVE m \in listed'
      <4>1. m \in Nat /\ j \in Nat /\ k \in Nat /\ j <= m /\ m <= k
        BY <1>5
      <4>2. CASE m >= n
        <5>1. k \in listed /\ m \in n..k
          BY <3>2, <3>3, <3>4, <4>1, <4>2
        <5> QED BY <3>2, <3>4, <5>1 DEF Gapless
      <4>3. CASE m < n
        <5>1. j \in q.ans /\ m \in j..(n - 1)
          BY <3>2, <3>3, <3>4, <4>1, <4>3
        <5> QED BY <3>3, <3>4, <5>1 DEF Gapless
      <4> QED BY <3>2, <4>1, <4>2, <4>3
    <3>6. Ends(listed', cursor')
      <4>1. \A k \in listed, a \in q.ans : a <= k
        BY <1>2, <1>4, <3>2, <3>3
      <4> QED BY <3>3, <3>4, <4>1 DEF Ends
    <3> QED BY <3>5, <3>6 DEF Gapless
  <2> QED BY <1>2, <2>1, <2>2
<1> QED BY <1>3, <1>5, <1>6, <1>7, <1>8, IdleSound, ThreadsKept

LEMMA FailsKept ==
  ASSUME ReviewInv, NEW i \in 1..MaxRequests, ListFails(i)
  PROVE ReviewInv'
<1>1. /\ UNCHANGED versionVars /\ UNCHANGED <<listed, cursor, gapped>> /\ req' = [req EXCEPT ![i] = NoReq]
      /\ threads' \in 0..MaxThreads /\ threads <= threads'
  BY ReviewConstants DEF ListFails, ReviewInv, ReviewTyped
<1> QED BY <1>1, IdleSound, DrawerKept

-----------------------------------------------------------------------------
(* The versions. *)

\* What a step of the versions must show.
LEMMA VersionsKept ==
  ASSUME ReviewInv, UNCHANGED threadVars,
         saved' \in Seq(VersionType), saving' \in SaveType, typed' \in Nat, committed' \in Nat,
         SentCommitted', VersionCoversEdits'
  PROVE ReviewInv'
<1>1. UNCHANGED <<threads, listed, cursor, gapped, req>>
  BY DEF threadVars
<1>2. CursorBegins' /\ OldestReachable' /\ PagesMeet'
  BY <1>1 DEF ReviewInv, CursorBegins, Begins, OldestReachable, PagesMeet
<1>3. RequestsSound'
  BY <1>1 DEF ReviewInv, RequestsSound, RequestSound, Begins
<1>4. ReviewTyped'
  BY <1>1 DEF ReviewInv, ReviewTyped
<1> QED BY <1>2, <1>3, <1>4 DEF ReviewInv

\* What a save and its version hold, of the state before.
LEMMA VersionFacts ==
  ASSUME ReviewInv
  PROVE /\ saved \in Seq(VersionType) /\ DOMAIN saved = 1..Len(saved) /\ Len(saved) \in Nat
        /\ Cardinality(DOMAIN saved) = Len(saved)
        /\ \A v \in DOMAIN saved : saved[v] \in VersionType /\ saved[v].text >= saved[v].need
        /\ saving \in SaveType /\ saving.need \in Nat /\ typed \in Nat /\ committed \in Nat
        /\ NoSave \in SaveType /\ NoSave.st = "idle"
<1>1. saved \in Seq(VersionType)
  BY DEF ReviewInv, ReviewTyped
<1>2. DOMAIN saved = 1..Len(saved) /\ Len(saved) \in Nat /\ \A v \in DOMAIN saved : saved[v] \in VersionType
  BY <1>1
<1>3. Cardinality(1..Len(saved)) = Len(saved)
  <2>1. Cardinality(1..Len(saved)) = IF 1 > Len(saved) THEN 0 ELSE Len(saved) - 1 + 1
    BY <1>2, FS_Interval
  <2> QED BY <1>2, <2>1
<1>4. \A v \in DOMAIN saved : saved[v].text >= saved[v].need
  BY DEF ReviewInv, VersionCoversEdits
<1>5. saving \in SaveType /\ typed \in Nat /\ committed \in Nat
  BY DEF ReviewInv, ReviewTyped
<1>6. saving.need \in Nat /\ NoSave \in SaveType /\ NoSave.st = "idle"
  BY <1>5 DEF SaveType, NoSave
<1> QED BY <1>1, <1>2, <1>3, <1>4, <1>5, <1>6

\* Neither the versions nor the save change.
LEMMA ViewKept ==
  ASSUME ReviewInv, UNCHANGED threadVars, UNCHANGED <<saved, saving>>,
         typed' \in Nat, committed' \in Nat, committed <= committed'
  PROVE ReviewInv'
<1>1. saved' \in Seq(VersionType) /\ saving' \in SaveType /\ VersionCoversEdits'
  BY VersionFacts DEF VersionCoversEdits
<1>2. SentCommitted'
  <2>1. saving.st = "sent" => committed >= saving.need
    BY DEF ReviewInv, SentCommitted
  <2>2. saving.need \in Nat /\ committed \in Nat
    BY VersionFacts
  <2> QED BY <2>1, <2>2 DEF SentCommitted
<1> QED BY <1>1, <1>2, VersionsKept

LEMMA ViewsKept ==
  ASSUME ReviewInv,
         \/ \E v \in 0..MaxSaved : SelectVersion(v)
         \/ \E g \in get : VersionArrives(g)
         \/ ListVersions \/ Type \/ Commit \/ RestoreVersion
  PROVE ReviewInv'
<1>0. typed \in Nat /\ committed \in Nat
  BY VersionFacts
<1>1. UNCHANGED threadVars /\ UNCHANGED <<saved, saving>>
  BY DEF SelectVersion, VersionArrives, ListVersions, Type, Commit, RestoreVersion
<1>2. typed' \in {typed, typed + 1} /\ committed' \in {committed, committed + 1}
  <2>1. CASE \E v \in 0..MaxSaved : SelectVersion(v)
    BY <2>1 DEF SelectVersion
  <2>2. CASE \E g \in get : VersionArrives(g)
    BY <2>2 DEF VersionArrives
  <2>3. CASE ListVersions
    BY <2>3 DEF ListVersions
  <2>4. CASE Type \/ Commit \/ RestoreVersion
    BY <2>4 DEF Type, Commit, RestoreVersion
  <2> QED BY <2>1, <2>2, <2>3, <2>4
<1>3. typed' \in Nat /\ committed' \in Nat /\ committed <= committed'
  BY <1>0, <1>2
<1> QED BY <1>1, <1>3, ViewKept

LEMMA SavesKept ==
  ASSUME ReviewInv, SaveVersion \/ SaveSent \/ SaveFails
  PROVE ReviewInv'
<1>1. UNCHANGED threadVars /\ UNCHANGED <<saved, typed, committed>>
  BY DEF SaveVersion, SaveSent, SaveFails
<1>2. saved' \in Seq(VersionType) /\ VersionCoversEdits' /\ typed' \in Nat /\ committed' \in Nat
  BY <1>1, VersionFacts DEF VersionCoversEdits
<1>3. CASE SaveVersion
  <2>1. saving' = [st |-> "waiting", need |-> typed]
    BY <1>3 DEF SaveVersion
  <2>2. saving' \in SaveType /\ saving'.st = "waiting"
    BY <2>1, VersionFacts DEF SaveType
  <2>3. SentCommitted'
    BY <2>2 DEF SentCommitted
  <2> QED BY <1>1, <1>2, <2>2, <2>3, VersionsKept
<1>4. CASE SaveSent
  <2>1. saving' = [saving EXCEPT !.st = "sent"] /\ committed >= saving.need /\ saving \in SaveType
    BY <1>4, VersionFacts DEF SaveSent, EditsCommitted
  <2>2. saving' \in SaveType /\ saving'.need = saving.need
    BY <2>1 DEF SaveType
  <2>3. SentCommitted'
    BY <1>1, <2>1, <2>2 DEF SentCommitted
  <2> QED BY <1>1, <1>2, <2>2, <2>3, VersionsKept
<1>5. CASE SaveFails
  <2>1. saving' = NoSave
    BY <1>5 DEF SaveFails
  <2>2. saving' \in SaveType /\ saving'.st = "idle"
    BY <2>1, VersionFacts
  <2>3. SentCommitted'
    BY <2>2 DEF SentCommitted
  <2> QED BY <1>1, <1>2, <2>2, <2>3, VersionsKept
<1> QED BY <1>3, <1>4, <1>5

LEMMA SavedKept ==
  ASSUME ReviewInv, VersionSaved
  PROVE ReviewInv'
<1> DEFINE n == Len(saved) + 1
           x == [need |-> saving.need, text |-> committed, live |-> TRUE]
<1>1. /\ saved' = [k \in 1..n |-> IF k = n THEN x ELSE saved[k]]
      /\ saving' = NoSave /\ UNCHANGED threadVars /\ UNCHANGED <<typed, committed>> /\ saving.st = "sent"
  BY VersionFacts DEF VersionSaved
<1>2. n \in Nat /\ \A k \in 1..n : k # n => k \in DOMAIN saved
  BY VersionFacts
<1>3. x \in VersionType /\ x.text >= x.need
  BY <1>1, VersionFacts DEF VersionType, ReviewInv, SentCommitted
<1> HIDE DEF n, x
<1>4. \A k \in 1..n : saved'[k] \in VersionType /\ saved'[k].text >= saved'[k].need
  BY <1>1, <1>2, <1>3, VersionFacts
<1>5. DOMAIN saved' = 1..n /\ saved' \in [1..n -> VersionType]
  BY <1>1, <1>4
<1>6. saved' \in Seq(VersionType)
  BY <1>2, <1>5
<1>7. VersionCoversEdits'
  BY <1>4, <1>5 DEF VersionCoversEdits
<1>8. SentCommitted' /\ saving' \in SaveType
  BY <1>1, VersionFacts DEF SentCommitted
<1> QED BY <1>1, <1>6, <1>7, <1>8, VersionFacts, VersionsKept

LEMMA DeletesKept ==
  ASSUME ReviewInv, DeleteSavedVersion
  PROVE ReviewInv'
<1> DEFINE s == list.selected
<1>1. saved' = [saved EXCEPT ![s].live = FALSE] /\ UNCHANGED threadVars /\ UNCHANGED <<typed, committed, saving>>
  BY DEF DeleteSavedVersion
<1> HIDE DEF s
<1>2. DOMAIN saved' = DOMAIN saved
  BY <1>1
<1>3. ASSUME NEW v \in DOMAIN saved
      PROVE saved'[v] \in VersionType /\ saved'[v].text >= saved'[v].need
  <2>1. saved[v] \in VersionType /\ saved[v].text >= saved[v].need
    BY <1>3, VersionFacts
  <2>2. CASE v = s
    <3>1. saved'[v] = [saved[v] EXCEPT !.live = FALSE]
      BY <1>1, <1>3, <2>2
    <3> QED BY <2>1, <3>1 DEF VersionType
  <2>3. CASE v # s
    <3>1. saved'[v] = saved[v]
      BY <1>1, <1>3, <2>3
    <3> QED BY <2>1, <3>1
  <2> QED BY <2>2, <2>3
<1>4. saved' \in [1..Len(saved) -> VersionType]
  BY <1>1, <1>2, <1>3, VersionFacts
<1>5. saved' \in Seq(VersionType)
  BY <1>4, VersionFacts
<1>6. VersionCoversEdits'
  BY <1>2, <1>3 DEF VersionCoversEdits
<1>7. SentCommitted' /\ saving' \in SaveType /\ typed' \in Nat /\ committed' \in Nat
  BY <1>1, VersionFacts DEF ReviewInv, SentCommitted
<1> QED BY <1>1, <1>5, <1>6, <1>7, VersionsKept

\* For any threads, page size and requests: when the drawer offers no earlier threads the
\* oldest one is in it, what it shows has no gap and the next page begins where it ends as
\* long as no page was appended that a refresh had overtaken, and a saved version holds
\* every edit made before it was asked for (AppOverlays.tsx, the comments and versions).
THEOREM ReviewStaysExact == ReviewSpec => []ReviewExact
<1>1. ASSUME ReviewInv, [ReviewNext]_reviewVars PROVE ReviewInv'
  <2>1. CASE AddComment \/ ChangeThread \/ PeerComments
    BY <1>1, <2>1, CommentsKept
  <2>2. CASE LoadEarlier
    BY <1>1, <2>2, EarlierKept
  <2>3. CASE \E i \in 1..MaxRequests : ServerLists(i) \/ ListArrives(i) \/ ListFails(i)
    BY <1>1, <2>3, ListsKept, ArrivesKept, FailsKept
  <2>4. CASE \/ \E v \in 0..MaxSaved : SelectVersion(v)
             \/ \E g \in get : VersionArrives(g)
             \/ ListVersions \/ Type \/ Commit \/ RestoreVersion
    BY <1>1, <2>4, ViewsKept
  <2>5. CASE SaveVersion \/ SaveSent \/ SaveFails
    BY <1>1, <2>5, SavesKept
  <2>6. CASE VersionSaved
    BY <1>1, <2>6, SavedKept
  <2>7. CASE DeleteSavedVersion
    BY <1>1, <2>7, DeletesKept
  <2>8. CASE UNCHANGED reviewVars
    <3>1. UNCHANGED threadVars /\ UNCHANGED <<saved, saving, typed, committed>>
      BY <2>8 DEF reviewVars, threadVars
    <3>2. typed' \in Nat /\ committed' \in Nat /\ committed <= committed'
      BY <1>1, <3>1, VersionFacts
    <3> QED BY <1>1, <3>1, <3>2, ViewKept
  <2> QED BY <1>1, <2>1, <2>2, <2>3, <2>4, <2>5, <2>6, <2>7, <2>8 DEF ReviewNext
<1>2. ReviewInv => ReviewExact
  BY DEF ReviewInv, ReviewExact
<1> QED BY <1>1, <1>2, ReviewInitInv, PTL DEF ReviewSpec

-----------------------------------------------------------------------------
(***************************************************************************)
(* The preview: a request is in flight and leads, with what is queued      *)
(* behind it, to the source, or nothing is and the source is shown.  A     *)
(* patch is right because the generation it names is the worker's only     *)
(* when the worker still has the text it applies to.                       *)
(***************************************************************************)

Texts == [Blocks -> 0..Versions]
Ops == [Blocks -> 0..Versions \union {Same}]
Places == Nat \X Nat
Sizes == {Chars(t) : t \in Texts} \union {0}
EditType == [ops : Ops, base : Sizes, chars : Sizes]
MsgType ==
  [type : {"none", "reset", "render", "patch"}, seq : Nat, text : Ops, gen : Nat,
   base : Sizes, chars : Sizes]

\* A page and a worker, whatever HTML they hold.
PageShaped(p) ==
  p \in [source : Texts, full : SUBSET Texts, edits : SUBSET EditType,
         seq : Nat, flight : Nat, known : Nat, nodes : {p.nodes},
         rest : SUBSET Places, html : {p.html}, fails : {p.fails}, terminal : BOOLEAN]
WorkerShaped(v) ==
  v \in [gen : Nat, text : Texts, env : {v.env}, held : {v.held}, loaded : {v.loaded},
         stuck : {v.stuck}, busy : MsgType, of : Nat]

\* One text and one patch are queued at most.
QueuedOnce(p) ==
  /\ \A x, y \in p.full : x = y
  /\ \A x, y \in p.edits : x = y

PreviewTyped ==
  /\ PageShaped(page) /\ QueuedOnce(page) /\ WorkerShaped(worker)
  /\ inbox \in Seq(MsgType) /\ gens \in Nat /\ worker.gen <= gens

\* What is queued leads from the text in flight, T, to the source.
Leads(p, T) ==
  /\ p.full = {} =>
       /\ p.edits = {} => p.source = T
       /\ \A e \in p.edits : p.source = Apply(T, e.ops)
  /\ \A f \in p.full :
       /\ p.edits = {} => p.source = f
       /\ \A e \in p.edits : p.source = Apply(f, e.ops)

\* Only resets are left for the worker, and a text is queued to follow them.
OnlyResets ==
  /\ \A j \in 1..Len(inbox) : inbox[j].type = "reset"
  /\ inbox # <<>> => page.full # {}

\* The request for T is on its way to the worker, which has the text that a patch
\* applies to if it is the one the patch is for.
PostedAt(T, i) ==
  /\ inbox[i].seq = page.flight
  /\ \/ inbox[i].type = "render" /\ inbox[i].text = T
     \/ /\ inbox[i].type = "patch" /\ i = 1
        /\ inbox[i].gen = worker.gen => Apply(worker.text, inbox[i].text) = T
  /\ \A j \in 1..Len(inbox) : j # i => inbox[j].type = "reset"
  /\ i < Len(inbox) => page.full # {}

Posted(T) ==
  /\ out = <<>> /\ worker.busy = NoMsg
  /\ \E i \in 1..Len(inbox) : PostedAt(T, i)

\* The worker has it in hand.
InHand(T) ==
  /\ out = <<>> /\ OnlyResets
  /\ worker.busy.type \in {"render", "patch"}
  /\ worker.busy.seq = page.flight /\ worker.busy.text = T

\* The answer is on its way to the page.
Answers(r, T) ==
  /\ r.seq = page.flight /\ r.gen \in Nat
  /\ \/ r.type = "resync"
     \/ /\ r.type = "rendered" /\ r.keys \in {Keys(T), {ErrorKey}}
        /\ page.full = {} /\ r.gen = worker.gen => worker.text = T

Replied(T) ==
  /\ worker.busy = NoMsg /\ OnlyResets
  /\ out = <<out[1]>> /\ Answers(out[1], T)

Underway == \E T \in Texts : Leads(page, T) /\ (Posted(T) \/ InHand(T) \/ Replied(T))

Quiet == inbox = <<>> /\ out = <<>> /\ worker.busy = NoMsg

\* Nothing is in flight and the preview shows the source, or will when it is idle.
Settled ==
  /\ Quiet /\ page.full = {} /\ page.edits = {}
  /\ DOMAIN page.nodes \union page.rest \in {Keys(page.source), {ErrorKey}}
  /\ page.known = worker.gen => worker.text = page.source

RequestKnown ==
  CASE page.terminal -> Quiet
    [] ~page.terminal /\ page.flight = 0 -> Settled
    [] OTHER -> Underway

PreviewInv == PreviewTyped /\ RequestKnown

LEMMA PreviewConstants ==
  /\ LastBlock \in Nat \ {0} /\ Versions \in Nat \ {0} /\ Blocks \subseteq Nat
  /\ 0 \in 0..Versions /\ 1 \in 0..Versions /\ Same \notin 0..Versions
BY PreviewAssumption DEF Blocks, Same

\* A patch gives a text; one that changes nothing gives the text it applies to,
\* and a later edit of the patch is an edit of what it gives.
LEMMA PatchGives ==
  ASSUME NEW t \in Texts, NEW o \in Ops
  PROVE /\ Apply(t, o) \in Texts
        /\ Apply(t, [d \in Blocks |-> Same]) = t
        /\ \A b \in Blocks, v \in 0..Versions :
             Apply(t, [o EXCEPT ![b] = v]) = [Apply(t, o) EXCEPT ![b] = v]
<1>1. Apply(t, o) \in Texts
  BY PreviewConstants DEF Apply, Texts, Ops
<1>2. Apply(t, [d \in Blocks |-> Same]) = t
  BY DEF Apply, Texts
<1>3. ASSUME NEW b \in Blocks, NEW v \in 0..Versions
      PROVE Apply(t, [o EXCEPT ![b] = v]) = [Apply(t, o) EXCEPT ![b] = v]
  <2>1. \A d \in Blocks : [o EXCEPT ![b] = v][d] = IF d = b THEN v ELSE o[d]
    BY DEF Ops
  <2>2. \A d \in Blocks : Apply(t, [o EXCEPT ![b] = v])[d] = IF d = b THEN v ELSE Apply(t, o)[d]
    BY <2>1, PreviewConstants DEF Apply
  <2>3. DOMAIN Apply(t, o) = Blocks /\ DOMAIN Apply(t, [o EXCEPT ![b] = v]) = Blocks
    BY DEF Apply
  <2>4. Apply(t, [o EXCEPT ![b] = v]) = [d \in Blocks |-> Apply(t, [o EXCEPT ![b] = v])[d]]
    BY DEF Apply
  <2>5. [Apply(t, o) EXCEPT ![b] = v] = [d \in Blocks |-> IF d = b THEN v ELSE Apply(t, o)[d]]
    BY <2>3
  <2> QED BY <2>2, <2>4, <2>5
<1> QED BY <1>1, <1>2, <1>3

LEMMA TextFacts ==
  ASSUME NEW t \in Texts
  PROVE /\ Keys(t) \subseteq Places /\ Chars(t) \in Sizes /\ t \in Ops
        /\ \A b \in Blocks, v \in 0..Versions : [t EXCEPT ![b] = v] \in Texts
BY PreviewConstants DEF Keys, Places, Sizes, Texts, Ops

LEMMA FixedTexts ==
  /\ Empty \in Texts /\ [b \in Blocks |-> 1] \in Texts /\ [d \in Blocks |-> Same] \in Ops
  /\ NoMsg \in MsgType /\ NoMsg.type = "none" /\ ResetMsg \in MsgType /\ ResetMsg.type = "reset"
  /\ ErrorKey \in Places
<1>1. Empty \in Texts /\ Empty \in Ops /\ [b \in Blocks |-> 1] \in Texts /\ [d \in Blocks |-> Same] \in Ops
  BY PreviewConstants DEF Empty, Texts, Ops
<1>2. NoMsg \in MsgType /\ NoMsg.type = "none"
  BY <1>1 DEF NoMsg, MsgType, Sizes
<1>3. ResetMsg \in MsgType /\ ResetMsg.type = "reset"
  BY <1>2 DEF ResetMsg, MsgType
<1> QED BY <1>1, <1>2, <1>3 DEF ErrorKey, Places

\* A set of numbers has a least one: count its lower bounds.
LEMMA LeastNumber ==
  ASSUME NEW P \in SUBSET Nat, P # {}
  PROVE \E k \in P : \A x \in P : k <= x
<1>1. PICK n \in P : TRUE
  OBVIOUS
<1> DEFINE U == {u \in 0..n : \A x \in P : u <= x}
           m == Cardinality(U)
<1>2. n \in Nat /\ 0 \in U /\ \A u \in U : u \in Nat /\ u <= n
  BY <1>1
<1>3. \A u \in U : \A j \in Nat : j <= u => j \in U
  BY <1>2
<1>4. \A x \in P, u \in U : x \in Nat /\ u <= x
  OBVIOUS
<1>5. \A u \in 0..n : (\A x \in P : u <= x) => u \in U
  OBVIOUS
<1>6. \A j \in Nat : IsFiniteSet(0..j) /\ Cardinality(0..j) = j + 1
  <2> TAKE j \in Nat
  <2>1. IsFiniteSet(0..j) /\ Cardinality(0..j) = IF 0 > j THEN 0 ELSE j - 0 + 1
    BY FS_Interval
  <2> QED BY <2>1
<1>7. IsFiniteSet(U) /\ m \in Nat
  <2>1. U \subseteq 0..n
    OBVIOUS
  <2>2. IsFiniteSet(U)
    BY <1>2, <1>6, <2>1, FS_Subset
  <2> QED BY <2>2, FS_CardinalityType
<1> HIDE DEF U
<1>8. m # 0
  BY <1>2, <1>7, FS_EmptySet
<1>9. m - 1 \in U
  <2> SUFFICES ASSUME m - 1 \notin U PROVE FALSE
    OBVIOUS
  <2>1. \A u \in U : u < m - 1
    BY <1>2, <1>3, <1>7, <1>8
  <2>2. m - 2 \in Nat
    BY <1>2, <1>7, <1>8, <2>1
  <2>3. U \subseteq 0..(m - 2)
    BY <1>2, <1>7, <2>1, <2>2
  <2>4. Cardinality(U) <= Cardinality(0..(m - 2)) /\ Cardinality(0..(m - 2)) = m - 2 + 1
    BY <1>6, <2>2, <2>3, FS_Subset
  <2> QED BY <1>7, <2>4
<1>10. m - 1 \in P
  <2> SUFFICES ASSUME m - 1 \notin P PROVE FALSE
    OBVIOUS
  <2>1. \A x \in P : m <= x
    BY <1>4, <1>7, <1>9
  <2>2. m \in U
    BY <1>1, <1>2, <1>5, <1>7, <2>1
  <2>3. 0..m \subseteq U
    BY <1>3, <1>7, <2>2
  <2>4. Cardinality(0..m) <= Cardinality(U)
    BY <1>7, <2>3, FS_Subset
  <2>5. Cardinality(0..m) = m + 1
    BY <1>6, <1>7
  <2> QED BY <1>7, <2>4, <2>5
<1> QED BY <1>4, <1>9, <1>10

LEMMA FirstPlace ==
  ASSUME NEW S \in SUBSET Places, S # {}
  PROVE \E k \in S : Rank(S, k) = 0
<1> DEFINE P == {x[1] : x \in S}
<1>1. P \in SUBSET Nat /\ P # {}
  BY DEF Places
<1>2. PICK n \in P : \A x \in P : n <= x
  BY <1>1, LeastNumber
<1>3. PICK k \in S : k[1] = n
  OBVIOUS
<1>4. {x \in S : x[1] < k[1]} = {}
  <2>1. ASSUME NEW x \in S PROVE ~(x[1] < k[1])
    <3>1. x[1] \in P
      OBVIOUS
    <3> HIDE DEF P
    <3>2. n <= x[1] /\ n \in Nat /\ x[1] \in Nat
      BY <1>1, <1>2, <3>1
    <3> QED BY <1>3, <3>2
  <2> QED BY <2>1
<1> QED BY <1>4, FS_EmptySet DEF Rank

-----------------------------------------------------------------------------
(* The queue. *)

LEMMA PumpWaits ==
  ASSUME NEW p, p.flight # 0 \/ p.terminal \/ (p.full = {} /\ p.edits = {})
  PROVE Pump(p).page = p /\ Pump(p).sent = <<>>
BY DEF Pump

\* What pump() sends leads to the source, from the text that was in flight.
Sends(p, T, m) ==
  /\ Pump(p).sent = <<m>>
  /\ PageShaped(Pump(p).page) /\ QueuedOnce(Pump(p).page)
  /\ Pump(p).page.source = p.source /\ ~Pump(p).page.terminal
  /\ Pump(p).page.flight # 0 /\ m.seq = Pump(p).page.flight /\ Pump(p).page.full = {}
  /\ \/ m.type = "render" /\ m.text \in Texts /\ Leads(Pump(p).page, m.text)
     \/ /\ m.type = "patch" /\ p.full = {} /\ p.known # 0 /\ m.gen = p.known
        /\ Apply(T, m.text) = p.source /\ Pump(p).page.edits = {}

LEMMA PumpSends ==
  ASSUME NEW p, PageShaped(p), QueuedOnce(p), p.flight = 0, ~p.terminal, p.full # {} \/ p.edits # {},
         NEW T \in Texts, Leads(p, T)
  PROVE \E m \in MsgType : Sends(p, T, m)
<1> DEFINE n == p.seq + 1
<1>0. n \in Nat /\ n # 0 /\ p.source \in Texts /\ p.full \subseteq Texts /\ p.edits \subseteq EditType /\ p.known \in Nat
  BY DEF PageShaped
<1> HIDE DEF n
<1>1. CASE p.edits # {} /\ p.known = 0
  <2> DEFINE q == [p EXCEPT !.edits = {}, !.full = {p.source}]
             P == [q EXCEPT !.seq = n, !.flight = n, !.full = {}]
             m == [NoMsg EXCEPT !.type = "render", !.seq = n, !.text = CHOOSE t \in q.full : TRUE]
  <2>1. /\ q \in [source : Texts, full : SUBSET Texts, edits : SUBSET EditType,
                  seq : Nat, flight : Nat, known : Nat, nodes : {q.nodes},
                  rest : SUBSET Places, html : {q.html}, fails : {q.fails}, terminal : BOOLEAN]
        /\ q.full = {p.source} /\ q.edits = {} /\ q.source = p.source /\ q.terminal = p.terminal /\ q.seq = p.seq
    BY <1>0 DEF PageShaped
  <2>2. Pump(p).page = P /\ Pump(p).sent = <<m>>
    BY <1>1, <2>1 DEF Pump, n
  <2> HIDE DEF q
  <2>3. /\ PageShaped(P) /\ P.full = {} /\ P.edits = {} /\ P.source = p.source /\ P.terminal = p.terminal
        /\ P.flight = n
    BY <1>0, <2>1 DEF PageShaped
  <2>4. (CHOOSE t \in q.full : TRUE) = p.source
    BY <2>1
  <2>5. m \in MsgType /\ m.type = "render" /\ m.seq = n /\ m.text = p.source
    BY <1>0, <2>4, FixedTexts, TextFacts DEF MsgType
  <2> HIDE DEF P, m
  <2>6. QueuedOnce(P) /\ Leads(P, p.source)
    BY <2>3 DEF QueuedOnce, Leads
  <2> QED BY <1>0, <2>2, <2>3, <2>5, <2>6 DEF Sends
<1>2. CASE ~(p.edits # {} /\ p.known = 0) /\ p.full # {}
  <2> DEFINE P == [p EXCEPT !.seq = n, !.flight = n, !.full = {}]
             t == CHOOSE t \in p.full : TRUE
             m == [NoMsg EXCEPT !.type = "render", !.seq = n, !.text = t]
  <2>1. Pump(p).page = P /\ Pump(p).sent = <<m>>
    BY <1>2 DEF Pump, n
  <2>2. t \in p.full /\ t \in Texts
    BY <1>0, <1>2
  <2> HIDE DEF t
  <2>3. /\ PageShaped(P) /\ P.full = {} /\ P.edits = p.edits /\ P.source = p.source /\ P.terminal = p.terminal
        /\ P.flight = n
    BY <1>0 DEF PageShaped
  <2>4. m \in MsgType /\ m.type = "render" /\ m.seq = n /\ m.text = t
    BY <1>0, <2>2, FixedTexts, TextFacts DEF MsgType
  <2> HIDE DEF P, m
  <2>5. QueuedOnce(P) /\ Leads(P, t)
    BY <2>2, <2>3 DEF QueuedOnce, Leads
  <2> QED BY <1>0, <2>1, <2>2, <2>3, <2>4, <2>5 DEF Sends
<1>3. CASE p.full = {} /\ p.edits # {} /\ p.known # 0
  <2> DEFINE P == [p EXCEPT !.seq = n, !.flight = n, !.edits = {}]
             e == CHOOSE x \in p.edits : TRUE
             m == [type |-> "patch", seq |-> n, text |-> e.ops, gen |-> p.known, base |-> e.base, chars |-> e.chars]
  <2>1. Pump(p).page = P /\ Pump(p).sent = <<m>>
    BY <1>3 DEF Pump, n
  <2>2. e \in p.edits /\ e \in EditType
    BY <1>0, <1>3
  <2> HIDE DEF e
  <2>3. /\ PageShaped(P) /\ P.full = {} /\ P.edits = {} /\ P.source = p.source /\ P.terminal = p.terminal
        /\ P.flight = n
    BY <1>0, <1>3 DEF PageShaped
  <2>4. m \in MsgType /\ m.type = "patch" /\ m.seq = n /\ m.text = e.ops /\ m.gen = p.known
    BY <1>0, <2>2 DEF MsgType, EditType
  <2> HIDE DEF P, m
  <2>5. QueuedOnce(P) /\ Apply(T, e.ops) = p.source
    BY <1>3, <2>2, <2>3 DEF QueuedOnce, Leads
  <2> QED BY <1>0, <1>3, <2>1, <2>3, <2>4, <2>5 DEF Sends
<1> QED BY <1>1, <1>2, <1>3

-----------------------------------------------------------------------------
(* One pump of the page: what is sent and what it leaves. *)

LEMMA QueueFacts ==
  ASSUME PreviewInv
  PROVE /\ PageShaped(page) /\ QueuedOnce(page) /\ page.source \in Texts /\ page.full \subseteq Texts
        /\ page.edits \subseteq EditType /\ page.seq \in Nat /\ page.flight \in Nat /\ page.known \in Nat
        /\ page.rest \subseteq Places /\ page.terminal \in BOOLEAN
        /\ WorkerShaped(worker) /\ worker.gen \in Nat /\ worker.text \in Texts /\ worker.busy \in MsgType
        /\ worker.of \in Nat
        /\ inbox \in Seq(MsgType) /\ gens \in Nat /\ worker.gen <= gens
        /\ page.terminal => Quiet
        /\ ~page.terminal /\ page.flight = 0 => Settled
        /\ ~page.terminal /\ page.flight # 0 => Underway
BY DEF PreviewInv, PreviewTyped, PageShaped, WorkerShaped, RequestKnown

\* The worker and the page have nothing for each other but the resets in before.
LEMMA PumpPosts ==
  ASSUME NEW p, PageShaped(p), QueuedOnce(p), p.flight = 0, ~p.terminal, p.full # {} \/ p.edits # {},
         NEW T \in Texts, Leads(p, T),
         NEW before \in Seq(MsgType), \A j \in 1..Len(before) : before[j].type = "reset",
         p.full = {} /\ p.known # 0 => before = <<>> /\ (p.known = worker.gen => worker.text = T),
         Pumping(p, before), out' = <<>>, worker'.busy = NoMsg,
         p.full = {} /\ p.known # 0 => worker' = worker
  PROVE PageShaped(page)' /\ QueuedOnce(page)' /\ inbox' \in Seq(MsgType) /\ RequestKnown'
<1>1. PICK m \in MsgType : Sends(p, T, m)
  BY PumpSends
<1>2. page' = Pump(p).page /\ inbox' = before \o <<m>>
  BY <1>1 DEF Pumping, Sends
<1> DEFINE n == Len(before) + 1
<1>3. n \in Nat /\ inbox' = Append(before, m) /\ inbox' \in Seq(MsgType) /\ Len(inbox') = n /\ inbox'[n] = m
  BY <1>2
<1>4. \A j \in 1..n : j # n => inbox'[j].type = "reset"
  BY <1>3
<1>5. PageShaped(page)' /\ QueuedOnce(page)' /\ ~page'.terminal /\ page'.flight # 0 /\ page'.full = {}
      /\ page'.source = p.source /\ m.seq = page'.flight
  BY <1>1, <1>2 DEF Sends, PageShaped, QueuedOnce
<1>6. n \in 1..n
  BY <1>3
<1>7. CASE m.type = "render"
  <2>1. m.text \in Texts /\ Leads(page', m.text)
    BY <1>1, <1>2, <1>7 DEF Sends
  <2>2. PostedAt(m.text, n)'
    BY <1>3, <1>4, <1>5, <1>7 DEF PostedAt
  <2>3. Posted(m.text)'
    BY <1>3, <1>6, <2>2 DEF Posted
  <2>4. Underway'
    BY <2>1, <2>3 DEF Underway, Leads
  <2> QED BY <1>3, <1>5, <2>4 DEF RequestKnown
<1>8. CASE m.type = "patch"
  <2>1. p.full = {} /\ p.known # 0 /\ m.gen = p.known /\ Apply(T, m.text) = p.source /\ page'.edits = {}
    BY <1>1, <1>2, <1>8 DEF Sends
  <2>2. before = <<>> /\ n = 1 /\ worker' = worker /\ (m.gen = worker.gen => worker.text = T)
    BY <2>1
  <2>3. PostedAt(p.source, n)'
    BY <1>3, <1>4, <1>5, <1>8, <2>1, <2>2 DEF PostedAt
  <2>4. Posted(p.source)'
    BY <1>3, <1>6, <2>3 DEF Posted
  <2>5. p.source \in Texts /\ Leads(page', p.source)
    BY <1>5, <2>1 DEF PageShaped, Leads
  <2>6. Underway'
    BY <2>4, <2>5 DEF Underway, Leads
  <2> QED BY <1>3, <1>5, <2>6 DEF RequestKnown
<1> QED BY <1>1, <1>3, <1>5, <1>7, <1>8 DEF Sends

\* The request in flight stays where it is while the page only queues.
LEMMA FlightKept ==
  ASSUME PreviewInv, NEW T \in Texts, Posted(T) \/ InHand(T) \/ Replied(T),
         page'.flight = page.flight, UNCHANGED <<worker, out>>,
         \/ inbox' = inbox /\ page'.full = page.full
         \/ inbox' = Append(inbox, ResetMsg) /\ page'.full # {}
  PROVE (Posted(T) \/ InHand(T) \/ Replied(T))'
<1>1. inbox \in Seq(MsgType) /\ ResetMsg \in MsgType /\ ResetMsg.type = "reset"
  BY QueueFacts, FixedTexts
<1>2. /\ Len(inbox') >= Len(inbox) /\ \A j \in 1..Len(inbox) : inbox'[j] = inbox[j]
      /\ \A j \in 1..Len(inbox') : j \notin 1..Len(inbox) => inbox'[j].type = "reset"
      /\ Len(inbox') \in Nat /\ Len(inbox) \in Nat
  BY <1>1
<1>3. Len(inbox') > Len(inbox) => page'.full # {}
  BY <1>1
<1>4. page'.full = {} => page.full = {} /\ inbox' = inbox
  OBVIOUS
<1>5. OnlyResets => OnlyResets'
  <2> SUFFICES ASSUME OnlyResets PROVE OnlyResets'
    OBVIOUS
  <2>1. \A j \in 1..Len(inbox') : inbox'[j].type = "reset"
    BY <1>2 DEF OnlyResets
  <2>2. inbox' # <<>> => page'.full # {}
    BY <1>4 DEF OnlyResets
  <2> QED BY <2>1, <2>2 DEF OnlyResets
<1>6. CASE Posted(T)
  <2>1. PICK i \in 1..Len(inbox) : PostedAt(T, i)
    BY <1>6 DEF Posted
  <2>2. i \in 1..Len(inbox') /\ inbox'[i] = inbox[i]
    BY <1>2
  <2>3. PostedAt(T, i)'
    <3>1. \A j \in 1..Len(inbox') : j # i => inbox'[j].type = "reset"
      BY <1>2, <2>1 DEF PostedAt
    <3>2. i < Len(inbox') => page'.full # {}
      BY <1>2, <1>3, <1>4, <2>1 DEF PostedAt
    <3> QED BY <2>1, <2>2, <3>1, <3>2 DEF PostedAt
  <2> QED BY <1>6, <2>2, <2>3 DEF Posted
<1>7. CASE InHand(T)
  BY <1>5, <1>7 DEF InHand
<1>8. CASE Replied(T)
  <2>1. Answers(out[1], T)'
    BY <1>4, <1>8 DEF Replied, Answers
  <2> QED BY <1>5, <1>8, <2>1 DEF Replied
<1> QED BY <1>6, <1>7, <1>8

LEMMA UpdatedFacts ==
  ASSUME PreviewInv, NEW b \in Blocks, NEW v \in 0..Versions
  PROVE /\ PageShaped(Updated(b, v)) /\ QueuedOnce(Updated(b, v)) /\ Updated(b, v).edits # {}
        /\ Updated(b, v).flight = page.flight /\ Updated(b, v).known = page.known
        /\ Updated(b, v).full = page.full /\ Updated(b, v).terminal = page.terminal
        /\ \A T \in Texts : Leads(page, T) => Leads(Updated(b, v), T)
<1> DEFINE next == [page.source EXCEPT ![b] = v]
           old == IF page.edits = {} THEN [ops |-> [d \in Blocks |-> Same], base |-> Chars(page.source), chars |-> 0]
                  ELSE CHOOSE x \in page.edits : TRUE
           new == [old EXCEPT !.ops[b] = v, !.chars = Chars(next)]
           U == [page EXCEPT !.source = next, !.edits = {new}]
<1>1. Updated(b, v) = U
  BY DEF Updated
<1>2. next \in Texts /\ Chars(next) \in Sizes
  BY QueueFacts, TextFacts
<1>3. old \in EditType /\ (page.edits # {} => old \in page.edits)
  <2>1. CASE page.edits = {}
    <3>1. Chars(page.source) \in Sizes /\ 0 \in Sizes /\ [d \in Blocks |-> Same] \in Ops
      BY QueueFacts, TextFacts, FixedTexts DEF Sizes
    <3> QED BY <2>1, <3>1 DEF EditType
  <2>2. CASE page.edits # {}
    BY <2>2, QueueFacts
  <2> QED BY <2>1, <2>2
<1>4. page.edits = {} => old.ops = [d \in Blocks |-> Same]
  OBVIOUS
<1> HIDE DEF old
<1>5. new \in EditType /\ new.ops = [old.ops EXCEPT ![b] = v]
  <2>1. old.ops \in Ops /\ [old.ops EXCEPT ![b] = v] \in Ops
    BY <1>3 DEF EditType, Ops
  <2> DEFINE mid == [old EXCEPT !.ops[b] = v]
  <2>2. mid \in EditType /\ mid.ops = [old.ops EXCEPT ![b] = v]
    BY <1>3, <2>1 DEF EditType
  <2> HIDE DEF mid, next
  <2>3. [mid EXCEPT !.chars = Chars(next)] \in EditType /\ [mid EXCEPT !.chars = Chars(next)].ops = mid.ops
    BY <1>2, <2>2 DEF EditType
  <2>4. new = [mid EXCEPT !.chars = Chars(next)]
    BY DEF mid
  <2> QED BY <2>2, <2>3, <2>4
<1>6. \A X \in Texts : (IF page.edits = {} THEN page.source = X ELSE \A e \in page.edits : page.source = Apply(X, e.ops))
         => next = Apply(X, new.ops)
  <2> TAKE X \in Texts
  <2> SUFFICES ASSUME IF page.edits = {} THEN page.source = X ELSE \A e \in page.edits : page.source = Apply(X, e.ops)
               PROVE next = Apply(X, new.ops)
    OBVIOUS
  <2>1. old.ops \in Ops
    BY <1>3 DEF EditType
  <2>2. page.source = Apply(X, old.ops)
    <3>1. CASE page.edits = {}
      BY <1>4, <2>1, <3>1, PatchGives
    <3>2. CASE page.edits # {}
      BY <1>3, <3>2
    <3> QED BY <3>1, <3>2
  <2>3. Apply(X, [old.ops EXCEPT ![b] = v]) = [Apply(X, old.ops) EXCEPT ![b] = v]
    BY <2>1, PatchGives
  <2> QED BY <1>5, <2>2, <2>3
<1> HIDE DEF new, next
<1>7. /\ PageShaped(U) /\ U.edits = {new} /\ U.source = next /\ U.full = page.full /\ U.flight = page.flight
      /\ U.known = page.known /\ U.terminal = page.terminal
  <2>1. PageShaped(page)
    BY QueueFacts
  <2> QED BY <1>2, <1>5, <2>1 DEF PageShaped
<1> HIDE DEF U
<1>8. QueuedOnce(U)
  <2>1. QueuedOnce(page)
    BY QueueFacts
  <2> QED BY <1>7, <2>1 DEF QueuedOnce
<1>9. ASSUME NEW T \in Texts, Leads(page, T) PROVE Leads(U, T)
  <2>1. page.full = {} => U.source = Apply(T, new.ops)
    BY <1>6, <1>7, <1>9 DEF Leads
  <2>2. \A f \in page.full : U.source = Apply(f, new.ops)
    BY <1>6, <1>7, <1>9, QueueFacts DEF Leads
  <2> QED BY <1>7, <2>1, <2>2 DEF Leads
<1> QED BY <1>1, <1>7, <1>8, <1>9

\* Settled: the source leads to itself.
LEMMA SettledLeads ==
  ASSUME PreviewInv, Settled PROVE Leads(page, page.source) /\ page.source \in Texts /\ inbox = <<>>
BY QueueFacts DEF Settled, Quiet, Leads

LEMMA UpdateKept ==
  ASSUME PreviewInv, ~page.terminal, NEW b \in Blocks, NEW v \in 0..Versions,
         Pumping(Updated(b, v), inbox), UNCHANGED <<worker, out, gens>>
  PROVE PreviewInv'
<1> DEFINE p == Updated(b, v)
<1>0. WorkerShaped(worker)' /\ gens' \in Nat /\ worker'.gen <= gens'
  BY QueueFacts DEF WorkerShaped
<1>1. CASE page.flight = 0
  <2>1. Settled
    BY <1>1, QueueFacts
  <2>2. Leads(page, page.source) /\ page.source \in Texts /\ inbox = <<>>
    BY <2>1, SettledLeads
  <2>3. p.flight = 0 /\ ~p.terminal /\ p.edits # {} /\ PageShaped(p) /\ QueuedOnce(p) /\ Leads(p, page.source)
    BY <1>1, <2>2, UpdatedFacts
  <2>4. p.known = page.known /\ (page.known = worker.gen => worker.text = page.source) /\ worker.busy = NoMsg /\ out = <<>>
    BY <2>1, UpdatedFacts DEF Settled, Quiet
  <2>5. inbox \in Seq(MsgType) /\ \A j \in 1..Len(inbox) : inbox[j].type = "reset"
    BY <2>2
  <2> HIDE DEF p
  <2>6. Pumping(p, inbox)
    BY DEF p
  <2>7. PageShaped(page)' /\ QueuedOnce(page)' /\ inbox' \in Seq(MsgType) /\ RequestKnown'
    BY <2>2, <2>3, <2>4, <2>5, <2>6, PumpPosts
  <2> QED BY <1>0, <2>7 DEF PreviewInv, PreviewTyped
<1>2. CASE page.flight # 0
  <2>1. PICK T \in Texts : Leads(page, T) /\ (Posted(T) \/ InHand(T) \/ Replied(T))
    BY <1>2, QueueFacts DEF Underway
  <2>2. page' = p /\ inbox' = inbox
    <3>1. p.flight # 0
      BY <1>2, UpdatedFacts
    <3>2. Pump(p).page = p /\ Pump(p).sent = <<>>
      BY <3>1, PumpWaits
    <3> QED BY <3>2, QueueFacts DEF Pumping
  <2>3. /\ PageShaped(p) /\ QueuedOnce(p) /\ p.flight = page.flight /\ p.full = page.full
        /\ p.terminal = page.terminal /\ Leads(p, T)
    BY <2>1, UpdatedFacts
  <2> HIDE DEF p
  <2>4. (Posted(T) \/ InHand(T) \/ Replied(T))'
    BY <2>1, <2>2, <2>3, FlightKept
  <2>5. Underway'
    BY <2>2, <2>3, <2>4 DEF Underway, Leads
  <2>6. RequestKnown'
    BY <1>2, <2>2, <2>3, <2>5 DEF RequestKnown
  <2>7. PageShaped(page)' /\ QueuedOnce(page)' /\ inbox' \in Seq(MsgType)
    BY <2>2, <2>3, QueueFacts DEF PageShaped, QueuedOnce
  <2> QED BY <1>0, <2>6, <2>7 DEF PreviewInv, PreviewTyped
<1> QED BY <1>1, <1>2

-----------------------------------------------------------------------------
(* A page and a worker begin again. *)

LEMMA NewFacts ==
  ASSUME NEW t \in Texts, NEW g \in Nat
  PROVE /\ PageShaped(NewPage(t)) /\ QueuedOnce(NewPage(t)) /\ NewPage(t).source = t
        /\ NewPage(t).flight = 0 /\ ~NewPage(t).terminal
        /\ WorkerShaped(NewWorker(g)) /\ NewWorker(g).gen = g /\ NewWorker(g).busy = NoMsg
<1>1. PageShaped(NewPage(t))
  BY DEF NewPage, PageShaped
<1>2. QueuedOnce(NewPage(t)) /\ NewPage(t).source = t /\ NewPage(t).flight = 0 /\ ~NewPage(t).terminal
  BY DEF NewPage, QueuedOnce
<1>3. WorkerShaped(NewWorker(g))
  BY FixedTexts DEF NewWorker, WorkerShaped
<1>4. NewWorker(g).gen = g /\ NewWorker(g).busy = NoMsg
  BY DEF NewWorker
<1> QED BY <1>1, <1>2, <1>3, <1>4

\* The whole source is queued: whatever was in flight, it leads to the source.
Queues(p, P) ==
  /\ PageShaped(P) /\ QueuedOnce(P) /\ P.source = p.source /\ P.full = {p.source} /\ P.edits = {}
  /\ P.terminal = p.terminal

LEMMA QueuesLead ==
  ASSUME NEW p, NEW P, Queues(p, P), NEW T
  PROVE Leads(P, T) /\ P.full # {}
BY DEF Queues, Leads

LEMMA InvalidatedFacts ==
  ASSUME NEW p, PageShaped(p), QueuedOnce(p)
  PROVE Queues(p, Invalidated(p)) /\ Invalidated(p).flight = p.flight
<1> DEFINE P == Invalidated(p)
<1>1. p.source \in Texts /\ {p.source} \subseteq Texts
  BY DEF PageShaped
<1>2. /\ P.source = p.source /\ P.full = {p.source} /\ P.edits = {} /\ P.terminal = p.terminal
      /\ P.flight = p.flight
  BY DEF Invalidated, PageShaped
<1>3. PageShaped(P)
  BY <1>1 DEF Invalidated, PageShaped
<1> HIDE DEF P
<1>4. QueuedOnce(P)
  BY <1>2 DEF QueuedOnce
<1> QED BY <1>2, <1>3, <1>4 DEF P, Queues

\* A pump that sends the whole source after one reset.
LEMMA WholePosts ==
  ASSUME NEW p, PageShaped(p), NEW P, Queues(p, P), P.flight = 0, ~p.terminal,
         NEW before \in Seq(MsgType), \A j \in 1..Len(before) : before[j].type = "reset",
         Pumping(P, before), out' = <<>>, worker'.busy = NoMsg, WorkerShaped(worker)',
         gens' \in Nat, worker'.gen <= gens'
  PROVE PreviewInv'
<1>1. p.source \in Texts
  BY DEF PageShaped
<1>2. PageShaped(P) /\ QueuedOnce(P) /\ ~P.terminal /\ P.full # {} /\ Leads(P, p.source)
  BY QueuesLead DEF Queues
<1>3. PageShaped(page)' /\ QueuedOnce(page)' /\ inbox' \in Seq(MsgType) /\ RequestKnown'
  BY <1>1, <1>2, PumpPosts
<1> QED BY <1>3 DEF PreviewInv, PreviewTyped

LEMMA OneReset ==
  <<ResetMsg>> \in Seq(MsgType) /\ \A j \in 1..Len(<<ResetMsg>>) : <<ResetMsg>>[j].type = "reset"
BY FixedTexts

LEMMA PreviewInitInv == PreviewInit => PreviewInv
<1> SUFFICES ASSUME PreviewInit PROVE PreviewInv
  OBVIOUS
<1> DEFINE t == [b \in Blocks |-> 1]
           P == Invalidated(NewPage(t))
           n == NewPage(t)
<1>1. t \in Texts /\ 1 \in Nat
  BY FixedTexts
<1>2. PageShaped(n) /\ QueuedOnce(n) /\ n.flight = 0 /\ ~n.terminal /\ WorkerShaped(NewWorker(1))
      /\ NewWorker(1).gen = 1 /\ NewWorker(1).busy = NoMsg
  BY <1>1, NewFacts
<1>3. Queues(n, P) /\ P.flight = 0
  BY <1>2, InvalidatedFacts
<1>4. page = Pump(P).page /\ worker = NewWorker(1) /\ inbox = <<ResetMsg>> \o Pump(P).sent /\ out = <<>> /\ gens = 1
  BY DEF PreviewInit
<1> HIDE DEF t, n, P
<1>5. PICK m \in MsgType : Sends(P, n.source, m)
  <2>1. n.source \in Texts
    BY <1>2 DEF PageShaped
  <2>2. PageShaped(P) /\ QueuedOnce(P) /\ ~P.terminal /\ P.full # {} /\ Leads(P, n.source)
    BY <1>2, <1>3, QueuesLead DEF Queues
  <2> QED BY <1>3, <2>1, <2>2, PumpSends
<1>6. inbox \in Seq(MsgType) /\ Len(inbox) = 2 /\ inbox[1].type = "reset" /\ inbox[2] = m
  <2> DEFINE z == <<ResetMsg>>
  <2>1. z \in Seq(MsgType) /\ Len(z) = 1 /\ z[1].type = "reset"
    BY FixedTexts
  <2>2. inbox = z \o <<m>>
    BY <1>4, <1>5 DEF Sends
  <2> HIDE DEF z
  <2>3. inbox = Append(z, m)
    BY <2>1, <2>2
  <2> QED BY <2>1, <2>3
<1>7. m.type = "render" /\ m.text \in Texts /\ Leads(page, m.text) /\ m.seq = page.flight /\ ~page.terminal
      /\ page.flight # 0 /\ PageShaped(page) /\ QueuedOnce(page)
  BY <1>3, <1>4, <1>5 DEF Sends, Queues
<1>8. PostedAt(m.text, 2)
  <2>1. \A j \in 1..2 : j # 2 => j = 1
    OBVIOUS
  <2> QED BY <1>6, <1>7, <2>1 DEF PostedAt
<1>9. Posted(m.text)
  BY <1>2, <1>4, <1>6, <1>8 DEF Posted
<1>10. Underway
  BY <1>7, <1>9 DEF Underway
<1>11. PreviewTyped
  BY <1>2, <1>4, <1>6, <1>7 DEF PreviewTyped
<1> QED BY <1>7, <1>10, <1>11 DEF PreviewInv, RequestKnown

LEMMA InvalidateKept ==
  ASSUME PreviewInv, Invalidate PROVE PreviewInv'
<1> DEFINE P == Invalidated(page)
<1>1. ~page.terminal /\ Pumping(P, Append(inbox, ResetMsg)) /\ UNCHANGED <<worker, out, gens>>
  BY DEF Invalidate
<1>2. Queues(page, P) /\ P.flight = page.flight
  BY QueueFacts, InvalidatedFacts
<1>3. WorkerShaped(worker)' /\ gens' \in Nat /\ worker'.gen <= gens'
  BY <1>1, QueueFacts DEF WorkerShaped
<1> HIDE DEF P
<1>4. CASE page.flight = 0
  <2>1. inbox = <<>> /\ out = <<>> /\ worker.busy = NoMsg
    BY <1>1, <1>4, QueueFacts DEF Settled, Quiet
  <2>2. Append(inbox, ResetMsg) = <<ResetMsg>>
    BY <2>1
  <2>3. PageShaped(page) /\ P.flight = 0 /\ out' = <<>> /\ worker'.busy = NoMsg
    BY <1>1, <1>2, <1>4, <2>1, QueueFacts
  <2> QED BY <1>1, <1>2, <1>3, <2>2, <2>3, OneReset, WholePosts
<1>5. CASE page.flight # 0
  <2>1. PICK T \in Texts : Leads(page, T) /\ (Posted(T) \/ InHand(T) \/ Replied(T))
    BY <1>1, <1>5, QueueFacts DEF Underway
  <2>2. page' = P /\ inbox' = Append(inbox, ResetMsg) /\ inbox' \in Seq(MsgType)
    <3>1. Pump(P).page = P /\ Pump(P).sent = <<>>
      BY <1>2, <1>5, PumpWaits
    <3>2. Append(inbox, ResetMsg) \in Seq(MsgType)
      BY QueueFacts, FixedTexts
    <3> QED BY <1>1, <3>1, <3>2 DEF Pumping
  <2>3. Leads(P, T) /\ P.full # {}
    BY <1>2, QueuesLead
  <2>4. (Posted(T) \/ InHand(T) \/ Replied(T))'
    BY <1>1, <1>2, <2>1, <2>2, <2>3, FlightKept
  <2>5. Underway'
    BY <2>2, <2>3, <2>4 DEF Underway, Leads
  <2>6. RequestKnown'
    BY <1>1, <1>2, <1>5, <2>2, <2>5 DEF RequestKnown, Queues
  <2>7. PageShaped(page)' /\ QueuedOnce(page)'
    BY <1>2, <2>2 DEF Queues, PageShaped, QueuedOnce
  <2> QED BY <1>3, <2>2, <2>6, <2>7 DEF PreviewInv, PreviewTyped
<1> QED BY <1>4, <1>5

LEMMA RemountKept ==
  ASSUME PreviewInv, Remount PROVE PreviewInv'
<1> DEFINE n == NewPage(page.source)
           P == Invalidated(n)
<1>1. page.source \in Texts /\ gens + 1 \in Nat
  BY QueueFacts
<1>2. PageShaped(n) /\ QueuedOnce(n) /\ n.flight = 0 /\ ~n.terminal /\ WorkerShaped(NewWorker(gens + 1))
      /\ NewWorker(gens + 1).gen = gens + 1 /\ NewWorker(gens + 1).busy = NoMsg
  BY <1>1, NewFacts
<1>3. Queues(n, P) /\ P.flight = 0
  BY <1>2, InvalidatedFacts
<1>4. gens' = gens + 1 /\ worker' = NewWorker(gens + 1) /\ out' = <<>> /\ Pumping(P, <<ResetMsg>>)
  BY DEF Remount
<1> HIDE DEF n, P
<1>5. WorkerShaped(worker)' /\ gens' \in Nat /\ worker'.gen <= gens' /\ worker'.busy = NoMsg
  BY <1>1, <1>2, <1>4 DEF WorkerShaped
<1> QED BY <1>2, <1>3, <1>4, <1>5, OneReset, WholePosts

LEMMA LostKept ==
  ASSUME PreviewInv, ~page.terminal, WorkerLost PROVE PreviewInv'
<1> DEFINE p == [page EXCEPT !.fails = @ + 1]
           P == Recovered(p)
<1>1. PageShaped(p) /\ QueuedOnce(p) /\ ~p.terminal
  BY QueueFacts DEF PageShaped, QueuedOnce
<1>2. gens + 1 \in Nat /\ WorkerShaped(NewWorker(gens + 1))
      /\ NewWorker(gens + 1).gen = gens + 1 /\ NewWorker(gens + 1).busy = NoMsg
  <2>1. gens + 1 \in Nat /\ page.source \in Texts
    BY QueueFacts
  <2> QED BY <2>1, NewFacts
<1>3. /\ gens' = gens + 1 /\ worker' = NewWorker(gens + 1) /\ out' = <<>>
      /\ \/ page' = Stopped(p) /\ inbox' = <<>>
         \/ Pumping(P, <<ResetMsg>>)
  BY DEF WorkerLost
<1> HIDE DEF p
<1>4. Queues(p, P) /\ P.flight = 0
  <2>1. p.source \in Texts /\ {p.source} \subseteq Texts
    BY <1>1 DEF PageShaped
  <2>2. /\ P.source = p.source /\ P.full = {p.source} /\ P.edits = {} /\ P.terminal = p.terminal /\ P.flight = 0
        /\ PageShaped(P)
    BY <1>1, <2>1 DEF Recovered, PageShaped
  <2> HIDE DEF P
  <2> QED BY <2>2 DEF Queues, QueuedOnce
<1>5. WorkerShaped(worker)' /\ gens' \in Nat /\ worker'.gen <= gens' /\ worker'.busy = NoMsg
  BY <1>2, <1>3 DEF WorkerShaped
<1> HIDE DEF P
<1>6. CASE Pumping(P, <<ResetMsg>>)
  BY <1>1, <1>3, <1>4, <1>5, <1>6, OneReset, WholePosts
<1>7. CASE page' = Stopped(p) /\ inbox' = <<>>
  <2> DEFINE s == Stopped(p)
  <2>1. PageShaped(s) /\ s.terminal /\ s.full = {} /\ s.edits = {}
    BY <1>1 DEF Stopped, PageShaped
  <2> HIDE DEF s
  <2>2. PageShaped(page)' /\ QueuedOnce(page)' /\ page'.terminal
    BY <1>7, <2>1 DEF s, PageShaped, QueuedOnce
  <2>3. Quiet' /\ inbox' \in Seq(MsgType)
    BY <1>3, <1>5, <1>7 DEF Quiet
  <2>4. RequestKnown'
    BY <2>2, <2>3 DEF RequestKnown
  <2> QED BY <1>5, <2>2, <2>3, <2>4 DEF PreviewInv, PreviewTyped
<1> QED BY <1>3, <1>6, <1>7

-----------------------------------------------------------------------------
(* The page paints. *)

LEMMA PaintKept ==
  ASSUME PreviewInv, IdlePaint PROVE PreviewInv'
<1> DEFINE k == CHOOSE x \in page.rest : Rank(page.rest, x) = 0
           painted == [x \in DOMAIN page.nodes \union {k} |->
                         IF x = k THEN Nodes(page, {k}, page.html)[k] ELSE page.nodes[x]]
           p == [page EXCEPT !.rest = @ \ {k}, !.nodes = painted]
<1>1. page' = p /\ UNCHANGED <<worker, inbox, out, gens>> /\ page.rest # {}
  BY DEF IdlePaint
<1>2. k \in page.rest /\ page.rest \subseteq Places /\ PageShaped(page) /\ QueuedOnce(page)
  BY <1>1, QueueFacts, FirstPlace
<1>3. DOMAIN painted = DOMAIN page.nodes \union {k}
  OBVIOUS
<1> HIDE DEF k, painted
<1>4. /\ PageShaped(p) /\ p.full = page.full /\ p.edits = page.edits /\ p.source = page.source
      /\ p.flight = page.flight /\ p.known = page.known /\ p.terminal = page.terminal
      /\ p.rest = page.rest \ {k} /\ p.nodes = painted
  BY <1>2 DEF PageShaped
<1> HIDE DEF p
<1>5. DOMAIN page'.nodes \union page'.rest = DOMAIN page.nodes \union page.rest
  BY <1>1, <1>2, <1>3, <1>4
<1>6. QueuedOnce(p)
  BY <1>2, <1>4 DEF QueuedOnce
<1>7. PreviewTyped'
  BY <1>1, <1>4, <1>6, QueueFacts DEF PreviewTyped, PageShaped, QueuedOnce, WorkerShaped
<1>8. CASE page.terminal
  BY <1>1, <1>4, <1>7, <1>8, QueueFacts DEF PreviewInv, RequestKnown, Quiet
<1>9. CASE ~page.terminal /\ page.flight = 0
  <2>1. Settled
    BY <1>9, QueueFacts
  <2>2. Settled'
    BY <1>1, <1>4, <1>5, <2>1 DEF Settled, Quiet
  <2> QED BY <1>1, <1>4, <1>7, <1>9, <2>2 DEF PreviewInv, RequestKnown
<1>10. CASE ~page.terminal /\ page.flight # 0
  <2>1. PICK T \in Texts : Leads(page, T) /\ (Posted(T) \/ InHand(T) \/ Replied(T))
    BY <1>10, QueueFacts DEF Underway
  <2>2. (Posted(T) \/ InHand(T) \/ Replied(T))'
    BY <1>1, <1>4, <2>1, FlightKept
  <2>3. Leads(page', T)
    BY <1>1, <1>4, <2>1 DEF Leads
  <2>4. Underway'
    BY <2>2, <2>3 DEF Underway, Leads
  <2> QED BY <1>1, <1>4, <1>7, <1>10, <2>4 DEF PreviewInv, RequestKnown
<1> QED BY <1>8, <1>9, <1>10, QueueFacts

\* An answer is only ever to the request in flight.
LEMMA AnswerFacts ==
  ASSUME PreviewInv, out # <<>>
  PROVE /\ ~page.terminal /\ page.flight # 0 /\ worker.busy = NoMsg /\ OnlyResets
        /\ out = <<out[1]>>
        /\ \E T \in Texts : Leads(page, T) /\ Answers(out[1], T)
<1>1. ~page.terminal /\ page.flight # 0 /\ Underway
  BY QueueFacts DEF Quiet, Settled
<1>2. PICK T \in Texts : Leads(page, T) /\ (Posted(T) \/ InHand(T) \/ Replied(T))
  BY <1>1 DEF Underway
<1>3. Replied(T)
  BY <1>2 DEF Posted, InHand
<1> QED BY <1>1, <1>2, <1>3 DEF Replied

LEMMA PatchedFacts ==
  ASSUME NEW q, PageShaped(q), QueuedOnce(q), NEW r, r.keys \subseteq Places
  PROVE /\ PageShaped(Patched(q, r)) /\ QueuedOnce(Patched(q, r))
        /\ DOMAIN Patched(q, r).nodes \union Patched(q, r).rest = r.keys
        /\ Patched(q, r).full = q.full /\ Patched(q, r).edits = q.edits /\ Patched(q, r).source = q.source
        /\ Patched(q, r).flight = q.flight /\ Patched(q, r).known = q.known
        /\ Patched(q, r).terminal = q.terminal
<1> DEFINE first == IF DOMAIN q.nodes = {} THEN {k \in r.keys : Rank(r.keys, k) < FirstPaint} ELSE r.keys
           nodes == Nodes(q, first, r.html)
           P == [q EXCEPT !.nodes = nodes, !.rest = r.keys \ first, !.html = r.html]
<1>1. first \subseteq r.keys /\ DOMAIN nodes = first
  BY DEF Nodes
<1>2. Patched(q, r) = P
  BY DEF Patched
<1> HIDE DEF first, nodes
<1>3. /\ PageShaped(P) /\ P.nodes = nodes /\ P.rest = r.keys \ first
      /\ P.full = q.full /\ P.edits = q.edits /\ P.source = q.source
      /\ P.flight = q.flight /\ P.known = q.known /\ P.terminal = q.terminal
  BY DEF PageShaped
<1> HIDE DEF P
<1>4. QueuedOnce(P) /\ DOMAIN P.nodes \union P.rest = r.keys
  BY <1>1, <1>3 DEF QueuedOnce
<1> QED BY <1>2, <1>3, <1>4

LEMMA RenderedKept ==
  ASSUME PreviewInv, OnRendered PROVE PreviewInv'
<1> DEFINE r == out[1]
           p == [page EXCEPT !.flight = 0, !.fails = 0]
           q == [p EXCEPT !.known = r.gen]
           z == [q EXCEPT !.edits = {}, !.full = {q.source}]
<1>1. out # <<>> /\ UNCHANGED <<worker, gens>> /\ out' = Tail(out)
  BY DEF OnRendered
<1>2. /\ ~page.terminal /\ page.flight # 0 /\ worker.busy = NoMsg /\ OnlyResets /\ out = <<r>>
  BY <1>1, AnswerFacts
<1>3. PICK T \in Texts : Leads(page, T) /\ Answers(r, T)
  BY <1>1, AnswerFacts
<1>4. Head(out) = r /\ out' = <<>>
  BY <1>1, <1>2
<1>5. /\ r.seq = page.flight
      /\ IF r.type = "resync" THEN Pumping(z, Append(inbox, ResetMsg)) ELSE Pumping(Patched(q, r), inbox)
  BY <1>3, <1>4 DEF OnRendered, Answers
<1>6. WorkerShaped(worker)' /\ gens' \in Nat /\ worker'.gen <= gens' /\ worker'.busy = NoMsg
  BY <1>1, <1>2, QueueFacts DEF WorkerShaped
<1>7. inbox \in Seq(MsgType) /\ (\A j \in 1..Len(inbox) : inbox[j].type = "reset") /\ (inbox # <<>> => page.full # {})
  BY <1>2, QueueFacts DEF OnlyResets
<1>8. r.gen \in Nat /\ (r.type = "resync" \/ (r.type = "rendered" /\ r.keys \in {Keys(T), {ErrorKey}}
        /\ (page.full = {} /\ r.gen = worker.gen => worker.text = T)))
  BY <1>3 DEF Answers
<1> HIDE DEF r
<1>9. /\ PageShaped(q) /\ q.full = page.full /\ q.edits = page.edits /\ q.source = page.source
      /\ q.flight = 0 /\ q.known = r.gen /\ q.terminal = page.terminal
  <2>1. /\ PageShaped(p) /\ p.full = page.full /\ p.edits = page.edits /\ p.source = page.source
        /\ p.flight = 0 /\ p.terminal = page.terminal
    BY QueueFacts DEF PageShaped
  <2> HIDE DEF p
  <2> QED BY <1>8, <2>1 DEF PageShaped
<1> HIDE DEF p, q
<1>10. QueuedOnce(q) /\ Leads(q, T)
  BY <1>3, <1>9, QueueFacts DEF QueuedOnce, Leads
<1>11. CASE r.type = "resync"
  <2>1. Queues(q, z) /\ z.flight = 0
    <3>1. q.source \in Texts /\ {q.source} \subseteq Texts
      BY <1>9 DEF PageShaped
    <3>2. /\ PageShaped(z) /\ z.source = q.source /\ z.full = {q.source} /\ z.edits = {} /\ z.terminal = q.terminal
          /\ z.flight = 0
      BY <1>9, <3>1 DEF PageShaped
    <3> HIDE DEF z
    <3> QED BY <3>2 DEF Queues, QueuedOnce
  <2> DEFINE before == Append(inbox, ResetMsg)
  <2>2. before \in Seq(MsgType) /\ \A j \in 1..Len(before) : before[j].type = "reset"
    BY <1>7, FixedTexts
  <2>3. Pumping(z, before)
    BY <1>5, <1>11
  <2> HIDE DEF z, before
  <2> QED BY <1>2, <1>4, <1>6, <1>9, <2>1, <2>2, <2>3, WholePosts
<1>12. CASE r.type = "rendered"
  <2> DEFINE P == Patched(q, r)
  <2>1. Keys(T) \subseteq Places /\ {ErrorKey} \subseteq Places
    BY TextFacts, FixedTexts
  <2>2. r.keys \in {Keys(T), {ErrorKey}} /\ (page.full = {} /\ r.gen = worker.gen => worker.text = T)
    BY <1>8, <1>12
  <2>3. r.keys \subseteq Places
    BY <2>1, <2>2
  <2>4. /\ PageShaped(P) /\ QueuedOnce(P) /\ DOMAIN P.nodes \union P.rest = r.keys
        /\ P.full = page.full /\ P.edits = page.edits /\ P.source = page.source
        /\ P.flight = 0 /\ P.known = r.gen /\ ~P.terminal
    BY <1>2, <1>9, <1>10, <2>3, PatchedFacts
  <2>5. Pumping(P, inbox)
    BY <1>5, <1>12
  <2> HIDE DEF P
  <2>6. Leads(P, T)
    BY <1>3, <2>4 DEF Leads
  <2>7. CASE P.full # {} \/ P.edits # {}
    <3>1. P.full = {} => inbox = <<>>
      BY <1>7, <2>4
    <3>2. PageShaped(page)' /\ QueuedOnce(page)' /\ inbox' \in Seq(MsgType) /\ RequestKnown'
      BY <1>1, <1>4, <1>6, <1>7, <2>2, <2>4, <2>5, <2>6, <2>7, <3>1, PumpPosts
    <3> QED BY <1>6, <3>2 DEF PreviewInv, PreviewTyped
  <2>8. CASE P.full = {} /\ P.edits = {}
    <3>1. page' = P /\ inbox' = inbox /\ inbox = <<>>
      <4>1. Pump(P).page = P /\ Pump(P).sent = <<>>
        BY <2>8, PumpWaits
      <4> QED BY <1>7, <2>4, <2>5, <2>8, <4>1 DEF Pumping
    <3>2. P.source = T
      BY <2>6, <2>8 DEF Leads
    <3>3. Settled'
      BY <1>1, <1>4, <1>6, <2>2, <2>4, <2>8, <3>1, <3>2 DEF Settled, Quiet
    <3>4. PageShaped(page)' /\ QueuedOnce(page)' /\ page'.flight = 0 /\ ~page'.terminal
      BY <2>4, <3>1 DEF PageShaped, QueuedOnce
    <3> QED BY <1>6, <1>7, <3>1, <3>3, <3>4 DEF PreviewInv, PreviewTyped, RequestKnown
  <2> QED BY <2>7, <2>8
<1> QED BY <1>8, <1>11, <1>12

-----------------------------------------------------------------------------
(* The worker. *)

\* What a step of the worker must show: the page and its queue are as they were.
LEMMA WorkerKept ==
  ASSUME PreviewInv, ~page.terminal, page.flight # 0, UNCHANGED page,
         NEW T \in Texts, Leads(page, T), (Posted(T) \/ InHand(T) \/ Replied(T))',
         WorkerShaped(worker)', inbox' \in Seq(MsgType), gens' \in Nat, worker'.gen <= gens'
  PROVE PreviewInv'
<1>1. Underway'
  BY DEF Underway, Leads
<1>2. PreviewTyped'
  BY QueueFacts DEF PreviewTyped, PageShaped, QueuedOnce
<1> QED BY <1>1, <1>2 DEF PreviewInv, RequestKnown

\* A message with a request is not the absence of one.
LEMMA BusyIsSome ==
  ASSUME NEW m, m.type \in {"render", "patch"} PROVE m # NoMsg
BY FixedTexts

LEMMA ClearedFacts ==
  ASSUME NEW v, WorkerShaped(v)
  PROVE /\ WorkerShaped(CacheCleared(v)) /\ CacheCleared(v).gen = v.gen /\ CacheCleared(v).of = v.of
        /\ CacheCleared(v).busy = v.busy
BY FixedTexts DEF CacheCleared, WorkerShaped

\* The worker has something to do, so something is in flight.
LEMMA WorkFacts ==
  ASSUME PreviewInv, inbox # <<>> \/ worker.busy # NoMsg
  PROVE /\ ~page.terminal /\ page.flight # 0
        /\ \E T \in Texts : Leads(page, T) /\ (Posted(T) \/ InHand(T) \/ Replied(T))
BY QueueFacts DEF Quiet, Settled, Underway

\* The first message is a reset: the others move up.
LEMMA ResetTaken ==
  ASSUME PreviewInv, inbox # <<>>, inbox[1].type = "reset", NEW T \in Texts,
         Posted(T) \/ InHand(T) \/ Replied(T),
         UNCHANGED <<page, out>>, inbox' = Tail(inbox), worker' = CacheCleared(worker)
  PROVE (Posted(T) \/ InHand(T) \/ Replied(T))'
<1>1. /\ inbox \in Seq(MsgType) /\ Len(inbox) \in Nat /\ Len(inbox) >= 1
      /\ Len(inbox') = Len(inbox) - 1 /\ \A j \in 1..Len(inbox') : inbox'[j] = inbox[j + 1]
  BY QueueFacts
<1>2. worker'.gen = worker.gen /\ worker'.of = worker.of /\ worker'.busy = worker.busy
  BY QueueFacts, ClearedFacts
<1>3. OnlyResets => OnlyResets' /\ page.full # {}
  BY <1>1 DEF OnlyResets
<1>4. CASE Posted(T)
  <2>1. PICK i \in 1..Len(inbox) : PostedAt(T, i)
    BY <1>4 DEF Posted
  <2>2. i # 1 /\ inbox[i].type = "render" /\ inbox[i].text = T
    BY <2>1 DEF PostedAt
  <2>3. i - 1 \in 1..Len(inbox') /\ inbox'[i - 1] = inbox[i]
    BY <1>1, <2>2
  <2>4. PostedAt(T, i - 1)'
    <3>1. \A j \in 1..Len(inbox') : j # i - 1 => inbox'[j].type = "reset"
      BY <1>1, <2>1, <2>2 DEF PostedAt
    <3>2. i - 1 < Len(inbox') => page'.full # {}
      BY <1>1, <2>1, <2>2 DEF PostedAt
    <3> QED BY <2>1, <2>2, <2>3, <3>1, <3>2 DEF PostedAt
  <2> QED BY <1>2, <1>4, <2>3, <2>4 DEF Posted
<1>5. CASE InHand(T)
  BY <1>2, <1>3, <1>5 DEF InHand
<1>6. CASE Replied(T)
  <2>1. Answers(out[1], T)'
    BY <1>2, <1>3, <1>6 DEF Replied, Answers
  <2> QED BY <1>2, <1>3, <1>6, <2>1 DEF Replied
<1> QED BY <1>4, <1>5, <1>6

LEMMA TakeKept ==
  ASSUME PreviewInv, TakeMessage PROVE PreviewInv'
<1> DEFINE m == Head(inbox)
<1>1. inbox # <<>> /\ Free /\ inbox' = Tail(inbox) /\ UNCHANGED <<page, gens>> /\ inbox \in Seq(MsgType)
  BY QueueFacts DEF TakeMessage
<1>2. /\ ~page.terminal /\ page.flight # 0
      /\ \E T \in Texts : Leads(page, T) /\ (Posted(T) \/ InHand(T) \/ Replied(T))
  BY <1>1, WorkFacts
<1>3. PICK T \in Texts : Leads(page, T) /\ (Posted(T) \/ InHand(T) \/ Replied(T))
  BY <1>2
<1>4. m = inbox[1] /\ inbox' \in Seq(MsgType) /\ m \in MsgType /\ Len(inbox) \in Nat /\ Len(inbox) >= 1
      /\ Len(inbox') = Len(inbox) - 1 /\ \A j \in 1..Len(inbox') : inbox'[j] = inbox[j + 1]
  BY <1>1
<1>5. \/ m.type = "reset" /\ worker' = CacheCleared(worker) /\ UNCHANGED out
      \/ m.type = "render" /\ worker' = [worker EXCEPT !.busy = m, !.of = worker.gen] /\ UNCHANGED out
      \/ /\ m.type = "patch" /\ Applies(m) /\ UNCHANGED out
         /\ worker' = [worker EXCEPT !.busy = [m EXCEPT !.text = Apply(worker.text, m.text)], !.of = worker.gen]
      \/ /\ m.type \notin {"reset", "render"} /\ UNCHANGED worker
         /\ out' = Append(out, [type |-> "resync", seq |-> m.seq, gen |-> worker.gen, keys |-> {}, html |-> NoMap])
  BY DEF TakeMessage
<1> HIDE DEF m
<1>6. CASE m.type = "reset" /\ worker' = CacheCleared(worker) /\ UNCHANGED out
  <2>1. WorkerShaped(worker') /\ worker'.gen = worker.gen
    BY <1>6, QueueFacts, ClearedFacts
  <2>2. WorkerShaped(worker)' /\ gens' \in Nat /\ worker'.gen <= gens'
    BY <1>1, <2>1, QueueFacts DEF WorkerShaped
  <2>3. (Posted(T) \/ InHand(T) \/ Replied(T))'
    BY <1>1, <1>3, <1>4, <1>6, ResetTaken
  <2> QED BY <1>1, <1>2, <1>3, <1>4, <2>2, <2>3, WorkerKept
<1>7. ASSUME m.type # "reset"
      PROVE /\ out = <<>> /\ worker.busy = NoMsg /\ PostedAt(T, 1) /\ m.seq = page.flight
            /\ (m.type = "render" /\ m.text = T) \/ (m.type = "patch" /\ (m.gen = worker.gen => Apply(worker.text, m.text) = T))
            /\ OnlyResets'
  <2>1. Posted(T)
    <3>1. ~OnlyResets
      BY <1>4, <1>7 DEF OnlyResets
    <3> QED BY <1>3, <3>1 DEF InHand, Replied
  <2>2. PICK i \in 1..Len(inbox) : PostedAt(T, i)
    BY <2>1 DEF Posted
  <2>3. i = 1
    BY <1>4, <1>7, <2>2 DEF PostedAt
  <2>4. OnlyResets'
    <3>1. \A j \in 1..Len(inbox') : inbox'[j].type = "reset"
      BY <1>4, <2>2, <2>3 DEF PostedAt
    <3>2. inbox' # <<>> => page'.full # {}
      BY <1>1, <1>4, <2>2, <2>3 DEF PostedAt
    <3> QED BY <3>1, <3>2 DEF OnlyResets
  <2> QED BY <1>4, <2>1, <2>2, <2>3, <2>4 DEF Posted, PostedAt
<1>8. ASSUME NEW b \in MsgType, worker' = [worker EXCEPT !.busy = b, !.of = worker.gen], UNCHANGED out,
             m.type # "reset", b.type \in {"render", "patch"}, b.seq = m.seq, b.text = T
      PROVE PreviewInv'
  <2> DEFINE v == [worker EXCEPT !.busy = b, !.of = worker.gen]
  <2>1. WorkerShaped(v) /\ v.gen = worker.gen /\ v.busy = b
    BY QueueFacts DEF WorkerShaped
  <2> HIDE DEF v
  <2>2. WorkerShaped(worker)' /\ gens' \in Nat /\ worker'.gen <= gens' /\ worker'.busy = b
    BY <1>1, <1>8, <2>1, QueueFacts DEF v, WorkerShaped
  <2>3. InHand(T)'
    BY <1>1, <1>7, <1>8, <2>2 DEF InHand
  <2> QED BY <1>1, <1>2, <1>3, <1>4, <2>2, <2>3, WorkerKept
<1>9. CASE m.type = "render" /\ worker' = [worker EXCEPT !.busy = m, !.of = worker.gen] /\ UNCHANGED out
  BY <1>4, <1>7, <1>8, <1>9
<1>10. CASE /\ m.type = "patch" /\ Applies(m) /\ UNCHANGED out
            /\ worker' = [worker EXCEPT !.busy = [m EXCEPT !.text = Apply(worker.text, m.text)], !.of = worker.gen]
  <2> DEFINE b == [m EXCEPT !.text = Apply(worker.text, m.text)]
  <2>1. Apply(worker.text, m.text) = T /\ T \in Ops
    BY <1>7, <1>10, TextFacts DEF Applies
  <2>2. b \in MsgType /\ b.type = "patch" /\ b.seq = m.seq /\ b.text = T
    BY <1>4, <1>10, <2>1 DEF MsgType
  <2>3. worker' = [worker EXCEPT !.busy = b, !.of = worker.gen]
    BY <1>10
  <2> HIDE DEF b
  <2> QED BY <1>8, <1>10, <2>2, <2>3
<1>11. CASE /\ m.type \notin {"reset", "render"} /\ UNCHANGED worker
            /\ out' = Append(out, [type |-> "resync", seq |-> m.seq, gen |-> worker.gen, keys |-> {}, html |-> NoMap])
  <2> DEFINE r == [type |-> "resync", seq |-> m.seq, gen |-> worker.gen, keys |-> {}, html |-> NoMap]
  <2>1. r.type = "resync" /\ r.seq = m.seq /\ r.gen = worker.gen
    OBVIOUS
  <2>2. out' = Append(out, r)
    BY <1>11
  <2> HIDE DEF r
  <2>3. out' = <<r>> /\ out'[1] = r
    <3>1. out = <<>>
      BY <1>7, <1>11
    <3> QED BY <2>2, <3>1
  <2>4. Answers(out[1], T)'
    BY <1>1, <1>7, <1>11, <2>1, <2>3, QueueFacts DEF Answers
  <2>5. Replied(T)'
    BY <1>7, <1>11, <2>3, <2>4 DEF Replied
  <2>6. WorkerShaped(worker)' /\ gens' \in Nat /\ worker'.gen <= gens'
    BY <1>1, <1>11, QueueFacts DEF WorkerShaped
  <2> QED BY <1>1, <1>2, <1>3, <1>4, <2>5, <2>6, WorkerKept
<1> QED BY <1>5, <1>6, <1>9, <1>10, <1>11

\* A worker with a message in hand has the request in flight.
LEMMA HandFacts ==
  ASSUME PreviewInv, worker.busy # NoMsg
  PROVE /\ ~page.terminal /\ page.flight # 0
        /\ \E T \in Texts : Leads(page, T) /\ InHand(T)
BY WorkFacts DEF Posted, Replied

\* It answers with the text it keeps, unless the answer is of an earlier generation.
LEMMA AnswerKept ==
  ASSUME PreviewInv, NEW T \in Texts, Leads(page, T), InHand(T), ~page.terminal, page.flight # 0,
         UNCHANGED <<page, inbox>>, gens' \in Nat, WorkerShaped(worker)', worker'.gen <= gens',
         worker'.busy = NoMsg, NEW r, out' = Append(out, r), r.type = "rendered",
         r.seq = worker.busy.seq, r.gen \in Nat, r.keys \in {Keys(T), {ErrorKey}},
         r.gen = worker'.gen => worker'.text = T
  PROVE PreviewInv'
<1>1. out = <<>> /\ OnlyResets /\ worker.busy.seq = page.flight
  BY DEF InHand
<1>2. out' = <<r>> /\ out'[1] = r
  BY <1>1
<1>3. Answers(out[1], T)'
  BY <1>1, <1>2 DEF Answers
<1>4. Replied(T)'
  BY <1>1, <1>2, <1>3 DEF Replied, OnlyResets
<1>5. inbox' \in Seq(MsgType)
  BY QueueFacts
<1> QED BY <1>4, <1>5, WorkerKept

LEMMA RenderKept ==
  ASSUME PreviewInv, Render PROVE PreviewInv'
<1> DEFINE t == worker.busy.text
           v == IF worker.of # worker.gen \/ NeedsFeature(t) THEN CacheCleared(worker) ELSE worker
           html == Rendering(v, t).html
           x == Rendering(v, t).worker
           r == [type |-> "rendered", seq |-> worker.busy.seq, gen |-> worker.of, keys |-> Keys(t), html |-> html]
<1>1. /\ worker.busy # NoMsg /\ UNCHANGED <<page, inbox, gens>> /\ out' = Append(out, r)
      /\ worker' = IF worker.of = worker.gen
                   THEN [x EXCEPT !.busy = NoMsg, !.loaded = @ \/ NeedsFeature(t)]
                   ELSE [worker EXCEPT !.busy = NoMsg]
  BY DEF Render
<1>2. PICK T \in Texts : ~page.terminal /\ page.flight # 0 /\ Leads(page, T) /\ InHand(T)
  BY <1>1, HandFacts
<1>3. t = T
  BY <1>2 DEF InHand
<1>4. WorkerShaped(worker) /\ WorkerShaped(v) /\ v.gen = worker.gen
  BY QueueFacts, ClearedFacts
<1> HIDE DEF v, t
<1>5. WorkerShaped(x) /\ x.gen = worker.gen /\ x.text = T
  <2>1. \E e, h : x = [v EXCEPT !.text = t, !.env = e, !.held = h]
    BY DEF Rendering
  <2>2. PICK e, h : x = [v EXCEPT !.text = t, !.env = e, !.held = h]
    BY <2>1
  <2> HIDE DEF x
  <2> QED BY <1>3, <1>4, <2>2 DEF WorkerShaped
<1> HIDE DEF x, html
<1>6. r.type = "rendered" /\ r.seq = worker.busy.seq /\ r.gen = worker.of /\ r.keys = Keys(T)
  BY <1>3
<1> HIDE DEF r
<1>7. /\ WorkerShaped(worker)' /\ worker'.gen = worker.gen /\ worker'.busy = NoMsg
      /\ worker.of = worker.gen => worker'.text = T
  <2>1. CASE worker.of = worker.gen
    <3> DEFINE l == x.loaded \/ NeedsFeature(t)
               y == [x EXCEPT !.busy = NoMsg]
               u == [y EXCEPT !.loaded = l]
    <3>1. worker' = u
      BY <1>1, <2>1
    <3>2. WorkerShaped(y) /\ y.gen = x.gen /\ y.text = x.text /\ y.busy = NoMsg
      BY <1>5, FixedTexts DEF WorkerShaped
    <3> HIDE DEF l, y
    <3>3. WorkerShaped(u) /\ u.gen = y.gen /\ u.text = y.text /\ u.busy = y.busy
      BY <3>2 DEF WorkerShaped
    <3> HIDE DEF u
    <3> QED BY <1>5, <3>1, <3>2, <3>3 DEF WorkerShaped
  <2>2. CASE worker.of # worker.gen
    <3> DEFINE u == [worker EXCEPT !.busy = NoMsg]
    <3>1. WorkerShaped(u) /\ u.gen = worker.gen /\ u.busy = NoMsg
      BY <1>4, FixedTexts DEF WorkerShaped
    <3>2. worker' = u
      BY <1>1, <2>2
    <3> HIDE DEF u
    <3> QED BY <2>2, <3>1, <3>2 DEF WorkerShaped
  <2> QED BY <2>1, <2>2
<1> QED BY <1>1, <1>2, <1>6, <1>7, QueueFacts, AnswerKept

LEMMA RenderFailsKept ==
  ASSUME PreviewInv, RenderFails PROVE PreviewInv'
<1> DEFINE z == [k \in {ErrorKey} |-> 0]
           r == [type |-> "rendered", seq |-> worker.busy.seq, gen |-> worker.gen, keys |-> {ErrorKey}, html |-> z]
           u == [worker EXCEPT !.busy = NoMsg, !.text = worker.busy.text]
<1>1. worker.busy # NoMsg /\ UNCHANGED <<page, inbox, gens>> /\ out' = Append(out, r) /\ worker' = u
  BY DEF RenderFails, TextAfterFailure
<1>2. PICK T \in Texts : ~page.terminal /\ page.flight # 0 /\ Leads(page, T) /\ InHand(T)
  BY <1>1, HandFacts
<1>3. worker.busy.text = T
  BY <1>2 DEF InHand
<1> HIDE DEF z
<1>4. r.type = "rendered" /\ r.seq = worker.busy.seq /\ r.gen = worker.gen /\ r.keys = {ErrorKey}
  OBVIOUS
<1> HIDE DEF r
<1>5. WorkerShaped(u) /\ u.gen = worker.gen /\ u.busy = NoMsg /\ u.text = T
  BY <1>3, QueueFacts, FixedTexts DEF WorkerShaped
<1> HIDE DEF u
<1>6. WorkerShaped(worker)'
  BY <1>1, <1>5 DEF WorkerShaped
<1> QED BY <1>1, <1>2, <1>4, <1>5, <1>6, QueueFacts, AnswerKept

LEMMA HandKept ==
  ASSUME PreviewInv, Reevaluate \/ Hang PROVE PreviewInv'
<1>1. worker.busy # NoMsg /\ UNCHANGED <<page, inbox, out>>
  BY DEF Reevaluate, Hang
<1>2. PICK T \in Texts : ~page.terminal /\ page.flight # 0 /\ Leads(page, T) /\ InHand(T)
  BY <1>1, HandFacts
<1>3. inbox' \in Seq(MsgType)
  BY <1>1, QueueFacts
<1>4. CASE Reevaluate
  <2> DEFINE w == NewWorker(gens + 1)
             u == [w EXCEPT !.busy = worker.busy, !.of = worker.of]
  <2>1. gens + 1 \in Nat /\ gens' = gens + 1 /\ worker' = u
    BY <1>4, QueueFacts DEF Reevaluate
  <2>2. WorkerShaped(w) /\ w.gen = gens + 1
    <3>1. page.source \in Texts
      BY QueueFacts
    <3> QED BY <2>1, <3>1, NewFacts
  <2> HIDE DEF w
  <2>3. WorkerShaped(u) /\ u.gen = gens + 1 /\ u.busy = worker.busy
    BY <2>2, QueueFacts DEF WorkerShaped
  <2> HIDE DEF u
  <2>4. WorkerShaped(worker)' /\ gens' \in Nat /\ worker'.gen <= gens' /\ worker'.busy = worker.busy
    BY <2>1, <2>3 DEF WorkerShaped
  <2>5. InHand(T)'
    BY <1>1, <1>2, <2>4 DEF InHand, OnlyResets
  <2> QED BY <1>1, <1>2, <1>3, <2>4, <2>5, WorkerKept
<1>5. CASE Hang
  <2> DEFINE u == [worker EXCEPT !.stuck = TRUE]
  <2>1. gens' = gens /\ worker' = u
    BY <1>5 DEF Hang
  <2>2. WorkerShaped(u) /\ u.gen = worker.gen /\ u.busy = worker.busy
    BY QueueFacts DEF WorkerShaped
  <2> HIDE DEF u
  <2>3. WorkerShaped(worker)' /\ gens' \in Nat /\ worker'.gen <= gens' /\ worker'.busy = worker.busy
    BY <2>1, <2>2, QueueFacts DEF WorkerShaped
  <2>4. InHand(T)'
    BY <1>1, <1>2, <2>3 DEF InHand, OnlyResets
  <2> QED BY <1>1, <1>2, <1>3, <2>3, <2>4, WorkerKept
<1> QED BY <1>4, <1>5

LEMMA StillKept ==
  ASSUME PreviewInv, UNCHANGED previewVars PROVE PreviewInv'
<1>1. UNCHANGED <<page, worker, inbox, out, gens>>
  BY DEF previewVars
<1>2. PreviewTyped'
  BY <1>1, QueueFacts DEF PreviewTyped, PageShaped, QueuedOnce, WorkerShaped
<1>3. Quiet => Quiet'
  BY <1>1 DEF Quiet
<1>4. Settled => Settled'
  BY <1>1, <1>3 DEF Settled
<1>5. Underway => Underway'
  BY <1>1 DEF Underway, Leads, Posted, PostedAt, InHand, Replied, Answers, OnlyResets
<1> QED BY <1>1, <1>2, <1>3, <1>4, <1>5 DEF PreviewInv, RequestKnown

-----------------------------------------------------------------------------
(***************************************************************************)
(* What the blocks show.  The worker leaves out the HTML of the blocks it  *)
(* takes the page to hold, so what it holds must be on the page, or be     *)
(* forgotten by a reset before it answers again.                           *)
(***************************************************************************)

\* The worker holds the rendering of its text, with the definitions of that text.
Sound(v) == v.env = v.text[1] /\ v.held = [k \in Keys(v.text) |-> v.text[1]]

\* A block shows its rendering with the definitions d, or will when it is painted.
Painted(p, k, d) ==
  IF k \in p.rest THEN k \in DOMAIN p.html /\ p.html[k] = d ELSE k \in DOMAIN p.nodes /\ p.nodes[k] = d
Has(p, t) == \A k \in Keys(t) : Painted(p, k, t[1])

\* With answer r the page will have the blocks of t.
Mends(r, p, t) == \A k \in Keys(t) : IF k \in DOMAIN r.html THEN r.html[k] = t[1] ELSE Painted(p, k, t[1])

NoReset == \A j \in 1..Len(inbox) : inbox[j].type # "reset"

\* A module that was evaluated again knows nothing while the old one answers.
Superseded == worker.busy # NoMsg /\ worker.of # worker.gen => worker.text = Empty /\ Sound(worker)

\* A text that is queued is preceded by a reset, or the worker has had it.
ResetAhead ==
  page.full # {} /\ ~page.terminal =>
    \/ inbox # <<>> /\ inbox[Len(inbox)].type = "reset"
    \/ /\ inbox = <<>> /\ worker.text = Empty /\ Sound(worker)
       /\ worker.busy # NoMsg => worker.of # worker.gen

\* What the worker takes the page to hold, the page has.
Trusted == out = <<>> /\ page.full = {} /\ NoReset => Sound(worker) /\ Has(page, worker.text)

\* What it holds when its answer is taken, the page will have.
Mending ==
  out # <<>> /\ out[1].type = "rendered" /\ page.full = {} =>
    /\ Sound(worker) /\ out[1].keys # {ErrorKey}
    /\ IF out[1].gen = worker.gen THEN Mends(out[1], page, worker.text)
       ELSE worker.text = Empty /\ (page.edits = {} => Mends(out[1], page, page.source))

Showing ==
  page.flight = 0 => DOMAIN page.nodes \union page.rest = {ErrorKey} \/ Has(page, page.source)

HtmlInv == Superseded /\ ResetAhead /\ (~page.terminal /\ ~spoiled => Trusted /\ Mending /\ Showing)

LEMMA NothingIn == Keys(Empty) = {} /\ Chars(Empty) = 0 /\ Empty \in Texts /\ Empty[1] = 0
<1>1. Keys(Empty) = {}
  BY DEF Keys, Empty
<1>2. 1 \in Blocks
  BY PreviewAssumption DEF Blocks
<1> QED BY <1>1, <1>2, FS_EmptySet, FixedTexts DEF Chars, Empty

\* The key of the error block is of no text.
LEMMA ErrorIsNoBlock == ASSUME NEW t \in Texts PROVE ErrorKey \notin Keys(t) /\ Keys(t) # {ErrorKey}
<1>1. \A k \in Keys(t) : k[1] \in Blocks /\ k[1] # 0
  BY DEF Keys, Blocks
<1>2. ErrorKey[1] = 0
  BY DEF ErrorKey
<1> QED BY <1>1, <1>2

\* pump() leaves the blocks alone, and sends when it may and there is something to send.
LEMMA PumpHtml ==
  ASSUME NEW p, PageShaped(p)
  PROVE /\ Pump(p).page.nodes = p.nodes /\ Pump(p).page.rest = p.rest /\ Pump(p).page.html = p.html
        /\ Pump(p).page.source = p.source /\ Pump(p).page.terminal = p.terminal
        /\ p.flight = 0 /\ ~p.terminal /\ (p.full # {} \/ p.edits # {}) =>
             /\ Pump(p).page.flight # 0 /\ Pump(p).page.full = {}
             /\ \E m : Pump(p).sent = <<m>> /\ m.type # "reset"
<1> DEFINE n == p.seq + 1
           B == [source : Texts, full : SUBSET Texts, edits : SUBSET EditType, seq : Nat, flight : Nat, known : Nat,
                 nodes : {p.nodes}, rest : {p.rest}, html : {p.html}, fails : {p.fails}, terminal : {p.terminal}]
           Like(P) == P.nodes = p.nodes /\ P.rest = p.rest /\ P.html = p.html /\ P.source = p.source /\ P.terminal = p.terminal
<1>0. n \in Nat /\ n # 0 /\ p.source \in Texts /\ {p.source} \subseteq Texts /\ p \in B
  BY DEF PageShaped
<1> HIDE DEF n
<1>1. CASE p.flight # 0 \/ p.terminal \/ (p.full = {} /\ p.edits = {})
  BY <1>1, PumpWaits
<1>2. CASE ~(p.flight # 0 \/ p.terminal \/ (p.full = {} /\ p.edits = {})) /\ p.edits # {} /\ p.known = 0
  <2> DEFINE q == [p EXCEPT !.edits = {}, !.full = {p.source}]
             P == [q EXCEPT !.seq = n, !.flight = n, !.full = {}]
             m == [NoMsg EXCEPT !.type = "render", !.seq = n, !.text = CHOOSE t \in q.full : TRUE]
  <2>1. q \in B /\ q.full = {p.source} /\ q.seq = p.seq /\ Like(q)
    BY <1>0
  <2>2. Pump(p).page = P /\ Pump(p).sent = <<m>>
    BY <1>2, <2>1 DEF Pump, n
  <2>3. m.type = "render"
    BY DEF NoMsg
  <2> HIDE DEF q
  <2>4. P \in B /\ Like(P) /\ P.flight = n /\ P.full = {}
    BY <1>0, <2>1
  <2> HIDE DEF P, m, B
  <2> QED BY <1>0, <2>2, <2>3, <2>4
<1>3. CASE /\ ~(p.flight # 0 \/ p.terminal \/ (p.full = {} /\ p.edits = {}))
           /\ ~(p.edits # {} /\ p.known = 0) /\ p.full # {}
  <2> DEFINE P == [p EXCEPT !.seq = n, !.flight = n, !.full = {}]
             m == [NoMsg EXCEPT !.type = "render", !.seq = n, !.text = CHOOSE t \in p.full : TRUE]
  <2>1. Pump(p).page = P /\ Pump(p).sent = <<m>>
    BY <1>3 DEF Pump, n
  <2>2. m.type = "render"
    BY DEF NoMsg
  <2>3. Like(P) /\ P.flight = n /\ P.full = {}
    BY <1>0
  <2> HIDE DEF P, m, B
  <2> QED BY <1>0, <2>1, <2>2, <2>3
<1>4. CASE ~(p.flight # 0 \/ p.terminal \/ (p.full = {} /\ p.edits = {})) /\ p.full = {} /\ p.known # 0
  <2> DEFINE P == [p EXCEPT !.seq = n, !.flight = n, !.edits = {}]
             e == CHOOSE x \in p.edits : TRUE
             m == [type |-> "patch", seq |-> n, text |-> e.ops, gen |-> p.known, base |-> e.base, chars |-> e.chars]
  <2>1. Pump(p).page = P /\ Pump(p).sent = <<m>>
    BY <1>4 DEF Pump, n
  <2>2. m.type = "patch"
    OBVIOUS
  <2>3. Like(P) /\ P.flight = n /\ P.full = {}
    BY <1>0, <1>4
  <2> HIDE DEF P, m, B
  <2> QED BY <1>0, <2>1, <2>2, <2>3
<1> QED BY <1>1, <1>2, <1>3, <1>4

\* The message that follows the resets: the resets are still there.
LEMMA AfterReset ==
  ASSUME NEW before \in Seq(MsgType), before # <<>>, before[Len(before)].type = "reset", NEW m,
         inbox' = before \o <<m>>
  PROVE ~NoReset'
<1>1. Len(before) \in 1..Len(inbox') /\ inbox'[Len(before)] = before[Len(before)]
  OBVIOUS
<1> QED BY <1>1 DEF NoReset

\* A renderer that sends the whole text behind a reset has nothing to show yet.
LEMMA ResetSends ==
  ASSUME NEW P, PageShaped(P), P.flight = 0, ~P.terminal, P.full # {},
         NEW before \in Seq(MsgType), before # <<>>, before[Len(before)].type = "reset",
         Pumping(P, before), out' = <<>>, Superseded'
  PROVE HtmlInv'
<1>1. PICK m : Pump(P).sent = <<m>>
  BY PumpHtml
<1>2. page'.flight # 0 /\ page'.full = {} /\ inbox' = before \o <<m>>
  BY <1>1, PumpHtml DEF Pumping
<1>3. ~NoReset'
  BY <1>2, AfterReset
<1> QED BY <1>2, <1>3 DEF HtmlInv, ResetAhead, Trusted, Mending, Showing

\* A new worker knows nothing.
LEMMA NewSound ==
  ASSUME NEW g
  PROVE /\ Sound(NewWorker(g)) /\ NewWorker(g).text = Empty /\ NewWorker(g).busy = NoMsg
        /\ NewWorker(g).held = NoMap
<1>1. NewWorker(g).text = Empty /\ NewWorker(g).busy = NoMsg /\ NewWorker(g).env = 0 /\ NewWorker(g).held = NoMap
  BY DEF NewWorker
<1>2. NoMap = [k \in Keys(Empty) |-> Empty[1]]
  BY NothingIn DEF NoMap
<1> QED BY <1>1, <1>2, NothingIn DEF Sound

LEMMA ClearedSound ==
  ASSUME NEW v, WorkerShaped(v)
  PROVE Sound(CacheCleared(v)) /\ CacheCleared(v).text = Empty
<1>1. /\ CacheCleared(v).text = Empty /\ CacheCleared(v).env = 0 /\ CacheCleared(v).held = NoMap
  BY DEF CacheCleared, WorkerShaped
<1>2. NoMap = [k \in Keys(Empty) |-> Empty[1]]
  BY NothingIn DEF NoMap
<1> QED BY <1>1, <1>2, NothingIn DEF Sound

LEMMA HtmlInit == PreviewInit => HtmlInv
<1> SUFFICES ASSUME PreviewInit PROVE HtmlInv
  OBVIOUS
<1> DEFINE t == [b \in Blocks |-> 1]
           n == NewPage(t)
           P == Invalidated(n)
<1>1. PageShaped(P) /\ P.flight = 0 /\ ~P.terminal /\ P.full # {}
  <2>1. t \in Texts /\ 1 \in Nat
    BY FixedTexts
  <2>2. PageShaped(n) /\ QueuedOnce(n) /\ n.flight = 0 /\ ~n.terminal
    BY <2>1, NewFacts
  <2>3. Queues(n, P) /\ P.flight = n.flight
    BY <2>2, InvalidatedFacts
  <2> HIDE DEF n, P
  <2> QED BY <2>2, <2>3 DEF Queues
<1>2. page = Pump(P).page /\ worker = NewWorker(1) /\ inbox = <<ResetMsg>> \o Pump(P).sent /\ out = <<>>
  BY DEF PreviewInit
<1> HIDE DEF t, n, P
<1>3. PICK m : Pump(P).sent = <<m>> /\ Pump(P).page.flight # 0 /\ Pump(P).page.full = {}
  BY <1>1, PumpHtml
<1>4. inbox = <<ResetMsg>> \o <<m>>
  BY <1>2, <1>3
<1>5. ~NoReset
  <2>1. 1 \in 1..Len(inbox) /\ inbox[1] = ResetMsg
    BY <1>4
  <2> QED BY <2>1, FixedTexts DEF NoReset
<1>6. Superseded
  BY <1>2, NewSound DEF Superseded
<1> QED BY <1>2, <1>3, <1>5, <1>6 DEF HtmlInv, ResetAhead, Trusted, Mending, Showing

-----------------------------------------------------------------------------
(* The page. *)

LEMMA HtmlEdit ==
  ASSUME PreviewInv, HtmlInv, ~page.terminal, NEW b \in Blocks, NEW v \in 0..Versions,
         Pumping(Updated(b, v), inbox), UNCHANGED <<worker, out, spoiled>>
  PROVE HtmlInv'
<1> DEFINE p == Updated(b, v)
<1>1. /\ PageShaped(p) /\ p.edits # {} /\ p.flight = page.flight /\ p.full = page.full /\ p.terminal = page.terminal
      /\ p.nodes = page.nodes /\ p.rest = page.rest /\ p.html = page.html
  <2>1. PageShaped(p) /\ p.edits # {} /\ p.flight = page.flight /\ p.full = page.full /\ p.terminal = page.terminal
    BY UpdatedFacts
  <2>2. p.nodes = page.nodes /\ p.rest = page.rest /\ p.html = page.html
    BY QueueFacts DEF Updated, PageShaped
  <2> QED BY <2>1, <2>2
<1> HIDE DEF p
<1>2. page' = Pump(p).page /\ inbox' = inbox \o Pump(p).sent
  BY DEF Pumping, p
<1>3. page'.nodes = page.nodes /\ page'.rest = page.rest /\ page'.html = page.html /\ ~page'.terminal
  BY <1>1, <1>2, PumpHtml
<1>4. \A k, d : Painted(page', k, d) <=> Painted(page, k, d)
  BY <1>3 DEF Painted
<1>5. Superseded'
  BY DEF HtmlInv, Superseded
<1>6. CASE page.flight = 0
  <2>1. Settled
    BY <1>6, QueueFacts
  <2>2. inbox = <<>> /\ out = <<>> /\ page.full = {}
    BY <2>1 DEF Settled, Quiet
  <2>3. page'.flight # 0 /\ page'.full = {}
    BY <1>1, <1>2, <1>6, PumpHtml
  <2>4. ~spoiled => Sound(worker) /\ Has(page, worker.text)
    BY <2>2 DEF HtmlInv, Trusted, NoReset
  <2>5. ~spoiled => Trusted'
    BY <1>4, <2>4 DEF Trusted, Has, Sound
  <2> QED BY <1>5, <2>2, <2>3, <2>5 DEF HtmlInv, ResetAhead, Mending, Showing
<1>7. CASE page.flight # 0
  <2>1. page' = p /\ inbox' = inbox
    <3>1. Pump(p).page = p /\ Pump(p).sent = <<>>
      BY <1>1, <1>7, PumpWaits
    <3> QED BY <1>2, <3>1, QueueFacts
  <2>2. ResetAhead'
    BY <1>1, <2>1 DEF HtmlInv, ResetAhead, Sound
  <2>3. ~spoiled => Trusted'
    BY <1>1, <1>4, <2>1 DEF HtmlInv, Trusted, NoReset, Has, Sound
  <2>4. ~spoiled => Mending'
    BY <1>1, <1>4, <2>1 DEF HtmlInv, Mending, Mends, Sound
  <2> QED BY <1>1, <1>5, <1>7, <2>1, <2>2, <2>3, <2>4 DEF HtmlInv, Showing
<1> QED BY <1>6, <1>7, QueueFacts

LEMMA ResetBefore ==
  ASSUME NEW s \in Seq(MsgType)
  PROVE /\ Append(s, ResetMsg) \in Seq(MsgType) /\ Append(s, ResetMsg) # <<>>
        /\ Append(s, ResetMsg)[Len(Append(s, ResetMsg))].type = "reset"
BY FixedTexts

LEMMA HtmlInvalidate ==
  ASSUME PreviewInv, HtmlInv, Invalidate PROVE HtmlInv'
<1> DEFINE P == Invalidated(page)
           before == Append(inbox, ResetMsg)
<1>1. ~page.terminal /\ Pumping(P, before) /\ UNCHANGED <<worker, out>>
  BY DEF Invalidate
<1>2. PageShaped(P) /\ P.flight = page.flight /\ ~P.terminal /\ P.full # {}
  BY <1>1, QueueFacts, InvalidatedFacts DEF Queues
<1>3. before \in Seq(MsgType) /\ before # <<>> /\ before[Len(before)].type = "reset"
  BY QueueFacts, ResetBefore
<1>4. Superseded'
  BY <1>1 DEF HtmlInv, Superseded, Sound
<1> HIDE DEF P, before
<1>5. CASE page.flight = 0
  <2>1. out' = <<>>
    BY <1>1, <1>5, QueueFacts DEF Settled, Quiet
  <2> QED BY <1>1, <1>2, <1>3, <1>4, <1>5, <2>1, ResetSends
<1>6. CASE page.flight # 0
  <2>1. Pump(P).page = P /\ Pump(P).sent = <<>>
    BY <1>2, <1>6, PumpWaits
  <2>2. page' = P /\ inbox' = before
    BY <1>1, <1>3, <2>1 DEF Pumping
  <2> QED BY <1>2, <1>3, <1>4, <1>6, <2>2 DEF HtmlInv, ResetAhead, Trusted, Mending, Showing
<1> QED BY <1>5, <1>6, QueueFacts

LEMMA OneResetBefore ==
  <<ResetMsg>> \in Seq(MsgType) /\ <<ResetMsg>> # <<>> /\ <<ResetMsg>>[Len(<<ResetMsg>>)].type = "reset"
BY FixedTexts

LEMMA HtmlRemount ==
  ASSUME PreviewInv, HtmlInv, Remount PROVE HtmlInv'
<1> DEFINE n == NewPage(page.source)
           P == Invalidated(n)
<1>1. PageShaped(P) /\ P.flight = 0 /\ ~P.terminal /\ P.full # {}
  <2>1. page.source \in Texts /\ 1 \in Nat
    BY QueueFacts
  <2>2. PageShaped(n) /\ QueuedOnce(n) /\ n.flight = 0 /\ ~n.terminal
    BY <2>1, NewFacts
  <2>3. Queues(n, P) /\ P.flight = n.flight
    BY <2>2, InvalidatedFacts
  <2> HIDE DEF n, P
  <2> QED BY <2>2, <2>3 DEF Queues
<1>2. worker' = NewWorker(gens + 1) /\ out' = <<>> /\ Pumping(P, <<ResetMsg>>)
  BY DEF Remount
<1> HIDE DEF n, P
<1>3. Superseded'
  BY <1>2, NewSound DEF Superseded
<1> QED BY <1>1, <1>2, <1>3, OneResetBefore, ResetSends

LEMMA HtmlLost ==
  ASSUME PreviewInv, HtmlInv, ~page.terminal, WorkerLost PROVE HtmlInv'
<1> DEFINE p == [page EXCEPT !.fails = @ + 1]
           P == Recovered(p)
<1>1. /\ worker' = NewWorker(gens + 1) /\ out' = <<>>
      /\ \/ page' = Stopped(p) /\ inbox' = <<>>
         \/ Pumping(P, <<ResetMsg>>)
  BY DEF WorkerLost
<1>2. PageShaped(p) /\ ~p.terminal
  BY QueueFacts DEF PageShaped
<1> HIDE DEF p
<1>3. PageShaped(P) /\ P.flight = 0 /\ ~P.terminal /\ P.full # {}
  <2>1. p.source \in Texts /\ {p.source} \subseteq Texts
    BY <1>2 DEF PageShaped
  <2> QED BY <1>2, <2>1 DEF Recovered, PageShaped
<1>4. Stopped(p).terminal
  BY <1>2 DEF Stopped, PageShaped
<1>5. Superseded'
  BY <1>1, NewSound DEF Superseded
<1> HIDE DEF P
<1>6. CASE page' = Stopped(p)
  BY <1>4, <1>5, <1>6 DEF HtmlInv, ResetAhead
<1>7. CASE Pumping(P, <<ResetMsg>>)
  BY <1>1, <1>3, <1>5, <1>7, OneResetBefore, ResetSends
<1> QED BY <1>1, <1>6, <1>7

LEMMA HtmlPaint ==
  ASSUME PreviewInv, HtmlInv, IdlePaint PROVE HtmlInv'
<1> DEFINE k == CHOOSE x \in page.rest : Rank(page.rest, x) = 0
           painted == [x \in DOMAIN page.nodes \union {k} |->
                         IF x = k THEN Nodes(page, {k}, page.html)[k] ELSE page.nodes[x]]
           p == [page EXCEPT !.rest = @ \ {k}, !.nodes = painted]
<1>1. page' = p /\ UNCHANGED <<worker, inbox, out, spoiled>> /\ page.rest # {}
  BY DEF IdlePaint
<1>2. k \in page.rest /\ PageShaped(page)
  BY <1>1, QueueFacts, FirstPlace
<1>3. DOMAIN painted = DOMAIN page.nodes \union {k}
      /\ (\A x \in DOMAIN page.nodes : x # k => painted[x] = page.nodes[x])
      /\ (k \in DOMAIN page.html => painted[k] = page.html[k])
  BY DEF Nodes
<1> HIDE DEF k, painted
<1>4. /\ p.full = page.full /\ p.edits = page.edits /\ p.source = page.source /\ p.html = page.html
      /\ p.flight = page.flight /\ p.terminal = page.terminal /\ p.rest = page.rest \ {k} /\ p.nodes = painted
  BY <1>2 DEF PageShaped
<1> HIDE DEF p
<1>5. DOMAIN page'.nodes \union page'.rest = DOMAIN page.nodes \union page.rest
  BY <1>1, <1>2, <1>3, <1>4
<1>6. \A x, d : Painted(page, x, d) => Painted(page', x, d)
  BY <1>1, <1>2, <1>3, <1>4 DEF Painted
<1>7. Superseded' /\ ResetAhead'
  BY <1>1, <1>4 DEF HtmlInv, Superseded, ResetAhead, Sound
<1>8. Trusted => Trusted'
  BY <1>1, <1>4, <1>6 DEF Trusted, NoReset, Has, Sound
<1>9. Mending => Mending'
  BY <1>1, <1>4, <1>6 DEF Mending, Mends, Sound
<1>10. Showing => Showing'
  BY <1>1, <1>4, <1>5, <1>6 DEF Showing, Has
<1> QED BY <1>1, <1>4, <1>7, <1>8, <1>9, <1>10 DEF HtmlInv

\* The page after an answer has what the answer and the page had.
LEMMA PatchedHas ==
  ASSUME NEW q, PageShaped(q), q.rest = {}, NEW r, NEW t \in Texts, r.keys = Keys(t), Mends(r, q, t)
  PROVE Has(Patched(q, r), t)
<1> DEFINE first == IF DOMAIN q.nodes = {} THEN {k \in r.keys : Rank(r.keys, k) < FirstPaint} ELSE r.keys
           nodes == Nodes(q, first, r.html)
           P == [q EXCEPT !.nodes = nodes, !.rest = r.keys \ first, !.html = r.html]
<1>1. Patched(q, r) = P
  BY DEF Patched
<1>2. /\ DOMAIN nodes = first
      /\ \A k \in first : /\ k \in DOMAIN r.html => nodes[k] = r.html[k]
                          /\ k \notin DOMAIN r.html /\ k \in DOMAIN q.nodes => nodes[k] = q.nodes[k]
  BY DEF Nodes
<1>3. first \subseteq r.keys /\ (DOMAIN q.nodes # {} => first = r.keys)
  OBVIOUS
<1> HIDE DEF first, nodes
<1>4. P.nodes = nodes /\ P.rest = r.keys \ first /\ P.html = r.html
  BY DEF PageShaped
<1> HIDE DEF P
<1>5. ASSUME NEW k \in Keys(t) PROVE Painted(P, k, t[1])
  <2>1. CASE k \in DOMAIN r.html
    <3>1. r.html[k] = t[1]
      BY <1>5, <2>1 DEF Mends
    <3>2. CASE k \in first
      <4>1. k \notin P.rest /\ k \in DOMAIN P.nodes /\ P.nodes[k] = t[1]
        BY <1>2, <1>4, <2>1, <3>1, <3>2
      <4> QED BY <4>1 DEF Painted
    <3>3. CASE k \notin first
      <4>1. k \in P.rest /\ k \in DOMAIN P.html /\ P.html[k] = t[1]
        BY <1>4, <1>5, <2>1, <3>1, <3>3
      <4> QED BY <4>1 DEF Painted
    <3> QED BY <3>2, <3>3
  <2>2. CASE k \notin DOMAIN r.html
    <3>1. k \in DOMAIN q.nodes /\ q.nodes[k] = t[1]
      BY <1>5, <2>2 DEF Mends, Painted
    <3>2. first = r.keys
      BY <1>3, <3>1
    <3>3. k \notin P.rest /\ k \in DOMAIN P.nodes /\ P.nodes[k] = t[1]
      BY <1>2, <1>4, <1>5, <2>2, <3>1, <3>2
    <3> QED BY <3>3 DEF Painted
  <2> QED BY <2>1, <2>2
<1> QED BY <1>1, <1>5 DEF Has

LEMMA HtmlRendered ==
  ASSUME PreviewInv, HtmlInv, OnRendered PROVE HtmlInv'
<1> DEFINE r == out[1]
           p == [page EXCEPT !.flight = 0, !.fails = 0]
           q == [p EXCEPT !.known = r.gen]
           z == [q EXCEPT !.edits = {}, !.full = {q.source}]
<1>1. out # <<>> /\ UNCHANGED worker /\ out' = Tail(out)
  BY DEF OnRendered
<1>2. /\ ~page.terminal /\ page.flight # 0 /\ worker.busy = NoMsg /\ OnlyResets /\ out = <<r>>
  BY <1>1, AnswerFacts
<1>3. PICK T \in Texts : Leads(page, T) /\ Answers(r, T)
  BY <1>1, AnswerFacts
<1>4. Head(out) = r /\ out' = <<>>
  BY <1>1, <1>2
<1>5. /\ r.seq = page.flight
      /\ IF r.type = "resync" THEN Pumping(z, Append(inbox, ResetMsg))
         ELSE Pumping(Patched(q, r), inbox) /\ spoiled' = (spoiled \/ page.rest # {})
  BY <1>3, <1>4 DEF OnRendered, Answers
<1>6. inbox \in Seq(MsgType) /\ (inbox # <<>> => page.full # {})
  BY <1>2, QueueFacts DEF OnlyResets
<1>7. r.gen \in Nat /\ (r.type = "resync" \/ (r.type = "rendered" /\ r.keys \in {Keys(T), {ErrorKey}}
        /\ (page.full = {} /\ r.gen = worker.gen => worker.text = T)))
  BY <1>3 DEF Answers
<1>8. ~spoiled => Mending
  BY <1>2 DEF HtmlInv
<1>9. Superseded'
  BY <1>1, <1>2 DEF Superseded
<1>10. ResetAhead
  BY DEF HtmlInv
<1>11. ~spoiled /\ r.type = "rendered" /\ page.full = {} =>
         /\ Sound(worker) /\ r.keys # {ErrorKey}
         /\ IF r.gen = worker.gen THEN Mends(r, page, worker.text)
            ELSE worker.text = Empty /\ (page.edits = {} => Mends(r, page, page.source))
  BY <1>1, <1>8 DEF Mending
<1> HIDE DEF r
<1>12. /\ PageShaped(q) /\ q.full = page.full /\ q.edits = page.edits /\ q.source = page.source
       /\ q.flight = 0 /\ q.terminal = page.terminal
       /\ q.nodes = page.nodes /\ q.rest = page.rest /\ q.html = page.html
  <2>1. /\ PageShaped(p) /\ p.full = page.full /\ p.edits = page.edits /\ p.source = page.source
        /\ p.flight = 0 /\ p.terminal = page.terminal
        /\ p.nodes = page.nodes /\ p.rest = page.rest /\ p.html = page.html
    BY QueueFacts DEF PageShaped
  <2> HIDE DEF p
  <2> QED BY <1>7, <2>1 DEF PageShaped
<1> HIDE DEF p, q
<1>13. QueuedOnce(q) /\ Leads(q, T)
  BY <1>3, <1>12, QueueFacts DEF QueuedOnce, Leads
<1>14. CASE r.type = "resync"
  <2>1. PageShaped(z) /\ z.flight = 0 /\ ~z.terminal /\ z.full # {}
    <3>1. q.source \in Texts /\ {q.source} \subseteq Texts
      BY <1>12 DEF PageShaped
    <3> QED BY <1>2, <1>12, <3>1 DEF PageShaped
  <2> DEFINE before == Append(inbox, ResetMsg)
  <2>2. before \in Seq(MsgType) /\ before # <<>> /\ before[Len(before)].type = "reset"
    BY <1>6, ResetBefore
  <2>3. Pumping(z, before)
    BY <1>5, <1>14
  <2> HIDE DEF z, before
  <2> QED BY <1>4, <1>9, <2>1, <2>2, <2>3, ResetSends
<1>15. CASE r.type = "rendered"
  <2> DEFINE P == Patched(q, r)
  <2>1. Keys(T) \subseteq Places /\ {ErrorKey} \subseteq Places
    BY TextFacts, FixedTexts
  <2>2. r.keys \in {Keys(T), {ErrorKey}} /\ (page.full = {} /\ r.gen = worker.gen => worker.text = T)
    BY <1>7, <1>15
  <2>3. r.keys \subseteq Places
    BY <2>1, <2>2
  <2>4. /\ PageShaped(P) /\ P.full = page.full /\ P.edits = page.edits /\ P.source = page.source
        /\ P.flight = 0 /\ ~P.terminal
    BY <1>2, <1>12, <1>13, <2>3, PatchedFacts
  <2>5. Pumping(P, inbox) /\ spoiled' = (spoiled \/ page.rest # {})
    BY <1>5, <1>15
  <2>6. /\ page'.nodes = P.nodes /\ page'.rest = P.rest /\ page'.html = P.html /\ page'.source = P.source
    BY <2>4, <2>5, PumpHtml DEF Pumping
  <2>7. \A t : Has(P, t) => Has(page', t)
    BY <2>6 DEF Has, Painted
  <2>8. ~spoiled' => ~spoiled /\ page.rest = {}
    BY <2>5
  <2>9. \A t : Mends(r, page, t) => Mends(r, q, t)
    BY <1>12 DEF Mends, Painted
  <2> HIDE DEF P
  <2>10. ASSUME ~spoiled', page.full = {}, NEW t \in Texts, Mends(r, page, t), r.keys = Keys(t)
         PROVE Has(page', t)
    <3>1. q.rest = {} /\ Mends(r, q, t)
      BY <1>12, <2>8, <2>9, <2>10
    <3>2. Has(P, t)
      BY <1>12, <2>10, <3>1, PatchedHas DEF P
    <3> QED BY <2>7, <3>2
  <2>11. ASSUME ~spoiled', page.full = {} PROVE r.keys = Keys(T)
    BY <1>11, <1>15, <2>2, <2>8, <2>11
  <2>12. CASE P.full # {}
    <3>1. PICK m : Pump(P).sent = <<m>> /\ page'.flight # 0 /\ page'.full = {}
      BY <2>4, <2>5, <2>12, PumpHtml DEF Pumping
    <3>2. inbox' = inbox \o <<m>>
      BY <2>5, <3>1 DEF Pumping
    <3>3. Trusted'
      <4>1. CASE inbox # <<>> /\ inbox[Len(inbox)].type = "reset"
        BY <1>6, <3>2, <4>1, AfterReset DEF Trusted
      <4>2. CASE worker.text = Empty /\ Sound(worker)
        BY <1>1, <4>2, NothingIn DEF Trusted, Has, Sound
      <4> QED BY <1>2, <1>10, <2>4, <2>12, <4>1, <4>2 DEF ResetAhead
    <3> QED BY <1>4, <1>9, <3>1, <3>3 DEF HtmlInv, ResetAhead, Mending, Showing
  <2>13. CASE P.full = {}
    <3>1. page.full = {} /\ inbox = <<>>
      BY <1>6, <2>4, <2>13
    <3>2. page'.full = {}
      <4>1. CASE P.edits # {}
        BY <2>4, <2>5, <4>1, PumpHtml DEF Pumping
      <4>2. CASE P.edits = {}
        BY <2>5, <2>13, <4>2, PumpWaits DEF Pumping
      <4> QED BY <4>1, <4>2
    <3>3. ASSUME ~spoiled' PROVE Trusted'
      <4>1. Sound(worker)
        BY <1>11, <1>15, <2>8, <3>1, <3>3
      <4>2. CASE r.gen = worker.gen
        <5>1. worker.text = T /\ Mends(r, page, T)
          BY <1>11, <1>15, <2>2, <2>8, <3>1, <3>3, <4>2
        <5>2. Has(page', T)
          BY <2>10, <2>11, <3>1, <3>3, <5>1
        <5> QED BY <1>1, <4>1, <5>1, <5>2 DEF Trusted, Has, Sound
      <4>3. CASE r.gen # worker.gen
        <5>1. worker.text = Empty
          BY <1>11, <1>15, <2>8, <3>1, <3>3, <4>3
        <5> QED BY <1>1, <4>1, <5>1, NothingIn DEF Trusted, Has, Sound
      <4> QED BY <4>2, <4>3
    <3>4. ASSUME ~spoiled' PROVE Showing'
      <4>1. CASE P.edits # {}
        BY <2>4, <2>5, <4>1, PumpHtml DEF Pumping, Showing
      <4>2. CASE P.edits = {}
        <5>1. page.edits = {} /\ page.source = T
          BY <1>3, <2>4, <3>1, <4>2 DEF Leads
        <5>2. Mends(r, page, T)
          BY <1>11, <1>15, <2>2, <2>8, <3>1, <3>4, <5>1
        <5>3. Has(page', T)
          BY <2>10, <2>11, <3>1, <3>4, <5>2
        <5>4. page'.source = T
          BY <2>4, <2>6, <5>1
        <5> QED BY <5>3, <5>4 DEF Showing, Has
      <4> QED BY <4>1, <4>2
    <3> QED BY <1>4, <1>9, <3>2, <3>3, <3>4 DEF HtmlInv, ResetAhead, Mending
  <2> QED BY <2>12, <2>13
<1> QED BY <1>7, <1>14, <1>15

-----------------------------------------------------------------------------
(* The worker. *)

LEMMA HtmlTake ==
  ASSUME PreviewInv, HtmlInv, TakeMessage PROVE HtmlInv'
<1> DEFINE m == Head(inbox)
<1>1. inbox # <<>> /\ Free /\ inbox' = Tail(inbox) /\ UNCHANGED <<page, spoiled>> /\ inbox \in Seq(MsgType)
  BY QueueFacts DEF TakeMessage
<1>2. /\ ~page.terminal /\ page.flight # 0
      /\ \E T \in Texts : Leads(page, T) /\ (Posted(T) \/ InHand(T) \/ Replied(T))
  BY <1>1, WorkFacts
<1>3. PICK T \in Texts : Posted(T) \/ InHand(T) \/ Replied(T)
  BY <1>2
<1>4. m = inbox[1] /\ m \in MsgType /\ Len(inbox) \in Nat /\ Len(inbox) >= 1
      /\ Len(inbox') = Len(inbox) - 1 /\ (\A j \in 1..Len(inbox') : inbox'[j] = inbox[j + 1])
      /\ (Len(inbox') = 0 => inbox' = <<>>)
  BY <1>1
<1>5. \/ m.type = "reset" /\ worker' = CacheCleared(worker) /\ UNCHANGED out
      \/ /\ m.type # "reset" /\ UNCHANGED out
         /\ \E b : worker' = [worker EXCEPT !.busy = b, !.of = worker.gen]
      \/ /\ m.type # "reset" /\ UNCHANGED worker
         /\ \E r : r.type = "resync" /\ out' = Append(out, r)
  <2>1. CASE m.type = "reset"
    BY <2>1 DEF TakeMessage
  <2>2. CASE m.type = "render"
    BY <2>2 DEF TakeMessage
  <2>3. CASE m.type = "patch" /\ Applies(m)
    BY <2>3 DEF TakeMessage
  <2>4. CASE m.type \notin {"reset", "render"} /\ ~(m.type = "patch" /\ Applies(m))
    <3> DEFINE r == [type |-> "resync", seq |-> m.seq, gen |-> worker.gen, keys |-> {}, html |-> NoMap]
    <3>1. UNCHANGED worker /\ out' = Append(out, r) /\ r.type = "resync"
      BY <2>4 DEF TakeMessage
    <3> HIDE DEF r
    <3> QED BY <2>4, <3>1
  <2> QED BY <2>1, <2>2, <2>3, <2>4
<1> HIDE DEF m
<1>6. page.full # {} /\ Len(inbox) > 1 /\ inbox[Len(inbox)].type = "reset" =>
        inbox' # <<>> /\ inbox'[Len(inbox')].type = "reset"
  <2> SUFFICES ASSUME Len(inbox) > 1, inbox[Len(inbox)].type = "reset"
               PROVE inbox' # <<>> /\ inbox'[Len(inbox')].type = "reset"
    OBVIOUS
  <2>1. Len(inbox') \in 1..Len(inbox') /\ Len(inbox') + 1 = Len(inbox)
    BY <1>4
  <2>2. inbox'[Len(inbox')] = inbox[Len(inbox)]
    BY <1>4, <2>1
  <2> QED BY <2>1, <2>2
<1>7. Showing'
  BY <1>1, <1>2 DEF Showing
<1>8. CASE m.type = "reset" /\ worker' = CacheCleared(worker) /\ UNCHANGED out
  <2>1. Sound(worker') /\ worker'.text = Empty /\ worker'.busy = worker.busy /\ worker'.of = worker.of
        /\ worker'.gen = worker.gen
    BY <1>8, QueueFacts, ClearedSound, ClearedFacts
  <2>2. Superseded'
    BY <2>1 DEF Superseded, Sound
  <2>3. ResetAhead'
    <3>1. CASE Len(inbox) > 1
      BY <1>1, <1>6, <3>1 DEF HtmlInv, ResetAhead
    <3>2. CASE Len(inbox) = 1
      <4>1. inbox' = <<>>
        BY <1>4, <3>2
      <4> QED BY <1>1, <2>1, <4>1 DEF Free, ResetAhead, Sound
    <3> QED BY <1>4, <3>1, <3>2
  <2>4. Trusted'
    BY <1>1, <2>1, NothingIn DEF Trusted, Has, Sound
  <2>5. Mending'
    <3>1. out # <<>> => page.full # {}
      BY <1>1, <1>3 DEF Posted, InHand, Replied, OnlyResets
    <3> QED BY <1>1, <1>8, <3>1 DEF Mending
  <2> QED BY <1>1, <1>7, <2>2, <2>3, <2>4, <2>5 DEF HtmlInv
<1>9. ASSUME m.type # "reset"
      PROVE /\ out = <<>>
            /\ page.full # {} => Len(inbox) > 1 /\ inbox[Len(inbox)].type = "reset"
            /\ page.full = {} => NoReset
  <2>1. Posted(T)
    <3>1. ~OnlyResets
      BY <1>4, <1>9 DEF OnlyResets
    <3> QED BY <1>3, <3>1 DEF InHand, Replied
  <2>2. PICK i \in 1..Len(inbox) : PostedAt(T, i)
    BY <2>1 DEF Posted
  <2>3. i = 1
    BY <1>4, <1>9, <2>2 DEF PostedAt
  <2>4. page.full # {} => Len(inbox) > 1 /\ inbox[Len(inbox)].type = "reset"
    <3>1. ResetAhead /\ inbox # <<>>
      BY <1>1 DEF HtmlInv
    <3>2. page.full # {} => inbox[Len(inbox)].type = "reset"
      BY <1>2, <3>1 DEF ResetAhead
    <3> QED BY <1>4, <1>9, <3>2
  <2>5. page.full = {} => NoReset
    <3>1. page.full = {} => Len(inbox) = 1
      BY <1>4, <2>2, <2>3 DEF PostedAt
    <3>2. inbox[1].type # "reset"
      BY <1>4, <1>9
    <3>3. ASSUME Len(inbox) = 1 PROVE NoReset
      <4>1. \A j \in 1..1 : j = 1
        OBVIOUS
      <4> QED BY <3>2, <3>3, <4>1 DEF NoReset
    <3> QED BY <3>1, <3>3
  <2> QED BY <2>1, <2>4, <2>5 DEF Posted
<1>10. ASSUME m.type # "reset" PROVE ResetAhead'
  BY <1>1, <1>6, <1>9, <1>10 DEF ResetAhead
<1>11. ASSUME m.type # "reset", ~spoiled, page.full = {} PROVE Sound(worker) /\ Has(page, worker.text)
  BY <1>2, <1>9, <1>11 DEF HtmlInv, Trusted
<1>12. CASE /\ m.type # "reset" /\ UNCHANGED out
            /\ \E b : worker' = [worker EXCEPT !.busy = b, !.of = worker.gen]
  <2>1. PICK b : worker' = [worker EXCEPT !.busy = b, !.of = worker.gen]
    BY <1>12
  <2>2. worker'.of = worker'.gen /\ worker'.text = worker.text /\ worker'.env = worker.env /\ worker'.held = worker.held
    BY <2>1, QueueFacts DEF WorkerShaped
  <2>3. Superseded'
    BY <2>2 DEF Superseded
  <2>4. ~spoiled => Trusted'
    BY <1>1, <1>11, <1>12, <2>2 DEF Trusted, Sound, Has
  <2>5. Mending'
    BY <1>9, <1>12 DEF Mending
  <2> QED BY <1>1, <1>7, <1>10, <1>12, <2>3, <2>4, <2>5 DEF HtmlInv
<1>13. CASE /\ m.type # "reset" /\ UNCHANGED worker
            /\ \E r : r.type = "resync" /\ out' = Append(out, r)
  <2>1. PICK r : r.type = "resync" /\ out' = Append(out, r)
    BY <1>13
  <2>2. out' = <<r>> /\ out'[1] = r
    <3>1. out = <<>>
      BY <1>9, <1>13
    <3> QED BY <2>1, <3>1
  <2>3. Superseded'
    BY <1>13 DEF HtmlInv, Superseded, Sound
  <2>4. Trusted' /\ Mending'
    BY <2>1, <2>2 DEF Trusted, Mending
  <2> QED BY <1>7, <1>10, <1>13, <2>3, <2>4 DEF HtmlInv
<1> QED BY <1>5, <1>8, <1>12, <1>13

\* A rendering holds the text rendered, and leaves out only what was held before.
LEMMA RenderingHolds ==
  ASSUME NEW v, WorkerShaped(v), Sound(v), NEW t \in Texts
  PROVE /\ Sound(Rendering(v, t).worker) /\ Rendering(v, t).worker.text = t
        /\ \A k \in Keys(t) :
             IF k \in DOMAIN Rendering(v, t).html THEN Rendering(v, t).html[k] = t[1]
             ELSE k \in Keys(v.text) /\ v.text[1] = t[1]
<1> DEFINE inc == Incremental(v.text, t)
           defs == IF inc THEN v.env ELSE t[1]
           held == IF inc THEN [k \in DOMAIN v.held \ Dirty(v.text, t) |-> v.held[k]] ELSE StillHeld(v, t)
           html == [k \in Keys(t) |-> IF k \in DOMAIN held THEN held[k] ELSE defs]
           x == [v EXCEPT !.text = t, !.env = defs, !.held = html]
           sent == [k \in Keys(t) \ DOMAIN held |-> html[k]]
<1>1. Rendering(v, t) = [worker |-> x, html |-> sent]
  BY DEF Rendering
<1>2. v.env = v.text[1] /\ v.held = [k \in Keys(v.text) |-> v.text[1]]
  BY DEF Sound
<1>3. inc => v.text[1] = t[1]
  BY DEF Incremental
<1>4. defs = t[1]
  BY <1>2, <1>3
<1>5. \A k \in DOMAIN held : k \in Keys(v.text) /\ v.text[1] = t[1] /\ held[k] = t[1]
  <2>1. CASE inc
    BY <1>2, <1>3, <2>1
  <2>2. CASE ~inc /\ t[1] = v.env
    <3>1. held = v.held
      BY <2>2 DEF StillHeld
    <3> QED BY <1>2, <2>2, <3>1
  <2>3. CASE ~inc /\ t[1] # v.env
    <3>1. held = NoMap
      BY <2>3 DEF StillHeld
    <3> QED BY <3>1 DEF NoMap
  <2> QED BY <2>1, <2>2, <2>3
<1> HIDE DEF inc, defs, held
<1>6. html = [k \in Keys(t) |-> t[1]]
  BY <1>4, <1>5
<1> HIDE DEF html
<1>7. x.text = t /\ x.env = defs /\ x.held = html
  BY DEF WorkerShaped
<1>8. /\ DOMAIN sent = Keys(t) \ DOMAIN held
      /\ \A k \in DOMAIN sent : sent[k] = t[1]
  BY <1>6
<1> HIDE DEF x, sent
<1>9. Sound(x)
  BY <1>4, <1>6, <1>7 DEF Sound
<1> QED BY <1>1, <1>5, <1>7, <1>8, <1>9

LEMMA HtmlRender ==
  ASSUME PreviewInv, HtmlInv, Render PROVE HtmlInv'
<1> DEFINE t == worker.busy.text
           v == IF worker.of # worker.gen \/ NeedsFeature(t) THEN CacheCleared(worker) ELSE worker
           html == Rendering(v, t).html
           x == Rendering(v, t).worker
           r == [type |-> "rendered", seq |-> worker.busy.seq, gen |-> worker.of, keys |-> Keys(t), html |-> html]
<1>1. /\ worker.busy # NoMsg /\ UNCHANGED <<page, inbox, spoiled>> /\ out' = Append(out, r)
      /\ worker' = IF worker.of = worker.gen
                   THEN [x EXCEPT !.busy = NoMsg, !.loaded = @ \/ NeedsFeature(t)]
                   ELSE [worker EXCEPT !.busy = NoMsg]
  BY DEF Render
<1>2. PICK T \in Texts : ~page.terminal /\ page.flight # 0 /\ Leads(page, T) /\ InHand(T)
  BY <1>1, HandFacts
<1>3. t = T /\ out = <<>> /\ OnlyResets
  BY <1>2 DEF InHand
<1>4. WorkerShaped(worker) /\ WorkerShaped(CacheCleared(worker)) /\ WorkerShaped(v)
      /\ Sound(CacheCleared(worker)) /\ CacheCleared(worker).text = Empty
  BY QueueFacts, ClearedFacts, ClearedSound
<1>5. v = worker \/ v = CacheCleared(worker)
  OBVIOUS
<1>6. worker.of # worker.gen => v = CacheCleared(worker)
  OBVIOUS
<1> HIDE DEF v, t
<1>7. /\ r.type = "rendered" /\ r.gen = worker.of /\ r.keys = Keys(T) /\ r.html = html
  BY <1>3
<1>8. ASSUME Sound(v)
      PROVE /\ Sound(x) /\ x.text = T
            /\ \A k \in Keys(T) : IF k \in DOMAIN html THEN html[k] = T[1]
                                  ELSE k \in Keys(v.text) /\ v.text[1] = T[1]
  BY <1>3, <1>4, <1>8, RenderingHolds
<1>9. \E e, h : x = [v EXCEPT !.text = t, !.env = e, !.held = h]
  BY DEF Rendering
<1>10. x.gen = worker.gen
  <2>1. v.gen = worker.gen
    BY <1>5, QueueFacts, ClearedFacts
  <2>2. PICK e, h : x = [v EXCEPT !.text = t, !.env = e, !.held = h]
    BY <1>9
  <2> HIDE DEF x
  <2> QED BY <1>4, <2>1, <2>2 DEF WorkerShaped
<1>11. WorkerShaped(x)
  <2>1. PICK e, h : x = [v EXCEPT !.text = t, !.env = e, !.held = h]
    BY <1>9
  <2> HIDE DEF x
  <2> QED BY <1>3, <1>4, <2>1 DEF WorkerShaped
<1> HIDE DEF html, x, r
<1>12. out' = <<r>> /\ out'[1] = r /\ out' # <<>>
  BY <1>1, <1>3
<1>13. Trusted' /\ Showing'
  BY <1>1, <1>2, <1>12 DEF Trusted, Showing
<1>14. inbox # <<>> => page.full # {}
  BY <1>3 DEF OnlyResets
<1>15. ResetAhead /\ Superseded /\ (~spoiled => Trusted)
  BY <1>2 DEF HtmlInv
<1>16. CASE worker.of = worker.gen
  <2> DEFINE l == x.loaded \/ NeedsFeature(t)
             y == [x EXCEPT !.busy = NoMsg]
             u == [y EXCEPT !.loaded = l]
  <2>1. worker' = u
    BY <1>1, <1>16
  <2>2. /\ y.text = x.text /\ y.env = x.env /\ y.held = x.held /\ y.busy = NoMsg /\ y.gen = x.gen
        /\ y \in [gen : Nat, text : Texts, env : {x.env}, held : {x.held}, loaded : {x.loaded},
                  stuck : {x.stuck}, busy : MsgType, of : Nat]
    BY <1>11, FixedTexts DEF WorkerShaped
  <2> HIDE DEF l, y
  <2>3. u.text = y.text /\ u.env = y.env /\ u.held = y.held /\ u.busy = y.busy /\ u.gen = y.gen
    BY <2>2
  <2> HIDE DEF u
  <2>4. worker'.text = x.text /\ worker'.env = x.env /\ worker'.held = x.held /\ worker'.busy = NoMsg
        /\ worker'.gen = worker.gen
    BY <1>10, <2>1, <2>2, <2>3
  <2>5. Superseded'
    BY <2>4 DEF Superseded
  <2>6. ResetAhead'
    BY <1>1, <1>15, <1>16 DEF ResetAhead
  <2>7. ASSUME ~spoiled', page'.full = {} PROVE Sound(worker') /\ worker'.text = T /\ Mends(r, page, T)
    <3>1. NoReset /\ ~spoiled /\ page.full = {}
      BY <1>1, <1>14, <2>7 DEF NoReset
    <3>2. Sound(worker) /\ Has(page, worker.text)
      BY <1>3, <1>15, <3>1 DEF Trusted
    <3>3. Sound(v) /\ Has(page, v.text)
      <4>1. Has(page, Empty)
        BY NothingIn DEF Has
      <4> QED BY <1>4, <1>5, <3>2, <4>1
    <3>4. Mends(r, page, T)
      BY <1>7, <1>8, <3>3 DEF Mends, Has
    <3>5. Sound(worker')
      BY <1>8, <2>4, <3>3 DEF Sound
    <3> QED BY <1>8, <2>4, <3>3, <3>4, <3>5
  <2>8. ASSUME ~spoiled' PROVE Mending'
    <3> SUFFICES ASSUME page'.full = {} PROVE Mending'
      BY DEF Mending
    <3>1. Sound(worker') /\ worker'.text = T /\ Mends(r, page, T)
      BY <2>7, <2>8
    <3>2. r.gen = worker'.gen
      BY <1>7, <1>16, <2>4
    <3>3. Mends(out[1], page, worker.text)'
      BY <1>1, <1>12, <3>1 DEF Mends, Painted
    <3> QED BY <1>7, <1>12, <3>1, <3>2, <3>3, ErrorIsNoBlock DEF Mending, Sound
  <2> QED BY <1>13, <2>5, <2>6, <2>8 DEF HtmlInv
<1>17. CASE worker.of # worker.gen
  <2>1. /\ worker'.text = worker.text /\ worker'.env = worker.env /\ worker'.held = worker.held
        /\ worker'.busy = NoMsg /\ worker'.gen = worker.gen
    BY <1>1, <1>4, <1>17 DEF WorkerShaped
  <2>2. worker.text = Empty /\ Sound(worker)
    BY <1>1, <1>15, <1>17 DEF Superseded
  <2>3. Sound(worker')
    BY <2>1, <2>2 DEF Sound
  <2>4. Superseded'
    BY <2>1 DEF Superseded
  <2>5. ResetAhead'
    BY <1>1, <1>15, <2>1, <2>2 DEF ResetAhead, Sound
  <2>6. Mends(r, page, T)
    BY <1>4, <1>6, <1>7, <1>8, <1>17, NothingIn DEF Mends
  <2>7. Mending'
    <3> SUFFICES ASSUME page'.full = {} PROVE Mending'
      BY DEF Mending
    <3>1. page'.edits = {} => page'.source = T
      BY <1>1, <1>2, <1>17 DEF Leads
    <3>2. r.gen # worker'.gen /\ worker'.text = Empty
      BY <1>7, <1>17, <2>1, <2>2
    <3>3. page'.edits = {} => Mends(out[1], page, page.source)'
      BY <1>1, <1>12, <2>6, <3>1 DEF Mends, Painted
    <3> QED BY <1>7, <1>12, <2>3, <3>2, <3>3, ErrorIsNoBlock DEF Mending, Sound
  <2> QED BY <1>13, <2>4, <2>5, <2>7 DEF HtmlInv
<1> QED BY <1>16, <1>17

LEMMA HtmlFails ==
  ASSUME PreviewInv, HtmlInv, RenderFails PROVE HtmlInv'
<1> DEFINE u == [worker EXCEPT !.busy = NoMsg, !.text = TextAfterFailure(worker.busy.text)]
<1>1. /\ worker.busy # NoMsg /\ worker.of = worker.gen /\ UNCHANGED <<page, inbox>> /\ worker' = u /\ spoiled' = TRUE
  BY DEF RenderFails
<1>2. u.busy = NoMsg
  BY QueueFacts DEF WorkerShaped
<1> HIDE DEF u
<1>3. Superseded'
  BY <1>1, <1>2 DEF Superseded
<1>4. ResetAhead'
  BY <1>1 DEF HtmlInv, ResetAhead
<1> QED BY <1>1, <1>3, <1>4 DEF HtmlInv

LEMMA HtmlHand ==
  ASSUME PreviewInv, HtmlInv, Reevaluate \/ Hang PROVE HtmlInv'
<1>1. worker.busy # NoMsg /\ UNCHANGED <<page, inbox, out, spoiled>>
  BY DEF Reevaluate, Hang
<1>2. PICK T \in Texts : ~page.terminal /\ page.flight # 0 /\ Leads(page, T) /\ InHand(T)
  BY <1>1, HandFacts
<1>3. out = <<>>
  BY <1>2 DEF InHand
<1>4. Mending' /\ Showing'
  BY <1>1, <1>2, <1>3 DEF Mending, Showing
<1>5. CASE Reevaluate
  <2> DEFINE w == NewWorker(gens + 1)
             u == [w EXCEPT !.busy = worker.busy, !.of = worker.of]
  <2>1. worker' = u /\ worker.of = worker.gen
    BY <1>5 DEF Reevaluate
  <2>2. Sound(w) /\ w.text = Empty /\ WorkerShaped(w)
    <3>1. gens + 1 \in Nat /\ page.source \in Texts
      BY QueueFacts
    <3> QED BY <3>1, NewSound, NewFacts
  <2> HIDE DEF w
  <2>3. u.text = w.text /\ u.env = w.env /\ u.held = w.held
    BY <2>2 DEF WorkerShaped
  <2> HIDE DEF u
  <2>4. Sound(worker') /\ worker'.text = Empty
    BY <2>1, <2>2, <2>3 DEF Sound
  <2>5. Superseded'
    BY <2>4 DEF Superseded, Sound
  <2>6. ResetAhead'
    BY <1>1, <2>1 DEF HtmlInv, ResetAhead
  <2>7. Trusted'
    BY <2>4, NothingIn DEF Trusted, Has, Sound
  <2> QED BY <1>4, <2>5, <2>6, <2>7 DEF HtmlInv
<1>6. CASE Hang
  <2> DEFINE u == [worker EXCEPT !.stuck = TRUE]
  <2>1. worker' = u
    BY <1>6 DEF Hang
  <2>2. /\ u.busy = worker.busy /\ u.of = worker.of /\ u.gen = worker.gen /\ u.text = worker.text
        /\ u.env = worker.env /\ u.held = worker.held
    BY QueueFacts DEF WorkerShaped
  <2> HIDE DEF u
  <2>3. Superseded' /\ ResetAhead'
    BY <1>1, <2>1, <2>2 DEF HtmlInv, Superseded, ResetAhead, Sound
  <2>4. Trusted => Trusted'
    BY <1>1, <2>1, <2>2 DEF Trusted, NoReset, Has, Sound
  <2> QED BY <1>1, <1>4, <2>3, <2>4 DEF HtmlInv
<1> QED BY <1>5, <1>6

LEMMA HtmlStill ==
  ASSUME HtmlInv, UNCHANGED previewVars PROVE HtmlInv'
<1>1. UNCHANGED <<page, worker, inbox, out, spoiled>>
  BY DEF previewVars
<1>2. Superseded' /\ ResetAhead'
  BY <1>1 DEF HtmlInv, Superseded, ResetAhead, Sound
<1>3. Trusted => Trusted'
  BY <1>1 DEF Trusted, NoReset, Has, Sound, Painted
<1>4. Mending => Mending'
  BY <1>1 DEF Mending, Mends, Sound, Painted
<1>5. Showing => Showing'
  BY <1>1 DEF Showing, Has, Painted
<1> QED BY <1>1, <1>2, <1>3, <1>4, <1>5 DEF HtmlInv

\* An idle preview has the blocks of the source, each with its rendering, or says
\* that it failed, for any number of blocks, edits, resets and faults of the worker.
THEOREM PreviewShowsSource == PreviewSpec => []ShownIsSource
<1>1. ASSUME PreviewInv, HtmlInv, [PreviewNext]_previewVars PROVE PreviewInv' /\ HtmlInv'
  <2>1. ASSUME NEW b \in Blocks, NEW v \in 0..Versions, EditBlock(b, v) PROVE PreviewInv' /\ HtmlInv'
    <3>1. ~page.terminal /\ Pumping(Updated(b, v), inbox) /\ UNCHANGED <<worker, out, gens, spoiled>>
      BY <2>1 DEF EditBlock
    <3> QED BY <1>1, <3>1, UpdateKept, HtmlEdit
  <2>2. CASE Invalidate
    BY <1>1, <2>2, InvalidateKept, HtmlInvalidate
  <2>3. CASE Remount
    BY <1>1, <2>3, RemountKept, HtmlRemount
  <2>4. CASE IdlePaint
    BY <1>1, <2>4, PaintKept, HtmlPaint
  <2>5. CASE OnRendered
    BY <1>1, <2>5, RenderedKept, HtmlRendered
  <2>6. CASE AnswerTimeout \/ WorkerError
    <3>1. ~page.terminal /\ WorkerLost
      BY <2>6 DEF AnswerTimeout, WorkerError
    <3> QED BY <1>1, <3>1, LostKept, HtmlLost
  <2>7. CASE TakeMessage
    BY <1>1, <2>7, TakeKept, HtmlTake
  <2>8. CASE Render
    BY <1>1, <2>8, RenderKept, HtmlRender
  <2>9. CASE RenderFails
    BY <1>1, <2>9, RenderFailsKept, HtmlFails
  <2>10. CASE Reevaluate \/ Hang
    BY <1>1, <2>10, HandKept, HtmlHand
  <2>11. CASE UNCHANGED previewVars
    BY <1>1, <2>11, StillKept, HtmlStill
  <2> QED BY <1>1, <2>1, <2>2, <2>3, <2>4, <2>5, <2>6, <2>7, <2>8, <2>9, <2>10, <2>11 DEF PreviewNext
<1>2. ASSUME PreviewInv, HtmlInv PROVE ShownIsSource
  <2> SUFFICES ASSUME Idle, ~Failed
               PROVE /\ DOMAIN page.nodes = Keys(page.source)
                     /\ spoiled \/ \A k \in Keys(page.source) : page.nodes[k] = page.source[1]
    BY DEF ShownIsSource
  <2>1. DOMAIN page.nodes = Keys(page.source)
    BY <1>2, QueueFacts DEF Settled, Idle, Failed
  <2>2. ~spoiled => Has(page, page.source)
    BY <1>2 DEF HtmlInv, Showing, Idle, Failed
  <2> QED BY <2>1, <2>2 DEF Has, Painted, Idle
<1>3. PreviewInit => PreviewInv /\ HtmlInv
  BY PreviewInitInv, HtmlInit
<1> QED BY <1>1, <1>2, <1>3, PTL DEF PreviewSpec

-----------------------------------------------------------------------------
(***************************************************************************)
(* The diagrams.                                                           *)
(***************************************************************************)

AnyTheme == Themes \cup {NoTheme}
Drawings == [source : {SourceOf[h] : h \in Hosts}, theme : AnyTheme]
DiagramStates == {"pending", "done", "error", "crowded"}

DiagramsTyped ==
  /\ mounted \in SUBSET Hosts /\ IsFiniteSet(mounted) /\ watched \in SUBSET mounted
  /\ state \in [Hosts -> DiagramStates]
  /\ batches \in Seq({s \in SUBSET Hosts : IsFiniteSet(s)}) /\ active \in Seq(Hosts)
  /\ phase \in {"idle", "loading", "drawing", "rendering"}
  /\ cache \in Seq(Drawings) /\ {theme, configured, drawnIn} \subseteq AnyTheme
  /\ circuit \in BOOLEAN /\ running \in Nat

\* Mermaid draws what the page waits for, or what it gave up, and then the page draws no more.
OneAtATime ==
  /\ circuit => phase = "idle"
  /\ ~circuit => running = (IF phase = "rendering" THEN 1 ELSE 0)

\* There is a batch only while it is drawn, and what is drawn is not cached.
BatchInHand ==
  /\ phase = "idle" => active = <<>>
  /\ phase = "rendering" =>
       active # <<>> /\ \A i \in DOMAIN cache : cache[i].source # SourceOf[active[1]]

DiagramsInv ==
  DiagramsTyped /\ OneAtATime /\ BatchInHand /\ NoneForgotten /\ OneDrawing /\ CacheBounded

\* Mermaid has the theme of the page when a batch may draw with it.
ThemeKept ==
  /\ promise = "ready" => configured = theme
  /\ ~switched => /\ phase \in {"drawing", "rendering"} => configured = theme
                  /\ phase = "rendering" => drawnIn = theme

LEMMA DiagramsConstants ==
  MaxBatch \in Nat \ {0} /\ MaxCached \in Nat \ {0}
BY DiagramsAssumption

\* A set is listed with all its elements.
LEMMA SetListed ==
  ASSUME NEW S, IsFiniteSet(S)
  PROVE  SetToSeq(S) \in Seq(S) /\ ToSet(SetToSeq(S)) = S
<1> DEFINE n == Cardinality(S)
           f == SetToSeq(S)
<1>1. n \in Nat /\ \E g : g \in Bijection(1..n, S)
  BY FS_CardinalityType DEF ExistsBijection
<1>2. \E g \in [1..n -> S] : IsInjective(g)
  BY <1>1 DEF Bijection, Injection
<1>3. f \in [1..n -> S] /\ IsInjective(f)
  BY <1>2 DEF SetToSeq
<1> HIDE DEF f
<1>4. f \in Injection(1..n, S) /\ Cardinality(1..n) = n
  BY <1>1, <1>3, FS_Interval DEF Injection
<1>5. f \in Surjection(1..n, S)
  BY <1>4, FS_Injection
<1>6. \A s \in S : \E i \in 1..n : f[i] = s
  BY <1>5 DEF Surjection
<1>7. f \in Seq(S) /\ DOMAIN f = 1..n
  BY <1>1, <1>3
<1>8. ToSet(f) = S
  BY <1>3, <1>6, <1>7 DEF ToSet
<1> QED BY <1>7, <1>8 DEF f

LEMMA FirstAndRest ==
  ASSUME NEW S, NEW s \in Seq(S), s # <<>>
  PROVE  /\ s[1] \in S /\ Tail(s) \in Seq(S)
         /\ ToSet(s) = {s[1]} \cup ToSet(Tail(s))
<1>1. Len(s) \in Nat \ {0} /\ DOMAIN s = 1..Len(s)
  BY EmptySeq, LenProperties
<1>2. /\ Tail(s) \in Seq(S) /\ Len(Tail(s)) = Len(s) - 1 /\ DOMAIN Tail(s) = 1..(Len(s) - 1)
      /\ \A i \in 1..(Len(s) - 1) : Tail(s)[i] = s[i + 1]
  BY HeadTailProperties, LenProperties
<1>3. \A i \in 1..Len(s) : i = 1 \/ i - 1 \in 1..(Len(s) - 1)
  BY <1>1
<1>4. \A i \in 1..(Len(s) - 1) : i + 1 \in 1..Len(s)
  BY <1>1
<1>5. \A x \in ToSet(s) : x \in {s[1]} \cup ToSet(Tail(s))
  <2> SUFFICES ASSUME NEW i \in 1..Len(s) PROVE s[i] \in {s[1]} \cup ToSet(Tail(s))
    BY <1>1 DEF ToSet
  <2>1. CASE i # 1
    <3>1. i - 1 \in 1..(Len(s) - 1) /\ (i - 1) + 1 = i
      BY <1>3, <2>1
    <3>2. Tail(s)[i - 1] = s[i]
      BY <1>2, <3>1
    <3> QED BY <1>2, <3>1, <3>2 DEF ToSet
  <2> QED BY <2>1
<1>6. \A x \in {s[1]} \cup ToSet(Tail(s)) : x \in ToSet(s)
  BY <1>1, <1>2, <1>4 DEF ToSet
<1> QED BY <1>1, <1>2, <1>5, <1>6

LEMMA BatchPrefix ==
  ASSUME NEW S, NEW s \in Seq(S), NEW m \in Nat, m <= Len(s)
  PROVE  /\ SubSeq(s, 1, m) \in Seq(S) /\ ToSet(SubSeq(s, 1, m)) \subseteq ToSet(s)
<1>1. Len(s) \in Nat /\ DOMAIN s = 1..Len(s) /\ \A i \in 1..m : s[i] \in S /\ i \in DOMAIN s
  BY LenProperties, ElementOfSeq
<1>2. /\ SubSeq(s, 1, m) \in Seq(S) /\ Len(SubSeq(s, 1, m)) = m
      /\ \A i \in 1..m : SubSeq(s, 1, m)[i] = s[i]
  BY <1>1, SubSeqProperties
<1>3. DOMAIN SubSeq(s, 1, m) = 1..m
  BY <1>2, LenProperties
<1> QED BY <1>1, <1>2, <1>3 DEF ToSet

\* A scan forgets no pending element that was watched, and watches nothing outside the page.
LEMMA ScanKeeps ==
  ASSUME DiagramsTyped, NEW W, ScanAfter(W)
  PROVE  /\ watched' \in SUBSET mounted
         /\ \A h \in watched : state'[h] = "pending" => h \in watched'
BY DEF ScanAfter, Scan, DiagramsTyped

\* A step that only takes elements out of the batch it draws.
LEMMA BatchGoesOn ==
  ASSUME DiagramsInv, NEW W, ScanAfter(W), mounted' = mounted, batches' = batches,
         \A h \in Hosts : state'[h] = "pending" =>
           state[h] = "pending" /\ (h \in ToSet(active) => h \in ToSet(active'))
  PROVE  NoneForgotten' /\ watched' \in SUBSET mounted'
<1>1. DiagramsTyped /\ NoneForgotten
  BY DEF DiagramsInv
<1>2. /\ watched' \in SUBSET mounted
      /\ \A h \in watched : state'[h] = "pending" => h \in watched'
  BY <1>1, ScanKeeps
<1> QED BY <1>1, <1>2 DEF NoneForgotten, DiagramsTyped

LEMMA FillTyped ==
  ASSUME NEW f \in [Hosts -> DiagramStates], NEW S, NEW v \in DiagramStates
  PROVE  /\ Fill(f, S, v) \in [Hosts -> DiagramStates]
         /\ \A h \in Hosts : Fill(f, S, v)[h] = (IF h \in S THEN v ELSE f[h])
BY DEF Fill

LEMMA DiagramsStarts == DiagramsInit => DiagramsInv
<1> SUFFICES ASSUME DiagramsInit PROVE DiagramsInv
  OBVIOUS
<1>1. DiagramsTyped
  <2>1. <<>> \in Seq({s \in SUBSET Hosts : IsFiniteSet(s)}) /\ <<>> \in Seq(Hosts) /\ <<>> \in Seq(Drawings)
    BY EmptySeq
  <2>2. state \in [Hosts -> DiagramStates]
    BY DEF DiagramsInit, DiagramStates
  <2>3. {theme, configured, drawnIn} \subseteq AnyTheme
    BY DEF DiagramsInit, AnyTheme, Themes
  <2> QED BY <2>1, <2>2, <2>3, FS_EmptySet DEF DiagramsInit, DiagramsTyped
<1>2. OneAtATime /\ BatchInHand
  BY DEF DiagramsInit, OneAtATime, BatchInHand
<1>3. NoneForgotten /\ OneDrawing /\ CacheBounded
  <2>1. Len(cache) = 0 /\ DOMAIN cache = {}
    BY DEF DiagramsInit
  <2> QED BY <2>1, DiagramsConstants DEF DiagramsInit, NoneForgotten, OneDrawing, CacheBounded
<1> QED BY <1>1, <1>2, <1>3 DEF DiagramsInv

\* Elements come and go, and near the viewport.
LEMMA PageDiagrams ==
  ASSUME DiagramsInv,
         \/ \E h \in Hosts : Mount(h) \/ Unmount(h)
         \/ \E s \in SUBSET watched : Near(s)
  PROVE  DiagramsInv'
<1>0. DiagramsTyped /\ OneAtATime /\ BatchInHand /\ NoneForgotten /\ OneDrawing /\ CacheBounded
  BY DEF DiagramsInv
<1>1. /\ UNCHANGED <<state, active, phase, drawnIn, cache, theme, configured, circuit, running>>
  BY DEF Mount, Unmount, Near, rendererVars, themeVars
<1>2. OneAtATime' /\ BatchInHand' /\ OneDrawing' /\ CacheBounded'
  BY <1>0, <1>1 DEF OneAtATime, BatchInHand, OneDrawing, CacheBounded, rendererVars, themeVars
<1>3. ASSUME NEW h \in Hosts, Mount(h) \/ Unmount(h) PROVE DiagramsTyped' /\ NoneForgotten'
  <2>1. /\ mounted' \in {mounted \cup {h}, mounted \ {h}} /\ batches' = batches
        /\ watched' = Scan(mounted', state)
    BY <1>3 DEF Mount, Unmount
  <2>2. mounted' \in SUBSET Hosts /\ IsFiniteSet(mounted')
    BY <1>0, <2>1, FS_AddElement, FS_RemoveElement DEF DiagramsTyped
  <2>3. DiagramsTyped'
    BY <1>0, <1>1, <2>1, <2>2 DEF DiagramsTyped, Scan, rendererVars, themeVars
  <2>4. NoneForgotten'
    BY <1>0, <1>1, <2>1 DEF NoneForgotten, Scan
  <2> QED BY <2>3, <2>4
<1>4. ASSUME NEW s \in SUBSET watched, Near(s) PROVE DiagramsTyped' /\ NoneForgotten'
  <2> DEFINE Sets == {x \in SUBSET Hosts : IsFiniteSet(x)}
  <2>1. mounted' = mounted /\ watched' = watched \ s /\ batches' = Append(batches, s)
    BY <1>4 DEF Near
  <2>2. batches \in Seq(Sets) /\ s \in Sets
    BY <1>0, FS_Subset DEF DiagramsTyped
  <2> HIDE DEF Sets
  <2>3. /\ batches' \in Seq(Sets) /\ Len(batches') = Len(batches) + 1
        /\ \A i \in 1..Len(batches) : batches'[i] = batches[i]
        /\ batches'[Len(batches) + 1] = s
    BY <2>1, <2>2, AppendProperties
  <2>4. Len(batches) \in Nat /\ DOMAIN batches = 1..Len(batches) /\ DOMAIN batches' = 1..(Len(batches) + 1)
    BY <2>2, <2>3, LenProperties
  <2>5. DiagramsTyped'
    BY <1>0, <1>1, <2>1, <2>3 DEF DiagramsTyped, Sets, rendererVars, themeVars
  <2>6. NoneForgotten'
    <3> SUFFICES ASSUME NEW h \in mounted, state[h] = "pending", HasSource(h)
                 PROVE \/ h \in watched' \/ h \in ToSet(active)
                       \/ \E i \in DOMAIN batches' : h \in batches'[i]
      BY <1>1, <2>1 DEF NoneForgotten
    <3>1. CASE h \in s
      <4>1. Len(batches) + 1 \in DOMAIN batches'
        BY <2>4
      <4> QED BY <2>3, <3>1, <4>1
    <3>2. CASE h \in watched /\ h \notin s
      BY <2>1, <3>2
    <3>3. CASE \E i \in DOMAIN batches : h \in batches[i]
      <4>1. PICK i \in DOMAIN batches : h \in batches[i]
        BY <3>3
      <4>2. i \in DOMAIN batches' /\ batches'[i] = batches[i]
        BY <2>3, <2>4
      <4> QED BY <4>1, <4>2
    <3> QED BY <1>0, <3>1, <3>2, <3>3 DEF NoneForgotten
  <2> QED BY <2>5, <2>6
<1> QED BY <1>2, <1>3, <1>4 DEF DiagramsInv

\* The next batch is begun, or refused.
LEMMA StartBatchDiagrams ==
  ASSUME DiagramsInv, StartBatch PROVE DiagramsInv'
<1> DEFINE Sets == {x \in SUBSET Hosts : IsFiniteSet(x)}
           pending == {h \in Head(batches) : state[h] = "pending" /\ HasSource(h)}
           good == {h \in pending : ValidDiagram(h)}
           order == SetToSeq(good)
           taken == SubSeq(order, 1, IF Len(order) < MaxBatch THEN Len(order) ELSE MaxBatch)
           crowded == Fill(state, ToSet(order) \ ToSet(taken), "crowded")
           refused == Fill(crowded, pending \ ToSet(order), "error")
           hits == {h \in ToSet(taken) : InCache(SourceOf[h]) # {}}
           drawn == Fill(refused, hits, "done")
           broken == Fill(drawn, ToSet(taken) \ hits, "error")
<1>0. DiagramsTyped /\ OneAtATime /\ BatchInHand /\ NoneForgotten /\ OneDrawing /\ CacheBounded
  BY DEF DiagramsInv
<1>1. /\ phase = "idle" /\ batches # <<>> /\ batches' = Tail(batches)
      /\ state' = (IF circuit THEN broken ELSE refused)
      /\ active' = (IF circuit THEN <<>> ELSE taken)
      /\ phase' = (IF active' = <<>> THEN "idle" ELSE IF promise = "ready" THEN "drawing" ELSE "loading")
      /\ ScanAfter(IF circuit THEN pending ELSE pending \ ToSet(taken))
      /\ UNCHANGED <<mounted, drawnIn, cache, theme, configured, circuit, running>>
  BY DEF StartBatch, themeVars
<1>2. batches \in Seq(Sets) /\ state \in [Hosts -> DiagramStates]
  BY <1>0 DEF DiagramsTyped
<1> HIDE DEF Sets
<1>3. /\ Head(batches) = batches[1] /\ batches[1] \in Sets /\ Tail(batches) \in Seq(Sets)
      /\ ToSet(batches) = {batches[1]} \cup ToSet(Tail(batches))
  BY <1>1, <1>2, FirstAndRest
<1>4. IsFiniteSet(good) /\ good \subseteq Hosts /\ pending \subseteq Hosts
  BY <1>3, FS_Subset DEF Sets
<1>5. order \in Seq(good) /\ ToSet(order) = good
  BY <1>4, SetListed
<1>6. taken \in Seq(good) /\ ToSet(taken) \subseteq good
  <2>1. (IF Len(order) < MaxBatch THEN Len(order) ELSE MaxBatch) \in Nat
        /\ (IF Len(order) < MaxBatch THEN Len(order) ELSE MaxBatch) <= Len(order)
    BY <1>5, LenProperties, DiagramsConstants
  <2> QED BY <1>5, <2>1, BatchPrefix
<1> HIDE DEF order, taken, good
<1>7. taken \in Seq(Hosts)
  BY <1>4, <1>6
<1>8. /\ crowded \in [Hosts -> DiagramStates] /\ refused \in [Hosts -> DiagramStates]
      /\ \A h \in Hosts :
           refused[h] = (IF h \in pending \ good THEN "error"
                         ELSE IF h \in good \ ToSet(taken) THEN "crowded" ELSE state[h])
  BY <1>2, <1>5, FillTyped DEF DiagramStates
<1> HIDE DEF crowded, refused
<1>8a. hits \subseteq ToSet(taken)
  OBVIOUS
<1> HIDE DEF hits
<1>9a. /\ drawn \in [Hosts -> DiagramStates]
       /\ \A h \in Hosts : drawn[h] = (IF h \in hits THEN "done" ELSE refused[h])
  BY <1>8, FillTyped DEF DiagramStates
<1> HIDE DEF drawn
<1>9b. /\ broken \in [Hosts -> DiagramStates]
       /\ \A h \in Hosts : broken[h] = (IF h \in ToSet(taken) \ hits THEN "error" ELSE drawn[h])
  BY <1>9a, FillTyped DEF DiagramStates
<1> HIDE DEF broken
<1>9. /\ broken \in [Hosts -> DiagramStates]
      /\ \A h \in Hosts :
           broken[h] = (IF h \in ToSet(taken) \ hits THEN "error"
                        ELSE IF h \in hits THEN "done" ELSE refused[h])
  BY <1>9a, <1>9b
<1>10. /\ watched' \in SUBSET mounted
       /\ \A h \in watched : state'[h] = "pending" => h \in watched'
  BY <1>0, <1>1, ScanKeeps
<1>11. DiagramsTyped'
  <2>1. state' \in [Hosts -> DiagramStates] /\ active' \in Seq(Hosts)
    BY <1>1, <1>7, <1>8, <1>9
  <2>2. batches' \in Seq({x \in SUBSET Hosts : IsFiniteSet(x)})
    BY <1>1, <1>3 DEF Sets
  <2> QED BY <1>0, <1>1, <1>10, <2>1, <2>2 DEF DiagramsTyped
<1>12. OneAtATime' /\ BatchInHand' /\ OneDrawing' /\ CacheBounded'
  BY <1>0, <1>1 DEF OneAtATime, BatchInHand, OneDrawing, CacheBounded
<1>13. ASSUME NEW h \in mounted, state'[h] = "pending", HasSource(h)
       PROVE \/ h \in watched' \/ h \in ToSet(active')
             \/ \E i \in DOMAIN batches' : h \in batches'[i]
  <2>1. h \in Hosts
    BY <1>0 DEF DiagramsTyped
  <2>2. state[h] = "pending" /\ (h \in pending => h \in ToSet(taken) /\ ~circuit)
    <3>1. CASE circuit
      BY <1>1, <1>8, <1>8a, <1>9, <2>1, <1>13, <3>1
    <3>2. CASE ~circuit
      BY <1>1, <1>8, <2>1, <1>13, <3>2
    <3> QED BY <3>1, <3>2, <1>0 DEF DiagramsTyped
  <2>3. CASE h \in watched
    BY <1>10, <1>13, <2>3
  <2>4. CASE h \in ToSet(active)
    BY <1>0, <1>1, <2>4 DEF BatchInHand, ToSet
  <2>5. CASE \E i \in DOMAIN batches : h \in batches[i]
    <3>1. PICK i \in DOMAIN batches : h \in batches[i]
      BY <2>5
    <3>2. batches[i] \in ToSet(batches)
      BY DEF ToSet
    <3>3. CASE batches[i] = batches[1]
      BY <1>1, <1>3, <1>13, <2>2, <3>1, <3>3
    <3>4. CASE batches[i] \in ToSet(Tail(batches))
      BY <1>1, <3>1, <3>4 DEF ToSet
    <3> QED BY <1>3, <3>2, <3>3, <3>4
  <2> QED BY <1>0, <1>13, <2>2, <2>3, <2>4, <2>5 DEF NoneForgotten
<1>14. NoneForgotten'
  BY <1>1, <1>13 DEF NoneForgotten
<1> QED BY <1>11, <1>12, <1>14 DEF DiagramsInv

\* The renderer is loaded, or is not, or the theme changes.
LEMMA LoadDiagrams ==
  ASSUME DiagramsInv,
         \/ Loaded \/ LateLoad \/ AbandonedEnds \/ EndBatch \/ RenderDiagram
         \/ \E missed \in BOOLEAN : LoadFails(missed)
         \/ \E t \in Themes : SetTheme(t)
  PROVE  DiagramsInv'
<1>0. DiagramsTyped /\ OneAtATime /\ BatchInHand /\ NoneForgotten /\ OneDrawing /\ CacheBounded
  BY DEF DiagramsInv
<1>1. CASE Loaded \/ LateLoad \/ AbandonedEnds \/ EndBatch
  <2>1. UNCHANGED <<pageVars, state, batches, active, drawnIn, cache, theme, circuit>>
    BY <1>1 DEF Loaded, LateLoad, AbandonedEnds, EndBatch, themeVars
  <2>2. NoneForgotten' /\ CacheBounded'
    BY <1>0, <2>1 DEF NoneForgotten, CacheBounded, pageVars
  <2>3. /\ phase' \in {"idle", "drawing", phase} /\ running' \in {running, running - 1}
        /\ configured' \in {theme, configured}
        /\ phase' = "rendering" <=> phase = "rendering"
        /\ phase' = "idle" => phase = "idle" \/ active = <<>>
        /\ phase = "idle" => phase' = "idle"
        /\ running' # running => running > (IF phase = "rendering" THEN 1 ELSE 0)
    BY <1>1 DEF Loaded, LateLoad, AbandonedEnds, EndBatch, rendererVars, themeVars
  <2>4. DiagramsTyped'
    BY <1>0, <2>1, <2>3 DEF DiagramsTyped, pageVars
  <2>5. OneAtATime' /\ OneDrawing'
    BY <1>0, <2>1, <2>3 DEF OneAtATime, OneDrawing, DiagramsTyped
  <2>6. BatchInHand'
    BY <1>0, <2>1, <2>3 DEF BatchInHand
  <2> QED BY <2>2, <2>4, <2>5, <2>6 DEF DiagramsInv
<1>2. CASE RenderDiagram
  <2>1. /\ UNCHANGED <<pageVars, state, batches, active, cache, theme, configured, circuit>>
        /\ phase = "drawing" /\ phase' = "rendering" /\ running' = running + 1 /\ drawnIn' = configured
        /\ active # <<>> /\ InCache(SourceOf[active[1]]) = {}
    BY <1>2 DEF RenderDiagram, rendererVars, themeVars
  <2>2. NoneForgotten' /\ CacheBounded'
    BY <1>0, <2>1 DEF NoneForgotten, CacheBounded, pageVars
  <2>3. DiagramsTyped'
    BY <1>0, <2>1 DEF DiagramsTyped, pageVars
  <2>4. OneAtATime' /\ OneDrawing'
    BY <1>0, <2>1 DEF OneAtATime, OneDrawing, DiagramsTyped
  <2>5. BatchInHand'
    BY <2>1 DEF BatchInHand, InCache
  <2> QED BY <2>2, <2>3, <2>4, <2>5 DEF DiagramsInv
<1>3. ASSUME NEW missed \in BOOLEAN, LoadFails(missed) PROVE DiagramsInv'
  <2>1. /\ phase = "loading" /\ phase' = "idle" /\ active' = <<>>
        /\ state' = Fill(state, ToSet(active), "error") /\ ScanAfter(ToSet(active))
        /\ UNCHANGED <<mounted, batches, drawnIn, cache, theme, configured, circuit, running>>
    BY <1>3 DEF LoadFails, Remaining, themeVars
  <2>2. state' \in [Hosts -> DiagramStates]
        /\ \A h \in Hosts : state'[h] = (IF h \in ToSet(active) THEN "error" ELSE state[h])
    BY <1>0, <2>1, FillTyped DEF DiagramsTyped, DiagramStates
  <2>3. NoneForgotten' /\ watched' \in SUBSET mounted'
    BY <2>1, <2>2, BatchGoesOn
  <2>4. DiagramsTyped'
    BY <1>0, <2>1, <2>2, <2>3 DEF DiagramsTyped
  <2>5. OneAtATime' /\ OneDrawing' /\ BatchInHand' /\ CacheBounded'
    BY <1>0, <2>1 DEF OneAtATime, OneDrawing, BatchInHand, CacheBounded
  <2> QED BY <2>3, <2>4, <2>5 DEF DiagramsInv
<1>4. ASSUME NEW t \in Themes, SetTheme(t) PROVE DiagramsInv'
  <2>1. /\ UNCHANGED <<pageVars, state, batches, active, phase, drawnIn, configured, circuit, running>>
        /\ theme' = t /\ cache' = <<>>
    BY <1>4 DEF SetTheme
  <2>2. cache' \in Seq(Drawings) /\ Len(cache') = 0 /\ DOMAIN cache' = {}
    BY <2>1, EmptySeq
  <2>3. DiagramsTyped' /\ NoneForgotten'
    BY <1>0, <2>1, <2>2 DEF DiagramsTyped, NoneForgotten, AnyTheme, pageVars
  <2>4. OneAtATime' /\ OneDrawing' /\ BatchInHand' /\ CacheBounded'
    BY <1>0, <2>1, <2>2, DiagramsConstants DEF OneAtATime, OneDrawing, BatchInHand, CacheBounded
  <2> QED BY <2>3, <2>4 DEF DiagramsInv
<1> QED BY <1>1, <1>2, <1>3, <1>4

\* The cache takes one more drawing.
LEMMA CachedOnce ==
  ASSUME DiagramsTyped, CacheBounded, NEW d \in Drawings,
         \A i \in DOMAIN cache : cache[i].source # d.source, cache' = Append(Evicted(cache), d)
  PROVE  /\ cache' \in Seq(Drawings) /\ CacheBounded'
         /\ \A i \in DOMAIN cache' : cache'[i] = d \/ \E j \in DOMAIN cache : cache'[i] = cache[j]
<1> DEFINE c == Evicted(cache)
<1>1. cache \in Seq(Drawings) /\ Len(cache) \in Nat /\ DOMAIN cache = 1..Len(cache)
  BY LenProperties DEF DiagramsTyped
<1>2. /\ c \in Seq(Drawings) /\ Len(c) \in Nat /\ DOMAIN c = 1..Len(c) /\ Len(c) < MaxCached
      /\ \E k \in {0, 1} : Len(c) + k = Len(cache) /\ \A i \in 1..Len(c) : c[i] = cache[i + k]
  <2>1. CASE Len(cache) >= MaxCached
    <3>1. cache # <<>> /\ c = Tail(cache)
      BY <1>1, <2>1, EmptySeq, DiagramsConstants DEF Evicted
    <3>2. /\ c \in Seq(Drawings) /\ Len(c) = Len(cache) - 1
          /\ \A i \in 1..Len(c) : c[i] = cache[i + 1]
      BY <1>1, <3>1, HeadTailProperties
    <3>3. Len(c) \in Nat /\ DOMAIN c = 1..Len(c)
      BY <3>2, LenProperties
    <3>4. Len(cache) <= MaxCached
      BY DEF CacheBounded
    <3>5. Len(c) < MaxCached /\ Len(c) + 1 = Len(cache)
      BY <1>1, <3>2, <3>4, DiagramsConstants
    <3> QED BY <3>2, <3>3, <3>5
  <2>2. CASE Len(cache) < MaxCached
    <3>1. ~(Len(cache) >= MaxCached)
      BY <1>1, <2>2, DiagramsConstants
    <3>2. c = cache
      BY <3>1 DEF Evicted
    <3> HIDE DEF c
    <3>3. Len(c) + 0 = Len(cache) /\ \A i \in 1..Len(c) : c[i] = cache[i + 0]
      BY <1>1, <3>2
    <3> QED BY <1>1, <2>2, <3>2, <3>3
  <2>3. Len(cache) >= MaxCached \/ Len(cache) < MaxCached
    BY <1>1, DiagramsConstants
  <2> HIDE DEF c
  <2> QED BY <2>1, <2>2, <2>3
<1> HIDE DEF c
<1>3. PICK k \in {0, 1} : Len(c) + k = Len(cache) /\ \A i \in 1..Len(c) : c[i] = cache[i + k]
  BY <1>2
<1>4. /\ cache' \in Seq(Drawings) /\ Len(cache') = Len(c) + 1
      /\ \A i \in 1..Len(c) : cache'[i] = c[i]
      /\ cache'[Len(c) + 1] = d
  BY <1>2, AppendProperties DEF c
<1>5. DOMAIN cache' = 1..(Len(c) + 1)
  BY <1>4, LenProperties
<1>6. \A i \in 1..Len(c) : i + k \in DOMAIN cache
  BY <1>1, <1>2, <1>3
<1>7. \A i \in 1..Len(c) : cache'[i].source # d.source
  BY <1>3, <1>4, <1>6
<1>8. \A i, j \in 1..Len(c) : cache'[i].source = cache'[j].source => i = j
  <2> SUFFICES ASSUME NEW i \in 1..Len(c), NEW j \in 1..Len(c), cache'[i].source = cache'[j].source
               PROVE i = j
    OBVIOUS
  <2>1. cache[i + k].source = cache[j + k].source
    BY <1>3, <1>4
  <2>2. i + k = j + k
    BY <1>6, <2>1 DEF CacheBounded
  <2> QED BY <1>2, <2>2
<1>9. \A i \in DOMAIN cache' : i \in 1..Len(c) \/ i = Len(c) + 1
  BY <1>2, <1>5
<1>10. Len(cache') <= MaxCached
  BY <1>2, <1>4, DiagramsConstants
<1>11. \A i \in DOMAIN cache' : cache'[i] = d \/ \E j \in DOMAIN cache : cache'[i] = cache[j]
  BY <1>3, <1>4, <1>6, <1>9
<1> QED BY <1>4, <1>7, <1>8, <1>9, <1>10, <1>11 DEF CacheBounded

\* The next of the batch is shown, drawn or refused, or all of it is given up.
LEMMA DrawDiagrams ==
  ASSUME DiagramsInv, ShowCached \/ Rendered \/ DiagramFails \/ RenderTimesOut
  PROVE  DiagramsInv'
<1>0. DiagramsTyped /\ OneAtATime /\ BatchInHand /\ NoneForgotten /\ OneDrawing /\ CacheBounded
  BY DEF DiagramsInv
<1>1. /\ active \in Seq(Hosts) /\ active # <<>>
      /\ phase \in {"drawing", "rendering"} /\ UNCHANGED <<mounted, batches, theme, configured>>
  BY <1>0 DEF DiagramsTyped, BatchInHand, ShowCached, Rendered, DiagramFails, RenderTimesOut, rendererVars, themeVars
<1>2. /\ active[1] \in Hosts /\ Tail(active) \in Seq(Hosts)
      /\ ToSet(active) = {active[1]} \cup ToSet(Tail(active))
  BY <1>1, FirstAndRest
<1>3. CASE ShowCached \/ Rendered \/ DiagramFails
  <2>1. PICK v \in {"done", "error"} : state' = [state EXCEPT ![active[1]] = v]
    BY <1>3 DEF ShowCached, Rendered, DiagramFails
  <2>2. active' = Tail(active) /\ ScanAfter({active[1]}) /\ circuit' = circuit /\ phase' = "drawing"
    BY <1>3 DEF ShowCached, Rendered, DiagramFails
  <2>3. state' \in [Hosts -> DiagramStates]
        /\ \A h \in Hosts : state'[h] = (IF h = active[1] THEN v ELSE state[h])
    BY <1>0, <1>2, <2>1 DEF DiagramsTyped, DiagramStates
  <2>4. NoneForgotten' /\ watched' \in SUBSET mounted'
    BY <1>1, <1>2, <2>2, <2>3, BatchGoesOn
  <2>5. running' \in Nat /\ OneAtATime' /\ OneDrawing' /\ BatchInHand'
    BY <1>0, <1>3, <2>2 DEF DiagramsTyped, OneAtATime, OneDrawing, BatchInHand, ShowCached, Rendered, DiagramFails
  <2>6. drawnIn' \in AnyTheme /\ cache' \in Seq(Drawings) /\ CacheBounded'
    <3>1. CASE ShowCached \/ DiagramFails
      BY <1>0, <3>1 DEF ShowCached, DiagramFails, DiagramsTyped, CacheBounded, AnyTheme
    <3>2. CASE Rendered
      <4> DEFINE d == [source |-> SourceOf[active[1]], theme |-> drawnIn]
      <4>1. d \in Drawings
        BY <1>0, <1>2 DEF DiagramsTyped, Drawings
      <4>2. \A i \in DOMAIN cache : cache[i].source # d.source
        BY <1>0, <3>2 DEF BatchInHand, Rendered
      <4>3. cache' = Append(Evicted(cache), d) /\ drawnIn' = NoTheme
        BY <3>2 DEF Rendered
      <4> HIDE DEF d
      <4> QED BY <1>0, <4>1, <4>2, <4>3, CachedOnce DEF AnyTheme
    <3> QED BY <1>3, <3>1, <3>2
  <2>7. DiagramsTyped'
    BY <1>0, <1>1, <1>2, <2>2, <2>3, <2>4, <2>5, <2>6 DEF DiagramsTyped
  <2> QED BY <2>4, <2>5, <2>6, <2>7 DEF DiagramsInv
<1>4. CASE RenderTimesOut
  <2>1. /\ phase = "rendering" /\ phase' = "idle" /\ circuit' = TRUE /\ active' = <<>>
        /\ state' = Fill(state, ToSet(active), "error") /\ ScanAfter(ToSet(active))
        /\ drawnIn' = NoTheme /\ UNCHANGED <<cache, running>>
    BY <1>4 DEF RenderTimesOut, Remaining
  <2>2. state' \in [Hosts -> DiagramStates]
        /\ \A h \in Hosts : state'[h] = (IF h \in ToSet(active) THEN "error" ELSE state[h])
    BY <1>0, <2>1, FillTyped DEF DiagramsTyped, DiagramStates
  <2>3. NoneForgotten' /\ watched' \in SUBSET mounted'
    BY <1>1, <2>1, <2>2, BatchGoesOn
  <2>4. DiagramsTyped'
    BY <1>0, <1>1, <2>1, <2>2, <2>3 DEF DiagramsTyped, AnyTheme
  <2>5. OneAtATime' /\ OneDrawing' /\ BatchInHand' /\ CacheBounded'
    BY <1>0, <2>1 DEF OneAtATime, OneDrawing, BatchInHand, CacheBounded
  <2> QED BY <2>3, <2>4, <2>5 DEF DiagramsInv
<1> QED BY <1>3, <1>4

\* A drawing is cached in the theme of the page.
LEMMA ThemeSteps ==
  ASSUME DiagramsInv, ThemeKept, CacheInTheme, [DiagramsNext]_diagramsVars
  PROVE  ThemeKept' /\ CacheInTheme'
<1>1. CASE \/ \E h \in Hosts : Mount(h) \/ Unmount(h)
           \/ \E s \in SUBSET watched : Near(s)
           \/ StartBatch \/ LateLoad \/ Loaded \/ ShowCached \/ AbandonedEnds \/ EndBatch \/ RenderDiagram
           \/ DiagramFails \/ RenderTimesOut \/ UNCHANGED diagramsVars
           \/ \E missed \in BOOLEAN : LoadFails(missed)
  <2>1. UNCHANGED <<cache, theme, switched>>
    BY <1>1 DEF Mount, Unmount, Near, StartBatch, LateLoad, Loaded, ShowCached, AbandonedEnds, EndBatch,
                RenderDiagram, DiagramFails, RenderTimesOut, LoadFails, diagramsVars, themeVars
  <2>2. CacheInTheme' /\ (~switched' <=> ~switched)
    BY <2>1 DEF CacheInTheme
  <2>3. CASE StartBatch
    <3>1. /\ UNCHANGED configured /\ phase' \in {"idle", "loading", "drawing"}
          /\ phase' = "drawing" => promise = "ready"
          /\ promise' = "ready" => promise = "ready"
      BY <2>3 DEF StartBatch
    <3> QED BY <2>1, <2>2, <3>1 DEF ThemeKept
  <2>4. CASE LateLoad \/ Loaded
    BY <2>1, <2>2, <2>4 DEF LateLoad, Loaded, ThemeKept
  <2>5. CASE \/ \E h \in Hosts : Mount(h) \/ Unmount(h)
             \/ \E s \in SUBSET watched : Near(s)
             \/ ShowCached \/ AbandonedEnds \/ EndBatch \/ RenderDiagram
             \/ DiagramFails \/ RenderTimesOut \/ UNCHANGED diagramsVars
             \/ \E missed \in BOOLEAN : LoadFails(missed)
    <3>1. /\ UNCHANGED configured /\ promise' \in {promise, "null"}
          /\ \/ UNCHANGED <<phase, drawnIn>>
             \/ phase' = "idle"
             \/ phase' = "drawing" /\ phase = "rendering"
             \/ phase' = "rendering" /\ phase = "drawing" /\ drawnIn' = configured
      BY <2>5 DEF Mount, Unmount, Near, ShowCached, AbandonedEnds, EndBatch, RenderDiagram, DiagramFails,
                  RenderTimesOut, LoadFails, diagramsVars, rendererVars
    <3> QED BY <2>1, <2>2, <3>1 DEF ThemeKept
  <2> QED BY <1>1, <2>2, <2>3, <2>4, <2>5
<1>2. CASE Rendered
  <2> DEFINE d == [source |-> SourceOf[active[1]], theme |-> drawnIn]
  <2>1. /\ phase = "rendering" /\ phase' = "drawing" /\ cache' = Append(Evicted(cache), d)
        /\ UNCHANGED <<promise, configured, theme, switched>>
    BY <1>2 DEF Rendered, rendererVars, themeVars
  <2>2. d \in Drawings /\ d.theme = drawnIn
    BY <2>1, FirstAndRest DEF DiagramsInv, DiagramsTyped, BatchInHand, Drawings
  <2>3. \A i \in DOMAIN cache : cache[i].source # d.source
    BY <2>1 DEF DiagramsInv, BatchInHand
  <2> HIDE DEF d
  <2>4. \A i \in DOMAIN cache' : cache'[i] = d \/ \E j \in DOMAIN cache : cache'[i] = cache[j]
    BY <2>1, <2>2, <2>3, CachedOnce DEF DiagramsInv
  <2>5. CacheInTheme'
    BY <2>1, <2>2, <2>4 DEF CacheInTheme, ThemeKept
  <2> QED BY <2>1, <2>5 DEF ThemeKept
<1>3. ASSUME NEW t \in Themes, SetTheme(t) PROVE ThemeKept' /\ CacheInTheme'
  <2>1. /\ UNCHANGED <<phase, drawnIn, configured>> /\ promise' = "null" /\ cache' = <<>>
        /\ switched' = (phase \in {"drawing", "rendering"})
    BY <1>3 DEF SetTheme
  <2>2. ~switched' => phase' \notin {"drawing", "rendering"}
    BY <2>1
  <2>3. ThemeKept'
    BY <2>1, <2>2 DEF ThemeKept
  <2>4. CacheInTheme'
    BY <2>1 DEF CacheInTheme
  <2> QED BY <2>3, <2>4
<1> QED BY <1>1, <1>2, <1>3 DEF DiagramsNext

LEMMA DiagramsSteps == DiagramsInv /\ [DiagramsNext]_diagramsVars => DiagramsInv'
<1> SUFFICES ASSUME DiagramsInv, [DiagramsNext]_diagramsVars PROVE DiagramsInv'
  OBVIOUS
<1>1. CASE UNCHANGED diagramsVars
  BY <1>1 DEF diagramsVars, pageVars, rendererVars, themeVars, DiagramsInv, DiagramsTyped, OneAtATime, BatchInHand,
              NoneForgotten, OneDrawing, CacheBounded
<1>2. CASE DiagramsNext
  BY <1>2, PageDiagrams, StartBatchDiagrams, LoadDiagrams, DrawDiagrams DEF DiagramsNext
<1> QED BY <1>1, <1>2

\* For any blocks, limits, batches, themes and deadlines missed: a pending diagram of
\* the page that has a source is watched or in a batch, Mermaid draws one at a time,
\* abandoned drawings included, and the cache keeps its limit, one drawing for a
\* source and the theme of the page, unless the theme changed while a batch was drawn
\* (watchDiagrams, renderHosts, getMermaid and svgCache).
THEOREM DiagramsStayExact == DiagramsSpec => []DiagramsExact
<1>1. DiagramsInit => DiagramsInv /\ ThemeKept /\ CacheInTheme
  <2>1. DiagramsInit => ThemeKept /\ CacheInTheme
    BY DEF DiagramsInit, ThemeKept, CacheInTheme
  <2> QED BY <2>1, DiagramsStarts
<1>2. DiagramsInv /\ ThemeKept /\ CacheInTheme /\ [DiagramsNext]_diagramsVars
        => (DiagramsInv /\ ThemeKept /\ CacheInTheme)'
  BY DiagramsSteps, ThemeSteps
<1>3. DiagramsInv /\ CacheInTheme => DiagramsExact
  BY DEF DiagramsInv, DiagramsExact
<1> QED BY <1>1, <1>2, <1>3, PTL DEF DiagramsSpec
=============================================================================
