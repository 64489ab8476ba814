------------------------------ MODULE MCBrowser ------------------------------
(*****************************************************************************)
(* The browser's replica of a document: the persist lock, the replica and    *)
(* its journal and the maintenance of its history (extended), and the editor *)
(* bound to it. The modules share no state: each behaviour moves one of them *)
(* and leaves the others as they start, so a run explores the sum of their   *)
(* states.                                                                   *)
(*****************************************************************************)
EXTENDS PersistLock, Replica, History, TLC

CONSTANTS
  Parts,        \* the components a run moves, one in each behaviour
  RangesLimit,  \* units one mutation may change, in "ranges"
  NoTarget

VARIABLES
  part,   \* the component whose steps this behaviour takes
  text, view, mounted, patches, target, micro, ready, crossed, steps

\* Two pages with two writes and one with one more: the final checkpoints are
\* c and e.
TwoTabs == {"t1", "t2"}
TwoJobs == {"a", "b", "c", "d", "e"}
TwoTabOf == [j \in TwoJobs |-> IF j \in {"a", "b", "c"} THEN "t1" ELSE "t2"]
TwoFinal == [t1 |-> "c", t2 |-> "e"]

editorVars == <<text, view, mounted, patches, target, micro, ready, crossed, steps>>

\* A local document in one tab, p, that is closed, or crashes, and opened again.
Restart == INSTANCE Replica WITH
  ReplicaTabs <- {"p", "q"}, Access <- FALSE, Viewers <- {}, InitialOpen <- {"p"},
  SoloReopen <- TRUE, MaxEdits <- 3, MaxDrops <- 0, MaxOpens <- 2, MaxAsks <- 0,
  MaxCloses <- 2, MaxFaults <- 1, MaxSaves <- 1

\* Two tabs that both write, and a lost socket.
Writers == INSTANCE Replica WITH
  ReplicaTabs <- {"p", "q"}, Access <- TRUE, Viewers <- {}, InitialOpen <- {"p", "q"},
  SoloReopen <- TRUE, MaxEdits <- 1, MaxDrops <- 1, MaxOpens <- 0, MaxAsks <- 0,
  MaxCloses <- 0, MaxFaults <- 0, MaxSaves <- 0

Editor == INSTANCE EditorSync WITH
  Chars <- {"a", "b"}, MaxLen <- 3, MaxRanges <- 1, TxLimit <- 2, Chunk <- 1,
  MaxSteps <- 3, None <- NoTarget
Ranges == INSTANCE EditorSync WITH
  Chars <- {"a", "b"}, MaxLen <- 3, MaxRanges <- 2, TxLimit <- RangesLimit, Chunk <- 2,
  MaxSteps <- 2, None <- NoTarget

ASSUME MCBrowserSettings ==
  /\ ReplicaAssumption
  /\ Restart!ReplicaAssumption
  /\ Writers!ReplicaAssumption
  /\ Editor!EditorSyncAssumption
  /\ Ranges!EditorSyncAssumption

AllInit ==
  /\ part \in Parts
  /\ Init
  /\ IF part = "restart" THEN Restart!ReplicaInit ELSE ReplicaInit
  /\ HistoryInit
  /\ Editor!Init

AllNext ==
  \/ /\ part = "lock" /\ Next
     /\ UNCHANGED <<part, replicaVars, historyVars, editorVars>>
  \/ /\ part = "replica" /\ ReplicaNext
     /\ UNCHANGED <<part, vars, historyVars, editorVars>>
  \/ /\ part = "restart" /\ Restart!ReplicaNext /\ UNCHANGED tab["q"]
     /\ UNCHANGED <<part, vars, historyVars, editorVars>>
  \/ /\ part = "writers" /\ Writers!ReplicaNext
     /\ UNCHANGED <<part, vars, historyVars, editorVars>>
  \/ /\ part = "history" /\ HistoryNext
     /\ UNCHANGED <<part, vars, replicaVars, editorVars>>
  \/ /\ part = "editor" /\ Editor!Next
     /\ UNCHANGED <<part, vars, replicaVars, historyVars>>
  \/ /\ part = "ranges" /\ Ranges!Next
     /\ UNCHANGED <<part, vars, replicaVars, historyVars>>

AllVars == <<part, vars, replicaVars, historyVars, editorVars>>

AllSpec == AllInit /\ [][AllNext]_AllVars

\* Timers, events and transactions of an open tab run, and the network comes back.
AllFairness ==
  \A t \in ReplicaTabs :
    /\ WF_replicaVars(part = "writers" /\ Writers!Connect(t))
    /\ WF_replicaVars(part = "writers" /\ Writers!Commit(t))
    /\ WF_replicaVars(part = "writers" /\ (\/ Writers!OnServerVV(t) \/ Writers!OnUpdate(t)
                                          \/ Writers!OnSynced(t) \/ Writers!OnCommitted(t)))
    /\ WF_replicaVars(part = "writers" /\ (\/ Writers!RunAppend(t) \/ Writers!RunAck(t)
                                          \/ Writers!RunCheckpoint(t)))
    /\ WF_replicaVars(part = "writers" /\ (\/ Writers!OnTabUpdate(t) \/ Writers!OnTabAsk(t)
                                          \/ Writers!OnTabSnapshot(t)))

AllFairSpec == AllSpec /\ AllFairness

-----------------------------------------------------------------------------
\* An edit in an open writer's replica reaches the room, or the tab that holds
\* it ends, with two tabs that edit, a lost socket, and no other failure
\* (connect, commit, the receipts and journal writes).
EditsArrive == part = "writers" => Writers!EditsReachServer

\* Between tasks the editor shows the replica's text, whatever was typed,
\* refused, imported and replaced within one task (syncExtension,
\* scheduleEditorPatch, scheduleReconcile); except, until the plugin's 16 ms
\* interval attaches it again, when the replica changed in the task of the mount.
EditorShowsReplica == Editor!EditorShowsReplica
=============================================================================
