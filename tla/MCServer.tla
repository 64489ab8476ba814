------------------------------ MODULE MCServer ------------------------------
(*****************************************************************************)
(* The server beside the rooms, and what ships it: the asset store, the room *)
(* manager, the receipt ranges of a commit, the release a page loads and the *)
(* checks a change selects. The modules share no state:                      *)
(* each behaviour moves one of them and leaves the others as they start, so  *)
(* a run explores the sum of their states.                                   *)
(* Rooms have one document and what may befall them ("rooms"), or two        *)
(* documents and nothing does ("crowded").                                   *)
(*****************************************************************************)
EXTENDS AssetStore, RoomManager, ReceiptRanges, Release, Impact

CONSTANTS
  Parts   \* the components a run moves, one in each behaviour

VARIABLES
  part   \* the component whose steps this behaviour takes

NoReceipts == [observed |-> 0, sparse |-> {}]

OneDoc == {"d1"}
TwoDocs == {"d1", "d2"}
TwoRequests == {"r1", "r2"}
OneSocket == {"s1"}
TwoSockets == {"s1", "s2"}
TwoTasks == {"k1", "k2"}
TwoSites == <<"a", "b">>
OneTab == {1}
FourShells == <<"s1", "s1", "s2", "s1">>
FourComponents == <<"c1", "c2", "c3", "c2">>

AllInit ==
  /\ part \in Parts
  /\ Init
  /\ RoomsInit /\ \A d \in Documents : live[d] <=> d = "d1" \/ part = "crowded"
  /\ IF part = "ranges" THEN RangesInit
     ELSE /\ before = [i \in 1 .. Len(Sites) |-> NoReceipts] /\ after = before
          /\ site = 1 /\ phase = "prefix" /\ start = 0 /\ todo = {} /\ ranges = <<>>
  /\ ReleaseInit
  /\ IF part = "impact" THEN ImpactInit
     ELSE /\ changed = {} /\ untaken = {} /\ merged = FALSE /\ profile = "none"
          /\ runtimeChanged = FALSE /\ requirements = {"chromium"}

AllNext ==
  \/ /\ part = "assets" /\ Next
     /\ UNCHANGED <<part, roomsVars, rangesVars, releaseVars, impactVars>>
  \/ /\ part = "rooms" /\ RoomsNext
     /\ UNCHANGED <<part, vars, rangesVars, releaseVars, impactVars>>
  \/ /\ part = "crowded" /\ RoomsNext /\ events' = events
     /\ UNCHANGED <<part, vars, rangesVars, releaseVars, impactVars>>
  \/ /\ part = "ranges" /\ RangesNext
     /\ UNCHANGED <<part, vars, roomsVars, releaseVars, impactVars>>
  \/ /\ part = "release" /\ ReleaseNext
     /\ UNCHANGED <<part, vars, roomsVars, rangesVars, impactVars>>
  \/ /\ part = "impact" /\ ImpactNext
     /\ UNCHANGED <<part, vars, roomsVars, rangesVars, releaseVars>>

AllVars == <<part, vars, roomsVars, rangesVars, releaseVars, impactVars>>

AllSpec == AllInit /\ [][AllNext]_AllVars

\* The steps of a task and of a socket's future are run by the executor; the
\* blocking workers of the asset store finish; a start sweeps its directory.
AllFairness ==
  /\ \A t \in Tasks :
       /\ WF_roomsVars(part = "rooms" /\ Hydrate(t))
       /\ WF_roomsVars(part = "rooms" /\ AdmitBegins(t))
       /\ WF_roomsVars(part = "rooms" /\ AdmitEnds(t))
       /\ WF_roomsVars(part = "rooms" /\ Control(t))
       /\ WF_roomsVars(part = "rooms" /\ Return(t))
       /\ WF_roomsVars(part = "rooms" /\ Cleanup(t))
       /\ WF_roomsVars(part = "rooms" /\ AbortLands(t))
  /\ \A s \in Sockets :
       /\ WF_roomsVars(part = "rooms" /\ JoinEnds(s))
       /\ WF_roomsVars(part = "rooms" /\ LeaveTimeout(s))
  /\ \A r \in Requests :
       /\ WF_vars(part = "assets" /\ Put(r)) /\ WF_vars(part = "assets" /\ Safety(r))
       /\ WF_vars(part = "assets" /\ Cancelled(r)) /\ WF_vars(part = "assets" /\ Unlink(r))
       /\ WF_vars(part = "assets" /\ Commit(r)) /\ WF_vars(part = "assets" /\ Restore(r))
       /\ WF_vars(part = "assets" /\ Discard(r))
  /\ WF_vars(part = "assets" /\ SweepSafety) /\ WF_vars(part = "assets" /\ SweepEnds)

AllFairSpec == AllSpec /\ AllFairness
=============================================================================
