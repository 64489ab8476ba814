------------------------------ MODULE Presence ------------------------------
(***************************************************************************)
(* Presence: the activity controller and the presence store of each page,  *)
(* and the leases with which the room relays their frames.  A socket and   *)
(* the presence instance of its lifecycle are one number.  One key per     *)
(* site stands for <site>-cm-user; <site>-cm-sel takes the same path.      *)
(***************************************************************************)
EXTENDS Integers, Sequences, FiniteSets, Functions

CONSTANTS
  PresenceTabs,
  Site,        \* the ESBT site each tab was issued, a function on PresenceTabs
  MaxConns,    \* sockets ever opened
  MaxTicks,    \* heartbeat periods of 15 s
  MaxEvents,   \* changes of activity and lost connections
  MaxLost      \* frames the room drops

ASSUME PresenceAssumption ==
  /\ PresenceTabs # {} /\ DOMAIN Site = PresenceTabs
  /\ {MaxConns, MaxTicks, MaxEvents, MaxLost} \subseteq Nat

VARIABLES
  presenceTab, \* per tab: its socket, the last sequence, the controller's state
  store,    \* per tab and site: the presence entry
  greatest, \* per tab and instance: the greatest sequence applied
  up, down, \* frames in flight on each socket
  sockets,  \* the room's sockets: bound to their instance, sequence, key published
  lease,    \* active_presence: per site the socket, its sequence, its key
  retired,  \* retired_presence
  buried,   \* history: per tab the instances whose retirement it has applied
  quiet,    \* history: periods since the last event or loss
  usage     \* what has been spent of the bounds

presenceVars == <<presenceTab, store, greatest, up, down, sockets, lease, retired, buried, quiet, usage>>
client == <<presenceTab, store, greatest, buried>>
room == <<sockets, lease, retired>>

Sites == Range(Site)
Conns == 1..MaxConns
TTL == 2                       \* EPHEMERAL_TIMEOUT_MS in heartbeat periods

Absent == [state |-> "absent", inst |-> 0, local |-> FALSE, age |-> 0]
NoLease == [conn |-> 0, seq |-> 0, key |-> FALSE]
NoSocket == [open |-> FALSE, owner |-> CHOOSE t \in PresenceTabs : TRUE, bound |-> FALSE, seq |-> 0, key |-> FALSE]
Frame(inst, seq, entry) == [inst |-> inst, seq |-> seq, entry |-> entry, final |-> FALSE]

PresenceInit ==
  /\ presenceTab = [t \in PresenceTabs |-> [conn |-> 0, seq |-> 0, act |-> "active"]]
  /\ store = [t \in PresenceTabs |-> [s \in Sites |->
                IF s = Site[t] THEN [Absent EXCEPT !.state = "up", !.local = TRUE] ELSE Absent]]
  /\ greatest = [t \in PresenceTabs |-> [c \in Conns |-> 0]]
  /\ up = [c \in Conns |-> <<>>] /\ down = [c \in Conns |-> <<>>]
  /\ sockets = [c \in Conns |-> NoSocket]
  /\ lease = [s \in Sites |-> NoLease]
  /\ retired = {}
  /\ buried = [t \in PresenceTabs |-> {}]
  /\ quiet = 0
  /\ usage = [conns |-> 0, ticks |-> 0, events |-> 0, lost |-> 0]

------------------------------------------------------------------------------
(* The page. *)

Connected(t) == presenceTab[t].conn # 0

\* publication: every local key, as a value or a deletion.
Published(e) == IF ~e.local \/ e.state = "absent" THEN "none" ELSE e.state

Own(t, state) == [state |-> state, inst |-> presenceTab[t].conn, local |-> TRUE, age |-> 0]

Disturb == /\ usage.events < MaxEvents
           /\ usage' = [usage EXCEPT !.events = @ + 1]
           /\ quiet' = 0

\* onopen: a new instance, local entries follow it, all of them are sent.
Connect(t) ==
  /\ ~Connected(t) /\ presenceTab[t].act # "disconnected" /\ usage.conns < MaxConns
  /\ LET c == usage.conns + 1
         own == IF store[t][Site[t]].local THEN [store[t][Site[t]] EXCEPT !.inst = c]
                ELSE store[t][Site[t]]
     IN /\ presenceTab' = [presenceTab EXCEPT ![t].conn = c, ![t].seq = 1]
        /\ store' = [store EXCEPT ![t][Site[t]] = own]
        /\ up' = [up EXCEPT ![c] = <<Frame(c, 1, Published(own))>>]
        /\ sockets' = [sockets EXCEPT ![c] = [NoSocket EXCEPT !.open = TRUE, !.owner = t]]
        /\ usage' = [usage EXCEPT !.conns = c]
  /\ quiet' = 0
  /\ UNCHANGED <<greatest, down, lease, retired, buried>>

\* recordActivity on a visible page.
Activity(t) ==
  /\ presenceTab[t].act = "inactive" /\ quiet' = 0
  /\ store' = [store EXCEPT ![t][Site[t]] = Own(t, "up")]
  /\ presenceTab' = [presenceTab EXCEPT ![t].act = "active", ![t].seq = IF Connected(t) THEN @ + 1 ELSE @]
  /\ up' = IF Connected(t)
           THEN [up EXCEPT ![presenceTab[t].conn] = Append(@, Frame(presenceTab[t].conn, presenceTab[t].seq + 1, "up"))]
           ELSE up
  /\ UNCHANGED <<greatest, down, room, buried, usage>>

\* clearLocalPresence: delete() does nothing when the key is not up.
Deletes(t) == store[t][Site[t]].state = "up"
ClearedStore(t) == IF Deletes(t) THEN [store EXCEPT ![t][Site[t]] = Own(t, "deleted")] ELSE store
ClearedUp(t) ==
  IF Deletes(t) /\ Connected(t)
  THEN [up EXCEPT ![presenceTab[t].conn] = Append(@, Frame(presenceTab[t].conn, presenceTab[t].seq + 1, "deleted"))]
  ELSE up

\* transitionInactive: the idle timer or a hidden page.
GoInactive(t) ==
  /\ presenceTab[t].act = "active" /\ Disturb
  /\ store' = ClearedStore(t) /\ up' = ClearedUp(t)
  /\ presenceTab' = [presenceTab EXCEPT ![t].act = "inactive",
                        ![t].seq = IF Deletes(t) /\ Connected(t) THEN @ + 1 ELSE @]
  /\ UNCHANGED <<greatest, down, room, buried>>

\* handlePageHide: tombstones, then the socket is closed; nothing restarts it.
HandlePageHide(t) ==
  /\ presenceTab[t].act # "disconnected" /\ Disturb
  /\ store' = ClearedStore(t) /\ up' = ClearedUp(t)
  /\ presenceTab' = [presenceTab EXCEPT ![t] = [conn |-> 0, seq |-> 0, act |-> "disconnected"]]
  /\ UNCHANGED <<greatest, down, room, buried>>

\* The network fails; the room may keep the socket for a while.
LoseSocket(t) ==
  /\ Connected(t) /\ Disturb
  /\ presenceTab' = [presenceTab EXCEPT ![t].conn = 0, ![t].seq = 0]
  /\ \E n \in 0..Len(up[presenceTab[t].conn]) :
       up' = [up EXCEPT ![presenceTab[t].conn] = SubSeq(@, 1, n)]
  /\ UNCHANGED <<store, greatest, down, room, buried>>

Expired(e) == e.state # "absent" /\ e.age > TTL

\* apply: a value never replaces another instance's value, a deletion always does.
Applied(t, f, e) ==
  IF f.seq <= greatest[t][f.inst] \/ f.entry = "none" THEN e
  ELSE IF f.entry = "deleted" THEN [state |-> "deleted", inst |-> f.inst, local |-> FALSE, age |-> 0]
  ELSE IF e.state = "up" /\ e.inst # f.inst THEN e
  ELSE [state |-> "up", inst |-> f.inst, local |-> FALSE, age |-> 0]

Receive(t) ==
  /\ Connected(t) /\ down[presenceTab[t].conn] # <<>>
  /\ LET f == Head(down[presenceTab[t].conn])
         s == Site[sockets[f.inst].owner]
     IN /\ store' = [store EXCEPT ![t][s] = Applied(t, f, @)]
        /\ greatest' = [greatest EXCEPT ![t][f.inst] = IF f.seq > @ THEN f.seq ELSE @]
        /\ buried' = IF f.final THEN [buried EXCEPT ![t] = @ \union {f.inst}] ELSE buried
  /\ down' = [down EXCEPT ![presenceTab[t].conn] = Tail(@)]
  /\ UNCHANGED <<presenceTab, up, room, quiet, usage>>

\* sweep, every five seconds.
Sweep(t) ==
  /\ \E s \in Sites : Expired(store[t][s])
  /\ store' = [store EXCEPT ![t] = [s \in Sites |-> IF Expired(@[s]) THEN Absent ELSE @[s]]]
  /\ UNCHANGED <<presenceTab, greatest, up, down, room, buried, quiet, usage>>

------------------------------------------------------------------------------
(* The room. *)

Open == {c \in Conns : sockets[c].open}

\* What a socket is sent, in order; broadcast_ephemeral skips a slow socket.
Sent(c, msgs) == [d \in Conns |-> IF d \in Open THEN down[d] \o msgs[d] ELSE down[d]]

Retirement(l) == [inst |-> l.conn, seq |-> l.seq + 1, final |-> TRUE,
                  entry |-> IF l.key THEN "deleted" ELSE "none"]

\* The retirement of the site's other lease, then the frame.
Relayed(c, f, old, slow) ==
  [d \in Conns |->
     (IF old.conn \in {0, c, d} THEN <<>> ELSE <<Retirement(old)>>)
     \o (IF d = c \/ d \in slow THEN <<>> ELSE <<f>>)]

\* Mutant: a retired instance is forgotten.
IgnoredUnlessOld(c, f) == f.seq <= sockets[c].seq

\* A frame of a retired instance, or out of sequence, is dropped.
Ignored(c, f) == c \in retired \/ f.seq <= sockets[c].seq

\* client_presence.
ClientPresence(c) ==
  /\ c \in Open /\ up[c] # <<>>
  /\ LET f == Head(up[c])
         s == Site[sockets[c].owner]
         old == IF sockets[c].bound THEN NoLease ELSE lease[s]
         key == IF f.entry = "none" THEN sockets[c].key ELSE f.entry = "up"
     IN IF Ignored(c, f) THEN UNCHANGED <<sockets, lease, retired, down, usage, quiet>>
        ELSE \E slow \in SUBSET (Open \ {c}) :
             /\ usage.lost + Cardinality(slow) <= MaxLost
             /\ usage' = [usage EXCEPT !.lost = @ + Cardinality(slow)]
             /\ quiet' = IF slow = {} THEN quiet ELSE 0
             /\ down' = Sent(c, Relayed(c, f, old, slow))
             /\ retired' = retired \union ({old.conn} \ {0, c})
             /\ sockets' = [d \in Conns |->
                           CASE d = c -> [sockets[c] EXCEPT !.bound = TRUE, !.seq = f.seq, !.key = key]
                             [] d = old.conn /\ d # c -> [sockets[d] EXCEPT !.bound = FALSE, !.key = FALSE]
                             [] OTHER -> sockets[d]]
             /\ lease' = [lease EXCEPT ![s] = [conn |-> c, seq |-> f.seq, key |-> key]]
  /\ up' = [up EXCEPT ![c] = Tail(@)]
  /\ UNCHANGED <<client>>

\* The token bucket refuses a frame.
RateLimited(c) ==
  /\ c \in Open /\ up[c] # <<>> /\ usage.lost < MaxLost
  /\ up' = [up EXCEPT ![c] = Tail(@)]
  /\ usage' = [usage EXCEPT !.lost = @ + 1] /\ quiet' = 0
  /\ UNCHANGED <<client, down, room>>

\* RoomControl::Leave: the socket goes, its lease stays.
Leave(c) ==
  /\ c \in Open /\ presenceTab[sockets[c].owner].conn # c /\ up[c] = <<>>
  /\ sockets' = [sockets EXCEPT ![c].open = FALSE]
  /\ down' = [down EXCEPT ![c] = <<>>]
  /\ UNCHANGED <<client, up, lease, retired, quiet, usage>>

\* Nothing is in flight.
Rest == /\ \A c \in Open : up[c] = <<>>
        /\ \A t \in PresenceTabs : Connected(t) => down[presenceTab[t].conn] = <<>>

\* Pages whose heartbeat publishes: publishUser while the controller is active.
Beating == {t \in PresenceTabs : presenceTab[t].act = "active"}

\* A heartbeat period; frames and sweeps take far less.
Tick ==
  /\ usage.ticks < MaxTicks /\ Rest
  /\ \A t \in PresenceTabs, s \in Sites : ~Expired(store[t][s])
  /\ usage' = [usage EXCEPT !.ticks = @ + 1]
  /\ quiet' = IF quiet = TTL + 2 THEN quiet ELSE quiet + 1
  /\ store' = [t \in PresenceTabs |-> [s \in Sites |->
                 IF s = Site[t] /\ t \in Beating THEN Own(t, "up")
                 ELSE IF store[t][s].state = "absent" THEN Absent
                 ELSE [store[t][s] EXCEPT !.age = @ + 1]]]
  /\ presenceTab' = [t \in PresenceTabs |-> IF t \in Beating /\ Connected(t) THEN [presenceTab[t] EXCEPT !.seq = @ + 1] ELSE presenceTab[t]]
  /\ up' = [c \in Conns |->
              IF \E t \in Beating : presenceTab[t].conn = c
              THEN <<Frame(c, presenceTab[sockets[c].owner].seq + 1, "up")>> ELSE up[c]]
  /\ UNCHANGED <<greatest, down, room, buried>>

PresenceNext ==
  \/ Tick
  \/ \E t \in PresenceTabs : \/ Connect(t) \/ Activity(t) \/ GoInactive(t)
                     \/ HandlePageHide(t) \/ LoseSocket(t) \/ Receive(t) \/ Sweep(t)
  \/ \E c \in Conns : ClientPresence(c) \/ RateLimited(c) \/ Leave(c)

PresenceSpec == PresenceInit /\ [][PresenceNext]_presenceVars

------------------------------------------------------------------------------
\* A page that applied the retirement of an instance is never shown it anew, and
\* what it still shows of it is not refreshed, though the retired page may keep
\* publishing on its open socket (client_presence, retired_presence).
RetiredStaysGone ==
  [][\A t \in PresenceTabs, s \in Sites :
       LET e == store'[t][s] IN
       (e.state = "up" /\ ~e.local /\ e.inst \in buried[t])
         => store[t][s].state = "up" /\ store[t][s].inst = e.inst /\ store[t][s].age <= e.age]_presenceVars
==============================================================================
