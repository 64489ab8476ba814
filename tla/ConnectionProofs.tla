-------------------------- MODULE ConnectionProofs --------------------------
(***************************************************************************)
(* How a page gets to a document: the transport of a session is sound for  *)
(* any number of sockets, admissions, authority changes and interruptions; *)
(* a page opens the session of its document only; a revoked device has no  *)
(* live session; a create action makes one document, however often it is   *)
(* repeated; a shared link is pursued and its owner's dialog current; and  *)
(* a presence whose end a page was told of is never shown anew. The six    *)
(* share no state.                                                         *)
(***************************************************************************)
EXTENDS Connection, Opening, Identity, Catalog, Sharing, Presence, SequenceTheorems,
        FiniteSetTheorems, TLAPS

WireState == {"connecting", "open", "revoked", "closed"}

Typed ==
  /\ wire \in Seq(WireState)
  /\ sock \in Nat /\ adm \in Nat /\ nadm \in Nat /\ asking \subseteq Nat \ {0}
  /\ deadline \in Nat /\ errclose \in Nat
  /\ synced \in BOOLEAN /\ work \in BOOLEAN /\ reconnect \in BOOLEAN /\ grace \in BOOLEAN

\* An admission is asked for only when no socket is followed: its ticket never
\* replaces a socket that nobody closed.
OneAttempt == adm # 0 => sock = 0

\* A timer of a socket is armed for the one that is followed, and an error
\* timer only after close was called on it.
TimersFollow ==
  /\ deadline \in {0, sock}
  /\ errclose \in {0, sock}
  /\ errclose # 0 => errclose \in asked

\* Without a network no socket is followed.
OfflineDetached == ~online => sock = 0

Inv ==
  /\ Typed /\ OneAttempt /\ TimersFollow /\ OfflineDetached
  /\ AlwaysProgressing /\ FinalIsQuiet /\ NoSocketLeaked

-----------------------------------------------------------------------------
(* How steps change the states of sockets. *)

\* A new socket is the last; the states of the others stay.
LEMMA WireGrows ==
  ASSUME Typed, wire' = Append(wire, "connecting")
  PROVE  /\ wire' \in Seq(WireState) /\ Sockets' = Sockets \cup {Len(wire) + 1}
         /\ Len(wire) + 1 \in Nat \ {0}
         /\ \A g \in Sockets : wire'[g] = wire[g]
<1>1. wire \in Seq(WireState) /\ "connecting" \in WireState
  BY DEF Typed, WireState
<1> QED BY <1>1, AppendProperties, LenProperties DEF Sockets

\* One socket goes to another state.
LEMMA WireMoves ==
  ASSUME Typed, NEW g \in Sockets, NEW s \in WireState, wire' = [wire EXCEPT ![g] = s]
  PROVE  /\ wire' \in Seq(WireState) /\ Sockets' = Sockets /\ wire'[g] = s
         /\ \A h \in Sockets : h # g => wire'[h] = wire[h]
<1>1. wire \in Seq(WireState) /\ g \in 1 .. Len(wire) /\ DOMAIN wire = 1 .. Len(wire)
  BY LenProperties DEF Typed, Sockets
<1>2. wire' \in Seq(WireState)
  BY <1>1, ExceptSeq
<1> QED BY <1>1, <1>2 DEF Sockets

\* A change of authority revokes the sockets in use.
LEMMA WireRevoked ==
  ASSUME Typed, AuthorityChanges
  PROVE  /\ wire' \in Seq(WireState) /\ Sockets' = Sockets
         /\ \A g \in Sockets : wire'[g] \notin {"connecting", "open"}
<1>1. wire \in Seq(WireState) /\ Len(wire) \in Nat /\ Sockets = 1 .. Len(wire)
  BY LenProperties DEF Typed, Sockets
<1>2. \A g \in Sockets : wire[g] \in WireState
  BY <1>1, ElementOfSeq
<1>3. wire' = [g \in Sockets |-> IF wire[g] \in {"connecting", "open"} THEN "revoked" ELSE wire[g]]
  BY DEF AuthorityChanges
<1>4. wire' \in [1 .. Len(wire) -> WireState]
  BY <1>1, <1>2, <1>3 DEF WireState
<1>5. wire' \in Seq(WireState)
  BY <1>1, <1>4, SeqDef
<1> QED BY <1>1, <1>3, <1>5 DEF Sockets

-----------------------------------------------------------------------------
(* One lemma per group of actions. *)

USE DEF net, admission, env, NoRole

\* connect asks for an admission unless there is a socket or an admission.
LEMMA Connects ==
  ASSUME Typed, ConnectNow, phase = "live", nadm < MaxAdmissions
  PROVE  /\ adm' \in Nat /\ nadm' \in Nat /\ asking' \subseteq Nat \ {0}
         /\ IF sock = 0 THEN adm' # 0 ELSE adm' = adm
<1>1. CASE CanConnect
  <2>1. nadm + 1 \in Nat \ {0} /\ sock = 0
    BY <1>1 DEF Typed, CanConnect
  <2> QED BY <1>1, <2>1 DEF Typed, ConnectNow, Admit
<1>2. CASE ~CanConnect
  BY <1>2 DEF Typed, ConnectNow, CanConnect
<1> QED BY <1>1, <1>2

\* Timers, and what a page, its edits and its storage do.
LEMMA PageSteps ==
  ASSUME Inv, \/ Timers \/ Work \/ Committed \/ StorageFails \/ SocketError
              \/ GoOffline \/ GoOnline \/ PageHide \/ PageShow
  PROVE  Inv'
<1>1. wire' = wire /\ Sockets' = Sockets
  BY DEF Timers, ReconnectTimer, GraceExpires, EnterTerminal, DeadlineFires, ErrorCloseFires, Work,
         Committed, StorageFails, SocketError, GoOffline, GoOnline, PageHide, PageShow, Sockets
<1> USE <1>1 DEF Inv, Typed, OneAttempt, TimersFollow, OfflineDetached, AlwaysProgressing,
        FinalIsQuiet, NoSocketLeaked
<1> HIDE DEF Sockets
<1>2. CASE ReconnectTimer
  BY <1>2, Connects DEF ReconnectTimer
<1>3. CASE GraceExpires
  BY <1>3 DEF GraceExpires, EnterTerminal
<1>4. CASE DeadlineFires
  BY <1>4 DEF DeadlineFires, Detached
<1>5. CASE ErrorCloseFires
  BY <1>5 DEF ErrorCloseFires, Detached
<1>6. CASE Work
  BY <1>6 DEF Work
<1>7. CASE Committed
  BY <1>7 DEF Committed
<1>8. CASE StorageFails
  BY <1>8 DEF StorageFails
<1>9. CASE SocketError
  BY <1>9 DEF SocketError
<1>10. CASE GoOffline
  BY <1>10 DEF GoOffline
<1>11. CASE GoOnline
  <2>1. CASE phase = "live"
    BY <1>11, <2>1, Connects DEF GoOnline
  <2>2. CASE phase # "live"
    BY <1>11, <2>2 DEF GoOnline
  <2> QED BY <2>1, <2>2
<1>12. CASE PageHide
  BY <1>12 DEF PageHide
<1>13. CASE PageShow
  BY <1>13 DEF PageShow
<1> QED BY <1>2, <1>3, <1>4, <1>5, <1>6, <1>7, <1>8, <1>9, <1>10, <1>11, <1>12, <1>13 DEF Timers

\* Answers to admissions, late ones included.
LEMMA AdmissionSteps == ASSUME Inv, AdmissionEvents PROVE Inv'
<1> USE DEF Inv, Typed, OneAttempt, TimersFollow, OfflineDetached, AlwaysProgressing,
        FinalIsQuiet, NoSocketLeaked
<1>1. ASSUME NEW n \in asking, Admitted(n), phase = "live", adm = n
      PROVE  Inv'
  <2>1. wire' = Append(wire, "connecting") /\ sock' = Len(wire) + 1 /\ deadline' = sock'
    BY <1>1 DEF Admitted, OpenSocket
  <2>2. /\ wire' \in Seq(WireState) /\ Sockets' = Sockets \cup {sock'} /\ sock' \in Nat \ {0}
        /\ \A g \in Sockets : wire'[g] = wire[g]
    BY <2>1, WireGrows
  <2>3. 0 \notin Sockets
    BY LenProperties DEF Sockets
  <2> HIDE DEF Sockets
  <2> QED BY <1>1, <2>1, <2>2, <2>3 DEF Admitted, OpenSocket
<1>2. ASSUME NEW n \in asking, Admitted(n), phase # "live" \/ adm # n
      PROVE  Inv'
  BY <1>2 DEF Admitted, Sockets
<1>3. ASSUME NEW n \in asking, NEW r \in BOOLEAN, AdmissionFails(n, r)
      PROVE  Inv'
  <2>1. CASE phase # "live" \/ adm # n
    BY <1>3, <2>1 DEF AdmissionFails, Sockets
  <2>2. CASE phase = "live" /\ adm = n /\ (r \/ grace)
    BY <1>3, <2>2 DEF AdmissionFails, Sockets
  <2>3. CASE phase = "live" /\ adm = n /\ ~(r \/ grace)
    BY <1>3, <2>3 DEF AdmissionFails, Sockets
  <2> QED BY <2>1, <2>2, <2>3
<1> QED BY <1>1, <1>2, <1>3 DEF AdmissionEvents

\* Events of sockets, abandoned ones included.
LEMMA SocketSteps == ASSUME Inv, SocketEvents PROVE Inv'
<1> USE DEF Inv, Typed, OneAttempt, TimersFollow, OfflineDetached, AlwaysProgressing,
        FinalIsQuiet, NoSocketLeaked
<1>1. CASE AuthorityChanges
  <2>1. /\ wire' \in Seq(WireState) /\ Sockets' = Sockets
        /\ \A g \in Sockets : wire'[g] \notin {"connecting", "open"}
    BY <1>1, WireRevoked
  <2> HIDE DEF Sockets
  <2> QED BY <1>1, <2>1 DEF AuthorityChanges
<1>2. ASSUME NEW g \in Sockets, Opens(g) PROVE Inv'
  <2>1. /\ wire' \in Seq(WireState) /\ Sockets' = Sockets
        /\ \A h \in Sockets : h # g => wire'[h] = wire[h]
    BY <1>2, WireMoves DEF Opens, WireState
  <2> HIDE DEF Sockets
  <2> QED BY <1>2, <2>1 DEF Opens
<1>3. ASSUME NEW g \in Sockets, Synced(g) PROVE Inv'
  BY <1>3 DEF Synced, Sockets
<1>4. ASSUME NEW g \in Sockets, NEW code \in {"none", "authority", "final"}, Closes(g, code)
      PROVE  Inv'
  <2>1. /\ wire' \in Seq(WireState) /\ Sockets' = Sockets /\ wire'[g] = "closed"
        /\ \A h \in Sockets : h # g => wire'[h] = wire[h]
    BY <1>4, WireMoves DEF Closes, WireState
  <2> HIDE DEF Sockets
  <2>2. CASE phase # "live" \/ sock # g
    BY <1>4, <2>1, <2>2 DEF Closes, Disconnect
  <2>3. CASE phase = "live" /\ sock = g /\ code = "final"
    BY <1>4, <2>1, <2>3 DEF Closes, Disconnect
  <2>4. CASE phase = "live" /\ sock = g /\ code = "authority"
    <3>1. adm = 0 /\ nadm < MaxAdmissions /\ sock # 0
      BY <1>4, <2>4, LenProperties DEF Closes, Sockets
    <3>2. Admit /\ Detached(g)
      BY <1>4, <2>4, <3>1 DEF Closes, Disconnect
    <3>3. adm' \in Nat \ {0} /\ nadm' \in Nat /\ asking' \subseteq Nat \ {0}
      BY <3>2 DEF Admit
    <3> QED BY <1>4, <2>1, <2>4, <3>1, <3>2, <3>3 DEF Closes, Disconnect, Detached
  <2>5. CASE phase = "live" /\ sock = g /\ code = "none"
    BY <1>4, <2>1, <2>5 DEF Closes, Disconnect, Detached
  <2> QED BY <2>2, <2>3, <2>4, <2>5
<1> QED BY <1>1, <1>2, <1>3, <1>4 DEF SocketEvents

-----------------------------------------------------------------------------
\* A session that is live goes on, one that is over stays silent, and no socket
\* is let go of while it could still speak - whatever the order of answers,
\* closes, errors, deadlines, authority changes and interruptions.
THEOREM TransportStaysSound == Spec => []TransportSound
<1>1. Init => Inv
  <2>1. Init => wire \in Seq(WireState) /\ Sockets = {}
    BY EmptySeq DEF Init, Sockets
  <2> HIDE DEF Sockets
  <2>2. Init => Typed
    <3>1. ASSUME Init PROVE asking \subseteq Nat \ {0}
      BY <3>1 DEF Init
    <3>2. ASSUME Init PROVE sock \in Nat /\ adm \in Nat /\ nadm \in Nat /\ deadline \in Nat /\ errclose \in Nat
      BY <3>2 DEF Init
    <3>3. ASSUME Init PROVE synced \in BOOLEAN /\ work \in BOOLEAN /\ reconnect \in BOOLEAN /\ grace \in BOOLEAN
      BY <3>3 DEF Init
    <3> QED BY <2>1, <3>1, <3>2, <3>3 DEF Typed
  <2>3. Init => OneAttempt /\ TimersFollow /\ OfflineDetached
    BY DEF Init, OneAttempt, TimersFollow, OfflineDetached
  <2>4. Init => AlwaysProgressing /\ FinalIsQuiet /\ NoSocketLeaked
    BY <2>1 DEF Init, AlwaysProgressing, FinalIsQuiet, NoSocketLeaked
  <2> QED BY <2>2, <2>3, <2>4 DEF Inv
<1>2. Inv /\ [Next]_vars => Inv'
  <2>1. ASSUME Inv, UNCHANGED vars PROVE Inv'
    BY <2>1 DEF vars, Inv, Typed, OneAttempt, TimersFollow, OfflineDetached, AlwaysProgressing,
           FinalIsQuiet, NoSocketLeaked, Sockets
  <2> QED BY <2>1, PageSteps, AdmissionSteps, SocketSteps DEF Next
<1>3. Inv => TransportSound
  BY DEF Inv, TransportSound
<1> QED BY <1>1, <1>2, <1>3, PTL DEF Spec

-----------------------------------------------------------------------------
(* The opening of a document: types. *)

Answers == {"none", "esbt", "legacy", "gone"}
OpeningState ==
  [st : {"idle", "load", "make", "made", "held"}, doc : 0..N, aborted : BOOLEAN]
HookState == [kind : Answers, resolved : BOOLEAN, error : BOOLEAN]
LookState ==
  {l \in [doc : 0..N, st : {"idle", "asked", "waiting"}, cached : Answers, ans : Answers \cup {"failed"}] :
     l.st # "idle" => l.doc \in Docs}
GetState == [nav : 0..MaxNav, doc : 0..N, ans : Answers]

OpeningTyped ==
  /\ row \in [Docs -> {"live", "gone"}] /\ cache \in [Docs -> Answers]
  /\ route \in 0..N /\ nav \in 0..MaxNav /\ access \in Nat
  /\ hook \in HookState /\ look \in [1..MaxNav -> LookState] /\ gets \in [1..MaxGets -> GetState]
  /\ cur \in 0..MaxOpen /\ open \in [1..MaxOpen -> OpeningState]
  /\ failed \in BOOLEAN /\ proved \in BOOLEAN

\* The effect's opening is for the document it was started with, and alone has a session.
Attached ==
  /\ cur # 0 => /\ SessionDoc # 0 /\ open[cur].doc = SessionDoc
                /\ open[cur].st # "idle" /\ ~open[cur].aborted
  /\ \A o \in 1..MaxOpen : open[o].st = "held" => o = cur

\* Where a page leaves a document through home, what the hook says of a
\* document is what its own metadata said: lookups of this navigation are of
\* this route.
Proved ==
  /\ hook.kind = "esbt" => proved
  /\ route = 0 => hook = NoMeta
  /\ nav = 0 => route = 0
  /\ \A n \in 1..MaxNav : (n = nav /\ route # 0 /\ look[n].st # "idle" => look[n].doc = route)
                          /\ (n > nav => look[n] = NoLook)
  /\ \A i \in 1..MaxGets : gets[i].nav <= nav /\ (gets[i].nav = nav /\ route # 0 => gets[i].doc = route)

OpeningInv == OpeningTyped /\ Attached /\ (~Direct => Proved)

-----------------------------------------------------------------------------
(* The session effect. *)

LEMMA Sizes ==
  /\ N \in Nat /\ MaxNav \in Nat /\ MaxOpen \in Nat /\ MaxGets \in Nat
  /\ About \in 1..N /\ About # 0
BY OpeningAssumption

LEMMA SessionDocIn ==
  ASSUME hook \in HookState, route \in 0..N
  PROVE  SessionDoc \in 0..N /\ (SessionDoc # 0 => SessionDoc = route)
BY OpeningAssumption DEF SessionDoc

LEMMA EndedIn ==
  ASSUME NEW s \in OpeningState
  PROVE  Ended(s) \in OpeningState /\ Ended(s).st # "held" /\ NoOpening \in OpeningState
<1>1. NoOpening \in OpeningState /\ NoOpening.st = "idle"
  BY OpeningAssumption DEF NoOpening, OpeningState
<1>2. CASE s.st = "held"
  BY <1>1, <1>2 DEF Ended
<1>3. CASE s.st = "idle"
  BY <1>1, <1>3 DEF Ended
<1>4. CASE s.st \notin {"held", "idle"}
  <2>1. Ended(s) = [s EXCEPT !.aborted = TRUE]
    BY <1>4 DEF Ended
  <2> QED BY <1>1, <1>4, <2>1 DEF OpeningState
<1> QED BY <1>2, <1>3, <1>4

LEMMA EffectsAttach ==
  ASSUME OpeningTyped, Attached, Effects, hook' \in HookState, route' \in 0..N
  PROVE  /\ cur' \in 0..MaxOpen /\ open' \in [1..MaxOpen -> OpeningState]
         /\ failed' \in BOOLEAN /\ Attached'
<1>1. CASE Key' = Key
  <2>1. cur' = cur /\ open' = open /\ failed' = failed
    BY <1>1 DEF Effects
  <2>2. SessionDoc' = SessionDoc
    BY <1>1 DEF Key
  <2> QED BY <2>1, <2>2 DEF OpeningTyped, Attached
<1>2. CASE Key' # Key
  <2> DEFINE cleaned == [o \in 1..MaxOpen |-> IF o = cur THEN Ended(open[o]) ELSE open[o]]
  <2>1. /\ failed' = FALSE
        /\ \/ ~MayOpen' /\ cur' = 0 /\ open' = cleaned
           \/ /\ MayOpen'
              /\ \E o \in 1..MaxOpen :
                   /\ cur' = o
                   /\ open' = [cleaned EXCEPT ![o] = [st |-> "load", doc |-> SessionDoc', aborted |-> FALSE]]
    BY <1>2 DEF Effects
  <2>2. cleaned \in [1..MaxOpen -> OpeningState] /\ \A o \in 1..MaxOpen : cleaned[o].st # "held"
    <3>1. ASSUME NEW o \in 1..MaxOpen
          PROVE  cleaned[o] \in OpeningState /\ cleaned[o].st # "held"
      BY EndedIn DEF OpeningTyped, Attached
    <3> QED BY <3>1
  <2> HIDE DEF cleaned
  <2>3. CASE ~MayOpen' /\ cur' = 0 /\ open' = cleaned
    <3>1. 0 \in 0..MaxOpen /\ cur' = 0
      BY <2>3, Sizes
    <3> QED BY <2>1, <2>2, <2>3, <3>1 DEF Attached
  <2>4. ASSUME MayOpen', NEW o \in 1..MaxOpen, cur' = o,
               open' = [cleaned EXCEPT ![o] = [st |-> "load", doc |-> SessionDoc', aborted |-> FALSE]]
        PROVE  cur' \in 0..MaxOpen /\ open' \in [1..MaxOpen -> OpeningState] /\ Attached'
    <3>1. SessionDoc' # 0
      BY <2>4 DEF MayOpen
    <3>2. SessionDoc' \in 0..N
      BY OpeningAssumption DEF SessionDoc
    <3> DEFINE fresh == [st |-> "load", doc |-> SessionDoc', aborted |-> FALSE]
    <3>3. fresh \in OpeningState /\ fresh.st = "load" /\ ~fresh.aborted /\ fresh.doc = SessionDoc'
      BY <3>2 DEF OpeningState
    <3> HIDE DEF fresh
    <3>4. open' = [cleaned EXCEPT ![o] = fresh]
      BY <2>4 DEF fresh
    <3>5. open' \in [1..MaxOpen -> OpeningState] /\ open'[o] = fresh
          /\ \A p \in 1..MaxOpen : p # o => open'[p] = cleaned[p]
      BY <3>4, <3>3, <2>2
    <3>6. o \in 0..MaxOpen
      BY OpeningAssumption
    <3> QED BY <2>4, <2>2, <3>1, <3>3, <3>5, <3>6 DEF Attached
  <2> QED BY <2>1, <2>3, <2>4
<1> QED BY <1>1, <1>2

-----------------------------------------------------------------------------
(* The invariant. *)

LEMMA OpeningStarts == OpeningInit => OpeningInv
<1> SUFFICES ASSUME OpeningInit PROVE OpeningInv
  OBVIOUS
<1>1. NoOpening \in OpeningState /\ NoOpening.st = "idle"
  BY OpeningAssumption DEF NoOpening, OpeningState
<1>2. NoLook \in LookState /\ NoLook.st = "idle"
  BY OpeningAssumption DEF NoLook, LookState, Answers
<1>3. NoGet \in GetState /\ NoGet.nav = 0
  BY OpeningAssumption DEF NoGet, GetState, Answers
<1>4. NoMeta \in HookState /\ NoMeta.kind = "none"
  BY DEF NoMeta, HookState, Answers
<1>5. OpeningTyped
  <2>1. 0 \in 0..N /\ 0 \in 0..MaxNav /\ 0 \in 0..MaxOpen /\ 0 \in Nat
    BY Sizes
  <2>2. row \in [Docs -> {"live", "gone"}] /\ cache \in [Docs -> Answers]
    BY DEF OpeningInit, Answers
  <2> QED BY <1>1, <1>2, <1>3, <1>4, <2>1, <2>2 DEF OpeningTyped, OpeningInit
<1>6. Attached
  BY <1>1 DEF OpeningInit, Attached
<1>7. Proved
  BY <1>2, <1>3, <1>4 DEF OpeningInit, Proved
<1> QED BY <1>5, <1>6, <1>7 DEF OpeningInv

\* A step of one opening: its document is the same, and it has a session only
\* as the effect's opening.
LEMMA OpeningMoves ==
  ASSUME OpeningTyped, Attached, NEW o \in 1..MaxOpen, NEW s \in OpeningState,
         open' = [open EXCEPT ![o] = s], SessionDoc' = SessionDoc,
         s.st = "held" => o = cur',
         \/ cur' = cur /\ (o = cur => s.st # "idle" /\ ~s.aborted /\ s.doc = open[o].doc)
         \/ cur' = 0 /\ o = cur
  PROVE  cur' \in 0..MaxOpen /\ open' \in [1..MaxOpen -> OpeningState] /\ Attached'
<1>1. open' \in [1..MaxOpen -> OpeningState] /\ open'[o] = s
      /\ \A p \in 1..MaxOpen : p # o => open'[p] = open[p]
  BY DEF OpeningTyped
<1>2. 0 \in 0..MaxOpen /\ 0 \notin 1..MaxOpen
  BY OpeningAssumption
<1> QED BY <1>1, <1>2 DEF OpeningTyped, Attached

\* Nothing the hook's invariant speaks of changes.
LEMMA HookKept ==
  ASSUME OpeningInv, UNCHANGED <<row, cache, route, nav, hook, look, gets, access, proved>>,
         cur' \in 0..MaxOpen, open' \in [1..MaxOpen -> OpeningState], failed' \in BOOLEAN, Attached'
  PROVE  OpeningInv'
BY DEF OpeningInv, OpeningTyped, Proved

LEMMA OpeningsMove ==
  ASSUME OpeningInv, NEW o \in 1..MaxOpen,
         Loaded(o) \/ Made(o) \/ Delivered(o) \/ OpenFails(o)
  PROVE  OpeningInv'
<1>0. OpeningTyped /\ Attached /\ open[o] \in OpeningState /\ failed \in BOOLEAN
  BY DEF OpeningInv, OpeningTyped
<1>1. NoOpening \in OpeningState /\ NoOpening.st = "idle"
  BY OpeningAssumption DEF NoOpening, OpeningState
<1>2. hook' = hook /\ route' = route => SessionDoc' = SessionDoc
  BY DEF SessionDoc
<1>3. o = cur => /\ open[o].st # "idle" /\ ~open[o].aborted
  BY <1>0, OpeningAssumption DEF Attached
<1>4. CASE Loaded(o)
  <2> DEFINE s == IF open[o].aborted THEN NoOpening ELSE [open[o] EXCEPT !.st = "make"]
  <2>1. open' = [open EXCEPT ![o] = s] /\ SessionDoc' = SessionDoc /\ cur' = cur /\ failed' = failed
        /\ UNCHANGED <<row, cache, route, nav, hook, look, gets, access, proved>>
    BY <1>2, <1>4 DEF Loaded
  <2>2. s \in OpeningState /\ s.st # "held" /\ (o = cur => s.st # "idle" /\ ~s.aborted /\ s.doc = open[o].doc)
    BY <1>0, <1>1, <1>3 DEF OpeningState
  <2> HIDE DEF s
  <2>3. cur' \in 0..MaxOpen /\ open' \in [1..MaxOpen -> OpeningState] /\ Attached'
    BY <1>0, <2>1, <2>2, OpeningMoves
  <2> QED BY <1>0, <2>1, <2>3, HookKept
<1>5. CASE Made(o)
  <2> DEFINE s == IF open[o].aborted THEN NoOpening ELSE [open[o] EXCEPT !.st = "made"]
  <2>1. open' = [open EXCEPT ![o] = s] /\ SessionDoc' = SessionDoc /\ cur' = cur /\ failed' = failed
        /\ UNCHANGED <<row, cache, route, nav, hook, look, gets, access, proved>>
    BY <1>2, <1>5 DEF Made, Arrived
  <2>2. s \in OpeningState /\ s.st # "held" /\ (o = cur => s.st # "idle" /\ ~s.aborted /\ s.doc = open[o].doc)
    BY <1>0, <1>1, <1>3 DEF OpeningState
  <2> HIDE DEF s
  <2>3. cur' \in 0..MaxOpen /\ open' \in [1..MaxOpen -> OpeningState] /\ Attached'
    BY <1>0, <2>1, <2>2, OpeningMoves
  <2> QED BY <1>0, <2>1, <2>3, HookKept
<1>6. CASE Delivered(o)
  <2> DEFINE s == IF o = cur THEN [open[o] EXCEPT !.st = "held"] ELSE NoOpening
  <2>1. open' = [open EXCEPT ![o] = s] /\ SessionDoc' = SessionDoc /\ cur' = cur /\ failed' \in BOOLEAN
        /\ UNCHANGED <<row, cache, route, nav, hook, look, gets, access, proved>>
    BY <1>0, <1>2, <1>6 DEF Delivered
  <2>2. s \in OpeningState /\ (s.st = "held" => o = cur')
        /\ (o = cur => s.st # "idle" /\ ~s.aborted /\ s.doc = open[o].doc)
    BY <1>0, <1>1, <1>3, <2>1 DEF OpeningState
  <2> HIDE DEF s
  <2>3. cur' \in 0..MaxOpen /\ open' \in [1..MaxOpen -> OpeningState] /\ Attached'
    BY <1>0, <2>1, <2>2, OpeningMoves
  <2> QED BY <1>0, <2>1, <2>3, HookKept
<1>7. CASE OpenFails(o)
  <2>1. SessionDoc' = SessionDoc /\ cur' = (IF o = cur THEN 0 ELSE cur) /\ failed' \in BOOLEAN
        /\ UNCHANGED <<row, cache, route, nav, hook, look, gets, access, proved>>
        /\ open[o].st \in {"load", "make"}
    BY <1>0, <1>2, <1>7 DEF OpenFails
  <2>2. PICK s \in {NoOpening, [open[o] EXCEPT !.aborted = TRUE]} : open' = [open EXCEPT ![o] = s]
    BY <1>7 DEF OpenFails
  <2>3. s \in OpeningState /\ s.st # "held"
    BY <1>0, <1>1, <2>1 DEF OpeningState
  <2>4. cur' \in 0..MaxOpen /\ open' \in [1..MaxOpen -> OpeningState] /\ Attached'
    BY <1>0, <2>1, <2>2, <2>3, OpeningMoves
  <2> QED BY <1>0, <2>1, <2>4, HookKept
<1> QED BY <1>4, <1>5, <1>6, <1>7

LEMMA AnswerIn ==
  ASSUME NEW d
  PROVE  Answer(d) \in {"legacy", "esbt", "gone"} /\ Answer(d) \in Answers
BY DEF Answer, Kind, Answers

\* The steps of the lookups: the hook, the lookups and what is known of them.
LEMMA LooksMove ==
  ASSUME OpeningInv, Effects, route' \in 0..N, nav' \in 0..MaxNav, access' \in Nat,
         row' = row, cache' \in [Docs -> Answers], hook' \in HookState,
         look' \in [1..MaxNav -> LookState], gets' \in [1..MaxGets -> GetState],
         proved' \in BOOLEAN, ~Direct => Proved'
  PROVE  OpeningInv'
<1>1. /\ cur' \in 0..MaxOpen /\ open' \in [1..MaxOpen -> OpeningState]
      /\ failed' \in BOOLEAN /\ Attached'
  BY EffectsAttach DEF OpeningInv
<1> QED BY <1>1 DEF OpeningInv, OpeningTyped

LEMMA NavigateKeeps ==
  ASSUME OpeningInv, NEW d \in 0..N, Navigate(d)
  PROVE  OpeningInv'
<1>0. OpeningTyped /\ (~Direct => Proved) /\ NoMeta \in HookState /\ NoMeta.kind = "none" /\ About # 0
  BY OpeningAssumption DEF OpeningInv, NoMeta, HookState, Answers
<1>1. /\ route' = d /\ nav' = nav + 1 /\ nav' \in 0..MaxNav /\ nav + 1 \in 1..MaxNav
      /\ row' = row /\ gets' = gets /\ access' \in Nat /\ proved' = (d = About) /\ Effects
  BY <1>0, OpeningAssumption DEF Navigate, OpeningTyped
<1>2. cache' \in [Docs -> Answers]
  BY <1>0 DEF Navigate, OpeningTyped, Answers, Docs
<1>3. hook' = CASE d = 0 -> NoMeta
                [] d = About -> [kind |-> "esbt", resolved |-> TRUE, error |-> FALSE]
                [] OTHER -> [hook EXCEPT !.resolved = FALSE, !.error = FALSE]
  BY DEF Navigate
<1>4. hook' \in HookState /\ (d = 0 => hook' = NoMeta)
      /\ (d \notin {0, About} => hook'.kind = hook.kind)
  <2>1. CASE d = 0
    BY <1>0, <1>3, <2>1
  <2>2. CASE d = About
    BY <1>0, <1>3, <2>2 DEF HookState, Answers
  <2>3. CASE d \notin {0, About}
    BY <1>0, <1>3, <2>3 DEF HookState, OpeningTyped
  <2> QED BY <2>1, <2>2, <2>3
<1>5. look' = [look EXCEPT ![nav + 1] = IF d \in {0, About} THEN @ ELSE [NoLook EXCEPT !.doc = d, !.st = "asked"]]
  BY DEF Navigate
<1> DEFINE l == IF d \in {0, About} THEN look[nav + 1] ELSE [NoLook EXCEPT !.doc = d, !.st = "asked"]
<1>6. l \in LookState /\ (d \notin {0, About} => l.doc = d)
  <2>1. CASE d \in {0, About}
    BY <1>0, <1>1, <2>1 DEF OpeningTyped
  <2>2. CASE d \notin {0, About}
    <3>1. d \in Docs
      BY <2>2, Sizes DEF Docs
    <3>2. l = [doc |-> d, st |-> "asked", cached |-> "none", ans |-> "none"]
      BY <2>2 DEF NoLook
    <3> HIDE DEF l
    <3> QED BY <3>1, <3>2 DEF LookState, Answers
  <2> QED BY <2>1, <2>2
<1>7. look' \in [1..MaxNav -> LookState] /\ look'[nav + 1] = l
      /\ \A n \in 1..MaxNav : n # nav + 1 => look'[n] = look[n]
  <2> HIDE DEF l
  <2>1. look' = [look EXCEPT ![nav + 1] = l]
    BY <1>5 DEF l
  <2> QED BY <1>0, <1>1, <1>6, <2>1 DEF OpeningTyped
<1>8. gets' \in [1..MaxGets -> GetState] /\ proved' \in BOOLEAN
  BY <1>0, <1>1 DEF OpeningTyped
<1>9. ASSUME ~Direct PROVE Proved'
  <2>0. nav \in Nat /\ Proved
    BY <1>0, <1>9 DEF OpeningTyped
  <2>1. d = 0 \/ route = 0
    BY <1>9 DEF Navigate
  <2>2. hook'.kind = "esbt" => proved'
    <3>1. CASE d = 0
      BY <1>0, <1>4, <3>1
    <3>2. CASE d = About
      BY <1>1, <3>2
    <3>3. CASE d \notin {0, About}
      <4>1. hook'.kind = "none"
        BY <1>0, <1>4, <2>0, <2>1, <3>3 DEF Proved
      <4> QED BY <4>1
    <3> QED BY <3>1, <3>2, <3>3
  <2>3. route' = 0 => hook' = NoMeta
    BY <1>1, <1>4
  <2>4. ASSUME NEW n \in 1..MaxNav
        PROVE  /\ n = nav' /\ route' # 0 /\ look'[n].st # "idle" => look'[n].doc = route'
               /\ n > nav' => look'[n] = NoLook
    <3>1. CASE n = nav + 1
      <4>1. d = About => look'[n].st = "idle"
        <5>1. look[nav + 1] = NoLook
          BY <1>1, <2>0 DEF Proved
        <5>2. d = About => l = look[nav + 1]
          OBVIOUS
        <5> HIDE DEF l
        <5> QED BY <1>7, <3>1, <5>1, <5>2 DEF NoLook
      <4>2. look'[n] = l /\ (d \notin {0, About} => l.doc = d) /\ nav' = nav + 1 /\ route' = d
        BY <1>1, <1>6, <1>7, <3>1
      <4> HIDE DEF l
      <4> QED BY <2>0, <3>1, <4>1, <4>2
    <3>2. CASE n # nav + 1
      BY <1>1, <1>7, <2>0, <3>2 DEF Proved
    <3> QED BY <3>1, <3>2
  <2>5. ASSUME NEW i \in 1..MaxGets
        PROVE  gets'[i].nav <= nav' /\ (gets'[i].nav = nav' /\ route' # 0 => gets'[i].doc = route')
    <3>1. gets[i].nav <= nav /\ gets[i].nav \in Nat
      BY <1>0, <2>0 DEF Proved, OpeningTyped, GetState
    <3> QED BY <1>1, <2>0, <3>1
  <2>6. nav' # 0
    BY <1>1, <2>0
  <2> QED BY <2>2, <2>3, <2>4, <2>5, <2>6 DEF Proved
<1> QED BY <1>1, <1>2, <1>4, <1>7, <1>8, <1>9, LooksMove

\* A lookup is of the document it was begun for; that of this navigation is of
\* this route.
LEMMA LookIsOfRoute ==
  ASSUME OpeningInv, NEW n \in 1..MaxNav, look[n].st # "idle"
  PROVE  /\ look[n] \in LookState /\ look[n].doc \in Docs /\ nav \in Nat
         /\ ~Direct => n <= nav /\ (Active(n) => look[n].doc = route)
<1>1. look[n] \in LookState /\ nav \in Nat
  BY DEF OpeningInv, OpeningTyped
<1>2. look[n].doc \in Docs
  BY <1>1 DEF LookState
<1>3. ASSUME ~Direct PROVE n <= nav /\ (Active(n) => look[n].doc = route)
  <2>1. n > nav => look[n].st = "idle"
    BY <1>3 DEF OpeningInv, Proved, NoLook
  <2> QED BY <1>1, <1>3, <2>1 DEF OpeningInv, Proved, Active
<1> QED BY <1>1, <1>2, <1>3

\* A step of one lookup keeps what is known of the lookups and of the hook.
LEMMA LookStep ==
  ASSUME OpeningInv, NEW n \in 1..MaxNav, look[n].st # "idle", NEW l \in LookState,
         look' = [look EXCEPT ![n] = l], l.st # "idle" => l.doc = look[n].doc,
         l.st # "idle" \/ l = NoLook,
         UNCHANGED <<row, route, nav, gets, access>>, Effects,
         cache' \in [Docs -> Answers], hook' \in HookState, proved' \in BOOLEAN,
         \/ hook' = hook /\ proved' = proved
         \/ Active(n) /\ (~Direct => (hook'.kind = "esbt" => proved'))
  PROVE  OpeningInv'
<1>1. look' \in [1..MaxNav -> LookState] /\ look'[n] = l
      /\ \A m \in 1..MaxNav : m # n => look'[m] = look[m]
  BY DEF OpeningInv, OpeningTyped
<1>2. /\ route' \in 0..N /\ nav' \in 0..MaxNav /\ access' \in Nat /\ nav \in Nat
      /\ gets' \in [1..MaxGets -> GetState]
  BY DEF OpeningInv, OpeningTyped
<1>3. ASSUME ~Direct PROVE Proved'
  <2>1. Proved /\ n <= nav /\ (Active(n) => look[n].doc = route)
    BY <1>3, LookIsOfRoute DEF OpeningInv
  <2>2. hook'.kind = "esbt" => proved'
    BY <1>3, <2>1 DEF Proved
  <2>3. route' = 0 => hook' = NoMeta
    BY <2>1 DEF Proved, Active
  <2>4. ASSUME NEW m \in 1..MaxNav
        PROVE  /\ m = nav' /\ route' # 0 /\ look'[m].st # "idle" => look'[m].doc = route'
               /\ m > nav' => look'[m] = NoLook
    <3>1. CASE m = n
      BY <1>1, <1>2, <2>1, <3>1 DEF Active
    <3>2. CASE m # n
      BY <1>1, <2>1, <3>2 DEF Proved
    <3> QED BY <3>1, <3>2
  <2> QED BY <2>1, <2>2, <2>3, <2>4 DEF Proved
<1> QED BY <1>1, <1>2, <1>3, LooksMove

LEMMA OpeningSteps == OpeningInv /\ [OpeningNext]_openingVars => OpeningInv'
<1> SUFFICES ASSUME OpeningInv, [OpeningNext]_openingVars PROVE OpeningInv'
  OBVIOUS
<1>0. OpeningTyped /\ Attached /\ (~Direct => Proved)
  BY DEF OpeningInv
<1>1. ASSUME NEW d \in 0..N, Navigate(d) PROVE OpeningInv'
  BY <1>1, NavigateKeeps
<1>2. ASSUME NEW d \in Docs, RowChanges(d) PROVE OpeningInv'
  <2>1. row' \in [Docs -> {"live", "gone"}]
    BY <1>0, <1>2 DEF RowChanges, OpeningTyped
  <2>2. UNCHANGED <<cache, route, nav, hook, look, gets, access, cur, open, failed, proved>>
    BY <1>2 DEF RowChanges
  <2>3. SessionDoc' = SessionDoc
    BY <2>2 DEF SessionDoc
  <2>4. OpeningTyped'
    BY <1>0, <2>1, <2>2 DEF OpeningTyped
  <2>5. Attached' /\ (~Direct => Proved')
    BY <1>0, <2>2, <2>3 DEF Attached, Proved
  <2> QED BY <2>4, <2>5 DEF OpeningInv
<1>3. ASSUME NEW n \in 1..MaxNav, CacheRead(n) PROVE OpeningInv'
  <2>0. /\ look[n] \in LookState /\ look[n].doc \in Docs /\ look[n].st # "idle"
        /\ ~Direct => (Active(n) => look[n].doc = route)
    <3>1. look[n].st # "idle"
      BY <1>3 DEF CacheRead
    <3> QED BY <3>1, LookIsOfRoute
  <2>1. cache[look[n].doc] \in Answers /\ "none" \in Answers
    BY <1>0, <2>0 DEF OpeningTyped, Answers
  <2>2. PICK c \in Answers :
          /\ look' = [look EXCEPT ![n].st = "waiting", ![n].cached = c]
          /\ IF Active(n) /\ c # "none"
             THEN hook' = [hook EXCEPT !.kind = c, !.resolved = TRUE] /\ proved' = (c = "esbt" /\ look[n].doc = route)
             ELSE UNCHANGED <<hook, proved>>
    BY <1>3, <2>1 DEF CacheRead
  <2> DEFINE l == [look[n] EXCEPT !.st = "waiting", !.cached = c]
  <2>3. l \in LookState /\ l.st # "idle" /\ l.doc = look[n].doc
    BY <2>0 DEF LookState
  <2>4. look' = [look EXCEPT ![n] = l]
    BY <1>0, <2>2 DEF OpeningTyped
  <2> HIDE DEF l
  <2>5. UNCHANGED <<row, cache, route, nav, gets, access>> /\ Effects /\ cache' \in [Docs -> Answers]
    BY <1>0, <1>3 DEF CacheRead, OpeningTyped
  <2>6. hook' \in HookState /\ proved' \in BOOLEAN
        /\ \/ hook' = hook /\ proved' = proved
           \/ Active(n) /\ (~Direct => (hook'.kind = "esbt" => proved'))
    <3>0. hook \in HookState /\ proved \in BOOLEAN
      BY <1>0 DEF OpeningTyped
    <3>1. CASE Active(n) /\ c # "none"
      <4>1. hook' = [hook EXCEPT !.kind = c, !.resolved = TRUE] /\ proved' = (c = "esbt" /\ look[n].doc = route)
        BY <2>2, <3>1
      <4>2. hook' \in HookState /\ hook'.kind = c
        BY <3>0, <4>1 DEF HookState
      <4> QED BY <2>0, <3>1, <4>1, <4>2
    <3>2. CASE ~(Active(n) /\ c # "none")
      BY <2>2, <3>0, <3>2
    <3> QED BY <3>1, <3>2
  <2> QED BY <2>0, <2>3, <2>4, <2>5, <2>6, LookStep
<1>4. ASSUME NEW n \in 1..MaxNav, ServerAnswers(n) PROVE OpeningInv'
  <2>0. look[n].st # "idle" /\ look[n] \in LookState /\ look[n].doc \in Docs
    <3>1. look[n].st # "idle"
      BY <1>4 DEF ServerAnswers
    <3> QED BY <3>1, LookIsOfRoute
  <2>1. PICK a \in Answers \cup {"failed"} : look' = [look EXCEPT ![n].ans = a]
    BY <1>4, <2>0, AnswerIn DEF ServerAnswers
  <2> DEFINE l == [look[n] EXCEPT !.ans = a]
  <2>2. l \in LookState /\ l.st = look[n].st /\ l.doc = look[n].doc
    BY <2>0 DEF LookState
  <2>3. look' = [look EXCEPT ![n] = l]
    BY <1>0, <2>1 DEF OpeningTyped
  <2> HIDE DEF l
  <2>4. UNCHANGED <<row, cache, route, nav, hook, gets, access, cur, open, failed, proved>>
    BY <1>4 DEF ServerAnswers
  <2>5. look' \in [1..MaxNav -> LookState] /\ look'[n] = l
        /\ \A m \in 1..MaxNav : m # n => look'[m] = look[m]
    BY <1>0, <2>2, <2>3 DEF OpeningTyped
  <2>6. SessionDoc' = SessionDoc
    BY <2>4 DEF SessionDoc
  <2>7. OpeningTyped' /\ Attached'
    BY <1>0, <2>4, <2>5, <2>6 DEF OpeningTyped, Attached
  <2>8. ASSUME ~Direct PROVE Proved'
    <3>1. Proved /\ ~(n > nav)
      BY <1>0, <2>0, <2>8 DEF Proved, NoLook
    <3>2. ASSUME NEW m \in 1..MaxNav
          PROVE  /\ m = nav /\ route # 0 /\ look'[m].st # "idle" => look'[m].doc = route
                 /\ m > nav => look'[m] = NoLook
      <4>1. CASE m = n
        BY <2>0, <2>2, <2>5, <3>1, <4>1 DEF Proved
      <4>2. CASE m # n
        BY <2>5, <3>1, <4>2 DEF Proved
      <4> QED BY <4>1, <4>2
    <3> QED BY <2>4, <3>1, <3>2 DEF Proved
  <2> QED BY <2>7, <2>8 DEF OpeningInv
<1>5. ASSUME NEW n \in 1..MaxNav, LookupDone(n) PROVE OpeningInv'
  <2>0. /\ look[n] \in LookState /\ look[n].doc \in Docs /\ look[n].st # "idle"
        /\ ~Direct => (Active(n) => look[n].doc = route)
    <3>1. look[n].st # "idle"
      BY <1>5 DEF LookupDone
    <3> QED BY <3>1, LookIsOfRoute
  <2>1. NoLook \in LookState /\ NoLook.st = "idle"
    BY Sizes DEF NoLook, LookState, Answers
  <2>2. UNCHANGED <<row, route, nav, gets, access>> /\ Effects /\ look' = [look EXCEPT ![n] = NoLook]
    BY <1>5 DEF LookupDone
  <2>3. hook \in HookState /\ proved \in BOOLEAN /\ cache \in [Docs -> Answers]
    BY <1>0 DEF OpeningTyped
  <2>4. CASE ~Active(n)
    <3>1. UNCHANGED <<hook, cache, proved>>
      BY <1>5, <2>4 DEF LookupDone
    <3> QED BY <2>0, <2>1, <2>2, <2>3, <3>1, LookStep
  <2>5. CASE Active(n) /\ look[n].ans = "failed"
    <3>1. hook' = [hook EXCEPT !.resolved = TRUE, !.error = @ \/ look[n].cached = "none"]
          /\ UNCHANGED <<cache, proved>>
      BY <1>5, <2>5 DEF LookupDone
    <3>2. hook' \in HookState /\ hook'.kind = hook.kind
      BY <2>3, <3>1 DEF HookState
    <3>3. ~Direct => (hook'.kind = "esbt" => proved')
      BY <1>0, <3>1, <3>2 DEF Proved
    <3> QED BY <2>0, <2>1, <2>2, <2>3, <2>5, <3>1, <3>2, <3>3, LookStep
  <2>6. CASE Active(n) /\ look[n].ans # "failed"
    <3>1. /\ hook' = [kind |-> look[n].ans, resolved |-> TRUE, error |-> FALSE]
          /\ cache' = IF look[n].ans = "gone" THEN cache ELSE [cache EXCEPT ![look[n].doc] = look[n].ans]
          /\ proved' = (look[n].ans = "esbt" /\ look[n].doc = route)
      BY <1>5, <2>6 DEF LookupDone
    <3>2. look[n].ans \in Answers
      BY <2>0, <2>6 DEF LookState
    <3>3. hook' \in HookState /\ hook'.kind = look[n].ans
      BY <3>1, <3>2 DEF HookState
    <3>4. cache' \in [Docs -> Answers]
      BY <2>0, <2>3, <3>1, <3>2
    <3>5. proved' \in BOOLEAN /\ (~Direct => (hook'.kind = "esbt" => proved'))
      BY <2>0, <2>6, <3>1, <3>3
    <3> QED BY <2>0, <2>1, <2>2, <2>6, <3>3, <3>4, <3>5, LookStep
  <2> QED BY <2>4, <2>5, <2>6
<1>6. ASSUME NEW o \in 1..MaxOpen, Loaded(o) \/ Made(o) \/ Delivered(o) \/ OpenFails(o) PROVE OpeningInv'
  BY <1>6, OpeningsMove
<1>7. ASSUME NEW i \in 1..MaxGets, GetAnswers(i) PROVE OpeningInv'
  <2>0. gets[i] \in GetState /\ gets[i].nav # 0 /\ nav \in Nat
    BY <1>0, <1>7 DEF OpeningTyped, GetAnswers
  <2>1. UNCHANGED <<row, cache, route, nav, hook, look, access, cur, open, failed, proved>>
    BY <1>7 DEF GetAnswers
  <2>2. NoGet \in GetState /\ NoGet.nav = 0 /\ NoGet.doc = 0
    BY Sizes DEF NoGet, GetState, Answers
  <2>3. PICK g \in GetState : gets' = [gets EXCEPT ![i] = g] /\ (g = NoGet \/ (g.nav = gets[i].nav /\ g.doc = gets[i].doc))
    <3>1. CASE gets' = [gets EXCEPT ![i] = NoGet]
      BY <2>2, <3>1
    <3>2. CASE gets' = [gets EXCEPT ![i].ans = Answer(gets[i].doc)]
      <4> DEFINE g == [gets[i] EXCEPT !.ans = Answer(gets[i].doc)]
      <4>1. g \in GetState /\ g.nav = gets[i].nav /\ g.doc = gets[i].doc
        BY <2>0, AnswerIn DEF GetState
      <4>2. gets' = [gets EXCEPT ![i] = g]
        BY <1>0, <3>2 DEF OpeningTyped
      <4> QED BY <4>1, <4>2
    <3> QED BY <1>7, <3>1, <3>2 DEF GetAnswers
  <2>4. gets' \in [1..MaxGets -> GetState] /\ gets'[i] = g
        /\ \A j \in 1..MaxGets : j # i => gets'[j] = gets[j]
    BY <1>0, <2>3 DEF OpeningTyped
  <2>5. SessionDoc' = SessionDoc
    BY <2>1 DEF SessionDoc
  <2>6. OpeningTyped' /\ Attached'
    BY <1>0, <2>1, <2>4, <2>5 DEF OpeningTyped, Attached
  <2>7. ASSUME ~Direct PROVE Proved'
    <3>1. ASSUME NEW j \in 1..MaxGets
          PROVE  gets'[j].nav <= nav /\ (gets'[j].nav = nav /\ route # 0 => gets'[j].doc = route)
      <4>1. CASE j = i /\ g = NoGet
        <5>1. nav = 0 => route = 0
          BY <1>0, <2>7 DEF Proved
        <5> QED BY <2>0, <2>2, <2>4, <4>1, <5>1
      <4>2. CASE j = i /\ g # NoGet
        BY <1>0, <2>3, <2>4, <2>7, <4>2 DEF Proved
      <4>3. CASE j # i
        BY <1>0, <2>4, <2>7, <4>3 DEF Proved
      <4> QED BY <4>1, <4>2, <4>3
    <3> QED BY <1>0, <2>1, <2>7, <3>1 DEF Proved
  <2> QED BY <2>6, <2>7 DEF OpeningInv
<1>8. ASSUME NEW i \in 1..MaxGets, GetArrives(i) PROVE OpeningInv'
  <2>0. gets[i] \in GetState /\ gets[i].ans # "none" /\ nav \in Nat
    BY <1>0, <1>8 DEF OpeningTyped, GetArrives
  <2>1. UNCHANGED <<row, cache, route, nav, look, access>> /\ Effects /\ gets' = [gets EXCEPT ![i] = NoGet]
    BY <1>8 DEF GetArrives
  <2>2. NoGet \in GetState /\ NoGet.nav = 0 /\ NoGet.doc = 0
    BY Sizes DEF NoGet, GetState, Answers
  <2>3. gets' \in [1..MaxGets -> GetState] /\ gets'[i] = NoGet
        /\ \A j \in 1..MaxGets : j # i => gets'[j] = gets[j]
    BY <1>0, <2>1, <2>2 DEF OpeningTyped
  <2>4. /\ hook' \in HookState /\ proved' \in BOOLEAN
        /\ \/ hook' = hook /\ proved' = proved
           \/ Active(gets[i].nav) /\ (~Direct => (hook'.kind = "esbt" => proved'))
    <3>0. hook \in HookState /\ proved \in BOOLEAN
      BY <1>0 DEF OpeningTyped
    <3>1. CASE Active(gets[i].nav)
      <4>1. hook' = [hook EXCEPT !.kind = gets[i].ans] /\ proved' = (gets[i].ans = "esbt" /\ gets[i].doc = route)
        BY <1>8, <3>1 DEF GetArrives
      <4>2. hook' \in HookState /\ hook'.kind = gets[i].ans
        BY <2>0, <3>0, <4>1 DEF HookState, GetState
      <4>3. ~Direct => gets[i].doc = route
        BY <1>0, <3>1 DEF Proved, Active
      <4> QED BY <3>1, <4>1, <4>2, <4>3
    <3>2. CASE ~Active(gets[i].nav)
      BY <1>8, <3>0, <3>2 DEF GetArrives
    <3> QED BY <3>1, <3>2
  <2>5. ASSUME ~Direct PROVE Proved'
    <3>1. Proved /\ gets[i].nav \in Nat /\ gets[i].nav <= nav
      BY <1>0, <2>0, <2>5 DEF Proved, GetState
    <3>2. hook'.kind = "esbt" => proved'
      BY <2>4, <2>5, <3>1 DEF Proved
    <3>3. route' = 0 => hook' = NoMeta
      BY <2>1, <2>4, <3>1 DEF Proved, Active
    <3>4. ASSUME NEW j \in 1..MaxGets
          PROVE  gets'[j].nav <= nav /\ (gets'[j].nav = nav /\ route # 0 => gets'[j].doc = route)
      <4>1. CASE j = i
        \* Before the first navigation there is no route.
        <5>1. nav = 0 => route = 0
          BY <3>1 DEF Proved
        <5> QED BY <2>0, <2>2, <2>3, <4>1, <5>1
      <4>2. CASE j # i
        BY <2>3, <3>1, <4>2 DEF Proved
      <4> QED BY <4>1, <4>2
    <3> QED BY <2>1, <3>1, <3>2, <3>3, <3>4 DEF Proved
  <2>6. /\ route' \in 0..N /\ nav' \in 0..MaxNav /\ access' \in Nat
        /\ look' \in [1..MaxNav -> LookState] /\ cache' \in [Docs -> Answers]
    BY <1>0, <2>1 DEF OpeningTyped
  <2> QED BY <2>1, <2>3, <2>4, <2>5, <2>6, LooksMove
<1>9. CASE Signal
  <2>0. route \in 0..N /\ nav \in 0..MaxNav /\ nav \in Nat
    BY <1>0 DEF OpeningTyped
  <2>1. PICK i \in 1..MaxGets : gets' = [gets EXCEPT ![i] = [nav |-> nav, doc |-> route, ans |-> "none"]]
    BY <1>9 DEF Signal
  <2>2. UNCHANGED <<row, cache, route, nav, hook, look, access, cur, open, failed, proved>>
    BY <1>9 DEF Signal
  <2> DEFINE g == [nav |-> nav, doc |-> route, ans |-> "none"]
  <2>3. g \in GetState /\ g.nav = nav /\ g.doc = route
    BY <2>0 DEF GetState, Answers
  <2>4. gets' \in [1..MaxGets -> GetState] /\ gets'[i] = g
        /\ \A j \in 1..MaxGets : j # i => gets'[j] = gets[j]
    <3>1. gets' = [gets EXCEPT ![i] = g]
      BY <2>1
    <3> HIDE DEF g
    <3> QED BY <1>0, <2>3, <3>1 DEF OpeningTyped
  <2> HIDE DEF g
  <2>5. SessionDoc' = SessionDoc
    BY <2>2 DEF SessionDoc
  <2>6. OpeningTyped' /\ Attached'
    BY <1>0, <2>2, <2>4, <2>5 DEF OpeningTyped, Attached
  <2>7. ASSUME ~Direct PROVE Proved'
    <3>1. ASSUME NEW j \in 1..MaxGets
          PROVE  gets'[j].nav <= nav /\ (gets'[j].nav = nav /\ route # 0 => gets'[j].doc = route)
      BY <1>0, <2>0, <2>3, <2>4, <2>7 DEF Proved
    <3> QED BY <1>0, <2>2, <2>7, <3>1 DEF Proved
  <2> QED BY <2>6, <2>7 DEF OpeningInv
<1>10. CASE AccessChanges
  <2>1. UNCHANGED <<row, cache, route, nav, hook, look, gets, proved>> /\ access' = access + 1 /\ Effects
    BY <1>10 DEF AccessChanges
  <2>2. /\ route' \in 0..N /\ nav' \in 0..MaxNav /\ access' \in Nat
        /\ look' \in [1..MaxNav -> LookState] /\ cache' \in [Docs -> Answers]
        /\ hook' \in HookState /\ gets' \in [1..MaxGets -> GetState] /\ proved' \in BOOLEAN
    BY <1>0, <2>1 DEF OpeningTyped
  <2>3. ~Direct => Proved'
    BY <1>0, <2>1 DEF Proved
  <2> QED BY <2>1, <2>2, <2>3, LooksMove
<1>11. CASE UNCHANGED openingVars
  BY <1>0, <1>11 DEF openingVars, OpeningInv, OpeningTyped, Attached, Proved, SessionDoc
<1> QED BY <1>1, <1>2, <1>3, <1>4, <1>5, <1>6, <1>7, <1>8, <1>9, <1>10, <1>11 DEF OpeningNext

\* Whatever was aborted, timed out or arrived late, the only living session is
\* that of the page's document, and where documents are left through home it is
\* of a document whose own metadata let it be opened.
THEOREM SessionsStaySound == OpeningSpec => []SessionsSound
<1>1. OpeningInv => SessionsSound
  <2> SUFFICES ASSUME OpeningInv PROVE SessionsSound
    OBVIOUS
  <2>1. NoLeakedSession
    <3> SUFFICES ASSUME NEW o \in 1..MaxOpen, open[o].st = "held"
                 PROVE  o = cur /\ open[o].doc = route
      BY DEF NoLeakedSession
    <3>1. o = cur /\ cur # 0
      BY Sizes DEF OpeningInv, Attached
    <3> QED BY <3>1, SessionDocIn DEF OpeningInv, OpeningTyped, Attached
  <2>2. ~Direct => OpenedWithProof
    BY DEF OpeningInv, Attached, Proved, OpenedWithProof, SessionDoc
  <2> QED BY <2>1, <2>2 DEF SessionsSound
<1> QED BY <1>1, OpeningStarts, OpeningSteps, PTL DEF OpeningSpec

-----------------------------------------------------------------------------
(* The identity of the browser. *)

Flows == {"idle", "bind", "mint", "wait", "failed", "kept"}
TabType == [caller : {"none", "scratch", "session"}, scratch : 0..MaxScratch, csrf : Nat,
            flow : Flows, pairing : Nat]
JarType == [cookie : 0..MaxSessions, seen : BOOLEAN, key : 0..MaxKeys, enrolled : BOOLEAN]
PhoneType == [account : Nat, shows : 0..MaxPairs]
UsedType == [scratch : Nat, pairs : Nat, sess : Nat, accounts : Nat, keys : Nat,
             faults : Nat, reloads : Nat]
ScratchType == [by : Nat, window : BOOLEAN, pending : 0..MaxKeys]
DeviceType == [by : Nat, revoked : BOOLEAN, controller : BOOLEAN]
SessionType == [by : Nat, key : 0..MaxKeys, live : BOOLEAN]
PairType == [scratch : 0..MaxScratch, key : 0..MaxKeys, by : Nat, expired : BOOLEAN]

IdentityTyped ==
  /\ tab \in [Tabs -> TabType]
  /\ jar \in JarType /\ phone \in PhoneType /\ used \in UsedType
  /\ scr \in [1..MaxScratch -> ScratchType]
  /\ dev \in [1..MaxKeys -> DeviceType]
  /\ sess \in [1..MaxSessions -> SessionType]
  /\ pair \in [1..MaxPairs -> PairType]

\* A tab that answers as a workspace holds its credential.
ScratchCallers == \A t \in Tabs : tab[t].caller = "scratch" => tab[t].scratch # 0

\* A workspace is claimed with the device that is bound to it.
ClaimedBound == \A s \in 1..MaxScratch : scr[s].by # 0 => scr[s].pending # 0

\* A pairing belongs to a workspace, and the phone shows one that was minted.
Minted ==
  /\ \A p \in 1..MaxPairs : p <= used.pairs => pair[p].scratch # 0
  /\ phone.shows <= used.pairs

\* A live session is one of an enrolled device that is not revoked. A claim
\* writes a device that is not enrolled, so it touches no live session.
LiveEnrolled ==
  \A n \in 1..MaxSessions : sess[n].live =>
    /\ sess[n].key # 0
    /\ dev[sess[n].key].by # 0 /\ ~dev[sess[n].key].revoked

IdentityInv == IdentityTyped /\ ScratchCallers /\ ClaimedBound /\ Minted /\ LiveEnrolled

LEMMA IdentitySizes ==
  /\ MaxScratch \in Nat /\ MaxPairs \in Nat /\ MaxSessions \in Nat /\ MaxKeys \in Nat
  /\ 0 \in 0..MaxScratch /\ 0 \in 0..MaxPairs /\ 0 \in 0..MaxSessions /\ 0 \in 0..MaxKeys
  BY IdentityAssumption

LEMMA IdentityStarts == IdentityInit => IdentityInv
  <1> SUFFICES ASSUME IdentityInit PROVE IdentityInv
    OBVIOUS
  <1>1. /\ tab \in [Tabs -> TabType]
        /\ jar \in JarType
    BY IdentitySizes DEF IdentityInit, NoTab, TabType, JarType, Flows
  <1>2. phone \in PhoneType /\ used \in UsedType /\ phone.shows = 0 /\ used.pairs = 0
    BY IdentitySizes DEF IdentityInit, PhoneType, UsedType
  <1>3. /\ scr \in [1..MaxScratch -> ScratchType]
        /\ dev \in [1..MaxKeys -> DeviceType]
        /\ sess \in [1..MaxSessions -> SessionType]
        /\ pair \in [1..MaxPairs -> PairType]
    BY IdentitySizes DEF IdentityInit, NoScratch, ScratchType, DeviceType, SessionType, PairType
  <1>4. ScratchCallers /\ ClaimedBound /\ LiveEnrolled
    BY DEF IdentityInit, ScratchCallers, ClaimedBound, LiveEnrolled, NoTab, NoScratch
  <1>5. Minted
    BY <1>2, IdentitySizes DEF Minted
  <1> QED
    BY <1>1, <1>2, <1>3, <1>4, <1>5 DEF IdentityInv, IdentityTyped

(* One lemma per part of the state: what may be written there. *)

LEMMA TabWritten ==
  ASSUME tab \in [Tabs -> TabType], ScratchCallers, NEW t \in Tabs, NEW r \in TabType,
         tab' = [tab EXCEPT ![t] = r], r.caller = "scratch" => r.scratch # 0
  PROVE  tab' \in [Tabs -> TabType] /\ ScratchCallers'
  <1>1. tab' \in [Tabs -> TabType]
    OBVIOUS
  <1>2. ASSUME NEW o \in Tabs, tab'[o].caller = "scratch" PROVE tab'[o].scratch # 0
    <2>1. CASE o = t
      BY <1>2, <2>1
    <2>2. CASE o # t
      BY <1>2, <2>2 DEF ScratchCallers
    <2> QED
      BY <2>1, <2>2
  <1> QED
    BY <1>1, <1>2 DEF ScratchCallers

LEMMA SessionTab ==
  ASSUME NEW r \in TabType, NEW c \in Nat
  PROVE  /\ [r EXCEPT !.caller = "session", !.scratch = 0, !.csrf = c] \in TabType
         /\ [r EXCEPT !.caller = "session", !.scratch = 0, !.csrf = c].caller # "scratch"
  <1>1. [r EXCEPT !.caller = "session", !.scratch = 0] \in TabType
    BY IdentitySizes DEF TabType
  <1>2. [r EXCEPT !.caller = "session", !.scratch = 0, !.csrf = c]
          = [[r EXCEPT !.caller = "session", !.scratch = 0] EXCEPT !.csrf = c]
    OBVIOUS
  <1>3. \A o \in TabType : [o EXCEPT !.csrf = c] \in TabType /\ [o EXCEPT !.csrf = c].caller = o.caller
    BY DEF TabType
  <1>4. [r EXCEPT !.caller = "session", !.scratch = 0].caller = "session"
    BY DEF TabType
  <1> QED
    BY <1>1, <1>2, <1>3, <1>4

\* A session is issued to an enrolled device only.
LEMMA Issued ==
  ASSUME sess \in [1..MaxSessions -> SessionType], used \in UsedType, LiveEnrolled,
         NEW by \in Nat, NEW k \in 1..MaxKeys, Issue(by, k),
         dev'[k].by # 0, ~dev'[k].revoked,
         \A j \in 1..MaxKeys : dev[j].by # 0 => dev'[j] = dev[j]
  PROVE  /\ sess' \in [1..MaxSessions -> SessionType]
         /\ LiveEnrolled'
         /\ used.sess + 1 \in 0..MaxSessions
  <1> DEFINE i == used.sess + 1
  <1>1. i \in 1..MaxSessions /\ sess' = [sess EXCEPT ![i] = [by |-> by, key |-> k, live |-> TRUE]]
    BY IdentitySizes DEF Issue, UsedType
  <1> HIDE DEF i
  <1>2. [by |-> by, key |-> k, live |-> TRUE] \in SessionType
    BY IdentitySizes DEF SessionType
  <1>3. sess' \in [1..MaxSessions -> SessionType]
    BY <1>1, <1>2
  <1>4. ASSUME NEW n \in 1..MaxSessions, sess'[n].live
        PROVE sess'[n].key # 0 /\ dev'[sess'[n].key].by # 0 /\ ~dev'[sess'[n].key].revoked
    <2>1. CASE n = i
      <3>1. sess'[n].key = k
        BY <1>1, <2>1
      <3> QED
        BY <3>1, IdentitySizes
    <2>2. CASE n # i
      <3>1. sess'[n] = sess[n] /\ sess[n] \in SessionType
        BY <1>1, <2>2
      <3>2. /\ sess[n].key # 0 /\ sess[n].key \in 0..MaxKeys
            /\ dev[sess[n].key].by # 0 /\ ~dev[sess[n].key].revoked
        BY <1>4, <3>1 DEF LiveEnrolled, SessionType
      <3>3. dev'[sess[n].key] = dev[sess[n].key]
        BY <3>2, IdentitySizes
      <3> QED
        BY <3>1, <3>2, <3>3
    <2> QED
      BY <2>1, <2>2
  <1> QED
    BY <1>1, <1>3, <1>4 DEF LiveEnrolled, i

\* A claim enrols the device bound to the workspace, which was not enrolled.
LEMMA ClaimWrites ==
  ASSUME IdentityTyped, ClaimedBound, NEW s \in 1..MaxScratch, CanClaim(s),
         NEW by \in Nat \ {0}, NEW controller \in BOOLEAN, Claim(s, by, controller)
  PROVE  /\ scr[s].pending \in 1..MaxKeys
         /\ scr' \in [1..MaxScratch -> ScratchType] /\ ClaimedBound'
         /\ dev' \in [1..MaxKeys -> DeviceType]
         /\ dev'[scr[s].pending].by # 0 /\ ~dev'[scr[s].pending].revoked
         /\ \A j \in 1..MaxKeys : dev[j].by # 0 => dev'[j] = dev[j]
  <1> DEFINE k == scr[s].pending
  <1>1. k \in 1..MaxKeys
    BY IdentitySizes DEF CanClaim, IdentityTyped, ScratchType
  <1>2. dev[k].by = 0
    BY <1>1 DEF CanClaim, Enrolled
  <1> HIDE DEF k
  <1>3. dev' = [dev EXCEPT ![k] = [by |-> by, revoked |-> FALSE, controller |-> controller]]
    BY DEF Claim, k
  <1>4. scr' = [scr EXCEPT ![s].by = by]
    BY DEF Claim
  <1>5. scr' \in [1..MaxScratch -> ScratchType]
    BY <1>4 DEF IdentityTyped, ScratchType
  <1>6. ClaimedBound'
    <2>1. scr'[s].pending = k /\ \A o \in 1..MaxScratch : o # s => scr'[o] = scr[o]
      BY <1>4 DEF IdentityTyped, ScratchType, k
    <2> QED
      BY <2>1, <1>1 DEF ClaimedBound
  <1>7. dev' \in [1..MaxKeys -> DeviceType]
    BY <1>3 DEF IdentityTyped, DeviceType
  <1>8. dev'[k].by # 0 /\ ~dev'[k].revoked
    BY <1>1, <1>3 DEF IdentityTyped
  <1>9. \A j \in 1..MaxKeys : dev[j].by # 0 => dev'[j] = dev[j]
    BY <1>2, <1>3 DEF IdentityTyped
  <1> QED
    BY <1>1, <1>5, <1>6, <1>7, <1>8, <1>9 DEF k

\* A revocation ends the sessions of its device.
LEMMA Revoked ==
  ASSUME IdentityTyped, LiveEnrolled, NEW k \in 1..MaxKeys,
         dev' = [dev EXCEPT ![k].revoked = TRUE], sess' = RevokedSessions(k)
  PROVE  /\ dev' \in [1..MaxKeys -> DeviceType]
         /\ sess' \in [1..MaxSessions -> SessionType]
         /\ LiveEnrolled'
  <1>1. dev' \in [1..MaxKeys -> DeviceType]
    BY DEF IdentityTyped, DeviceType
  <1>2. sess' = [n \in 1..MaxSessions |-> IF sess[n].key = k THEN [sess[n] EXCEPT !.live = FALSE] ELSE sess[n]]
    BY DEF RevokedSessions, IdentityTyped
  <1>3. sess' \in [1..MaxSessions -> SessionType]
    <2> SUFFICES ASSUME NEW n \in 1..MaxSessions PROVE sess'[n] \in SessionType
      BY <1>2
    <2>1. sess[n] \in SessionType
      BY DEF IdentityTyped
    <2>2. [sess[n] EXCEPT !.live = FALSE] \in SessionType
      BY <2>1 DEF SessionType
    <2> QED
      BY <1>2, <2>1, <2>2
  <1>4. ASSUME NEW n \in 1..MaxSessions, sess'[n].live
        PROVE sess'[n].key # 0 /\ dev'[sess'[n].key].by # 0 /\ ~dev'[sess'[n].key].revoked
    <2>1. sess[n] \in SessionType
      BY DEF IdentityTyped
    <2>2. sess[n].key # k /\ sess'[n] = sess[n]
      BY <1>2, <1>4, <2>1 DEF SessionType
    <2>3. sess[n].key # 0 /\ dev[sess[n].key].by # 0 /\ ~dev[sess[n].key].revoked
      BY <1>4, <2>2 DEF LiveEnrolled
    <2>4. dev'[sess[n].key] = dev[sess[n].key]
      BY <2>1, <2>2, <2>3, IdentitySizes DEF IdentityTyped, SessionType
    <2> QED
      BY <2>2, <2>3, <2>4
  <1> QED
    BY <1>1, <1>3, <1>4 DEF LiveEnrolled

\* Enrolling a device leaves the live sessions as they are.
LEMMA EnrolKeeps ==
  ASSUME IdentityTyped, LiveEnrolled, UNCHANGED sess,
         \A j \in 1..MaxKeys : dev[j].by # 0 => dev'[j] = dev[j]
  PROVE  LiveEnrolled'
  <1> SUFFICES ASSUME NEW n \in 1..MaxSessions, sess[n].live
               PROVE sess[n].key # 0 /\ dev'[sess[n].key].by # 0 /\ ~dev'[sess[n].key].revoked
    BY DEF LiveEnrolled
  <1>1. /\ sess[n].key # 0 /\ sess[n].key \in 0..MaxKeys
        /\ dev[sess[n].key].by # 0 /\ ~dev[sess[n].key].revoked
    BY DEF LiveEnrolled, IdentityTyped, SessionType
  <1> QED
    BY <1>1, IdentitySizes

\* A step that leaves the server's rows alone.
LEMMA ServerKept ==
  ASSUME IdentityInv, UNCHANGED <<scr, dev, sess, pair>>, used' \in UsedType, used'.pairs = used.pairs,
         phone' \in PhoneType, phone'.shows <= used.pairs,
         tab' \in [Tabs -> TabType], ScratchCallers', jar' \in JarType
  PROVE  IdentityInv'
  <1>1. IdentityTyped'
    BY DEF IdentityInv, IdentityTyped
  <1>2. ClaimedBound' /\ LiveEnrolled' /\ Minted'
    BY DEF IdentityInv, ClaimedBound, LiveEnrolled, Minted
  <1> QED
    BY <1>1, <1>2 DEF IdentityInv

LEMMA ProbeSteps ==
  ASSUME IdentityInv, NEW t \in Tabs, NEW i \in Slots,
         ProbeSession(t, i) \/ ProbeOffline(t, i) \/ ProbeScratch(t, i)
  PROVE  IdentityInv'
  <1> USE DEF IdentityInv
  <1>1. /\ UNCHANGED <<scr, dev, sess, pair, phone>>
        /\ used' \in UsedType /\ used'.pairs = used.pairs /\ phone.shows <= used.pairs
    <2>1. UNCHANGED <<scr, dev, sess, pair, phone>>
      BY DEF ProbeSession, ProbeOffline, ProbeScratch, server
    <2>2. \/ used' = used
          \/ used' = [used EXCEPT !.faults = @ + 1] \/ used' = [used EXCEPT !.scratch = @ + 1]
      BY DEF ProbeSession, ProbeOffline, ProbeScratch, server
    <2>3. used.faults + 1 \in Nat /\ used.scratch + 1 \in Nat
      BY DEF IdentityTyped, UsedType
    <2> QED
      BY <2>1, <2>2, <2>3 DEF IdentityTyped, UsedType, Minted
  <1>2. tab[t] \in TabType
    BY DEF IdentityTyped
  <1>3. jar' \in JarType
    BY DEF ProbeSession, ProbeOffline, ProbeScratch, IdentityTyped, JarType
  <1>4. tab' \in [Tabs -> TabType] /\ ScratchCallers'
    <2>1. tab \in [Tabs -> TabType] /\ ScratchCallers
      BY DEF IdentityTyped
    <2>2. CASE UNCHANGED tab
      BY <2>1, <2>2 DEF ScratchCallers
    <2>3. ASSUME NEW r \in TabType, tab' = [tab EXCEPT ![t] = r], r.caller = "scratch" => r.scratch # 0
          PROVE tab' \in [Tabs -> TabType] /\ ScratchCallers'
      BY <2>1, <2>3, TabWritten
    <2>4. CASE ProbeSession(t, i)
      <3> DEFINE r == [tab[t] EXCEPT !.caller = "session", !.scratch = 0, !.csrf = jar.cookie]
      <3>1. r \in TabType /\ r.caller # "scratch"
        <4>1. jar.cookie \in Nat
          BY IdentitySizes DEF IdentityTyped, JarType
        <4> QED
          BY <1>2, <4>1, SessionTab
      <3>2. UNCHANGED tab \/ tab' = [tab EXCEPT ![t] = r]
        BY <2>4 DEF ProbeSession, Caller
      <3> HIDE DEF r
      <3> QED
        BY <2>2, <2>3, <3>1, <3>2
    <2>5. CASE ProbeOffline(t, i)
      <3>1. CASE tab[t].scratch # 0
        <4>1. tab' = [tab EXCEPT ![t] = [tab[t] EXCEPT !.caller = "scratch"]]
          BY <2>5, <3>1 DEF ProbeOffline, Caller
        <4>2. /\ [tab[t] EXCEPT !.caller = "scratch"] \in TabType
              /\ [tab[t] EXCEPT !.caller = "scratch"].scratch # 0
          BY <1>2, <3>1 DEF TabType
        <4> QED
          BY <2>3, <4>1, <4>2
      <3>2. CASE tab[t].scratch = 0 /\ jar.seen
        <4>1. tab' = [tab EXCEPT ![t] = [tab[t] EXCEPT !.caller = "session"]]
          BY <2>5, <3>2 DEF ProbeOffline, Caller
        <4>2. /\ [tab[t] EXCEPT !.caller = "session"] \in TabType
              /\ [tab[t] EXCEPT !.caller = "session"].caller # "scratch"
          BY <1>2 DEF TabType
        <4> QED
          BY <2>3, <4>1, <4>2
      <3>3. CASE tab[t].scratch = 0 /\ ~jar.seen
        <4>1. tab' = [tab EXCEPT ![t] = tab[t]]
          BY <2>5, <3>3 DEF ProbeOffline, Caller
        <4> QED
          BY <1>2, <2>1, <2>3, <4>1 DEF ScratchCallers
      <3> QED
        BY <3>1, <3>2, <3>3
    <2>6. CASE ProbeScratch(t, i)
      <3>1. PICK s \in 0..MaxScratch :
              tab' = [tab EXCEPT ![t] = [tab[t] EXCEPT !.caller = "scratch", !.scratch = s]] /\ s # 0
        <4>1. CASE /\ tab[t].scratch # 0
                   /\ tab' = [tab EXCEPT ![t] = [tab[t] EXCEPT !.caller = "scratch"]]
          <5>1. [tab[t] EXCEPT !.caller = "scratch"]
                  = [tab[t] EXCEPT !.caller = "scratch", !.scratch = tab[t].scratch]
            BY <1>2 DEF TabType
          <5>2. tab[t].scratch \in 0..MaxScratch
            BY <1>2 DEF TabType
          <5> QED
            BY <4>1, <5>1, <5>2
        <4>2. CASE /\ used.scratch < MaxScratch
                   /\ tab' = [tab EXCEPT ![t] = [tab[t] EXCEPT !.caller = "scratch", !.scratch = used.scratch + 1]]
          <5>1. used.scratch + 1 \in 0..MaxScratch /\ used.scratch + 1 # 0
            BY <4>2, IdentitySizes DEF IdentityTyped, UsedType
          <5> QED
            BY <4>2, <5>1
        <4> QED
          BY <2>6, <4>1, <4>2 DEF ProbeScratch, Caller
      <3> DEFINE r == [tab[t] EXCEPT !.caller = "scratch", !.scratch = s]
      <3>2. r \in TabType /\ r.scratch # 0
        BY <1>2, <3>1 DEF TabType
      <3>3. tab' = [tab EXCEPT ![t] = r]
        BY <3>1
      <3> HIDE DEF r
      <3> QED
        BY <2>3, <3>2, <3>3
    <2> QED
      BY <2>4, <2>5, <2>6
  <1> QED
    BY <1>1, <1>3, <1>4, ServerKept DEF IdentityTyped

LEMMA RedeemSteps ==
  ASSUME IdentityInv, NEW t \in Tabs, NEW i \in Slots, ProbeRedeem(t, i)
  PROVE  IdentityInv'
  <1> USE DEF IdentityInv
  <1>1. UNCHANGED <<scr, dev, pair, phone>>
    BY DEF ProbeRedeem
  <1>2. CASE UNCHANGED <<tab, sess, jar, used>>
    <2>1. tab' \in [Tabs -> TabType] /\ ScratchCallers' /\ jar' \in JarType /\ phone' \in PhoneType
          /\ used' \in UsedType /\ used'.pairs = used.pairs /\ phone'.shows <= used.pairs
      BY <1>1, <1>2 DEF ScratchCallers, IdentityTyped, Minted
    <2> QED
      BY <1>1, <1>2, <2>1, ServerKept
  <1>3. CASE /\ Redeemable
             /\ Issue(dev[jar.key].by, jar.key)
             /\ used' = [used EXCEPT !.sess = @ + 1]
             /\ jar' = [jar EXCEPT !.cookie = used.sess + 1, !.seen = TRUE]
             /\ Caller(t, i, [tab[t] EXCEPT !.caller = "session", !.scratch = 0, !.csrf = used.sess + 1])
    <2>1. jar.key \in 1..MaxKeys /\ dev[jar.key].by # 0 /\ ~dev[jar.key].revoked
      BY <1>3, IdentitySizes DEF Redeemable, Enrolled, IdentityTyped, JarType
    <2>2. dev[jar.key].by \in Nat
      BY <2>1 DEF IdentityTyped, DeviceType
    <2>3. /\ sess' \in [1..MaxSessions -> SessionType] /\ LiveEnrolled'
          /\ used.sess + 1 \in 0..MaxSessions
      BY <1>1, <1>3, <2>1, <2>2, Issued DEF IdentityTyped
    <2>4. jar' \in JarType
      BY <1>3, <2>3 DEF IdentityTyped, JarType
    <2>5. used' \in UsedType /\ used'.pairs = used.pairs
      BY <1>3, <2>3 DEF IdentityTyped, UsedType
    <2>6. tab' \in [Tabs -> TabType] /\ ScratchCallers'
      <3> DEFINE r == [tab[t] EXCEPT !.caller = "session", !.scratch = 0, !.csrf = used.sess + 1]
      <3>1. r \in TabType /\ r.caller # "scratch"
        <4>1. tab[t] \in TabType /\ used.sess + 1 \in Nat
          BY <2>3, IdentitySizes DEF IdentityTyped
        <4> QED
          BY <4>1, SessionTab
      <3>2. tab' = [tab EXCEPT ![t] = r]
        BY <1>3 DEF Caller
      <3> HIDE DEF r
      <3> QED
        BY <3>1, <3>2, TabWritten DEF IdentityTyped
    <2> QED
      BY <1>1, <2>3, <2>4, <2>5, <2>6 DEF IdentityTyped, ClaimedBound, Minted
  <1> QED
    BY <1>2, <1>3 DEF ProbeRedeem

\* The login dialog of a tab moves.
LEMMA DialogMoves ==
  ASSUME IdentityInv, NEW t \in Tabs, NEW f \in Flows, NEW q \in Nat,
         \/ UNCHANGED tab
         \/ tab' = [tab EXCEPT ![t].flow = f]
         \/ tab' = [tab EXCEPT ![t].flow = f, ![t].pairing = q]
  PROVE  tab' \in [Tabs -> TabType] /\ ScratchCallers'
  <1> USE DEF IdentityInv
  <1>1. tab[t] \in TabType /\ tab \in [Tabs -> TabType] /\ ScratchCallers
    BY DEF IdentityTyped
  <1>2. CASE UNCHANGED tab
    BY <1>1, <1>2 DEF ScratchCallers
  <1>3. CASE tab' = [tab EXCEPT ![t].flow = f]
    <2> DEFINE r == [tab[t] EXCEPT !.flow = f]
    <2>1. r \in TabType /\ (r.caller = "scratch" => r.scratch # 0)
      BY <1>1 DEF TabType, ScratchCallers
    <2>2. tab' = [tab EXCEPT ![t] = r]
      BY <1>3
    <2> HIDE DEF r
    <2> QED
      BY <1>1, <2>1, <2>2, TabWritten
  <1>4. CASE tab' = [tab EXCEPT ![t].flow = f, ![t].pairing = q]
    <2> DEFINE r == [tab[t] EXCEPT !.flow = f, !.pairing = q]
    <2>1. r \in TabType /\ (r.caller = "scratch" => r.scratch # 0)
      BY <1>1 DEF TabType, ScratchCallers
    <2>2. tab' = [tab EXCEPT ![t] = r]
      BY <1>4
    <2> HIDE DEF r
    <2> QED
      BY <1>1, <2>1, <2>2, TabWritten
  <1> QED
    BY <1>2, <1>3, <1>4

LEMMA DialogSteps ==
  ASSUME IdentityInv, NEW t \in Tabs, OpenLogin(t) \/ Poll(t) \/ CloseLogin(t)
  PROVE  IdentityInv'
  <1>1. /\ UNCHANGED <<scr, dev, sess, pair, phone, jar, used>>
        /\ \/ UNCHANGED tab
           \/ \E f \in Flows : \/ tab' = [tab EXCEPT ![t].flow = f]
                               \/ tab' = [tab EXCEPT ![t].flow = f, ![t].pairing = 0]
    BY DEF OpenLogin, Poll, CloseLogin, server, Flows
  <1>2. tab' \in [Tabs -> TabType] /\ ScratchCallers'
    <2>1. CASE UNCHANGED tab
      BY <2>1 DEF IdentityInv, IdentityTyped, ScratchCallers
    <2>2. CASE \E f \in Flows : \/ tab' = [tab EXCEPT ![t].flow = f]
                                \/ tab' = [tab EXCEPT ![t].flow = f, ![t].pairing = 0]
      <3>1. 0 \in Nat
        OBVIOUS
      <3> QED
        BY <2>2, <3>1, DialogMoves
    <2> QED
      BY <1>1, <2>1, <2>2
  <1> QED
    BY <1>1, <1>2, ServerKept DEF IdentityInv, IdentityTyped, Minted

\* The browser's key is bound to the workspace of a tab.
LEMMA BoundWrites ==
  ASSUME IdentityInv, NEW t \in Tabs, tab[t].caller = "scratch", Bound(t)
  PROVE  /\ jar' \in JarType /\ used' \in UsedType /\ used'.pairs = used.pairs
         /\ scr' \in [1..MaxScratch -> ScratchType] /\ ClaimedBound'
  <1> USE DEF IdentityInv
  <1>1. Pending \in 1..MaxKeys
    BY IdentitySizes DEF Bound, Pending, IdentityTyped, JarType, UsedType
  <1>2. jar' \in JarType
    <2>1. jar' = [jar EXCEPT !.key = Pending] /\ Pending \in 0..MaxKeys
      BY <1>1, IdentitySizes DEF Bound
    <2> QED
      BY <2>1 DEF IdentityTyped, JarType
  <1>3. used' \in UsedType /\ used'.pairs = used.pairs
    <2> DEFINE k == IF jar.key = 0 THEN used.keys + 1 ELSE used.keys
    <2>1. k \in Nat
      BY DEF IdentityTyped, UsedType
    <2>2. used' = [used EXCEPT !.keys = k]
      BY DEF Bound
    <2> HIDE DEF k
    <2> QED
      BY <2>1, <2>2 DEF IdentityTyped, UsedType
  <1> DEFINE s == tab[t].scratch
  <1>4. s \in 1..MaxScratch
    BY IdentitySizes DEF ScratchCallers, IdentityTyped, TabType
  <1> HIDE DEF s
  <1>5. scr' = [scr EXCEPT ![s].pending = IF BindAccepted(s) THEN Pending ELSE @]
    BY DEF Bound, s
  <1>6. scr' \in [1..MaxScratch -> ScratchType]
    <2> DEFINE k == IF BindAccepted(s) THEN Pending ELSE scr[s].pending
    <2>1. scr[s] \in ScratchType
      BY <1>4 DEF IdentityTyped
    <2>2. k \in 0..MaxKeys
      BY <1>1, <2>1, IdentitySizes DEF ScratchType
    <2>3. scr' = [scr EXCEPT ![s] = [scr[s] EXCEPT !.pending = k]]
      BY <1>5
    <2> HIDE DEF k
    <2>4. [scr[s] EXCEPT !.pending = k] \in ScratchType
      BY <2>1, <2>2 DEF ScratchType
    <2> QED
      BY <2>3, <2>4 DEF IdentityTyped
  <1>7. ClaimedBound'
    <2>1. /\ scr'[s].by = scr[s].by /\ scr'[s].pending \in {scr[s].pending, Pending}
          /\ \A o \in 1..MaxScratch : o # s => scr'[o] = scr[o]
      BY <1>4, <1>5 DEF IdentityTyped, ScratchType
    <2> QED
      BY <1>1, <2>1 DEF ClaimedBound
  <1> QED
    BY <1>2, <1>3, <1>6, <1>7

LEMMA BindSteps ==
  ASSUME IdentityInv, NEW t \in Tabs, BindOnPaint(t) \/ Bind(t)
  PROVE  IdentityInv'
  <1>1. UNCHANGED <<dev, sess, pair, phone>>
    BY DEF BindOnPaint, Bind
  <1>2. tab' \in [Tabs -> TabType] /\ ScratchCallers'
    <2>1. CASE BindOnPaint(t)
      BY <2>1 DEF BindOnPaint, IdentityInv, IdentityTyped, ScratchCallers
    <2>2. CASE Bind(t)
      <3>1. "mint" \in Flows /\ "failed" \in Flows /\ 0 \in Nat
        BY DEF Flows
      <3>2. tab' = [tab EXCEPT ![t].flow = "mint"] \/ tab' = [tab EXCEPT ![t].flow = "failed"]
        BY <2>2 DEF Bind
      <3> QED
        BY <3>1, <3>2, DialogMoves
    <2> QED
      BY <2>1, <2>2
  <1>3. /\ jar' \in JarType /\ used' \in UsedType /\ used'.pairs = used.pairs
        /\ scr' \in [1..MaxScratch -> ScratchType] /\ ClaimedBound'
    <2>1. CASE tab[t].caller = "scratch"
      <3>1. Bound(t)
        BY <2>1 DEF BindOnPaint, Bind
      <3> QED
        BY <2>1, <3>1, BoundWrites
    <2>2. CASE tab[t].caller # "scratch"
      <3>1. UNCHANGED <<jar, used, scr>>
        BY <2>2 DEF BindOnPaint, Bind
      <3> QED
        BY <3>1 DEF IdentityInv, IdentityTyped, ClaimedBound
    <2> QED
      BY <2>1, <2>2
  <1>4. LiveEnrolled' /\ Minted'
    BY <1>1, <1>3 DEF IdentityInv, LiveEnrolled, Minted
  <1> QED
    BY <1>1, <1>2, <1>3, <1>4 DEF IdentityInv, IdentityTyped

LEMMA MintSteps ==
  ASSUME IdentityInv, NEW t \in Tabs, Mint(t)
  PROVE  IdentityInv'
  <1> USE DEF IdentityInv
  <1>1. UNCHANGED <<jar, scr, dev, sess, phone>>
    BY DEF Mint
  <1>2. ClaimedBound' /\ LiveEnrolled'
    BY <1>1 DEF ClaimedBound, LiveEnrolled
  <1>3. CASE UNCHANGED <<pair, used>> /\ tab' = [tab EXCEPT ![t].flow = "failed"]
    <2>1. tab' \in [Tabs -> TabType] /\ ScratchCallers'
      <3>1. "failed" \in Flows /\ 0 \in Nat
        BY DEF Flows
      <3> QED
        BY <1>3, <3>1, DialogMoves
    <2> QED
      BY <1>1, <1>3, <2>1, ServerKept DEF IdentityTyped, Minted
  <1>4. CASE /\ ScratchLive(tab[t].scratch) /\ used.pairs < MaxPairs
             /\ pair' = [pair EXCEPT ![used.pairs + 1] =
                   [scratch |-> tab[t].scratch, key |-> scr[tab[t].scratch].pending, by |-> 0, expired |-> FALSE]]
             /\ tab' = [tab EXCEPT ![t].flow = "wait", ![t].pairing = used.pairs + 1]
             /\ used' = [used EXCEPT !.pairs = @ + 1]
    <2> DEFINE p == used.pairs + 1
               s == tab[t].scratch
    <2>1. s \in 1..MaxScratch
      BY <1>4, IdentitySizes DEF ScratchLive, IdentityTyped, TabType
    <2>2. p \in 1..MaxPairs /\ p \in Nat /\ used.pairs \in Nat
      BY <1>4, IdentitySizes DEF IdentityTyped, UsedType
    <2>3. tab' \in [Tabs -> TabType] /\ ScratchCallers'
      <3>1. "wait" \in Flows
        BY DEF Flows
      <3>2. tab' = [tab EXCEPT ![t].flow = "wait", ![t].pairing = p]
        BY <1>4
      <3> HIDE DEF p
      <3> QED
        BY <2>2, <3>1, <3>2, DialogMoves
    <2>4. used' \in UsedType /\ used'.pairs = p
      BY <1>4, <2>2 DEF IdentityTyped, UsedType
    <2> DEFINE new == [scratch |-> s, key |-> scr[s].pending, by |-> 0, expired |-> FALSE]
    <2>5. new \in PairType /\ new.scratch # 0
      <3>1. scr[s].pending \in 0..MaxKeys /\ s \in 0..MaxScratch /\ s # 0
        BY <2>1, IdentitySizes DEF IdentityTyped, ScratchType
      <3> HIDE DEF s
      <3> QED
        BY <3>1 DEF PairType
    <2>6. pair' = [pair EXCEPT ![p] = new]
      BY <1>4
    <2> HIDE DEF p, new, s
    <2>7. pair' \in [1..MaxPairs -> PairType]
      BY <2>5, <2>6 DEF IdentityTyped
    <2>8. Minted'
      <3>1. \A q \in 1..MaxPairs : q <= p => q = p \/ q <= used.pairs
        BY <2>2 DEF p
      <3>2. \A q \in 1..MaxPairs : q <= used'.pairs => pair'[q].scratch # 0
        BY <2>4, <2>5, <2>6, <3>1 DEF Minted, IdentityTyped
      <3>3. phone'.shows <= used'.pairs
        BY <1>1, <2>2, <2>4, IdentitySizes DEF Minted, IdentityTyped, PhoneType, p
      <3> QED
        BY <3>2, <3>3 DEF Minted
    <2> QED
      BY <1>1, <1>2, <2>3, <2>4, <2>7, <2>8 DEF IdentityTyped
  <1> QED
    BY <1>3, <1>4 DEF Mint

\* The tab takes the session it was given.
LEMMA TabTakesSession ==
  ASSUME IdentityInv, NEW t \in Tabs, NEW c \in Nat,
         \/ UNCHANGED tab
         \/ tab' = [tab EXCEPT ![t].caller = "session", ![t].csrf = c, ![t].flow = "kept"]
         \/ tab' = [tab EXCEPT ![t].caller = "session", ![t].csrf = c, ![t].scratch = 0, ![t].flow = "kept"]
  PROVE  tab' \in [Tabs -> TabType] /\ ScratchCallers'
  <1> USE DEF IdentityInv
  <1>1. tab[t] \in TabType /\ tab \in [Tabs -> TabType] /\ ScratchCallers
    BY DEF IdentityTyped
  <1>2. CASE UNCHANGED tab
    BY <1>1, <1>2 DEF ScratchCallers
  <1>3. \A o \in TabType : [o EXCEPT !.flow = "kept"] \in TabType /\ [o EXCEPT !.flow = "kept"].caller = o.caller
    BY DEF TabType, Flows
  <1>4. CASE tab' = [tab EXCEPT ![t].caller = "session", ![t].csrf = c, ![t].flow = "kept"]
    <2> DEFINE o == [tab[t] EXCEPT !.caller = "session", !.csrf = c]
               r == [o EXCEPT !.flow = "kept"]
    <2>1. o \in TabType /\ o.caller = "session"
      BY <1>1 DEF TabType
    <2>2. tab' = [tab EXCEPT ![t] = r]
      BY <1>4
    <2> HIDE DEF o
    <2>3. r \in TabType /\ r.caller = "session"
      BY <1>3, <2>1
    <2> HIDE DEF r
    <2> QED
      BY <1>1, <2>2, <2>3, TabWritten
  <1>5. CASE tab' = [tab EXCEPT ![t].caller = "session", ![t].csrf = c, ![t].scratch = 0, ![t].flow = "kept"]
    <2> DEFINE p == [tab[t] EXCEPT !.caller = "session", !.csrf = c]
               o == [p EXCEPT !.scratch = 0]
               r == [o EXCEPT !.flow = "kept"]
    <2>1. tab' = [tab EXCEPT ![t] = r]
      BY <1>5
    <2>2. p \in TabType /\ p.caller = "session"
      BY <1>1 DEF TabType
    <2> HIDE DEF p
    <2>3. o \in TabType /\ o.caller = "session"
      BY <2>2, IdentitySizes DEF TabType
    <2> HIDE DEF o
    <2>4. r \in TabType /\ r.caller = "session"
      BY <1>3, <2>3
    <2> HIDE DEF r
    <2> QED
      BY <1>1, <2>1, <2>4, TabWritten
  <1> QED
    BY <1>2, <1>4, <1>5

LEMMA FinalizeSteps ==
  ASSUME IdentityInv, NEW t \in Tabs, Finalize(t)
  PROVE  IdentityInv'
  <1> USE DEF IdentityInv
  <1> DEFINE s == tab[t].scratch
             p == tab[t].pairing
             n == used.sess + 1
  <1>1. UNCHANGED <<scr, dev, pair, phone>>
    BY DEF Finalize
  <1>2. ClaimedBound' /\ tab[t] \in TabType
    BY <1>1 DEF ClaimedBound, IdentityTyped
  <1>3. CASE s # 0 /\ CanFinalize(s, p)
    <2>1. Issue(scr[s].by, pair[p].key)
      BY <1>3 DEF Finalize
    <2>2. s \in 1..MaxScratch
      BY <1>2, <1>3, IdentitySizes DEF TabType
    <2> DEFINE k == pair[p].key
    <2>3. /\ k \in 1..MaxKeys /\ scr[s].by \in Nat
          /\ dev[k].by # 0 /\ ~dev[k].revoked
      <3>1. scr[s].by # 0 /\ scr[s].by \in Nat /\ scr[s].pending # 0 /\ scr[s].pending \in 0..MaxKeys
        BY <1>3, <2>2 DEF CanFinalize, ClaimedBound, IdentityTyped, ScratchType
      <3>2. scr[s].pending = k /\ dev[k].by = scr[s].by /\ ~dev[k].revoked
        BY <1>3 DEF CanFinalize
      <3> QED
        BY <3>1, <3>2, IdentitySizes
    <2>4. /\ sess' \in [1..MaxSessions -> SessionType] /\ LiveEnrolled'
          /\ n \in 0..MaxSessions /\ n \in Nat
      <3> HIDE DEF s, k
      <3>1. /\ sess' \in [1..MaxSessions -> SessionType] /\ LiveEnrolled'
            /\ used.sess + 1 \in 0..MaxSessions
        BY <1>1, <2>1, <2>3, Issued DEF IdentityTyped, k
      <3> QED
        BY <3>1, IdentitySizes
    <2>5. /\ \/ UNCHANGED tab
             \/ tab' = [tab EXCEPT ![t].caller = "session", ![t].csrf = n, ![t].flow = "kept"]
          /\ \/ UNCHANGED jar
             \/ \E b \in BOOLEAN : jar' = [jar EXCEPT !.cookie = n, !.seen = TRUE, !.enrolled = b]
          /\ \/ used' = [used EXCEPT !.sess = n]
             \/ used' = [used EXCEPT !.sess = n, !.faults = @ + 1]
      <3> HIDE DEF s, k, n
      <3>1. CASE /\ tab' = [tab EXCEPT ![t].caller = "session", ![t].csrf = n, ![t].flow = "kept"]
                 /\ \E stored \in Stored :
                      /\ jar' = [jar EXCEPT !.cookie = n, !.seen = TRUE,
                                            !.enrolled = IF stored THEN jar.key = pair[p].key ELSE @]
                      /\ used' = [used EXCEPT !.sess = n, !.faults = IF stored THEN @ ELSE @ + 1]
        <4>1. PICK stored \in BOOLEAN :
                      /\ jar' = [jar EXCEPT !.cookie = n, !.seen = TRUE,
                                            !.enrolled = IF stored THEN jar.key = pair[p].key ELSE @]
                      /\ used' = [used EXCEPT !.sess = n, !.faults = IF stored THEN @ ELSE @ + 1]
          BY <3>1 DEF Stored
        <4>2. (IF stored THEN jar.key = pair[p].key ELSE jar.enrolled) \in BOOLEAN
          BY DEF IdentityTyped, JarType
        <4>3. \E b \in BOOLEAN : jar' = [jar EXCEPT !.cookie = n, !.seen = TRUE, !.enrolled = b]
          BY <4>1, <4>2
        <4>4. \/ used' = [used EXCEPT !.sess = n]
              \/ used' = [used EXCEPT !.sess = n, !.faults = @ + 1]
          <5>1. used = [used EXCEPT !.faults = @]
            BY DEF IdentityTyped, UsedType
          <5>2. CASE stored
            <6>1. used' = [used EXCEPT !.sess = n, !.faults = used.faults]
              BY <4>1, <5>2
            <6>2. [used EXCEPT !.sess = n, !.faults = used.faults] = [used EXCEPT !.sess = n]
              BY DEF IdentityTyped, UsedType
            <6> QED
              BY <6>1, <6>2
          <5>3. CASE ~stored
            BY <4>1, <5>3
          <5> QED
            BY <5>2, <5>3
        <4> QED
          BY <3>1, <4>3, <4>4
      <3>2. CASE /\ used' = [used EXCEPT !.sess = n, !.faults = @ + 1]
                 /\ UNCHANGED <<tab, jar>>
        BY <3>2
      <3> QED
        BY <1>3, <3>1, <3>2 DEF Finalize, s, n
    <2>6. tab' \in [Tabs -> TabType] /\ ScratchCallers'
      <3> HIDE DEF n
      <3> QED
        BY <2>4, <2>5, TabTakesSession
    <2>7. jar' \in JarType
      <3> HIDE DEF n
      <3> QED
        BY <2>4, <2>5 DEF IdentityTyped, JarType
    <2>8. used' \in UsedType /\ used'.pairs = used.pairs
      <3> HIDE DEF n
      <3>1. used.faults + 1 \in Nat
        BY DEF IdentityTyped, UsedType
      <3> QED
        BY <2>4, <2>5, <3>1 DEF IdentityTyped, UsedType
    <2> QED
      BY <1>1, <1>2, <2>4, <2>6, <2>7, <2>8 DEF IdentityTyped, Minted
  <1>4. CASE ~(s # 0 /\ CanFinalize(s, p))
    <2>1. UNCHANGED <<sess, tab, jar, used>>
      BY <1>4 DEF Finalize
    <2>2. /\ tab' \in [Tabs -> TabType] /\ ScratchCallers' /\ jar' \in JarType /\ used' \in UsedType
          /\ used'.pairs = used.pairs /\ phone' \in PhoneType /\ phone'.shows <= used.pairs
      BY <1>1, <2>1 DEF IdentityTyped, ScratchCallers, Minted
    <2> QED
      BY <1>1, <2>1, <2>2, ServerKept
  <1> QED
    BY <1>3, <1>4

LEMMA KeepHereSteps ==
  ASSUME IdentityInv, NEW t \in Tabs, KeepHere(t)
  PROVE  IdentityInv'
  <1> USE DEF IdentityInv
  <1> DEFINE s == tab[t].scratch
             n == used.sess + 1
             a == used.accounts + 1
             k == scr[s].pending
  <1>1. /\ UNCHANGED <<pair, phone>>
        /\ CanClaim(s) /\ Claim(s, a, TRUE) /\ Issue(a, k)
        /\ tab[t].caller = "scratch"
    BY DEF KeepHere
  <1>2. s \in 1..MaxScratch
    BY <1>1, IdentitySizes DEF ScratchCallers, IdentityTyped, TabType
  <1>3. a \in Nat \ {0}
    BY DEF IdentityTyped, UsedType
  <1>4. /\ k \in 1..MaxKeys
        /\ scr' \in [1..MaxScratch -> ScratchType] /\ ClaimedBound'
        /\ dev' \in [1..MaxKeys -> DeviceType]
        /\ dev'[k].by # 0 /\ ~dev'[k].revoked
        /\ \A j \in 1..MaxKeys : dev[j].by # 0 => dev'[j] = dev[j]
    <2> HIDE DEF a, s
    <2> QED
      BY <1>1, <1>2, <1>3, ClaimWrites
  <1>5. /\ sess' \in [1..MaxSessions -> SessionType] /\ LiveEnrolled'
        /\ n \in 0..MaxSessions /\ n \in Nat
    <2> HIDE DEF k, s, a
    <2>1. /\ sess' \in [1..MaxSessions -> SessionType] /\ LiveEnrolled'
          /\ used.sess + 1 \in 0..MaxSessions
      BY <1>1, <1>3, <1>4, Issued DEF IdentityTyped
    <2> QED
      BY <2>1, IdentitySizes
  <1>6. /\ \/ UNCHANGED tab
           \/ tab' = [tab EXCEPT ![t].caller = "session", ![t].csrf = n, ![t].scratch = 0, ![t].flow = "kept"]
        /\ \/ UNCHANGED jar
           \/ \E b \in BOOLEAN : jar' = [jar EXCEPT !.cookie = n, !.seen = TRUE, !.enrolled = b]
        /\ \E f \in Nat : used' = [used EXCEPT !.sess = n, !.accounts = a, !.faults = f]
    <2> HIDE DEF s, k, n, a
    <2>1. used.faults \in Nat /\ used.faults + 1 \in Nat /\ jar.enrolled \in BOOLEAN
      BY DEF IdentityTyped, UsedType, JarType
    <2>2. CASE /\ tab' = [tab EXCEPT ![t].caller = "session", ![t].csrf = n, ![t].scratch = 0, ![t].flow = "kept"]
               /\ \E stored \in Stored :
                    /\ jar' = [jar EXCEPT !.cookie = n, !.seen = TRUE, !.enrolled = stored \/ @]
                    /\ used' = [used EXCEPT !.sess = n, !.accounts = a, !.faults = IF stored THEN @ ELSE @ + 1]
      <3>1. PICK stored \in BOOLEAN :
                    /\ jar' = [jar EXCEPT !.cookie = n, !.seen = TRUE, !.enrolled = stored \/ @]
                    /\ used' = [used EXCEPT !.sess = n, !.accounts = a, !.faults = IF stored THEN @ ELSE @ + 1]
        BY <2>2 DEF Stored
      <3>2. \E b \in BOOLEAN : jar' = [jar EXCEPT !.cookie = n, !.seen = TRUE, !.enrolled = b]
        <4>1. (stored \/ jar.enrolled) \in BOOLEAN
          OBVIOUS
        <4> QED
          BY <3>1, <4>1
      <3>3. \E f \in Nat : used' = [used EXCEPT !.sess = n, !.accounts = a, !.faults = f]
        BY <2>1, <3>1
      <3> QED
        BY <2>2, <3>2, <3>3
    <2>3. CASE /\ used' = [used EXCEPT !.sess = n, !.accounts = a, !.faults = @ + 1]
               /\ UNCHANGED <<tab, jar>>
      BY <2>1, <2>3
    <2> QED
      BY <2>2, <2>3 DEF KeepHere, s, n, a
  <1>7. tab' \in [Tabs -> TabType] /\ ScratchCallers'
    <2> HIDE DEF n
    <2> QED
      BY <1>5, <1>6, TabTakesSession
  <1>8. jar' \in JarType
    <2> HIDE DEF n
    <2> QED
      BY <1>5, <1>6 DEF IdentityTyped, JarType
  <1>9. used' \in UsedType /\ used'.pairs = used.pairs
    <2> HIDE DEF n, a
    <2> QED
      BY <1>3, <1>5, <1>6 DEF IdentityTyped, UsedType
  <1> QED
    BY <1>1, <1>4, <1>5, <1>7, <1>8, <1>9 DEF IdentityTyped, Minted

LEMMA PhoneSteps ==
  ASSUME IdentityInv, Bootstrap \/ Approve
  PROVE  IdentityInv'
  <1> USE DEF IdentityInv
  <1> DEFINE p == phone.shows
             s == pair[p].scratch
  <1>1. /\ UNCHANGED <<tab, jar, sess>>
        /\ Unlocked(p) /\ CanClaim(s)
    BY DEF Bootstrap, Approve
  <1>2. p \in 1..MaxPairs
    BY <1>1, IdentitySizes DEF Unlocked, IdentityTyped, PhoneType
  <1>3. s \in 1..MaxScratch
    BY <1>2, IdentitySizes DEF Minted, IdentityTyped, PairType
  <1>4. PICK by \in Nat \ {0} :
          /\ Claim(s, by, FALSE)
          /\ pair' = [pair EXCEPT ![p].by = by]
          /\ phone' = phone \/ phone' = [phone EXCEPT !.account = by]
          /\ used' = used \/ used' = [used EXCEPT !.accounts = by]
    <2>1. CASE Bootstrap
      <3>1. used.accounts + 1 \in Nat \ {0}
        BY DEF IdentityTyped, UsedType
      <3> QED
        BY <2>1, <3>1 DEF Bootstrap
    <2>2. CASE Approve
      <3>1. phone.account \in Nat \ {0}
        BY <2>2 DEF Approve, IdentityTyped, PhoneType
      <3> QED
        BY <2>2, <3>1 DEF Approve
    <2> QED
      BY <2>1, <2>2
  <1>5. /\ scr' \in [1..MaxScratch -> ScratchType] /\ ClaimedBound'
        /\ dev' \in [1..MaxKeys -> DeviceType]
        /\ \A j \in 1..MaxKeys : dev[j].by # 0 => dev'[j] = dev[j]
    <2> HIDE DEF s
    <2> QED
      BY <1>1, <1>3, <1>4, ClaimWrites
  <1> HIDE DEF p, s
  <1>6. LiveEnrolled' /\ ScratchCallers'
    BY <1>1, <1>5, EnrolKeeps DEF ScratchCallers
  <1>7. phone' \in PhoneType /\ phone'.shows = phone.shows
    BY <1>4 DEF IdentityTyped, PhoneType
  <1>8. used' \in UsedType /\ used'.pairs = used.pairs
    BY <1>4 DEF IdentityTyped, UsedType
  <1>9. pair' \in [1..MaxPairs -> PairType] /\ \A q \in 1..MaxPairs : pair'[q].scratch = pair[q].scratch
    <2>1. pair[p] \in PairType
      BY <1>2 DEF IdentityTyped
    <2>2. [pair[p] EXCEPT !.by = by] \in PairType /\ [pair[p] EXCEPT !.by = by].scratch = pair[p].scratch
      BY <2>1 DEF PairType
    <2>3. pair' = [pair EXCEPT ![p] = [pair[p] EXCEPT !.by = by]]
      BY <1>4
    <2> QED
      BY <2>2, <2>3 DEF IdentityTyped
  <1>10. Minted'
    BY <1>7, <1>8, <1>9 DEF Minted
  <1> QED
    BY <1>1, <1>5, <1>6, <1>7, <1>8, <1>9, <1>10 DEF IdentityTyped

LEMMA RevokeSteps ==
  ASSUME IdentityInv,
         \/ \E k \in 1..MaxKeys : PhoneRevokes(k)
         \/ \E t \in Tabs : RemoveThisDevice(t)
  PROVE  IdentityInv'
  <1> USE DEF IdentityInv
  <1>1. UNCHANGED <<tab, jar, scr, pair, phone, used>>
    BY DEF PhoneRevokes, RemoveThisDevice
  <1>2. PICK k \in 1..MaxKeys : dev' = [dev EXCEPT ![k].revoked = TRUE] /\ sess' = RevokedSessions(k)
    <2>1. ASSUME NEW t \in Tabs, RemoveThisDevice(t)
          PROVE sess[jar.cookie].key \in 1..MaxKeys
      <3>1. jar.cookie \in 1..MaxSessions /\ sess[jar.cookie].live
        BY <2>1, IdentitySizes DEF RemoveThisDevice, SessionLive, IdentityTyped, JarType
      <3> QED
        BY <3>1, IdentitySizes DEF LiveEnrolled, IdentityTyped, SessionType
    <2> QED
      BY <2>1 DEF PhoneRevokes, RemoveThisDevice
  <1>3. /\ dev' \in [1..MaxKeys -> DeviceType] /\ sess' \in [1..MaxSessions -> SessionType]
        /\ LiveEnrolled'
    BY <1>2, Revoked
  <1> QED
    BY <1>1, <1>3 DEF IdentityTyped, ScratchCallers, ClaimedBound, Minted

LEMMA LogoutSteps ==
  ASSUME IdentityInv, NEW t \in Tabs, Logout(t)
  PROVE  IdentityInv'
  <1> USE DEF IdentityInv
  <1>1. /\ UNCHANGED <<scr, dev, pair, phone>>
        /\ sess' = [sess EXCEPT ![jar.cookie].live = FALSE]
        /\ used' = [used EXCEPT !.reloads = @ + 1]
        /\ jar' = [jar EXCEPT !.cookie = 0, !.seen = FALSE]
        /\ tab' = [tab EXCEPT ![t].caller = "none", ![t].csrf = 0, ![t].flow = "idle"]
    BY DEF Logout
  <1>2. used' \in UsedType /\ used'.pairs = used.pairs
    <2>1. used.reloads + 1 \in Nat
      BY DEF IdentityTyped, UsedType
    <2> QED
      BY <1>1, <2>1 DEF IdentityTyped, UsedType
  <1>3. jar' \in JarType
    BY <1>1, IdentitySizes DEF IdentityTyped, JarType
  <1>4. tab' \in [Tabs -> TabType] /\ ScratchCallers'
    <2> DEFINE o == [tab[t] EXCEPT !.caller = "none", !.csrf = 0]
               r == [o EXCEPT !.flow = "idle"]
    <2>1. tab' = [tab EXCEPT ![t] = r]
      BY <1>1
    <2>2. o \in TabType /\ o.caller = "none"
      BY DEF IdentityTyped, TabType
    <2> HIDE DEF o
    <2>3. r \in TabType /\ r.caller = "none"
      BY <2>2 DEF TabType, Flows
    <2> HIDE DEF r
    <2> QED
      BY <2>1, <2>3, TabWritten DEF IdentityTyped
  <1>5. /\ sess' \in [1..MaxSessions -> SessionType]
        /\ \A n \in 1..MaxSessions : sess'[n].live => sess'[n] = sess[n]
    <2> SUFFICES ASSUME NEW n \in 1..MaxSessions
                 PROVE sess'[n] \in SessionType /\ (sess'[n].live => sess'[n] = sess[n])
      BY <1>1 DEF IdentityTyped
    <2>1. sess[n] \in SessionType
      BY DEF IdentityTyped
    <2>2. [sess[n] EXCEPT !.live = FALSE] \in SessionType /\ ~[sess[n] EXCEPT !.live = FALSE].live
      BY <2>1 DEF SessionType
    <2>3. sess'[n] = sess[n] \/ sess'[n] = [sess[n] EXCEPT !.live = FALSE]
      BY <1>1 DEF IdentityTyped
    <2> QED
      BY <2>1, <2>2, <2>3
  <1>6. LiveEnrolled'
    BY <1>1, <1>5 DEF LiveEnrolled
  <1> QED
    BY <1>1, <1>2, <1>3, <1>4, <1>5, <1>6 DEF IdentityTyped, ClaimedBound, Minted

LEMMA ReloadTabSteps ==
  ASSUME IdentityInv, NEW t \in Tabs, Reload(t)
  PROVE  IdentityInv'
  <1> USE DEF IdentityInv
  <1>1. /\ UNCHANGED <<jar, scr, dev, sess, pair, phone>>
        /\ used' = [used EXCEPT !.reloads = @ + 1]
        /\ tab' = [tab EXCEPT ![t] = [NoTab EXCEPT !.scratch = tab[t].scratch]]
    BY DEF Reload, server
  <1>2. used' \in UsedType /\ used'.pairs = used.pairs
    <2>1. used.reloads + 1 \in Nat
      BY DEF IdentityTyped, UsedType
    <2> QED
      BY <1>1, <2>1 DEF IdentityTyped, UsedType
  <1>3. tab' \in [Tabs -> TabType] /\ ScratchCallers'
    <2> DEFINE r == [NoTab EXCEPT !.scratch = tab[t].scratch]
    <2>1. r \in TabType /\ r.caller = "none"
      BY DEF NoTab, IdentityTyped, TabType, Flows
    <2>2. tab' = [tab EXCEPT ![t] = r]
      BY <1>1
    <2> HIDE DEF r
    <2> QED
      BY <2>1, <2>2, TabWritten DEF IdentityTyped
  <1> QED
    BY <1>1, <1>2, <1>3, ServerKept DEF IdentityTyped, Minted

LEMMA ExpireSteps ==
  ASSUME IdentityInv, NEW p \in 1..MaxPairs, Expire(p)
  PROVE  IdentityInv'
  <1> USE DEF IdentityInv
  <1>1. /\ UNCHANGED <<tab, jar, dev, sess, phone, used>>
        /\ p <= used.pairs
        /\ pair' = [pair EXCEPT ![p].expired = TRUE]
        /\ scr' = [scr EXCEPT ![pair[p].scratch].window = IF pair[p].by # 0 THEN FALSE ELSE @]
    BY DEF Expire
  <1>2. pair' \in [1..MaxPairs -> PairType] /\ \A q \in 1..MaxPairs : pair'[q].scratch = pair[q].scratch
    <2>1. pair[p] \in PairType
      BY DEF IdentityTyped
    <2>2. [pair[p] EXCEPT !.expired = TRUE] \in PairType
          /\ [pair[p] EXCEPT !.expired = TRUE].scratch = pair[p].scratch
      BY <2>1 DEF PairType
    <2>3. pair' = [pair EXCEPT ![p] = [pair[p] EXCEPT !.expired = TRUE]]
      BY <1>1
    <2> QED
      BY <2>2, <2>3 DEF IdentityTyped
  <1> DEFINE s == pair[p].scratch
  <1>3. s \in 1..MaxScratch
    BY <1>1, IdentitySizes DEF Minted, IdentityTyped, PairType
  <1> DEFINE w == IF pair[p].by # 0 THEN FALSE ELSE scr[s].window
  <1>4. scr' = [scr EXCEPT ![s] = [scr[s] EXCEPT !.window = w]]
    BY <1>1
  <1>5. scr[s] \in ScratchType /\ w \in BOOLEAN
    BY <1>3 DEF IdentityTyped, ScratchType
  <1> HIDE DEF s, w
  <1>6. /\ [scr[s] EXCEPT !.window = w] \in ScratchType
        /\ [scr[s] EXCEPT !.window = w].by = scr[s].by
        /\ [scr[s] EXCEPT !.window = w].pending = scr[s].pending
    BY <1>5 DEF ScratchType
  <1>7. scr' \in [1..MaxScratch -> ScratchType] /\ ClaimedBound'
    BY <1>3, <1>4, <1>6 DEF IdentityTyped, ClaimedBound
  <1> QED
    BY <1>1, <1>2, <1>7 DEF IdentityTyped, ScratchCallers, LiveEnrolled, Minted

LEMMA IdentitySteps == IdentityInv /\ [IdentityNext]_identityVars => IdentityInv'
  <1> SUFFICES ASSUME IdentityInv, [IdentityNext]_identityVars PROVE IdentityInv'
    OBVIOUS
  <1>1. ASSUME UNCHANGED <<tab, jar, scr, dev, sess, pair, used>>,
               phone' \in PhoneType, phone'.shows <= used.pairs
        PROVE  IdentityInv'
    BY <1>1, ServerKept DEF IdentityInv, IdentityTyped, ScratchCallers
  <1>2. phone \in PhoneType /\ phone.shows <= used.pairs
    BY DEF IdentityInv, IdentityTyped, Minted
  <1>3. ASSUME NEW t \in Tabs, TabStep(t) PROVE IdentityInv'
    <2>1. CASE Ensure(t) \/ Refused(t) \/ NeedsCsrf(t)
      BY <1>1, <1>2, <2>1 DEF Ensure, Refused, NeedsCsrf, server
    <2>2. ASSUME NEW i \in Slots,
                 ProbeSession(t, i) \/ ProbeOffline(t, i) \/ ProbeRedeem(t, i) \/ ProbeScratch(t, i)
          PROVE IdentityInv'
      BY <2>2, ProbeSteps, RedeemSteps
    <2>3. CASE RemoveThisDevice(t)
      BY <2>3, RevokeSteps
    <2> QED
      BY <1>3, <2>1, <2>2, <2>3, BindSteps, DialogSteps, MintSteps, FinalizeSteps, KeepHereSteps,
         LogoutSteps, ReloadTabSteps DEF TabStep
  <1>4. ASSUME NEW p \in 1..MaxPairs, Inspect(p) PROVE IdentityInv'
    <2>1. phone' = [phone EXCEPT !.shows = p] /\ p <= used.pairs
      BY <1>4 DEF Inspect
    <2>2. phone' \in PhoneType /\ phone'.shows <= used.pairs
      BY <1>2, <2>1, IdentitySizes DEF PhoneType
    <2> QED
      BY <1>1, <1>4, <2>2 DEF Inspect, server
  <1>5. CASE UNCHANGED identityVars
    BY <1>1, <1>2, <1>5 DEF identityVars
  <1> QED
    BY <1>3, <1>4, <1>5, ExpireSteps, PhoneSteps, RevokeSteps DEF IdentityNext

LEMMA LiveNotRevoked == IdentityInv => RevokedLocked
  BY DEF IdentityInv, IdentityTyped, LiveEnrolled, RevokedLocked

THEOREM RevokedStaysLocked == IdentitySpec => []RevokedLocked
  <1>1. IdentitySpec => []IdentityInv
    BY IdentityStarts, IdentitySteps, PTL DEF IdentitySpec
  <1> QED
    BY <1>1, LiveNotRevoked, PTL

-----------------------------------------------------------------------------
(* The document index. *)

CallState == {"idle", "sent", "orphan", "answered", "refused"}
SpentType == [req : Nat, faults : Nat, reloads : Nat, removed : Nat]
RowState == {"none", "live", "trash"}
CreateScope == Scopes \cup {"none"}
CallType == [st : CallState, scope : CreateScope, req : Nat, doc : Nat]

CatalogTyped ==
  /\ spent \in SpentType
  /\ pend \in [Scopes -> [stored : Nat, memory : Nat]]
  /\ call \in [1..MaxCalls -> CallType]
  /\ docRow \in [DocIds -> [st : RowState, req : Nat, scope : CreateScope]]
  /\ done \in [Scopes -> SUBSET (Nat \ {0})]
  /\ \A s \in Scopes : IsFiniteSet(done[s])

\* The requests of a scope: those that were answered, and the stored one.
Attempts(s) == done[s] \cup ({pend[s].stored} \ {0})

\* What a page remembers is what the session storage holds, or nothing.
MemoryIsStored == \A s \in Scopes : pend[s].memory \in {0, pend[s].stored}

\* A create call under way, also one of a page that is gone, carries a request
\* of its scope.
CallsKnown ==
  \A c \in 1..MaxCalls : call[c].st # "idle" =>
    \E s \in Scopes : call[c].scope = s /\ call[c].req \in Attempts(s)

\* A document was made for a request of its scope.
RowsKnown ==
  \A d \in DocIds :
    IF docRow[d].st = "none" THEN docRow[d].req = 0 /\ docRow[d].scope = "none"
    ELSE \E s \in Scopes : docRow[d].scope = s /\ docRow[d].req \in Attempts(s)

\* The server makes one document of a request.
OneRowEach ==
  \A d, e \in DocIds : docRow[d].req = docRow[e].req /\ docRow[d].req # 0 => d = e

CatalogInv ==
  CatalogTyped /\ MemoryIsStored /\ CallsKnown /\ RowsKnown /\ OneRowEach

LEMMA SpentIn ==
  ASSUME spent \in SpentType
  PROVE  /\ FailureSpent \in SpentType
         /\ [spent EXCEPT !.reloads = @ + 1] \in SpentType
         /\ [spent EXCEPT !.removed = @ + 1] \in SpentType
  <1>1. spent.faults + 1 \in Nat /\ spent.reloads + 1 \in Nat /\ spent.removed + 1 \in Nat
    BY DEF SpentType
  <1> QED
    BY <1>1 DEF FailureSpent, SpentType

LEMMA CatalogStarts == CatalogInit => CatalogInv
  <1> SUFFICES ASSUME CatalogInit PROVE CatalogInv
    OBVIOUS
  <1>1. CatalogTyped
    <2>1. IsFiniteSet({})
      BY FS_EmptySet
    <2> QED
      BY <2>1, SMT DEF CatalogTyped, CatalogInit, NoCall, CallState, RowState, CreateScope, SpentType, CallType
  <1>2. MemoryIsStored /\ CallsKnown
    BY DEF CatalogInit, MemoryIsStored, CallsKnown, NoCall
  <1>3. RowsKnown /\ OneRowEach
    BY DEF CatalogInit, RowsKnown, OneRowEach
  <1> QED
    BY <1>1, <1>2, <1>3 DEF CatalogInv

\* A request is never forgotten while a call or a document may carry it.
Grows == \A s \in Scopes : Attempts(s) \subseteq Attempts(s)'

LEMMA CallsKept ==
  ASSUME CallsKnown, Grows, NEW c \in 1..MaxCalls,
         \A b \in 1..MaxCalls : b # c => call'[b] = call[b],
         call'[c].st # "idle" =>
           \E s \in Scopes : call'[c].scope = s /\ call'[c].req \in Attempts(s)'
  PROVE  CallsKnown'
  <1> SUFFICES ASSUME NEW b \in 1..MaxCalls, call'[b].st # "idle"
               PROVE \E s \in Scopes : call'[b].scope = s /\ call'[b].req \in Attempts(s)'
    BY DEF CallsKnown
  <1>1. CASE b = c
    BY <1>1
  <1>2. CASE b # c
    <2>1. \E s \in Scopes : call[b].scope = s /\ call[b].req \in Attempts(s)
      BY <1>2 DEF CallsKnown
    <2> QED
      BY <1>2, <2>1 DEF Grows
  <1> QED
    BY <1>1, <1>2

LEMMA RowsKept ==
  ASSUME RowsKnown, OneRowEach, Grows, UNCHANGED docRow
  PROVE  RowsKnown' /\ OneRowEach'
  <1>1. OneRowEach'
    BY DEF OneRowEach, DocIds
  <1>2. RowsKnown'
    <2> SUFFICES ASSUME NEW d \in DocIds
                 PROVE IF docRow[d].st = "none" THEN docRow[d].req = 0 /\ docRow[d].scope = "none"
                       ELSE \E s \in Scopes : docRow[d].scope = s /\ docRow[d].req \in Attempts(s)'
      BY DEF RowsKnown, DocIds
    <2> QED
      BY DEF RowsKnown, Grows
  <1> QED
    BY <1>1, <1>2

LEMMA BeginSteps ==
  ASSUME CatalogInv, NEW s \in Scopes, Begin(s), UNCHANGED <<docRow, done>>
  PROVE  CatalogInv'
  <1> USE DEF CatalogInv
  <1>1. PICK c \in 1..MaxCalls :
          /\ call[c].st = "idle"
          /\ \/ /\ PendingRequest(s) # 0
                /\ call' = [call EXCEPT ![c] = [st |-> "sent", scope |-> s, req |-> PendingRequest(s), doc |-> 0]]
                /\ UNCHANGED <<pend, spent>>
             \/ /\ PendingRequest(s) = 0
                /\ call' = [call EXCEPT ![c] = [st |-> "sent", scope |-> s, req |-> spent.req + 1, doc |-> 0]]
                /\ pend' = [pend EXCEPT ![s] = [stored |-> spent.req + 1, memory |-> spent.req + 1]]
                /\ spent' = [spent EXCEPT !.req = @ + 1]
    BY DEF Begin
  <1>2. CASE PendingRequest(s) # 0 /\ UNCHANGED <<pend, spent>>
             /\ call' = [call EXCEPT ![c] = [st |-> "sent", scope |-> s, req |-> PendingRequest(s), doc |-> 0]]
    <2>1. PendingRequest(s) = pend[s].stored /\ pend[s].stored \in Nat \ {0}
      BY <1>2 DEF PendingRequest, MemoryIsStored, CatalogTyped
    <2>2. Grows
      BY <1>2 DEF Grows, Attempts
    <2>3. CatalogTyped'
      BY <1>2, <2>1, SMT DEF CatalogTyped, CallState, CreateScope, CallType
    <2>4. MemoryIsStored'
      BY <1>2 DEF MemoryIsStored
    <2>5. call'[c].scope = s /\ call'[c].req = pend[s].stored
      BY <1>2, <2>1 DEF CatalogTyped
    <2>6. \A b \in 1..MaxCalls : b # c => call'[b] = call[b]
      BY <1>2 DEF CatalogTyped
    <2>7. CallsKnown'
      <3>1. call'[c].req \in Attempts(s)'
        BY <2>5, <2>1, <1>2 DEF Attempts
      <3> QED
        BY <2>2, <2>5, <2>6, <3>1, CallsKept
    <2> QED
      BY <2>2, <2>3, <2>4, <2>7, RowsKept
  <1>3. CASE /\ PendingRequest(s) = 0
             /\ call' = [call EXCEPT ![c] = [st |-> "sent", scope |-> s, req |-> spent.req + 1, doc |-> 0]]
             /\ pend' = [pend EXCEPT ![s] = [stored |-> spent.req + 1, memory |-> spent.req + 1]]
             /\ spent' = [spent EXCEPT !.req = @ + 1]
    <2> DEFINE r == spent.req + 1
    <2>1. r \in Nat \ {0} /\ spent'.req = r
      BY <1>3 DEF CatalogTyped, SpentType
    <2>2. pend[s].stored = 0
      BY <1>3 DEF PendingRequest, MemoryIsStored, CatalogTyped
    <2>3. /\ pend'[s].stored = r /\ pend'[s].memory = r
          /\ \A o \in Scopes : o # s => pend'[o] = pend[o]
      BY <1>3 DEF CatalogTyped
    <2>4. Grows
      BY <2>2, <2>3 DEF Grows, Attempts
    <2>5. CatalogTyped'
      <3>1. spent' \in SpentType
        BY <1>3, <2>1 DEF CatalogTyped, SpentType
      <3>2. pend' \in [Scopes -> [stored : Nat, memory : Nat]]
        BY <1>3, <2>1 DEF CatalogTyped
      <3>3. call' \in [1..MaxCalls -> CallType]
        BY <1>3, <2>1 DEF CatalogTyped, CallState, CreateScope, CallType
      <3> QED
        BY <3>1, <3>2, <3>3 DEF CatalogTyped
    <2>6. MemoryIsStored'
      BY <2>3 DEF MemoryIsStored
    <2>7. /\ call'[c].scope = s /\ call'[c].req = r
          /\ \A b \in 1..MaxCalls : b # c => call'[b] = call[b]
      BY <1>3 DEF CatalogTyped
    <2> HIDE DEF r
    <2>8. call'[c].req \in Attempts(s)'
      BY <2>7, <2>3, <2>1 DEF Attempts
    <2> QED
      BY <2>4, <2>5, <2>6, <2>7, <2>8, CallsKept, RowsKept
  <1> QED
    BY <1>1, <1>2, <1>3

LEMMA ServerSteps ==
  ASSUME CatalogInv, NEW c \in 1..MaxCalls, ServerCreates(c)
  PROVE  CatalogInv'
  <1> USE DEF CatalogInv
  <1>1. call[c].st \in {"sent", "orphan"} /\ UNCHANGED <<pend, spent, done>>
    BY DEF ServerCreates
  <1>2. Grows
    BY <1>1 DEF Grows, Attempts
  <1>3. MemoryIsStored'
    BY <1>1 DEF MemoryIsStored
  <1>4. PICK s \in Scopes : call[c].scope = s /\ call[c].req \in Attempts(s)
    BY <1>1 DEF CallsKnown
  <1>5. call[c].req \in Nat \ {0}
    BY <1>4 DEF Attempts, CatalogTyped
  <1> DEFINE Answered(st, d) == call' = [call EXCEPT ![c].st = st, ![c].doc = d]
  <1>6. ASSUME NEW st \in CallState, NEW d \in Nat, Answered(st, d)
        PROVE  /\ call' \in [1..MaxCalls -> CallType]
               /\ CallsKnown'
    <2>1. call' \in [1..MaxCalls -> CallType]
      BY <1>6 DEF CatalogTyped, CallType
    <2>2. /\ call'[c].scope = call[c].scope /\ call'[c].req = call[c].req
          /\ \A b \in 1..MaxCalls : b # c => call'[b] = call[b]
      BY <1>6 DEF CatalogTyped
    <2>3. call'[c].scope = s /\ call'[c].req \in Attempts(s)'
      BY <2>2, <1>4, <1>1 DEF Attempts
    <2> QED
      BY <1>2, <2>1, <2>2, <2>3, CallsKept
  <1>7. CASE /\ \E d \in Replayed(call[c].req) :
                  call' = [call EXCEPT ![c].st = IF call[c].st = "orphan" THEN "idle"
                                                 ELSE IF docRow[d].st = "live" THEN "answered" ELSE "refused",
                                       ![c].doc = d]
             /\ UNCHANGED docRow
    <2>1. PICK d \in Replayed(call[c].req) :
            \E st \in {"idle", "answered", "refused"} : Answered(st, d)
      BY <1>7
    <2>2. PICK st \in CallState : Answered(st, d)
      BY <2>1 DEF CallState
    <2>3. d \in Nat
      BY DEF Replayed, DocIds
    <2> HIDE DEF Answered
    <2> QED
      BY <1>1, <1>2, <1>3, <1>6, <1>7, <2>2, <2>3, RowsKept DEF CatalogTyped
  <1>8. CASE /\ Replayed(call[c].req) = {}
             /\ \E d \in DocIds :
                  /\ docRow[d].st = "none"
                  /\ docRow' = [docRow EXCEPT ![d] = [st |-> "live", req |-> call[c].req, scope |-> call[c].scope]]
                  /\ call' = [call EXCEPT ![c].st = IF call[c].st = "orphan" THEN "idle" ELSE "answered",
                                          ![c].doc = d]
    <2>1. PICK d \in DocIds :
                  /\ docRow[d].st = "none"
                  /\ docRow' = [docRow EXCEPT ![d] = [st |-> "live", req |-> call[c].req, scope |-> call[c].scope]]
                  /\ call' = [call EXCEPT ![c].st = IF call[c].st = "orphan" THEN "idle" ELSE "answered",
                                          ![c].doc = d]
      BY <1>8
    <2>2. PICK st \in CallState : Answered(st, d)
      BY <2>1 DEF CallState
    <2>3. d \in Nat
      BY DEF DocIds
    <2>4. /\ docRow' \in [DocIds -> [st : RowState, req : Nat, scope : CreateScope]]
          /\ docRow'[d] = [st |-> "live", req |-> call[c].req, scope |-> call[c].scope]
          /\ \A e \in DocIds : e # d => docRow'[e] = docRow[e]
      BY <2>1, <1>4, <1>5 DEF CatalogTyped, RowState, CreateScope
    <2>5. RowsKnown'
      <3> SUFFICES ASSUME NEW e \in DocIds
                   PROVE IF docRow'[e].st = "none" THEN docRow'[e].req = 0 /\ docRow'[e].scope = "none"
                         ELSE \E o \in Scopes : docRow'[e].scope = o /\ docRow'[e].req \in Attempts(o)'
        BY DEF RowsKnown, DocIds
      <3>1. CASE e = d
        BY <3>1, <2>4, <1>2, <1>4 DEF Grows
      <3>2. CASE e # d
        BY <3>2, <2>4, <1>2 DEF RowsKnown, Grows
      <3> QED
        BY <3>1, <3>2
    <2>6. \A e \in DocIds : docRow[e].req # call[c].req
      BY <1>8 DEF Replayed
    <2>7. OneRowEach'
      BY <2>4, <2>6 DEF OneRowEach, DocIds
    <2> HIDE DEF Answered
    <2> QED
      BY <1>1, <1>3, <1>6, <2>2, <2>3, <2>4, <2>5, <2>7 DEF CatalogTyped
  <1> QED
    BY <1>7, <1>8 DEF ServerCreates

LEMMA ArrivalSteps ==
  ASSUME CatalogInv, NEW c \in 1..MaxCalls, CreateArrives(c)
  PROVE  CatalogInv'
  <1> USE DEF CatalogInv
  <1>1. PICK s \in Scopes : call[c].scope = s /\ call[c].req \in Attempts(s)
    BY DEF CreateArrives, CallsKnown
  <1> DEFINE r == call[c].req
  <1>2. r \in Nat \ {0}
    BY <1>1 DEF Attempts, CatalogTyped
  <1>3. /\ pend' = [pend EXCEPT ![s] = [stored |-> IF @.stored = r THEN 0 ELSE @.stored,
                                        memory |-> IF @.memory = r THEN 0 ELSE @.memory]]
        /\ done' = [done EXCEPT ![s] = @ \cup {r}]
        /\ call' = [call EXCEPT ![c] = NoCall]
        /\ UNCHANGED <<docRow, spent>>
    BY <1>1 DEF CreateArrives, Confirmed
  <1>4. /\ done'[s] = done[s] \cup {r}
        /\ pend'[s].stored = IF pend[s].stored = r THEN 0 ELSE pend[s].stored
        /\ pend'[s].memory = IF pend[s].memory = r THEN 0 ELSE pend[s].memory
        /\ \A o \in Scopes : o # s => pend'[o] = pend[o] /\ done'[o] = done[o]
    BY <1>3 DEF CatalogTyped
  <1>5. Grows
    BY <1>4 DEF Grows, Attempts
  <1>6. MemoryIsStored'
    BY <1>4, <1>2 DEF MemoryIsStored
  <1>7. CallsKnown'
    <2>1. /\ call'[c].st = "idle"
          /\ \A b \in 1..MaxCalls : b # c => call'[b] = call[b]
      BY <1>3 DEF NoCall, CatalogTyped
    <2> QED
      BY <1>5, <2>1, CallsKept
  <1>8. CatalogTyped'
    <2>1. pend' \in [Scopes -> [stored : Nat, memory : Nat]]
      BY <1>3, <1>2 DEF CatalogTyped
    <2>2. call' \in [1..MaxCalls -> CallType]
      BY <1>3 DEF CatalogTyped, NoCall, CallState, CreateScope, CallType
    <2>3. done' \in [Scopes -> SUBSET (Nat \ {0})]
      BY <1>3, <1>2 DEF CatalogTyped
    <2>4. IsFiniteSet(done[s] \cup {r})
      <3>1. IsFiniteSet(done[s])
        BY DEF CatalogTyped
      <3> HIDE DEF r
      <3> QED
        BY <3>1, FS_AddElement
    <2>5. \A o \in Scopes : IsFiniteSet(done'[o])
      BY <1>4, <2>4 DEF CatalogTyped
    <2> QED
      BY <1>3, <2>1, <2>2, <2>3, <2>5 DEF CatalogTyped
  <1> HIDE DEF r
  <1> QED
    BY <1>3, <1>5, <1>6, <1>7, <1>8, RowsKept

LEMMA FailureSteps ==
  ASSUME CatalogInv, NEW c \in 1..MaxCalls, CreateFails(c) \/ CreateTimesOut(c)
  PROVE  CatalogInv'
  <1> USE DEF CatalogInv
  <1>1. /\ call[c].st # "idle"
        /\ spent' = spent \/ spent' = FailureSpent
        /\ UNCHANGED <<docRow, pend, done>>
        /\ call' = [call EXCEPT ![c] = NoCall] \/ call' = [call EXCEPT ![c].st = "orphan"]
    <2>1. CASE CreateFails(c)
      BY <2>1 DEF CreateFails
    <2>2. CASE CreateTimesOut(c)
      BY <2>2 DEF CreateTimesOut
    <2> QED
      BY <2>1, <2>2
  <1>2. spent' \in SpentType
    BY <1>1, SpentIn DEF CatalogTyped
  <1>3. call' \in [1..MaxCalls -> CallType]
    <2>1. NoCall \in CallType
      BY DEF NoCall, CallType, CallState, CreateScope
    <2>2. [call[c] EXCEPT !.st = "orphan"] \in CallType
      BY DEF CatalogTyped, CallType, CallState
    <2> QED
      BY <1>1, <2>1, <2>2 DEF CatalogTyped
  <1>4. CatalogTyped' /\ MemoryIsStored' /\ Grows
    BY <1>1, <1>2, <1>3 DEF CatalogTyped, MemoryIsStored, Grows, Attempts
  <1>5. /\ call'[c].st # "idle" => call'[c].scope = call[c].scope /\ call'[c].req = call[c].req
        /\ \A b \in 1..MaxCalls : b # c => call'[b] = call[b]
    <2>1. CASE call' = [call EXCEPT ![c] = NoCall]
      BY <2>1 DEF NoCall, CatalogTyped
    <2>2. CASE call' = [call EXCEPT ![c].st = "orphan"]
      BY <2>2 DEF CatalogTyped, CallType
    <2> QED
      BY <1>1, <2>1, <2>2
  <1>6. CallsKnown'
    <2>1. PICK s \in Scopes : call[c].scope = s /\ call[c].req \in Attempts(s)
      BY <1>1 DEF CallsKnown
    <2> QED
      BY <1>4, <1>5, <2>1, CallsKept DEF Grows
  <1> QED
    BY <1>1, <1>4, <1>6, RowsKept

LEMMA TrashSteps ==
  ASSUME CatalogInv, NEW d \in DocIds, Remove(d) \/ Restore(d)
  PROVE  CatalogInv'
  <1> USE DEF CatalogInv
  <1>1. PICK st \in RowState \ {"none"} :
          /\ docRow' = [docRow EXCEPT ![d].st = st]
          /\ docRow[d].st # "none"
    BY DEF Remove, Restore, RowState
  <1>2. /\ UNCHANGED <<pend, call, done>>
        /\ spent' = spent \/ spent' = [spent EXCEPT !.removed = @ + 1]
    BY DEF Remove, Restore
  <1>3. /\ docRow' \in [DocIds -> [st : RowState, req : Nat, scope : CreateScope]]
        /\ docRow'[d].st = st /\ docRow'[d].req = docRow[d].req /\ docRow'[d].scope = docRow[d].scope
        /\ \A e \in DocIds : e # d => docRow'[e] = docRow[e]
    BY <1>1 DEF CatalogTyped
  <1>4. CatalogTyped' /\ MemoryIsStored' /\ CallsKnown' /\ Grows
    <2>1. spent' \in SpentType
      BY <1>2, SpentIn DEF CatalogTyped
    <2> QED
      BY <2>1, <1>2, <1>3 DEF CatalogTyped, MemoryIsStored, CallsKnown, Grows, Attempts
  <1>5. RowsKnown'
    <2> SUFFICES ASSUME NEW e \in DocIds
                 PROVE IF docRow'[e].st = "none" THEN docRow'[e].req = 0 /\ docRow'[e].scope = "none"
                       ELSE \E s \in Scopes : docRow'[e].scope = s /\ docRow'[e].req \in Attempts(s)'
      BY DEF RowsKnown, DocIds
    <2>1. CASE e = d
      BY <2>1, <1>1, <1>3, <1>4 DEF RowsKnown, Grows
    <2>2. CASE e # d
      BY <2>2, <1>3, <1>4 DEF RowsKnown, Grows
    <2> QED
      BY <2>1, <2>2
  <1>6. OneRowEach'
    BY <1>3 DEF OneRowEach, DocIds
  <1> QED
    BY <1>4, <1>5, <1>6

LEMMA ReloadSteps == ASSUME CatalogInv, ReloadPage PROVE CatalogInv'
  <1> USE DEF CatalogInv
  <1>1. /\ spent' = [spent EXCEPT !.reloads = @ + 1]
        /\ pend' = [s \in Scopes |-> [pend[s] EXCEPT !.memory = 0]]
        /\ call' = [c \in 1..MaxCalls |-> IF call[c].st \in {"sent", "orphan"} THEN [call[c] EXCEPT !.st = "orphan"] ELSE NoCall]
        /\ UNCHANGED <<docRow, done>>
    BY DEF ReloadPage
  <1>2. spent' \in SpentType
    BY <1>1, SpentIn DEF CatalogTyped
  <1>3. /\ pend' \in [Scopes -> [stored : Nat, memory : Nat]]
        /\ \A s \in Scopes : pend'[s].stored = pend[s].stored /\ pend'[s].memory = 0
    BY <1>1 DEF CatalogTyped
  <1>4. call' \in [1..MaxCalls -> CallType]
    <2> SUFFICES ASSUME NEW c \in 1..MaxCalls
                 PROVE call'[c] \in CallType
      BY <1>1
    <2>1. NoCall \in CallType
      BY DEF NoCall, CallState, CreateScope, CallType
    <2>2. [call[c] EXCEPT !.st = "orphan"] \in CallType
      BY DEF CatalogTyped, CallState, CallType
    <2> QED
      BY <1>1, <2>1, <2>2
  <1>5. CatalogTyped' /\ MemoryIsStored' /\ Grows
    BY <1>1, <1>2, <1>3, <1>4 DEF CatalogTyped, MemoryIsStored, Grows, Attempts
  <1>6. CallsKnown'
    <2> SUFFICES ASSUME NEW c \in 1..MaxCalls, call'[c].st # "idle"
                 PROVE \E s \in Scopes : call'[c].scope = s /\ call'[c].req \in Attempts(s)'
      BY DEF CallsKnown
    <2>1. call[c].st # "idle" /\ call'[c].scope = call[c].scope /\ call'[c].req = call[c].req
      BY <1>1 DEF NoCall, CatalogTyped
    <2> QED
      BY <2>1, <1>5 DEF CallsKnown, Grows
  <1> QED
    BY <1>1, <1>5, <1>6, RowsKept

LEMMA CatalogSteps == CatalogInv /\ [CatalogNext]_catalogVars => CatalogInv'
  <1> SUFFICES ASSUME CatalogInv, [CatalogNext]_catalogVars PROVE CatalogInv'
    OBVIOUS
  <1>1. ASSUME UNCHANGED <<docRow, pend, call, done>>,
               spent' = spent \/ spent' = FailureSpent
        PROVE CatalogInv'
    <2>1. spent' \in SpentType
      BY <1>1, SpentIn DEF CatalogInv, CatalogTyped
    <2>2. Grows
      BY <1>1 DEF Grows, Attempts
    <2>3. CatalogTyped' /\ MemoryIsStored' /\ CallsKnown'
      BY <1>1, <2>1 DEF CatalogInv, CatalogTyped, MemoryIsStored, CallsKnown, Attempts
    <2> QED
      BY <1>1, <2>2, <2>3, RowsKept DEF CatalogInv
  <1>2. ASSUME NEW s \in Scopes, Create(s) PROVE CatalogInv'
    BY <1>2, BeginSteps DEF Create
  <1>3. CASE Starter
    BY <1>3, BeginSteps DEF Starter
  <1>4. ASSUME NEW c \in 1..MaxCalls,
               ServerCreates(c) \/ CreateArrives(c) \/ CreateFails(c) \/ CreateTimesOut(c)
        PROVE CatalogInv'
    BY <1>4, ServerSteps, ArrivalSteps, FailureSteps
  <1>5. ASSUME NEW d \in DocIds, Remove(d) \/ Restore(d) PROVE CatalogInv'
    BY <1>5, TrashSteps
  <1>6. ASSUME NEW i \in 1..MaxLists, ServerLists(i) \/ ListArrives(i) \/ ListFails(i)
        PROVE CatalogInv'
    BY <1>1, <1>6 DEF ServerLists, ListArrives, ListFails
  <1>7. CASE Forget \/ PollList \/ ReadCatalog \/ CatalogRead \/ GoHome
    BY <1>1, <1>7 DEF Forget, PollList, ReadCatalog, CatalogRead, GoHome
  <1>8. CASE UNCHANGED catalogVars
    BY <1>1, <1>8 DEF catalogVars
  <1> QED
    BY <1>2, <1>3, <1>4, <1>5, <1>6, <1>7, <1>8, ReloadSteps DEF CatalogNext

LEMMA RowsCounted == CatalogInv => OnePagePerAction
  <1> SUFFICES ASSUME CatalogInv, NEW s \in Scopes
               PROVE Cardinality({d \in DocIds : docRow[d].scope = s}) <= Cardinality(done[s]) + 1
    BY DEF OnePagePerAction
  <1> USE DEF CatalogInv
  <1> DEFINE D == {d \in DocIds : docRow[d].scope = s}
             f == [d \in D |-> docRow[d].req]
             stored == pend[s].stored
             A == done[s] \cup {stored}
  <1>1. \A d \in D : docRow[d].req \in Attempts(s) /\ docRow[d].req # 0
    <2> SUFFICES ASSUME NEW d \in D PROVE docRow[d].req \in Attempts(s) /\ docRow[d].req # 0
      OBVIOUS
    <2>1. docRow[d].st # "none"
      BY CatalogAssumption DEF RowsKnown
    <2>2. docRow[d].req \in Attempts(s)
      BY <2>1 DEF RowsKnown
    <2> QED
      BY <2>2 DEF Attempts, CatalogTyped
  <1>2. f \in Injection(D, A)
    <2>1. f \in [D -> A]
      BY <1>1 DEF Attempts
    <2>2. \A d, e \in D : f[d] = f[e] => d = e
      BY <1>1 DEF OneRowEach
    <2> QED
      BY <2>1, <2>2 DEF Injection, IsInjective
  <1>3. IsFiniteSet(done[s])
    BY DEF CatalogTyped
  <1>4. IsFiniteSet(A) /\ Cardinality(A) <= Cardinality(done[s]) + 1
    <2>1. Cardinality(done[s]) \in Nat
      BY <1>3, FS_CardinalityType
    <2> HIDE DEF stored
    <2> QED
      BY <1>3, <2>1, FS_AddElement
  <1>5. IsFiniteSet(D) /\ Cardinality(D) <= Cardinality(A)
    <2> HIDE DEF D, A, f
    <2> QED
      BY <1>2, <1>4, FS_Injection
  <1>6. Cardinality(D) \in Nat /\ Cardinality(A) \in Nat /\ Cardinality(done[s]) \in Nat
    <2> HIDE DEF D, A
    <2> QED
      BY <1>3, <1>4, <1>5, FS_CardinalityType
  <1> HIDE DEF D, A
  <1>7. Cardinality(D) <= Cardinality(done[s]) + 1
    BY <1>4, <1>5, <1>6
  <1> QED
    BY <1>7 DEF D

THEOREM OnePageEach == CatalogSpec => []OnePagePerAction
  <1>1. CatalogSpec => []CatalogInv
    BY CatalogStarts, CatalogSteps, PTL DEF CatalogSpec
  <1> QED
    BY <1>1, RowsCounted, PTL

-----------------------------------------------------------------------------
(***************************************************************************)
(* Sharing: what the guest's page pursues and what the owner's dialog      *)
(* shows.                                                                  *)
(***************************************************************************)
\* What the guest's page and its requests are made of.
GuestShaped ==
  /\ guestPage = [route |-> guestPage.route, hash |-> guestPage.hash, grant |-> guestPage.grant,
                  session |-> guestPage.session, redeeming |-> guestPage.redeeming,
                  dirty |-> guestPage.dirty, keep |-> guestPage.keep, back |-> guestPage.back]
  /\ \A q \in redeems : q = [doc |-> q.doc, tok |-> q.tok, st |-> q.st, here |-> q.here]

\* A request of this page that is out.
Asked(key) == \E q \in redeems : q.here /\ <<q.doc, q.tok>> = key
\* The mark in flight is that of a request that is out; so is a token the effect
\* has seen.
GuestInv ==
  /\ GuestShaped
  /\ guestPage.redeeming # <<>> => Asked(guestPage.redeeming)
  /\ guestPage.grant # 0 /\ guestPage.session /\ ~guestPage.dirty =>
       Asked(<<guestPage.route, guestPage.grant>>)

\* The guest's page, whatever is answered and whatever it is shown.
LEMMA GuestSteps ==
  ASSUME GuestInv, [SharingNext]_sharingVars PROVE GuestInv'
<1> USE DEF GuestInv, GuestShaped, Asked
<1>1. ASSUME NEW t \in 1..MaxLinks, FollowLink(t) PROVE GuestInv'
  <2>1. CASE guestPage.route = Shared
    BY <1>1, <2>1 DEF FollowLink
  <2>2. CASE guestPage.route # Shared
    <3>1. redeems' = {[q EXCEPT !.here = FALSE] : q \in redeems}
      BY <1>1, <2>2 DEF FollowLink
    <3>2. \A q \in redeems' : q = [doc |-> q.doc, tok |-> q.tok, st |-> q.st, here |-> q.here]
      BY <3>1
    <3>3. /\ guestPage'.redeeming = <<>> /\ guestPage'.dirty
          /\ guestPage' = [route |-> guestPage'.route, hash |-> guestPage'.hash, grant |-> guestPage'.grant,
                           session |-> guestPage'.session, redeeming |-> guestPage'.redeeming,
                           dirty |-> guestPage'.dirty, keep |-> guestPage'.keep, back |-> guestPage'.back]
      BY <1>1, <2>2 DEF FollowLink
    <3> QED BY <3>2, <3>3
  <2> QED BY <2>1, <2>2
<1>2. ASSUME NEW d \in LinkDocs, GuestNavigates(d) PROVE GuestInv'
  BY <1>2 DEF GuestNavigates
<1>3. CASE Back \/ Login \/ GuestLogout
  BY <1>3 DEF Back, Login, GuestLogout
<1>4. CASE ShareEffect
  <2> DEFINE key == <<guestPage.route, guestPage.grant>>
             r == [doc |-> guestPage.route, tok |-> guestPage.grant, st |-> "sent", here |-> TRUE]
  <2>1. CASE guestPage.redeeming = key \/ guestPage.grant = 0 \/ ~guestPage.session
    <3>1. /\ redeems' = redeems
          /\ \/ guestPage' = [guestPage EXCEPT !.dirty = FALSE]
             \/ guestPage' = [guestPage EXCEPT !.dirty = FALSE, !.keep = TRUE]
      BY <1>4, <2>1 DEF ShareEffect
    <3>2. /\ guestPage'.redeeming = guestPage.redeeming /\ guestPage'.grant = guestPage.grant
          /\ guestPage'.route = guestPage.route /\ guestPage'.session = guestPage.session
          /\ guestPage' = [route |-> guestPage'.route, hash |-> guestPage'.hash, grant |-> guestPage'.grant,
                           session |-> guestPage'.session, redeeming |-> guestPage'.redeeming,
                           dirty |-> guestPage'.dirty, keep |-> guestPage'.keep, back |-> guestPage'.back]
      BY <3>1
    <3>3. key # <<>>
      OBVIOUS
    <3>4. \A k : Asked(k) => Asked(k)'
      BY <3>1
    <3> HIDE DEF Asked
    <3>5. guestPage.redeeming = key => Asked(key)
      BY <3>3
    <3> QED BY <2>1, <3>1, <3>2, <3>4, <3>5
  <2>2. CASE guestPage.redeeming # key /\ guestPage.grant # 0 /\ guestPage.session
    <3>1. /\ redeems' = redeems \cup {r}
          /\ guestPage' = [guestPage EXCEPT !.dirty = FALSE, !.redeeming = key]
      BY <1>4, <2>2 DEF ShareEffect
    <3>2. /\ guestPage'.redeeming = key
          /\ guestPage'.route = guestPage.route /\ guestPage'.grant = guestPage.grant
          /\ guestPage' = [route |-> guestPage'.route, hash |-> guestPage'.hash, grant |-> guestPage'.grant,
                           session |-> guestPage'.session, redeeming |-> guestPage'.redeeming,
                           dirty |-> guestPage'.dirty, keep |-> guestPage'.keep, back |-> guestPage'.back]
      BY <3>1
    <3>3. r \in redeems' /\ r.here /\ <<r.doc, r.tok>> = key
      BY <3>1
    <3>4. \A q \in redeems' : q = [doc |-> q.doc, tok |-> q.tok, st |-> q.st, here |-> q.here]
      BY <3>1
    <3> HIDE DEF r
    <3> QED BY <3>2, <3>3, <3>4
  <2> QED BY <2>1, <2>2
<1>5. ASSUME NEW q \in redeems, ServeRedeem(q) PROVE GuestInv'
  <2> DEFINE p == [q EXCEPT !.st = "done"]
  <2>1. redeems' = (redeems \ {q}) \cup {p} /\ guestPage' = guestPage
    BY <1>5 DEF ServeRedeem
  <2>2. /\ p.doc = q.doc /\ p.tok = q.tok /\ p.here = q.here
        /\ p = [doc |-> p.doc, tok |-> p.tok, st |-> p.st, here |-> p.here]
    OBVIOUS
  <2> HIDE DEF p
  <2>3. \A k : Asked(k) => Asked(k)'
    BY <2>1, <2>2
  <2> QED BY <2>1, <2>2, <2>3
<1>6. ASSUME NEW q \in redeems, AnswerRedeem(q) PROVE GuestInv'
  <2>1. CASE q.here
    BY <1>6, <2>1 DEF AnswerRedeem, Settled, Stripped
  <2>2. CASE ~q.here
    BY <1>6, <2>2 DEF AnswerRedeem
  <2> QED BY <2>1, <2>2
<1>7. CASE UNCHANGED <<guestPage, redeems>>
  BY <1>7
<1> QED
  BY <1>1, <1>2, <1>3, <1>4, <1>5, <1>6, <1>7
     DEF SharingNext, sharingVars, guest, ExpireLink, OpenShare, CloseShare, Ask, Serve, Lose, ShareAnswer

\* What the links, the dialog and its requests are made of.
LinkRow == [role : Roles \cup {"none"}, live : BOOLEAN]
OpShaped(o) ==
  /\ o = [kind |-> o.kind, at |-> o.at, who |-> o.who, role |-> o.role, st |-> o.st,
          got |-> o.got, tok |-> o.tok]
  /\ o.role \in Roles \cup {"none"} /\ o.kind \in {"list", "grant", "remove", "mint", "unlink"}
DialogShaped ==
  /\ links \in Seq(LinkRow) /\ asks \in Nat
  /\ dlg = [open |-> dlg.open, at |-> dlg.at, shares |-> dlg.shares, link |-> dlg.link,
            busy |-> dlg.busy, listed |-> dlg.listed, drift |-> dlg.drift]
  /\ dlg.drift \in BOOLEAN
  /\ \A o \in ops : OpShaped(o) /\ o.at \in 0..asks - 1
  /\ dlg.open => dlg.at \in 0..asks - 1

Mine(o) == o \in ops /\ o.at = dlg.at
Lists == dlg.shares = acl
Offers == dlg.link \in {0, Len(links)}
\* What the request of the dialog has done, and will do to what it shows.
Underway(o) ==
  /\ o.kind # "list"
  /\ o.st = "sent" => Lists /\ Offers
  /\ o.st = "ok" =>
       /\ o.kind = "grant" => acl = [dlg.shares EXCEPT ![o.who] = o.role] /\ Offers
       /\ o.kind = "remove" => acl = [dlg.shares EXCEPT ![o.who] = "none"] /\ Offers
       /\ o.kind = "mint" => Lists /\ o.tok = Len(links)
       /\ o.kind = "unlink" => Lists
  /\ o.st \in {"sent", "ok"} /\ o.kind \in {"grant", "remove", "mint", "unlink"}
Listing(o) == o.kind = "list" /\ (o.st = "ok" => o.got = acl) /\ o.st \in {"sent", "ok"}
InHandOf ==
  dlg.open /\ ~dlg.drift =>
    /\ \A o, p : Mine(o) /\ Mine(p) => o = p
    /\ ~dlg.listed => dlg.link = 0 /\ ~dlg.busy /\ \A o : Mine(o) => Listing(o)
    /\ dlg.listed /\ ~dlg.busy => (\A o : ~Mine(o)) /\ Lists /\ Offers
    /\ dlg.listed /\ dlg.busy => \A o : Mine(o) => Underway(o)
DialogInv == DialogShaped /\ InHandOf

\* Revoked or expired, a link stays in its place.
LEMMA LinksStay ==
  ASSUME links \in Seq(LinkRow)
  PROVE  /\ Dead(links) \in Seq(LinkRow) /\ Len(Dead(links)) = Len(links)
         /\ \A t \in DOMAIN links : /\ [links EXCEPT ![t].live = FALSE] \in Seq(LinkRow)
                                    /\ Len([links EXCEPT ![t].live = FALSE]) = Len(links)
<1>0. \A l \in LinkRow : [l EXCEPT !.live = FALSE] \in LinkRow
  BY DEF LinkRow
<1>1. \A t \in DOMAIN links : links[t] \in LinkRow /\ [links[t] EXCEPT !.live = FALSE] \in LinkRow
  BY <1>0
<1> DEFINE D == [t \in DOMAIN links |-> [links[t] EXCEPT !.live = FALSE]]
<1>2. D \in Seq(LinkRow) /\ Len(D) = Len(links)
  BY <1>1
<1>3. ASSUME NEW t \in DOMAIN links
      PROVE  /\ [links EXCEPT ![t].live = FALSE] \in Seq(LinkRow)
             /\ Len([links EXCEPT ![t].live = FALSE]) = Len(links)
  <2> DEFINE r == [links[t] EXCEPT !.live = FALSE]
  <2>1. r \in LinkRow
    BY <1>1
  <2>2. [links EXCEPT ![t].live = FALSE] = [links EXCEPT ![t] = r]
    OBVIOUS
  <2> HIDE DEF r
  <2>3. [links EXCEPT ![t] = r] \in Seq(LinkRow) /\ Len([links EXCEPT ![t] = r]) = Len(links)
    BY <2>1
  <2> QED BY <2>2, <2>3
<1> QED BY <1>2, <1>3 DEF Dead

LEMMA ShapedAfter ==
  ASSUME links' \in Seq(LinkRow), asks' \in Nat, dlg'.drift \in BOOLEAN,
         dlg' = [open |-> dlg'.open, at |-> dlg'.at, shares |-> dlg'.shares, link |-> dlg'.link,
                 busy |-> dlg'.busy, listed |-> dlg'.listed, drift |-> dlg'.drift],
         \A o \in ops' : OpShaped(o) /\ o.at \in 0..asks' - 1,
         dlg'.open => dlg'.at \in 0..asks' - 1
  PROVE  DialogShaped'
  BY DEF DialogShaped, OpShaped

\* A step of the guest or of the clock, the requests of the dialog left alone.
LEMMA GuestKeepsDialog ==
  ASSUME DialogInv, UNCHANGED <<ops, asks>>, links' \in Seq(LinkRow), Len(links') = Len(links),
         \/ UNCHANGED <<acl, dlg>>
         \/ dlg' = [dlg EXCEPT !.drift = @ \/ (acl' # acl /\ ListServed)]
  PROVE  DialogInv'
<1>1. CASE UNCHANGED <<acl, dlg>>
  BY <1>1 DEF DialogInv, DialogShaped, OpShaped, InHandOf, Mine, Listing, Underway, Lists, Offers
<1>2. CASE dlg' = [dlg EXCEPT !.drift = @ \/ (acl' # acl /\ ListServed)]
  <2>1. /\ dlg'.open = dlg.open /\ dlg'.at = dlg.at /\ dlg'.shares = dlg.shares /\ dlg'.link = dlg.link
        /\ dlg'.busy = dlg.busy /\ dlg'.listed = dlg.listed
        /\ dlg'.drift <=> dlg.drift \/ (acl' # acl /\ ListServed)
        /\ dlg'.drift \in BOOLEAN
        /\ dlg' = [open |-> dlg'.open, at |-> dlg'.at, shares |-> dlg'.shares, link |-> dlg'.link,
                   busy |-> dlg'.busy, listed |-> dlg'.listed, drift |-> dlg'.drift]
    BY <1>2 DEF DialogInv, DialogShaped
  <2>2. DialogShaped'
    BY <2>1 DEF DialogInv, DialogShaped, OpShaped
  <2>3. CASE acl' = acl
    BY <2>1, <2>2, <2>3 DEF DialogInv, InHandOf, Mine, Listing, Underway, Lists, Offers
  <2>4. CASE acl' # acl /\ dlg.open /\ ~dlg'.drift
    <3>1. PICK l \in ops : l.kind = "list" /\ l.at = dlg.at /\ l.st = "sent"
      BY <2>1, <2>4 DEF ListServed
    <3>2. Mine(l) /\ ~dlg.drift
      BY <2>1, <2>4, <3>1 DEF Mine
    <3>3. ~dlg.listed
      BY <2>4, <3>1, <3>2 DEF DialogInv, InHandOf, Underway
    <3>4. \A o : Mine(o) => o = l
      BY <2>4, <3>2 DEF DialogInv, InHandOf
    <3> QED BY <2>1, <2>2, <2>4, <3>1, <3>2, <3>3, <3>4 DEF DialogInv, InHandOf, Mine, Listing
  <2>5. CASE ~dlg.open \/ dlg'.drift
    BY <2>1, <2>2, <2>5 DEF DialogInv, InHandOf
  <2> QED BY <2>3, <2>4, <2>5
<1> QED BY <1>1, <1>2

\* The dialog is opened, closed and asked.
LEMMA DialogAsks ==
  ASSUME DialogInv,
         \/ OpenShare \/ CloseShare
         \/ \E kind \in {"grant", "remove", "mint", "unlink"} :
              \E a, r : r \in Roles \cup {"none"} /\ Ask(kind, a, r)
  PROVE  DialogInv'
<1>0. /\ links \in Seq(LinkRow) /\ asks \in Nat /\ dlg.drift \in BOOLEAN
      /\ dlg.open => dlg.at \in 0..asks - 1
  BY DEF DialogInv, DialogShaped
<1> USE DEF DialogInv, DialogShaped
<1>1. CASE OpenShare
  <2>0. PICK o : o = [kind |-> "list", at |-> asks, who |-> Guest, role |-> "none",
                      st |-> "sent", got |-> NoShare, tok |-> 0]
    OBVIOUS
  <2>1. /\ dlg' = Mounted(asks) /\ ops' = ops \cup {o} /\ asks' = asks + 1 /\ UNCHANGED <<acl, links>>
    BY <1>1, <2>0 DEF OpenShare
  <2>2. /\ dlg'.open /\ dlg'.at = asks /\ dlg'.link = 0 /\ ~dlg'.busy /\ ~dlg'.listed /\ dlg'.drift = FALSE
        /\ dlg' = [open |-> dlg'.open, at |-> dlg'.at, shares |-> dlg'.shares, link |-> dlg'.link,
                   busy |-> dlg'.busy, listed |-> dlg'.listed, drift |-> dlg'.drift]
    BY <2>1 DEF Mounted
  <2>3. OpShaped(o) /\ o.at = asks /\ o.kind = "list" /\ o.st = "sent"
    BY <2>0 DEF OpShaped
  <2>4. \A p \in ops' : OpShaped(p) /\ p.at \in 0..asks' - 1
    BY <2>1, <2>3
  <2>5. DialogShaped'
    <3>1. dlg'.at \in 0..asks' - 1 /\ asks' \in Nat /\ links' \in Seq(LinkRow) /\ dlg'.drift \in BOOLEAN
      <4> HIDE DEF DialogShaped, DialogInv
      <4>1. asks' \in Nat /\ asks \in 0..asks' - 1
        BY <1>0, <2>1
      <4>2. links' \in Seq(LinkRow)
        BY <1>0, <2>1
      <4> QED BY <1>0, <2>1, <2>2, <4>1, <4>2
    <3> QED BY <2>2, <2>4, <3>1, ShapedAfter
  <2>6. \A p : Mine(p)' => p = o
    BY <2>1, <2>2 DEF Mine
  <2>7. InHandOf'
    BY <2>2, <2>3, <2>6 DEF InHandOf, Listing
  <2> QED BY <2>5, <2>7
<1>2. CASE CloseShare
  <2>1. ~dlg'.open /\ dlg'.drift = dlg.drift /\ UNCHANGED <<links, asks, ops>>
        /\ dlg' = [open |-> dlg'.open, at |-> dlg'.at, shares |-> dlg'.shares, link |-> dlg'.link,
                   busy |-> dlg'.busy, listed |-> dlg'.listed, drift |-> dlg'.drift]
    BY <1>2 DEF CloseShare
  <2> QED BY <2>1 DEF InHandOf, OpShaped
<1>3. ASSUME NEW kind \in {"grant", "remove", "mint", "unlink"}, NEW a, NEW r \in Roles \cup {"none"},
             Ask(kind, a, r)
      PROVE  DialogInv'
  <2>0. PICK o : o = [kind |-> kind, at |-> dlg.at, who |-> a, role |-> r,
                      st |-> "sent", got |-> NoShare, tok |-> 0]
    OBVIOUS
  <2>1. /\ dlg' = [dlg EXCEPT !.busy = TRUE, !.drift = @ \/ ~dlg.listed] /\ ops' = ops \cup {o}
        /\ asks' = asks + 1 /\ UNCHANGED <<acl, links>> /\ dlg.open /\ ~dlg.busy
    BY <1>3, <2>0 DEF Ask, Offered
  <2>2. /\ dlg'.open = dlg.open /\ dlg'.at = dlg.at /\ dlg'.shares = dlg.shares /\ dlg'.link = dlg.link
        /\ dlg'.busy /\ dlg'.listed = dlg.listed /\ (dlg'.drift <=> dlg.drift \/ ~dlg.listed)
        /\ dlg'.drift \in BOOLEAN
        /\ dlg' = [open |-> dlg'.open, at |-> dlg'.at, shares |-> dlg'.shares, link |-> dlg'.link,
                   busy |-> dlg'.busy, listed |-> dlg'.listed, drift |-> dlg'.drift]
    BY <2>1
  <2>3. OpShaped(o) /\ o.at = dlg.at /\ o.kind = kind /\ o.st = "sent"
    BY <2>0 DEF OpShaped
  <2>4. \A p \in ops' : OpShaped(p) /\ p.at \in 0..asks' - 1
    BY <2>1, <2>3
  <2>5. DialogShaped'
    BY <2>1, <2>2, <2>4 DEF OpShaped
  <2>6. CASE ~dlg'.drift
    <3>1. dlg.listed /\ ~dlg.drift /\ (\A p : ~Mine(p)) /\ Lists /\ Offers
      BY <2>1, <2>2, <2>6 DEF InHandOf
    <3>2. \A p : Mine(p)' => p = o
      BY <2>1, <2>2, <3>1 DEF Mine
    <3>3. Underway(o)'
      BY <2>1, <2>2, <2>3, <3>1, <1>3 DEF Underway, Lists, Offers
    <3> QED BY <2>2, <2>5, <3>1, <3>2, <3>3 DEF InHandOf
  <2>7. CASE dlg'.drift
    BY <2>5, <2>7 DEF InHandOf
  <2> QED BY <2>6, <2>7
<1> QED BY <1>1, <1>2, <1>3

\* What an answer changes, by the kind of the request.
LEMMA AnswerFields ==
  ASSUME DialogShaped, NEW o \in ops, NEW d, d = AnswerApplied(dlg, o)
  PROVE  /\ d.open = dlg.open /\ d.at = dlg.at /\ d.drift = dlg.drift
         /\ d = [open |-> d.open, at |-> d.at, shares |-> d.shares, link |-> d.link,
                 busy |-> d.busy, listed |-> d.listed, drift |-> d.drift]
         /\ o.kind = "list" => /\ d.shares = o.got /\ d.listed /\ d.link = dlg.link /\ d.busy = dlg.busy
         /\ o.kind # "list" => d.listed = dlg.listed /\ ~d.busy
         /\ o.kind = "grant" => d.shares = [dlg.shares EXCEPT ![o.who] = o.role] /\ d.link = dlg.link
         /\ o.kind = "remove" => d.shares = [dlg.shares EXCEPT ![o.who] = "none"] /\ d.link = dlg.link
         /\ o.kind = "mint" => d.shares = dlg.shares /\ d.link = o.tok
         /\ o.kind = "unlink" => d.shares = dlg.shares /\ d.link = 0
<1>0. OpShaped(o) /\ dlg = [open |-> dlg.open, at |-> dlg.at, shares |-> dlg.shares, link |-> dlg.link,
                            busy |-> dlg.busy, listed |-> dlg.listed, drift |-> dlg.drift]
  BY DEF DialogShaped
<1>1. CASE o.kind = "list"
  <2>1. d = [dlg EXCEPT !.shares = o.got, !.listed = TRUE]
    BY <1>1 DEF AnswerApplied
  <2> QED BY <1>0, <1>1, <2>1
<1>2. CASE o.kind = "grant"
  <2>1. d = [dlg EXCEPT !.shares[o.who] = o.role, !.busy = FALSE]
    BY <1>2 DEF AnswerApplied
  <2> QED BY <1>0, <1>2, <2>1
<1>3. CASE o.kind = "remove"
  <2>1. d = [dlg EXCEPT !.shares[o.who] = "none", !.busy = FALSE]
    BY <1>3 DEF AnswerApplied
  <2> QED BY <1>0, <1>3, <2>1
<1>4. CASE o.kind = "mint"
  <2>1. d = [dlg EXCEPT !.link = o.tok, !.busy = FALSE]
    BY <1>4 DEF AnswerApplied
  <2> QED BY <1>0, <1>4, <2>1
<1>5. CASE o.kind = "unlink"
  <2>1. d = [dlg EXCEPT !.link = 0, !.busy = FALSE]
    BY <1>5 DEF AnswerApplied
  <2> QED BY <1>0, <1>5, <2>1
<1> QED BY <1>0, <1>1, <1>2, <1>3, <1>4, <1>5 DEF OpShaped

\* A request of the dialog is lost, or its answer is shown.
LEMMA DialogAnswered ==
  ASSUME DialogInv, NEW o \in ops, Lose(o) \/ ShareAnswer(o)
  PROVE  DialogInv'
<1> USE DEF DialogInv, DialogShaped
<1>1. /\ ops' = ops \ {o} /\ UNCHANGED <<acl, links, asks>>
  BY DEF Lose, ShareAnswer
<1>2. \A p \in ops' : OpShaped(p) /\ p.at \in 0..asks' - 1
  BY <1>1
<1>3. CASE dlg' = dlg
  BY <1>1, <1>2, <1>3 DEF InHandOf, OpShaped, Mine, Listing, Underway, Lists, Offers
<1>4. CASE dlg' = [dlg EXCEPT !.drift = TRUE, !.busy = @ /\ o.kind = "list"]
  <2>1. /\ dlg'.open = dlg.open /\ dlg'.at = dlg.at /\ dlg'.drift
        /\ dlg' = [open |-> dlg'.open, at |-> dlg'.at, shares |-> dlg'.shares, link |-> dlg'.link,
                   busy |-> dlg'.busy, listed |-> dlg'.listed, drift |-> dlg'.drift]
    BY <1>4
  <2> QED BY <1>1, <1>2, <2>1 DEF InHandOf, OpShaped
<1>5. CASE dlg.open /\ o.at = dlg.at /\ o.st = "ok" /\ dlg' = AnswerApplied(dlg, o)
  <2>1. /\ dlg'.open /\ dlg'.at = dlg.at /\ dlg'.drift = dlg.drift
        /\ dlg' = [open |-> dlg'.open, at |-> dlg'.at, shares |-> dlg'.shares, link |-> dlg'.link,
                   busy |-> dlg'.busy, listed |-> dlg'.listed, drift |-> dlg'.drift]
    BY <1>5, AnswerFields
  <2>2. DialogShaped'
    <3>1. /\ links' \in Seq(LinkRow) /\ asks' \in Nat /\ dlg'.drift \in BOOLEAN
          /\ dlg'.open => dlg'.at \in 0..asks' - 1
      <4>1. /\ links \in Seq(LinkRow) /\ asks \in Nat /\ dlg.drift \in BOOLEAN
            /\ dlg.open => dlg.at \in 0..asks - 1
        OBVIOUS
      <4> HIDE DEF DialogShaped, DialogInv
      <4> QED BY <1>1, <1>5, <2>1, <4>1
    <3> HIDE DEF DialogShaped, DialogInv
    <3> QED BY <1>2, <2>1, <3>1, ShapedAfter
  <2>3. CASE dlg.drift
    BY <2>1, <2>2, <2>3 DEF InHandOf
  <2>4. CASE ~dlg.drift
    <3>1. Mine(o) /\ \A p : Mine(p) => p = o
      BY <1>5, <2>4 DEF InHandOf, Mine
    <3>2. \A p : ~Mine(p)'
      BY <1>1, <2>1, <3>1 DEF Mine
    <3>3. CASE ~dlg.listed
      <4>1. o.kind = "list" /\ o.got = acl /\ dlg.link = 0 /\ ~dlg.busy
        BY <1>5, <2>4, <3>1, <3>3 DEF InHandOf, Listing
      <4>2. dlg'.shares = acl /\ dlg'.listed /\ dlg'.link = 0 /\ ~dlg'.busy
        BY <1>5, <4>1, AnswerFields
      <4> QED BY <1>1, <2>2, <3>2, <4>2 DEF InHandOf, Lists, Offers
    <3>4. CASE dlg.listed
      <4>1. dlg.busy /\ Underway(o)
        BY <1>5, <2>4, <3>1, <3>4 DEF InHandOf
      <4>2. dlg'.listed /\ ~dlg'.busy /\ dlg'.shares = acl /\ dlg'.link \in {0, Len(links)}
        BY <1>5, <3>4, <4>1, AnswerFields DEF Underway, Lists, Offers
      <4> QED BY <1>1, <2>2, <3>2, <4>2 DEF InHandOf, Lists, Offers
    <3> QED BY <3>3, <3>4
  <2> QED BY <2>3, <2>4
<1> QED BY <1>3, <1>4, <1>5 DEF Lose, ShareAnswer

\* What the server does for a request of the dialog.
LEMMA ServeEffects ==
  ASSUME DialogShaped, NEW o \in ops, Serve(o)
  PROVE  /\ links' \in Seq(LinkRow) /\ asks' = asks
         /\ o.kind = "list" => acl' = acl /\ links' = links
         /\ o.kind = "grant" => acl' = [acl EXCEPT ![o.who] = o.role] /\ links' = links
         /\ o.kind = "remove" => acl' = [acl EXCEPT ![o.who] = "none"] /\ links' = links
         /\ o.kind = "mint" => acl' = acl
         /\ o.kind = "unlink" => acl' = acl /\ Len(links') = Len(links)
         /\ \E p : /\ p = [kind |-> o.kind, at |-> o.at, who |-> o.who, role |-> o.role, st |-> "ok",
                           got |-> acl, tok |-> Len(links')]
                  /\ ops' = (ops \ {o}) \cup {p}
         /\ dlg' = [dlg EXCEPT !.drift = @ \/ (o.kind # "list" /\ o.at # dlg.at /\ ListServed)]
         /\ o.st = "sent"
<1>1. OpShaped(o) /\ links \in Seq(LinkRow)
  BY DEF DialogShaped
<1>2. Dead(links) \in Seq(LinkRow) /\ Len(Dead(links)) = Len(links)
  BY <1>1, LinksStay
<1>3. [role |-> o.role, live |-> TRUE] \in LinkRow
  BY <1>1 DEF OpShaped, LinkRow
<1>4. links' \in Seq(LinkRow)
  <2> DEFINE r == [role |-> o.role, live |-> TRUE]
  <2>1. links' = links \/ links' = Append(Dead(links), r) \/ links' = Dead(links)
    BY DEF Serve, SharePut, ShareDelete, LinkCreate, LinkRevoke
  <2>2. r \in LinkRow
    BY <1>3
  <2> HIDE DEF r
  <2> QED BY <1>1, <1>2, <2>1, <2>2
<1>5. PICK p : p = [o EXCEPT !.st = "ok", !.got = acl, !.tok = Len(links')]
  OBVIOUS
<1>6. ops' = (ops \ {o}) \cup {p}
  BY <1>5 DEF Serve
<1>7. p = [kind |-> o.kind, at |-> o.at, who |-> o.who, role |-> o.role, st |-> "ok",
           got |-> acl, tok |-> Len(links')]
  <2>1. PICK k, a, r, v, g, t, s :
          o = [kind |-> k, at |-> a, who |-> v, role |-> r, st |-> s, got |-> g, tok |-> t]
    BY <1>1 DEF OpShaped
  <2> QED BY <1>5, <2>1
<1> QED BY <1>2, <1>4, <1>6, <1>7 DEF Serve, SharePut, ShareDelete, LinkCreate, LinkRevoke

LEMMA DialogServed ==
  ASSUME DialogInv, NEW o \in ops, Serve(o) PROVE DialogInv'
<1>1. /\ links' \in Seq(LinkRow) /\ asks' = asks
      /\ o.kind = "list" => acl' = acl /\ links' = links
      /\ o.kind = "grant" => acl' = [acl EXCEPT ![o.who] = o.role] /\ links' = links
      /\ o.kind = "remove" => acl' = [acl EXCEPT ![o.who] = "none"] /\ links' = links
      /\ o.kind = "mint" => acl' = acl
      /\ o.kind = "unlink" => acl' = acl /\ Len(links') = Len(links)
      /\ dlg' = [dlg EXCEPT !.drift = @ \/ (o.kind # "list" /\ o.at # dlg.at /\ ListServed)]
      /\ o.st = "sent"
  BY ServeEffects DEF DialogInv
<1>2. PICK p : /\ p = [kind |-> o.kind, at |-> o.at, who |-> o.who, role |-> o.role, st |-> "ok",
                       got |-> acl, tok |-> Len(links')]
              /\ ops' = (ops \ {o}) \cup {p}
  BY ServeEffects DEF DialogInv
<1>3. /\ dlg'.open = dlg.open /\ dlg'.at = dlg.at /\ dlg'.shares = dlg.shares /\ dlg'.link = dlg.link
      /\ dlg'.busy = dlg.busy /\ dlg'.listed = dlg.listed
      /\ dlg'.drift <=> dlg.drift \/ (o.kind # "list" /\ o.at # dlg.at /\ ListServed)
      /\ dlg'.drift \in BOOLEAN
      /\ dlg' = [open |-> dlg'.open, at |-> dlg'.at, shares |-> dlg'.shares, link |-> dlg'.link,
                 busy |-> dlg'.busy, listed |-> dlg'.listed, drift |-> dlg'.drift]
  BY <1>1 DEF DialogInv, DialogShaped
<1>4. OpShaped(o) /\ o.at \in 0..asks - 1
  BY DEF DialogInv, DialogShaped
<1>5. /\ OpShaped(p) /\ p.at = o.at /\ p.kind = o.kind /\ p.who = o.who /\ p.role = o.role
      /\ p.st = "ok" /\ p.got = acl /\ p.tok = Len(links')
  BY <1>2, <1>4 DEF OpShaped
<1>6. \A q \in ops' : OpShaped(q) /\ q.at \in 0..asks' - 1
  BY <1>1, <1>2, <1>4, <1>5 DEF DialogInv, DialogShaped
<1>7. DialogShaped'
  BY <1>1, <1>3, <1>6 DEF DialogInv, DialogShaped, OpShaped
<1>8. CASE ~dlg.open \/ dlg'.drift
  BY <1>3, <1>7, <1>8 DEF DialogInv, InHandOf
<1>9. CASE dlg.open /\ ~dlg'.drift /\ o.at # dlg.at
  <2>1. ~dlg.drift /\ (o.kind = "list" \/ ~ListServed)
    BY <1>3, <1>9
  <2>2. \A q : Mine(q)' <=> Mine(q)
    BY <1>2, <1>3, <1>5, <1>9 DEF Mine
  <2>3. CASE o.kind = "list"
    BY <1>1, <1>3, <1>7, <1>9, <2>1, <2>2, <2>3
       DEF DialogInv, InHandOf, Listing, Underway, Lists, Offers
  <2>4. CASE ~ListServed
    <3>1. PICK l \in ops : l.kind = "list" /\ l.at = dlg.at /\ l.st = "sent"
      BY <2>4 DEF ListServed
    <3>2. Mine(l)
      BY <3>1 DEF Mine
    <3>3. ~dlg.listed
      BY <1>9, <2>1, <3>1, <3>2 DEF DialogInv, InHandOf, Underway
    <3>4. \A q : Mine(q) => q = l
      BY <1>9, <2>1, <3>2 DEF DialogInv, InHandOf
    <3> QED BY <1>3, <1>7, <1>9, <2>1, <2>2, <3>1, <3>3, <3>4 DEF DialogInv, InHandOf, Listing
  <2> QED BY <2>1, <2>3, <2>4
<1>10. CASE dlg.open /\ ~dlg'.drift /\ o.at = dlg.at
  <2>1. Mine(o) /\ ~dlg.drift /\ \A q : Mine(q) => q = o
    BY <1>3, <1>10 DEF Mine, DialogInv, InHandOf
  <2>2. \A q : Mine(q)' => q = p
    BY <1>2, <1>3, <1>5, <1>10, <2>1 DEF Mine
  <2>3. CASE ~dlg.listed
    <3>1. o.kind = "list" /\ dlg.link = 0 /\ ~dlg.busy
      BY <1>10, <2>1, <2>3 DEF DialogInv, InHandOf, Listing
    <3>2. p.kind = "list" /\ p.got = acl'
      BY <1>1, <1>5, <3>1
    <3> QED BY <1>3, <1>5, <1>7, <2>2, <2>3, <3>1, <3>2 DEF DialogInv, InHandOf, Listing
  <2>4. CASE dlg.listed
    <3>1. dlg.busy /\ Underway(o)
      BY <1>10, <2>1, <2>4 DEF DialogInv, InHandOf
    <3>2. Lists /\ Offers
      BY <1>1, <3>1 DEF Underway
    <3>3. p.kind \in {"grant", "remove", "mint", "unlink"}
      BY <1>5, <3>1 DEF Underway
    <3>4. Underway(p)'
      BY <1>1, <1>3, <1>5, <3>2, <3>3 DEF Underway, Lists, Offers
    <3> QED BY <1>3, <1>7, <2>2, <2>4, <3>1, <3>4 DEF DialogInv, InHandOf
  <2> QED BY <2>3, <2>4
<1> QED BY <1>8, <1>9, <1>10

\* The dialog, whatever is served, lost, answered and redeemed.
LEMMA ShareDialogSteps ==
  ASSUME DialogInv, [SharingNext]_sharingVars PROVE DialogInv'
<1>1. ASSUME UNCHANGED <<acl, links, dlg, ops, asks>> PROVE DialogInv'
  BY <1>1, GuestKeepsDialog DEF DialogInv, DialogShaped
<1>2. ASSUME NEW t \in 1..MaxLinks, ExpireLink(t) PROVE DialogInv'
  BY <1>2, LinksStay, GuestKeepsDialog DEF ExpireLink, owner, DialogInv, DialogShaped
<1>3. ASSUME OpenShare \/ CloseShare PROVE DialogInv'
  BY <1>3, DialogAsks
<1>4. ASSUME NEW kind \in {"grant", "remove", "mint", "unlink"}, NEW a,
             NEW r \in Roles \cup {"none"}, Ask(kind, a, r)
      PROVE  DialogInv'
  BY <1>4, DialogAsks
<1>5. ASSUME NEW o \in ops, Serve(o) PROVE DialogInv'
  BY <1>5, DialogServed
<1>6. ASSUME NEW o \in ops, Lose(o) \/ ShareAnswer(o) PROVE DialogInv'
  BY <1>6, DialogAnswered
<1>7. ASSUME NEW q \in redeems, ServeRedeem(q) PROVE DialogInv'
  BY <1>7, GuestKeepsDialog DEF ServeRedeem, DialogInv, DialogShaped
<1>8. ASSUME NEW t \in 1..MaxLinks, FollowLink(t) PROVE DialogInv'
  BY <1>1, <1>8 DEF FollowLink, owner
<1>9. ASSUME NEW q \in redeems, AnswerRedeem(q) PROVE DialogInv'
  BY <1>1, <1>9 DEF AnswerRedeem, owner
<1>10. CASE UNCHANGED sharingVars
  BY <1>1, <1>10 DEF sharingVars
<1>11. ASSUME \/ Back \/ Login \/ GuestLogout \/ ShareEffect
              \/ \E d \in LinkDocs : GuestNavigates(d)
       PROVE  DialogInv'
  BY <1>1, <1>11 DEF GuestNavigates, Back, Login, GuestLogout, ShareEffect, owner
<1> QED
  BY <1>2, <1>3, <1>4, <1>5, <1>6, <1>7, <1>8, <1>9, <1>10, <1>11 DEF SharingNext

\* A token the guest's page remembers is pursued, and the dialog shows what the
\* database holds, for any links, accounts and requests, lost or overtaken ones
\* included (the redeem effect of App.tsx; ShareDialog).
THEOREM SharingStaysInStep == SharingSpec => []SharingInStep
<1> DEFINE SharedInv == GuestInv /\ DialogInv
<1>1. SharingInit => SharedInv
  <2> SUFFICES ASSUME SharingInit PROVE SharedInv
    OBVIOUS
  <2>1. GuestInv
    BY DEF SharingInit, GuestInv, GuestShaped
  <2>2. links \in Seq(LinkRow) /\ ops = {} /\ asks = 0
    BY DEF SharingInit
  <2>3. /\ dlg.open = FALSE /\ dlg.drift = FALSE
        /\ dlg = [open |-> dlg.open, at |-> dlg.at, shares |-> dlg.shares, link |-> dlg.link,
                  busy |-> dlg.busy, listed |-> dlg.listed, drift |-> dlg.drift]
    BY DEF SharingInit, Mounted
  <2>4. DialogInv
    BY <2>2, <2>3 DEF DialogInv, DialogShaped, InHandOf
  <2> QED BY <2>1, <2>4
<1>2. SharedInv /\ [SharingNext]_sharingVars => SharedInv'
  BY GuestSteps, ShareDialogSteps
<1>3. SharedInv => SharingInStep
  <2> SUFFICES ASSUME SharedInv PROVE SharingInStep
    OBVIOUS
  <2>1. TokenPursued
    BY DEF GuestInv, TokenPursued, Asked
  <2>2. DialogCurrent
    BY DEF DialogInv, InHandOf, DialogCurrent, Lists, Offers
  <2> QED BY <2>1, <2>2 DEF SharingInStep
<1> QED BY <1>1, <1>2, <1>3, PTL DEF SharingSpec

-----------------------------------------------------------------------------
(***************************************************************************)
(* Presence: the room tells every page once that an instance is over, and  *)
(* what the instance still sends never follows.                            *)
(***************************************************************************)
EntryType == [state : {"absent", "up", "deleted"}, inst : Nat, local : BOOLEAN, age : Nat]
FrameType == [inst : Conns, seq : Nat, entry : {"none", "up", "deleted"}, final : BOOLEAN]
PageType == [conn : 0..MaxConns, seq : Nat, act : {"active", "inactive", "disconnected"}]
SocketType == [open : BOOLEAN, owner : PresenceTabs, bound : BOOLEAN, seq : Nat, key : BOOLEAN]
LeaseType == [conn : 0..MaxConns, seq : Nat, key : BOOLEAN]
UsageType == [conns : 0..MaxConns, ticks : Nat, events : Nat, lost : Nat]

PresenceTypeOK ==
  /\ presenceTab \in [PresenceTabs -> PageType]
  /\ store \in [PresenceTabs -> [Sites -> EntryType]]
  /\ up \in [Conns -> Seq(FrameType)] /\ down \in [Conns -> Seq(FrameType)]
  /\ sockets \in [Conns -> SocketType] /\ lease \in [Sites -> LeaseType]
  /\ retired \in SUBSET Conns /\ buried \in [PresenceTabs -> SUBSET Conns]
  /\ usage \in UsageType

\* What a page publishes is its own, and no retirement.
OwnFrames == \A c \in Conns : \A k \in 1..Len(up[c]) : up[c][k].inst = c /\ ~up[c][k].final

\* A socket that was not opened yet was sent nothing.
Unopened == \A c \in Conns : c > usage.conns => down[c] = <<>> /\ ~sockets[c].open

\* A retirement is of a retired instance, and nothing after it shows the instance.
FinalInOrder(q, gone) ==
  \A j \in 1..Len(q) : q[j].final =>
    /\ q[j].inst \in gone /\ q[j].entry # "up"
    /\ \A k \in 1..Len(q) : j < k /\ q[k].inst = q[j].inst => q[k].entry # "up"

FinalsLast == \A c \in Conns : FinalInOrder(down[c], retired)

\* What a page buried is retired, and nothing on its way to the page shows it.
BuriedForGood ==
  \A t \in PresenceTabs : \A i \in buried[t] :
    /\ i \in retired
    /\ presenceTab[t].conn # 0 =>
         \A k \in 1..Len(down[presenceTab[t].conn]) :
           down[presenceTab[t].conn][k].inst = i => down[presenceTab[t].conn][k].entry # "up"

PresenceInv == PresenceTypeOK /\ OwnFrames /\ Unopened /\ FinalsLast /\ BuriedForGood

-----------------------------------------------------------------------------
LEMMA PresenceSizes ==
  /\ MaxConns \in Nat /\ MaxTicks \in Nat /\ MaxEvents \in Nat /\ MaxLost \in Nat
  /\ 0 \in 0..MaxConns /\ DOMAIN Site = PresenceTabs /\ PresenceTabs # {}
  /\ \A t \in PresenceTabs : Site[t] \in Sites
BY PresenceAssumption DEF Sites, Range

LEMMA NothingTyped ==
  /\ Absent \in EntryType /\ NoLease \in LeaseType /\ NoSocket \in SocketType
  /\ NoSocket.open = FALSE
<1>1. (CHOOSE t \in PresenceTabs : TRUE) \in PresenceTabs
  BY PresenceSizes
<1>2. NoSocket \in SocketType /\ NoSocket.open = FALSE
  BY <1>1 DEF NoSocket, SocketType
<1>3. Absent \in EntryType /\ NoLease \in LeaseType
  BY PresenceSizes DEF Absent, NoLease, EntryType, LeaseType
<1> QED BY <1>2, <1>3

LEMMA FrameTyped ==
  ASSUME NEW c \in Conns, NEW n \in Nat, NEW x \in {"none", "up", "deleted"}
  PROVE Frame(c, n, x) \in FrameType /\ Frame(c, n, x).inst = c /\ ~Frame(c, n, x).final
BY DEF Frame, FrameType

LEMMA PublishedTyped == ASSUME NEW e \in EntryType PROVE Published(e) \in {"none", "up", "deleted"}
BY DEF Published, EntryType

LEMMA OwnTyped ==
  ASSUME PresenceTypeOK, NEW t \in PresenceTabs, NEW x \in {"up", "deleted"}
  PROVE Own(t, x) \in EntryType /\ Own(t, x).local
BY PresenceSizes DEF Own, EntryType, PresenceTypeOK, PageType

\* One entry of the store changes.
LEMMA StoreSet ==
  ASSUME PresenceTypeOK, NEW t \in PresenceTabs, NEW s \in Sites, NEW e \in EntryType
  PROVE /\ [store EXCEPT ![t][s] = e] \in [PresenceTabs -> [Sites -> EntryType]]
        /\ \A u \in PresenceTabs, r \in Sites :
             [store EXCEPT ![t][s] = e][u][r] = IF u = t /\ r = s THEN e ELSE store[u][r]
<1>1. store \in [PresenceTabs -> [Sites -> EntryType]]
  BY DEF PresenceTypeOK
<1>2. [store[t] EXCEPT ![s] = e] \in [Sites -> EntryType]
  BY <1>1
<1>3. [store EXCEPT ![t][s] = e] = [store EXCEPT ![t] = [store[t] EXCEPT ![s] = e]]
  BY <1>1
<1> QED BY <1>1, <1>2, <1>3

\* A frame is added to the queue of its socket.
LEMMA UpAppend ==
  ASSUME PresenceTypeOK, OwnFrames, NEW c \in Conns, NEW f \in FrameType, f.inst = c, ~f.final
  PROVE /\ [up EXCEPT ![c] = Append(@, f)] \in [Conns -> Seq(FrameType)]
        /\ \A d \in Conns : \A k \in 1..Len([up EXCEPT ![c] = Append(@, f)][d]) :
             [up EXCEPT ![c] = Append(@, f)][d][k].inst = d /\ ~[up EXCEPT ![c] = Append(@, f)][d][k].final
<1> DEFINE q == Append(up[c], f)
<1>1. up \in [Conns -> Seq(FrameType)] /\ up[c] \in Seq(FrameType)
  BY DEF PresenceTypeOK
<1>2. q \in Seq(FrameType) /\ Len(q) = Len(up[c]) + 1 /\ Len(up[c]) \in Nat
      /\ q[Len(up[c]) + 1] = f /\ \A k \in 1..Len(up[c]) : q[k] = up[c][k]
  BY <1>1
<1>3. \A k \in 1..Len(q) : q[k].inst = c /\ ~q[k].final
  BY <1>2 DEF OwnFrames
<1>4. [up EXCEPT ![c] = Append(@, f)] = [up EXCEPT ![c] = q]
  BY <1>1
<1> HIDE DEF q
<1>5. \A d \in Conns : [up EXCEPT ![c] = q][d] = IF d = c THEN q ELSE up[d]
  BY <1>1
<1>6. [up EXCEPT ![c] = q] \in [Conns -> Seq(FrameType)]
  BY <1>1, <1>2
<1> QED BY <1>3, <1>4, <1>5, <1>6 DEF OwnFrames

-----------------------------------------------------------------------------
(* Queues in which nothing follows a retirement. *)

LEMMA InOrderEmpty == ASSUME NEW gone PROVE FinalInOrder(<<>>, gone)
BY DEF FinalInOrder

LEMMA InOrderMore ==
  ASSUME NEW q, NEW gone, NEW more, gone \subseteq more, FinalInOrder(q, gone)
  PROVE FinalInOrder(q, more)
BY DEF FinalInOrder

LEMMA InOrderTail ==
  ASSUME NEW q \in Seq(FrameType), NEW gone, q # <<>>, FinalInOrder(q, gone)
  PROVE FinalInOrder(Tail(q), gone)
<1>1. /\ Tail(q) \in Seq(FrameType) /\ Len(Tail(q)) = Len(q) - 1 /\ Len(q) \in Nat
      /\ \A k \in 1..Len(Tail(q)) : Tail(q)[k] = q[k + 1] /\ k + 1 \in 1..Len(q)
  BY HeadTailProperties
<1> QED BY <1>1 DEF FinalInOrder

LEMMA InOrderAppend ==
  ASSUME NEW q \in Seq(FrameType), NEW gone, NEW f \in FrameType, FinalInOrder(q, gone),
         f.final => f.inst \in gone /\ f.entry # "up",
         f.entry = "up" => \A k \in 1..Len(q) : q[k].final => q[k].inst # f.inst
  PROVE Append(q, f) \in Seq(FrameType) /\ FinalInOrder(Append(q, f), gone)
<1> DEFINE p == Append(q, f)
<1>1. /\ p \in Seq(FrameType) /\ Len(p) = Len(q) + 1 /\ Len(q) \in Nat
      /\ p[Len(q) + 1] = f /\ \A k \in 1..Len(q) : p[k] = q[k]
  OBVIOUS
<1> HIDE DEF p
<1> SUFFICES ASSUME NEW j \in 1..Len(p), p[j].final
             PROVE /\ p[j].inst \in gone /\ p[j].entry # "up"
                   /\ \A k \in 1..Len(p) : j < k /\ p[k].inst = p[j].inst => p[k].entry # "up"
  BY <1>1 DEF FinalInOrder, p
<1>2. CASE j = Len(q) + 1
  BY <1>1, <1>2
<1>3. CASE j # Len(q) + 1
  <2>1. j \in 1..Len(q) /\ p[j] = q[j]
    BY <1>1, <1>3
  <2>2. p[j].inst \in gone /\ p[j].entry # "up"
    BY <2>1 DEF FinalInOrder
  <2>3. ASSUME NEW k \in 1..Len(p), j < k, p[k].inst = p[j].inst PROVE p[k].entry # "up"
    <3>1. CASE k = Len(q) + 1
      BY <1>1, <2>1, <2>3, <3>1
    <3>2. CASE k # Len(q) + 1
      <4>1. k \in 1..Len(q) /\ p[k] = q[k]
        BY <1>1, <3>2
      <4> QED BY <2>1, <2>3, <4>1 DEF FinalInOrder
    <3> QED BY <3>1, <3>2
  <2> QED BY <2>2, <2>3
<1> QED BY <1>2, <1>3

-----------------------------------------------------------------------------
LEMMA PresenceInitInv == PresenceInit => PresenceInv
<1> SUFFICES ASSUME PresenceInit PROVE PresenceInv
  OBVIOUS
<1>1. presenceTab \in [PresenceTabs -> PageType]
  BY PresenceSizes DEF PresenceInit, PageType
<1>2. store \in [PresenceTabs -> [Sites -> EntryType]]
  <2>1. \A t \in PresenceTabs, s \in Sites :
          (IF s = Site[t] THEN [Absent EXCEPT !.state = "up", !.local = TRUE] ELSE Absent) \in EntryType
    BY NothingTyped DEF EntryType, Absent
  <2> QED BY <2>1 DEF PresenceInit
<1>3. <<>> \in Seq(FrameType)
  OBVIOUS
<1>4. up \in [Conns -> Seq(FrameType)] /\ down \in [Conns -> Seq(FrameType)]
  BY <1>3 DEF PresenceInit
<1>5. sockets \in [Conns -> SocketType] /\ lease \in [Sites -> LeaseType]
  BY NothingTyped DEF PresenceInit
<1>6. usage \in UsageType
  BY PresenceSizes DEF PresenceInit, UsageType
<1>7. PresenceTypeOK
  BY <1>1, <1>2, <1>4, <1>5, <1>6 DEF PresenceInit, PresenceTypeOK
<1>8. OwnFrames /\ FinalsLast
  BY DEF PresenceInit, OwnFrames, FinalsLast, FinalInOrder
<1>9. Unopened
  BY NothingTyped DEF PresenceInit, Unopened
<1>10. BuriedForGood
  BY DEF PresenceInit, BuriedForGood
<1> QED BY <1>7, <1>8, <1>9, <1>10 DEF PresenceInv

\* Steps that send nothing down.
LEMMA SameQueues ==
  ASSUME PresenceInv, UNCHANGED <<down, retired, buried>>,
         \A t \in PresenceTabs : presenceTab'[t].conn \in {0, presenceTab[t].conn}
  PROVE FinalsLast' /\ BuriedForGood'
<1>1. FinalsLast'
  BY DEF PresenceInv, FinalsLast
<1>2. BuriedForGood'
  BY DEF PresenceInv, BuriedForGood
<1> QED BY <1>1, <1>2

LEMMA SameSockets ==
  ASSUME PresenceInv, UNCHANGED <<down, sockets>>, usage'.conns = usage.conns
  PROVE Unopened'
BY DEF PresenceInv, Unopened

LEMMA Disturbed ==
  ASSUME PresenceInv, Disturb PROVE usage' \in UsageType /\ usage'.conns = usage.conns
<1>1. usage.events + 1 \in Nat
  BY DEF PresenceInv, PresenceTypeOK, UsageType
<1> QED BY <1>1 DEF Disturb, PresenceInv, PresenceTypeOK, UsageType

LEMMA ConnectStep == ASSUME PresenceInv, NEW t \in PresenceTabs, Connect(t) PROVE PresenceInv'
<1> DEFINE c == usage.conns + 1
           e == store[t][Site[t]]
           own == IF e.local THEN [e EXCEPT !.inst = c] ELSE e
           f == Frame(c, 1, Published(own))
           z == [NoSocket EXCEPT !.open = TRUE, !.owner = t]
           a == [presenceTab[t] EXCEPT !.conn = c]
           b == [a EXCEPT !.seq = 1]
<1>0. PresenceTypeOK
  BY DEF PresenceInv
<1>1. c \in Conns /\ c \in 0..MaxConns /\ c \in Nat /\ c > usage.conns
  BY <1>0, PresenceSizes DEF Connect, PresenceTypeOK, UsageType, Conns
<1>2. Site[t] \in Sites /\ e \in EntryType
  BY <1>0, PresenceSizes DEF PresenceTypeOK
<1>3. own \in EntryType
  BY <1>1, <1>2 DEF EntryType
<1>4. /\ presenceTab' = [presenceTab EXCEPT ![t].conn = c, ![t].seq = 1]
      /\ store' = [store EXCEPT ![t][Site[t]] = own]
      /\ up' = [up EXCEPT ![c] = <<f>>]
      /\ sockets' = [sockets EXCEPT ![c] = z]
      /\ usage' = [usage EXCEPT !.conns = c]
      /\ UNCHANGED <<down, lease, retired, buried>>
  BY DEF Connect
<1>5. f \in FrameType /\ f.inst = c /\ ~f.final
  BY <1>1, <1>3, FrameTyped, PublishedTyped
<1>6. z \in SocketType
  BY NothingTyped DEF SocketType
<1>7. b \in PageType /\ b.conn = c
  <2>1. a \in PageType /\ a.conn = c
    BY <1>0, <1>1 DEF PresenceTypeOK, PageType
  <2> HIDE DEF a
  <2> QED BY <2>1 DEF PageType
<1>8. presenceTab' = [presenceTab EXCEPT ![t] = b]
  BY <1>0, <1>4 DEF PresenceTypeOK, PageType
<1> HIDE DEF own, f, z, a, b
<1>9. usage' \in UsageType /\ usage'.conns = c
  BY <1>0, <1>1, <1>4 DEF PresenceTypeOK, UsageType
<1>10. <<f>> \in Seq(FrameType) /\ Len(<<f>>) = 1 /\ <<f>>[1] = f
  BY <1>5
<1> DEFINE q == <<f>>
<1>17. up' = [up EXCEPT ![c] = q] /\ q \in Seq(FrameType) /\ Len(q) = 1 /\ q[1] = f
  BY <1>4, <1>10
<1> HIDE DEF q
<1>11. up' \in [Conns -> Seq(FrameType)] /\ \A d \in Conns : up'[d] = IF d = c THEN q ELSE up[d]
  BY <1>0, <1>1, <1>17 DEF PresenceTypeOK
<1>12. PresenceTypeOK'
  <2>1. store' \in [PresenceTabs -> [Sites -> EntryType]]
    BY <1>0, <1>2, <1>3, <1>4, StoreSet
  <2>2. presenceTab' \in [PresenceTabs -> PageType]
    BY <1>0, <1>7, <1>8 DEF PresenceTypeOK
  <2>3. sockets' \in [Conns -> SocketType]
    BY <1>0, <1>4, <1>6 DEF PresenceTypeOK
  <2>4. UNCHANGED <<down, lease, retired, buried>>
    BY <1>4
  <2> QED BY <1>0, <1>9, <1>11, <2>1, <2>2, <2>3, <2>4 DEF PresenceTypeOK
<1>13. OwnFrames'
  <2>1. \A k \in 1..Len(q) : q[k].inst = c /\ ~q[k].final
    <3>1. \A k \in 1..Len(q) : k = 1
      BY <1>17
    <3> QED BY <1>5, <1>17, <3>1
  <2>2. \A d \in Conns : \A k \in 1..Len(up[d]) : up[d][k].inst = d /\ ~up[d][k].final
    BY DEF PresenceInv, OwnFrames
  <2> QED BY <1>11, <2>1, <2>2 DEF OwnFrames
<1>14. Unopened'
  <2> SUFFICES ASSUME NEW d \in Conns, d > c PROVE down'[d] = <<>> /\ ~sockets'[d].open
    BY <1>9 DEF Unopened
  <2>1. d > usage.conns /\ d # c
    BY <1>0, <1>1 DEF PresenceTypeOK, UsageType, Conns
  <2> QED BY <1>0, <1>4, <2>1 DEF PresenceInv, Unopened, PresenceTypeOK
<1>15. FinalsLast'
  BY <1>4 DEF PresenceInv, FinalsLast
<1>16. BuriedForGood'
  <2> SUFFICES ASSUME NEW u \in PresenceTabs, NEW i \in buried[u]
               PROVE /\ i \in retired
                     /\ presenceTab'[u].conn # 0 =>
                          \A k \in 1..Len(down[presenceTab'[u].conn]) :
                            down[presenceTab'[u].conn][k].inst = i => down[presenceTab'[u].conn][k].entry # "up"
    BY <1>4 DEF BuriedForGood
  <2>1. i \in retired
    BY DEF PresenceInv, BuriedForGood
  <2>2. CASE u = t
    <3>1. presenceTab'[u].conn = c
      BY <1>0, <1>7, <1>8, <2>2 DEF PresenceTypeOK
    <3>2. down[c] = <<>>
      BY <1>1 DEF PresenceInv, Unopened
    <3> QED BY <2>1, <3>1, <3>2
  <2>3. CASE u # t
    <3>1. presenceTab'[u] = presenceTab[u]
      BY <1>0, <1>8, <2>3 DEF PresenceTypeOK
    <3> QED BY <2>1, <3>1 DEF PresenceInv, BuriedForGood
  <2> QED BY <2>2, <2>3
<1> QED BY <1>12, <1>13, <1>14, <1>15, <1>16 DEF PresenceInv

\* A page's state: the socket stays or is gone.
LEMMA PageSet ==
  ASSUME PresenceTypeOK, NEW t \in PresenceTabs, NEW p \in PageType, p.conn \in {0, presenceTab[t].conn}
  PROVE /\ [presenceTab EXCEPT ![t] = p] \in [PresenceTabs -> PageType]
        /\ \A u \in PresenceTabs : [presenceTab EXCEPT ![t] = p][u].conn \in {0, presenceTab[u].conn}
BY DEF PresenceTypeOK

\* What a page publishes of its own, if it is connected.
LEMMA PublishStep ==
  ASSUME PresenceInv, NEW t \in PresenceTabs, NEW x \in {"up", "deleted"}, Connected(t),
         up' = [up EXCEPT ![presenceTab[t].conn] = Append(@, Frame(presenceTab[t].conn, presenceTab[t].seq + 1, x))]
  PROVE up' \in [Conns -> Seq(FrameType)] /\ OwnFrames'
<1> DEFINE c == presenceTab[t].conn
           f == Frame(c, presenceTab[t].seq + 1, x)
<1>0. PresenceTypeOK /\ OwnFrames
  BY DEF PresenceInv
<1>1. c \in Conns /\ presenceTab[t].seq + 1 \in Nat
  BY <1>0, PresenceSizes DEF Connected, PresenceTypeOK, PageType, Conns
<1>2. f \in FrameType /\ f.inst = c /\ ~f.final
  BY <1>1, FrameTyped
<1>3. up' = [up EXCEPT ![c] = Append(@, f)]
  OBVIOUS
<1> HIDE DEF c, f
<1>4. /\ [up EXCEPT ![c] = Append(@, f)] \in [Conns -> Seq(FrameType)]
      /\ \A d \in Conns : \A k \in 1..Len([up EXCEPT ![c] = Append(@, f)][d]) :
           [up EXCEPT ![c] = Append(@, f)][d][k].inst = d /\ ~[up EXCEPT ![c] = Append(@, f)][d][k].final
  BY <1>0, <1>1, <1>2, UpAppend
<1> QED BY <1>3, <1>4 DEF OwnFrames

LEMMA ActivityStep == ASSUME PresenceInv, NEW t \in PresenceTabs, Activity(t) PROVE PresenceInv'
<1> DEFINE n == IF Connected(t) THEN presenceTab[t].seq + 1 ELSE presenceTab[t].seq
           a == [presenceTab[t] EXCEPT !.act = "active"]
           b == [a EXCEPT !.seq = n]
<1>0. PresenceTypeOK
  BY DEF PresenceInv
<1>1. n \in Nat
  BY <1>0 DEF PresenceTypeOK, PageType
<1>2. presenceTab' = [presenceTab EXCEPT ![t].act = "active", ![t].seq = n]
  BY <1>0 DEF Activity, PresenceTypeOK, PageType
<1> HIDE DEF n
<1>3. b \in PageType /\ b.conn = presenceTab[t].conn
  <2>1. a \in PageType /\ a.conn = presenceTab[t].conn
    BY <1>0 DEF PresenceTypeOK, PageType
  <2> HIDE DEF a
  <2> QED BY <1>1, <2>1 DEF PageType
<1>4. presenceTab' = [presenceTab EXCEPT ![t] = b]
  BY <1>0, <1>2 DEF PresenceTypeOK, PageType
<1> HIDE DEF b
<1>5. presenceTab' \in [PresenceTabs -> PageType]
      /\ \A u \in PresenceTabs : presenceTab'[u].conn \in {0, presenceTab[u].conn}
  BY <1>0, <1>3, <1>4, PageSet
<1>6. store' \in [PresenceTabs -> [Sites -> EntryType]]
  BY <1>0, OwnTyped, StoreSet, PresenceSizes DEF Activity
<1>7. up' \in [Conns -> Seq(FrameType)] /\ OwnFrames'
  <2>1. CASE Connected(t)
    BY <2>1, PublishStep DEF Activity
  <2>2. CASE ~Connected(t)
    BY <1>0, <2>2 DEF Activity, PresenceTypeOK, PresenceInv, OwnFrames
  <2> QED BY <2>1, <2>2
<1>8. UNCHANGED <<down, sockets, lease, retired, buried, usage>>
  BY DEF Activity, room
<1>9. PresenceTypeOK'
  BY <1>0, <1>5, <1>6, <1>7, <1>8 DEF PresenceTypeOK
<1> QED BY <1>5, <1>7, <1>8, <1>9, SameQueues, SameSockets DEF PresenceInv

\* clearLocalPresence.
LEMMA ClearedTyped ==
  ASSUME PresenceInv, NEW t \in PresenceTabs, store' = ClearedStore(t), up' = ClearedUp(t)
  PROVE /\ store' \in [PresenceTabs -> [Sites -> EntryType]]
        /\ up' \in [Conns -> Seq(FrameType)] /\ OwnFrames'
<1>0. PresenceTypeOK
  BY DEF PresenceInv
<1>1. store' \in [PresenceTabs -> [Sites -> EntryType]]
  <2>1. Own(t, "deleted") \in EntryType /\ Site[t] \in Sites
    BY <1>0, OwnTyped, PresenceSizes
  <2>2. [store EXCEPT ![t][Site[t]] = Own(t, "deleted")] \in [PresenceTabs -> [Sites -> EntryType]]
    BY <1>0, <2>1, StoreSet
  <2> QED BY <1>0, <2>2 DEF ClearedStore, PresenceTypeOK
<1>2. CASE Deletes(t) /\ Connected(t)
  BY <1>1, <1>2, PublishStep DEF ClearedUp
<1>3. CASE ~(Deletes(t) /\ Connected(t))
  <2>1. up' = up
    BY <1>3 DEF ClearedUp
  <2> QED BY <1>0, <1>1, <2>1 DEF PresenceTypeOK, PresenceInv, OwnFrames
<1> QED BY <1>2, <1>3

LEMMA GoInactiveStep == ASSUME PresenceInv, NEW t \in PresenceTabs, GoInactive(t) PROVE PresenceInv'
<1> DEFINE n == IF Deletes(t) /\ Connected(t) THEN presenceTab[t].seq + 1 ELSE presenceTab[t].seq
           a == [presenceTab[t] EXCEPT !.act = "inactive"]
           b == [a EXCEPT !.seq = n]
<1>0. PresenceTypeOK
  BY DEF PresenceInv
<1>1. n \in Nat
  BY <1>0 DEF PresenceTypeOK, PageType
<1>2. presenceTab' = [presenceTab EXCEPT ![t].act = "inactive", ![t].seq = n]
  BY <1>0 DEF GoInactive, PresenceTypeOK, PageType
<1> HIDE DEF n
<1>3. b \in PageType /\ b.conn = presenceTab[t].conn
  <2>1. a \in PageType /\ a.conn = presenceTab[t].conn
    BY <1>0 DEF PresenceTypeOK, PageType
  <2> HIDE DEF a
  <2> QED BY <1>1, <2>1 DEF PageType
<1>4. presenceTab' = [presenceTab EXCEPT ![t] = b]
  BY <1>0, <1>2 DEF PresenceTypeOK, PageType
<1> HIDE DEF b
<1>5. presenceTab' \in [PresenceTabs -> PageType]
      /\ \A u \in PresenceTabs : presenceTab'[u].conn \in {0, presenceTab[u].conn}
  BY <1>0, <1>3, <1>4, PageSet
<1>6. /\ store' \in [PresenceTabs -> [Sites -> EntryType]]
      /\ up' \in [Conns -> Seq(FrameType)] /\ OwnFrames'
  BY ClearedTyped DEF GoInactive
<1>7. UNCHANGED <<down, sockets, lease, retired, buried>> /\ usage' \in UsageType /\ usage'.conns = usage.conns
  BY Disturbed DEF GoInactive, room
<1>8. PresenceTypeOK'
  BY <1>0, <1>5, <1>6, <1>7 DEF PresenceTypeOK
<1> QED BY <1>5, <1>6, <1>7, <1>8, SameQueues, SameSockets DEF PresenceInv

LEMMA HidePageStep == ASSUME PresenceInv, NEW t \in PresenceTabs, HandlePageHide(t) PROVE PresenceInv'
<1> DEFINE b == [conn |-> 0, seq |-> 0, act |-> "disconnected"]
<1>0. PresenceTypeOK
  BY DEF PresenceInv
<1>1. b \in PageType /\ b.conn = 0
  BY PresenceSizes DEF PageType
<1>2. presenceTab' = [presenceTab EXCEPT ![t] = b]
  BY DEF HandlePageHide
<1> HIDE DEF b
<1>3. presenceTab' \in [PresenceTabs -> PageType]
      /\ \A u \in PresenceTabs : presenceTab'[u].conn \in {0, presenceTab[u].conn}
  BY <1>0, <1>1, <1>2, PageSet
<1>4. /\ store' \in [PresenceTabs -> [Sites -> EntryType]]
      /\ up' \in [Conns -> Seq(FrameType)] /\ OwnFrames'
  BY ClearedTyped DEF HandlePageHide
<1>5. UNCHANGED <<down, sockets, lease, retired, buried>> /\ usage' \in UsageType /\ usage'.conns = usage.conns
  BY Disturbed DEF HandlePageHide, room
<1>6. PresenceTypeOK'
  BY <1>0, <1>3, <1>4, <1>5 DEF PresenceTypeOK
<1> QED BY <1>3, <1>4, <1>5, <1>6, SameQueues, SameSockets DEF PresenceInv

LEMMA LoseSocketStep == ASSUME PresenceInv, NEW t \in PresenceTabs, LoseSocket(t) PROVE PresenceInv'
<1> DEFINE c == presenceTab[t].conn
           a == [presenceTab[t] EXCEPT !.conn = 0]
           b == [a EXCEPT !.seq = 0]
<1>0. PresenceTypeOK
  BY DEF PresenceInv
<1>1. c \in Conns
  BY <1>0, PresenceSizes DEF LoseSocket, Connected, PresenceTypeOK, PageType, Conns
<1>2. b \in PageType /\ b.conn = 0
  <2>1. a \in PageType /\ a.conn = 0
    BY <1>0, PresenceSizes DEF PresenceTypeOK, PageType
  <2> HIDE DEF a
  <2> QED BY <2>1 DEF PageType
<1>3. presenceTab' = [presenceTab EXCEPT ![t] = b]
  BY <1>0 DEF LoseSocket, PresenceTypeOK, PageType
<1> HIDE DEF b
<1>4. presenceTab' \in [PresenceTabs -> PageType]
      /\ \A u \in PresenceTabs : presenceTab'[u].conn \in {0, presenceTab[u].conn}
  BY <1>0, <1>2, <1>3, PageSet
<1>5. PICK n \in 0..Len(up[c]) : up' = [up EXCEPT ![c] = SubSeq(@, 1, n)]
  BY DEF LoseSocket
<1> DEFINE q == SubSeq(up[c], 1, n)
<1>6. up[c] \in Seq(FrameType) /\ Len(up[c]) \in Nat
  BY <1>0, <1>1 DEF PresenceTypeOK
<1>7. q \in Seq(FrameType) /\ Len(q) = n /\ \A k \in 1..n : q[k] = up[c][k] /\ k \in 1..Len(up[c])
  BY <1>5, <1>6
<1>8. up' = [up EXCEPT ![c] = q]
  BY <1>5
<1> HIDE DEF q, c
<1>9. up' \in [Conns -> Seq(FrameType)] /\ \A d \in Conns : up'[d] = IF d = c THEN q ELSE up[d]
  BY <1>0, <1>1, <1>7, <1>8 DEF PresenceTypeOK
<1>10. OwnFrames'
  <2>1. \A k \in 1..Len(q) : q[k].inst = c /\ ~q[k].final
    BY <1>1, <1>7 DEF PresenceInv, OwnFrames
  <2>2. \A d \in Conns : \A k \in 1..Len(up[d]) : up[d][k].inst = d /\ ~up[d][k].final
    BY DEF PresenceInv, OwnFrames
  <2> QED BY <1>9, <2>1, <2>2 DEF OwnFrames
<1>11. UNCHANGED <<store, down, sockets, lease, retired, buried>> /\ usage' \in UsageType /\ usage'.conns = usage.conns
  BY Disturbed DEF LoseSocket, room
<1>12. PresenceTypeOK'
  BY <1>0, <1>4, <1>9, <1>11 DEF PresenceTypeOK
<1> QED BY <1>4, <1>10, <1>11, <1>12, SameQueues, SameSockets DEF PresenceInv

LEMMA AppliedTyped ==
  ASSUME PresenceTypeOK, NEW t, NEW f \in FrameType, NEW e \in EntryType
  PROVE Applied(t, f, e) \in EntryType
<1>1. f.inst \in Nat
  BY DEF FrameType, Conns
<1> QED BY <1>1 DEF Applied, EntryType

LEMMA ReceiveStep == ASSUME PresenceInv, NEW t \in PresenceTabs, Receive(t) PROVE PresenceInv'
<1> DEFINE c == presenceTab[t].conn
           q == down[c]
           f == Head(q)
           s == Site[sockets[f.inst].owner]
<1>0. PresenceTypeOK
  BY DEF PresenceInv
<1>1. c \in Conns /\ q # <<>> /\ c # 0
  <2>1. c # 0 /\ q # <<>>
    BY DEF Receive, Connected
  <2>2. presenceTab[t] \in PageType
    BY <1>0 DEF PresenceTypeOK
  <2>3. c \in 0..MaxConns
    BY <2>2 DEF PageType
  <2> HIDE DEF c, q
  <2> QED BY <2>1, <2>3, PresenceSizes DEF Conns
<1>2. q \in Seq(FrameType) /\ f \in FrameType /\ f = q[1] /\ Len(q) \in Nat \ {0}
  BY <1>0, <1>1, HeadTailProperties DEF PresenceTypeOK
<1>3. /\ Tail(q) \in Seq(FrameType) /\ Len(Tail(q)) = Len(q) - 1
      /\ \A k \in 1..Len(Tail(q)) : Tail(q)[k] = q[k + 1] /\ k + 1 \in 1..Len(q) /\ 1 < k + 1
  BY <1>1, <1>2, HeadTailProperties
<1>4. s \in Sites
  BY <1>0, <1>2, PresenceSizes DEF PresenceTypeOK, FrameType, SocketType
<1>5. /\ store' = [store EXCEPT ![t][s] = Applied(t, f, @)]
      /\ buried' = IF f.final THEN [buried EXCEPT ![t] = @ \union {f.inst}] ELSE buried
      /\ down' = [down EXCEPT ![c] = Tail(@)]
      /\ UNCHANGED <<presenceTab, up, sockets, lease, retired, usage>>
  BY DEF Receive, room
<1>6. store' \in [PresenceTabs -> [Sites -> EntryType]]
  <2>1. Applied(t, f, store[t][s]) \in EntryType
    BY <1>0, <1>2, <1>4, AppliedTyped DEF PresenceTypeOK
  <2>2. store' = [store EXCEPT ![t][s] = Applied(t, f, store[t][s])]
    BY <1>0, <1>4, <1>5 DEF PresenceTypeOK
  <2> DEFINE e == Applied(t, f, store[t][s])
  <2>3. e \in EntryType /\ store' = [store EXCEPT ![t][s] = e]
    BY <2>1, <2>2
  <2> HIDE DEF e, s
  <2> QED BY <1>0, <1>4, <2>3, StoreSet
<1>7. FinalInOrder(q, retired) /\ FinalInOrder(Tail(q), retired)
  BY <1>1, <1>2, InOrderTail DEF PresenceInv, FinalsLast
<1> DEFINE r == Tail(q)
<1>8. down' = [down EXCEPT ![c] = r]
  BY <1>5
<1> HIDE DEF q, f, s, r
<1>9. down' \in [Conns -> Seq(FrameType)] /\ \A d \in Conns : down'[d] = IF d = c THEN r ELSE down[d]
  BY <1>0, <1>1, <1>3, <1>8 DEF PresenceTypeOK, r
<1>10. buried' \in [PresenceTabs -> SUBSET Conns]
       /\ \A u \in PresenceTabs : buried'[u] = IF u = t /\ f.final THEN buried[u] \union {f.inst} ELSE buried[u]
  <2>1. f.inst \in Conns
    BY <1>2 DEF FrameType
  <2> QED BY <1>0, <1>5, <2>1 DEF PresenceTypeOK
<1>11. PresenceTypeOK'
  BY <1>0, <1>5, <1>6, <1>9, <1>10 DEF PresenceTypeOK
<1>12. OwnFrames'
  BY <1>5 DEF PresenceInv, OwnFrames
<1>13. Unopened'
  <2>1. \A d \in Conns : d > usage.conns => d # c
    <3>1. q = down[c]
      BY DEF q
    <3> QED BY <1>1, <3>1 DEF PresenceInv, Unopened
  <2> QED BY <1>5, <1>9, <2>1 DEF PresenceInv, Unopened
<1>14. FinalsLast'
  BY <1>5, <1>7, <1>9 DEF PresenceInv, FinalsLast, r
<1>15. BuriedForGood'
  <2> SUFFICES ASSUME NEW u \in PresenceTabs, NEW i \in buried'[u]
               PROVE /\ i \in retired
                     /\ presenceTab[u].conn # 0 =>
                          \A k \in 1..Len(down'[presenceTab[u].conn]) :
                            down'[presenceTab[u].conn][k].inst = i => down'[presenceTab[u].conn][k].entry # "up"
    BY <1>5 DEF BuriedForGood
  <2>1. CASE i \in buried[u]
    <3>1. i \in retired
      BY <2>1 DEF PresenceInv, BuriedForGood
    <3>2. CASE presenceTab[u].conn = c
      <4>1. \A k \in 1..Len(q) : q[k].inst = i => q[k].entry # "up"
        BY <1>1, <2>1, <3>2 DEF PresenceInv, BuriedForGood, q
      <4>2. down'[presenceTab[u].conn] = r
        BY <1>1, <1>9, <3>2
      <4>3. \A k \in 1..Len(r) : r[k].inst = i => r[k].entry # "up"
        BY <1>3, <4>1 DEF r
      <4> QED BY <3>1, <4>2, <4>3
    <3>3. CASE presenceTab[u].conn # c
      <4>1. presenceTab[u].conn # 0 => down'[presenceTab[u].conn] = down[presenceTab[u].conn]
        BY <1>0, <1>9, <3>3, PresenceSizes DEF PresenceTypeOK, PageType, Conns
      <4> QED BY <2>1, <3>1, <4>1 DEF PresenceInv, BuriedForGood
    <3> QED BY <3>2, <3>3
  <2>2. CASE i \notin buried[u]
    <3>1. u = t /\ f.final /\ i = f.inst
      BY <1>10, <2>2
    <3>2. 1 \in 1..Len(q) /\ q[1] = f
      BY <1>2
    <3>3. i \in retired /\ \A k \in 1..Len(q) : 1 < k /\ q[k].inst = i => q[k].entry # "up"
      BY <1>7, <3>1, <3>2 DEF FinalInOrder
    <3>4. \A k \in 1..Len(r) : r[k].inst = i => r[k].entry # "up"
      BY <1>3, <3>3 DEF r
    <3>5. down'[presenceTab[u].conn] = r
      BY <1>1, <1>9, <3>1
    <3> QED BY <3>3, <3>4, <3>5
  <2> QED BY <2>1, <2>2
<1> QED BY <1>11, <1>12, <1>13, <1>14, <1>15 DEF PresenceInv

LEMMA SweepStep == ASSUME PresenceInv, NEW t \in PresenceTabs, Sweep(t) PROVE PresenceInv'
<1>0. PresenceTypeOK
  BY DEF PresenceInv
<1>1. UNCHANGED <<presenceTab, up, down, sockets, lease, retired, buried, usage>>
  BY DEF Sweep, room
<1> DEFINE swept == [s \in Sites |-> IF Expired(store[t][s]) THEN Absent ELSE store[t][s]]
<1>2. swept \in [Sites -> EntryType]
  BY <1>0, NothingTyped DEF PresenceTypeOK
<1>3. store' = [store EXCEPT ![t] = swept]
  BY <1>0 DEF Sweep, PresenceTypeOK
<1> HIDE DEF swept
<1>4. store' \in [PresenceTabs -> [Sites -> EntryType]]
  BY <1>0, <1>2, <1>3 DEF PresenceTypeOK
<1>5. PresenceTypeOK'
  BY <1>0, <1>1, <1>4 DEF PresenceTypeOK
<1>6. \A u \in PresenceTabs : presenceTab'[u].conn \in {0, presenceTab[u].conn}
  BY <1>1
<1>7. OwnFrames'
  BY <1>1 DEF PresenceInv, OwnFrames
<1> QED BY <1>1, <1>5, <1>6, <1>7, SameQueues, SameSockets DEF PresenceInv

\* The first frame of a socket is taken by the room.
LEMMA UpTail ==
  ASSUME PresenceInv, NEW c \in Conns, up[c] # <<>>, up' = [up EXCEPT ![c] = Tail(@)]
  PROVE /\ up' \in [Conns -> Seq(FrameType)] /\ OwnFrames'
        /\ Head(up[c]) \in FrameType /\ Head(up[c]).inst = c /\ ~Head(up[c]).final
<1> DEFINE q == up[c]
           r == Tail(q)
<1>0. PresenceTypeOK
  BY DEF PresenceInv
<1>1. q \in Seq(FrameType) /\ Head(q) \in FrameType /\ Head(q) = q[1] /\ Len(q) \in Nat \ {0}
  BY <1>0, HeadTailProperties DEF PresenceTypeOK
<1>2. /\ r \in Seq(FrameType)
      /\ \A k \in 1..Len(r) : r[k] = q[k + 1] /\ k + 1 \in 1..Len(q)
  BY <1>1, HeadTailProperties
<1>3. \A k \in 1..Len(q) : q[k].inst = c /\ ~q[k].final
  BY DEF PresenceInv, OwnFrames
<1>4. up' = [up EXCEPT ![c] = r]
  OBVIOUS
<1> HIDE DEF q, r
<1>5. up' \in [Conns -> Seq(FrameType)] /\ \A d \in Conns : up'[d] = IF d = c THEN r ELSE up[d]
  BY <1>0, <1>2, <1>4 DEF PresenceTypeOK
<1>6. OwnFrames'
  <2>1. \A k \in 1..Len(r) : r[k].inst = c /\ ~r[k].final
    BY <1>2, <1>3
  <2>2. \A d \in Conns : \A k \in 1..Len(up[d]) : up[d][k].inst = d /\ ~up[d][k].final
    BY DEF PresenceInv, OwnFrames
  <2> QED BY <1>5, <2>1, <2>2 DEF OwnFrames
<1>7. Head(q).inst = c /\ ~Head(q).final
  BY <1>1, <1>3
<1> QED BY <1>1, <1>5, <1>6, <1>7 DEF q

LEMMA RateLimitedStep == ASSUME PresenceInv, NEW c \in Conns, RateLimited(c) PROVE PresenceInv'
<1>0. PresenceTypeOK
  BY DEF PresenceInv
<1>1. /\ up[c] # <<>> /\ up' = [up EXCEPT ![c] = Tail(@)]
      /\ UNCHANGED <<presenceTab, store, down, sockets, lease, retired, buried>>
      /\ usage' = [usage EXCEPT !.lost = @ + 1]
  BY DEF RateLimited, client, room
<1>2. usage.lost + 1 \in Nat
  BY <1>0 DEF PresenceTypeOK, UsageType
<1>3. usage' \in UsageType /\ usage'.conns = usage.conns
  BY <1>0, <1>1, <1>2 DEF PresenceTypeOK, UsageType
<1>4. up' \in [Conns -> Seq(FrameType)] /\ OwnFrames'
  BY <1>1, UpTail
<1>5. PresenceTypeOK'
  BY <1>0, <1>1, <1>3, <1>4 DEF PresenceTypeOK
<1>6. \A u \in PresenceTabs : presenceTab'[u].conn \in {0, presenceTab[u].conn}
  BY <1>1
<1> QED BY <1>1, <1>3, <1>4, <1>5, <1>6, SameQueues, SameSockets DEF PresenceInv

LEMMA LeaveStep == ASSUME PresenceInv, NEW c \in Conns, Leave(c) PROVE PresenceInv'
<1> DEFINE z == [sockets[c] EXCEPT !.open = FALSE]
<1>0. PresenceTypeOK
  BY DEF PresenceInv
<1>1. /\ sockets' = [sockets EXCEPT ![c] = z]
      /\ down' = [down EXCEPT ![c] = <<>>]
      /\ UNCHANGED <<presenceTab, store, up, lease, retired, buried, usage>>
  BY <1>0 DEF Leave, client, PresenceTypeOK
<1>2. z \in SocketType /\ ~z.open
  BY <1>0 DEF PresenceTypeOK, SocketType
<1> HIDE DEF z
<1>3. sockets' \in [Conns -> SocketType] /\ \A d \in Conns : sockets'[d] = IF d = c THEN z ELSE sockets[d]
  BY <1>0, <1>1, <1>2 DEF PresenceTypeOK
<1> DEFINE none == <<>>
<1>4. none \in Seq(FrameType) /\ down' = [down EXCEPT ![c] = none]
  BY <1>1
<1>11. FinalInOrder(none, retired) /\ Len(none) = 0
  BY InOrderEmpty
<1> HIDE DEF none
<1>5. down' \in [Conns -> Seq(FrameType)] /\ \A d \in Conns : down'[d] = IF d = c THEN none ELSE down[d]
  BY <1>0, <1>4 DEF PresenceTypeOK
<1>6. PresenceTypeOK'
  BY <1>0, <1>1, <1>3, <1>5 DEF PresenceTypeOK
<1>7. OwnFrames'
  BY <1>1 DEF PresenceInv, OwnFrames
<1>8. Unopened'
  BY <1>1, <1>2, <1>3, <1>5 DEF PresenceInv, Unopened, none
<1>9. FinalsLast'
  BY <1>1, <1>11, <1>5 DEF PresenceInv, FinalsLast
<1>10. BuriedForGood'
  <2> SUFFICES ASSUME NEW u \in PresenceTabs, NEW i \in buried[u]
               PROVE /\ i \in retired
                     /\ presenceTab[u].conn # 0 =>
                          \A k \in 1..Len(down'[presenceTab[u].conn]) :
                            down'[presenceTab[u].conn][k].inst = i => down'[presenceTab[u].conn][k].entry # "up"
    BY <1>1 DEF BuriedForGood
  <2>1. i \in retired
    BY DEF PresenceInv, BuriedForGood
  <2>2. presenceTab[u].conn # 0 => presenceTab[u].conn \in Conns
    BY <1>0, PresenceSizes DEF PresenceTypeOK, PageType, Conns
  <2>3. CASE presenceTab[u].conn = c
    BY <1>11, <1>5, <2>1, <2>2, <2>3
  <2>4. CASE presenceTab[u].conn # c
    BY <1>5, <2>1, <2>2, <2>4 DEF PresenceInv, BuriedForGood
  <2> QED BY <2>3, <2>4
<1> QED BY <1>6, <1>7, <1>8, <1>9, <1>10 DEF PresenceInv

\* What a socket may be sent: a retirement, a frame, both in this order, nothing.
LEMMA JoinsAppend ==
  ASSUME NEW q \in Seq(FrameType), NEW x \in FrameType, NEW f \in FrameType
  PROVE /\ q \o (<<>> \o <<>>) = q
        /\ q \o (<<x>> \o <<>>) = Append(q, x)
        /\ q \o (<<>> \o <<f>>) = Append(q, f)
        /\ q \o (<<x>> \o <<f>>) = Append(Append(q, x), f)
<1>1. <<x>> \in Seq(FrameType) /\ <<f>> \in Seq(FrameType) /\ <<>> \in Seq(FrameType)
  OBVIOUS
<1>2. q \o <<>> = q /\ <<>> \o <<>> = <<>> /\ <<x>> \o <<>> = <<x>> /\ <<>> \o <<f>> = <<f>>
  BY <1>1, ConcatEmptySeq
<1>3. \A y \in FrameType : \A p \in Seq(FrameType) : p \o <<y>> = Append(p, y)
  BY AppendIsConcat
<1>4. q \o (<<x>> \o <<f>>) = (q \o <<x>>) \o <<f>>
  BY <1>1, ConcatAssociative
<1>5. q \o <<x>> \in Seq(FrameType)
  BY <1>1, ConcatProperties
<1> QED BY <1>2, <1>3, <1>4, <1>5

\* i is not shown by q.
NotShown(q, i) == \A k \in 1..Len(q) : q[k].inst = i => q[k].entry # "up"

LEMMA AppendNotShown ==
  ASSUME NEW q \in Seq(FrameType), NEW f \in FrameType, NEW i, NotShown(q, i),
         f.inst = i => f.entry # "up"
  PROVE NotShown(Append(q, f), i)
<1> DEFINE p == Append(q, f)
<1>1. /\ Len(p) = Len(q) + 1 /\ Len(q) \in Nat
      /\ p[Len(q) + 1] = f /\ \A k \in 1..Len(q) : p[k] = q[k]
  OBVIOUS
<1> HIDE DEF p
<1>2. NotShown(p, i)
  BY <1>1 DEF NotShown
<1> QED BY <1>2 DEF p

\* p, the queue q after a step, is in order and shows nothing it did not show.
Relays(p, q, gone, more) ==
  /\ p \in Seq(FrameType) /\ FinalInOrder(p, more)
  /\ \A i \in gone : NotShown(q, i) => NotShown(p, i)

\* A retirement and a frame of another instance keep a queue in order.
LEMMA RelayInOrder ==
  ASSUME NEW q \in Seq(FrameType), NEW gone, NEW more, gone \subseteq more, FinalInOrder(q, gone),
         NEW f \in FrameType, ~f.final, f.inst \notin gone,
         NEW x \in FrameType, x.inst \in more, x.inst # f.inst, x.entry # "up"
  PROVE /\ Relays(q, q, gone, more) /\ Relays(Append(q, x), q, gone, more)
        /\ Relays(Append(q, f), q, gone, more) /\ Relays(Append(Append(q, x), f), q, gone, more)
<1>1. FinalInOrder(q, more)
  BY InOrderMore
<1>2. \A k \in 1..Len(q) : q[k].final => q[k].inst # f.inst
  BY DEF FinalInOrder
<1>3. Append(q, x) \in Seq(FrameType) /\ FinalInOrder(Append(q, x), more)
  BY <1>1, InOrderAppend
<1>4. Append(q, f) \in Seq(FrameType) /\ FinalInOrder(Append(q, f), more)
  BY <1>1, <1>2, InOrderAppend
<1>5. \A k \in 1..Len(Append(q, x)) : Append(q, x)[k].final => Append(q, x)[k].inst # f.inst
  <2> DEFINE r == Append(q, x)
  <2>1. /\ Len(r) = Len(q) + 1 /\ Len(q) \in Nat
        /\ r[Len(q) + 1] = x /\ \A k \in 1..Len(q) : r[k] = q[k]
    OBVIOUS
  <2> HIDE DEF r
  <2>2. \A k \in 1..Len(r) : r[k].final => r[k].inst # f.inst
    BY <1>2, <2>1
  <2> QED BY <2>2 DEF r
<1>6. Append(Append(q, x), f) \in Seq(FrameType) /\ FinalInOrder(Append(Append(q, x), f), more)
  BY <1>3, <1>5, InOrderAppend
<1>7. ASSUME NEW i \in gone, NotShown(q, i)
      PROVE /\ NotShown(Append(q, x), i) /\ NotShown(Append(q, f), i)
            /\ NotShown(Append(Append(q, x), f), i)
  <2>1. NotShown(Append(q, x), i) /\ NotShown(Append(q, f), i)
    BY <1>7, AppendNotShown
  <2>2. NotShown(Append(Append(q, x), f), i)
    BY <1>3, <1>7, <2>1, AppendNotShown
  <2> QED BY <2>1, <2>2
<1> QED BY <1>1, <1>3, <1>4, <1>6, <1>7 DEF Relays

\* A frame the room refuses: it is gone and nothing else is.
LEMMA RefusedStep ==
  ASSUME PresenceInv, NEW c \in Conns, up[c] # <<>>, up' = [up EXCEPT ![c] = Tail(@)],
         UNCHANGED <<client, sockets, lease, retired, down, usage>>
  PROVE PresenceInv'
<1>0. PresenceTypeOK
  BY DEF PresenceInv
<1>1. UNCHANGED <<presenceTab, store, down, sockets, lease, retired, buried, usage>>
  BY DEF client
<1>2. up' \in [Conns -> Seq(FrameType)] /\ OwnFrames'
  BY UpTail
<1>3. PresenceTypeOK'
  BY <1>0, <1>1, <1>2 DEF PresenceTypeOK
<1>4. \A u \in PresenceTabs : presenceTab'[u].conn \in {0, presenceTab[u].conn}
  BY <1>1
<1> QED BY <1>1, <1>2, <1>3, <1>4, SameQueues, SameSockets DEF PresenceInv

LEMMA ClientPresenceStep ==
  ASSUME PresenceInv, NEW c \in Conns, ClientPresence(c) PROVE PresenceInv'
<1> DEFINE f == Head(up[c])
           s == Site[sockets[c].owner]
           old == IF sockets[c].bound THEN NoLease ELSE lease[s]
           key == IF f.entry = "none" THEN sockets[c].key ELSE f.entry = "up"
<1>0. PresenceTypeOK
  BY DEF PresenceInv
<1>1. c \in Open /\ up[c] # <<>> /\ up' = [up EXCEPT ![c] = Tail(@)] /\ UNCHANGED <<client>>
  BY DEF ClientPresence
<1>2. CASE Ignored(c, f)
  <2>1. UNCHANGED <<sockets, lease, retired, down, usage>>
    BY <1>2 DEF ClientPresence
  <2> QED BY <1>1, <2>1, RefusedStep
<1>3. CASE ~Ignored(c, f)
  <2>1. PICK slow \in SUBSET (Open \ {c}) :
             /\ usage' = [usage EXCEPT !.lost = @ + Cardinality(slow)]
             /\ down' = Sent(c, Relayed(c, f, old, slow))
             /\ retired' = retired \union ({old.conn} \ {0, c})
             /\ sockets' = [d \in Conns |->
                           CASE d = c -> [sockets[c] EXCEPT !.bound = TRUE, !.seq = f.seq, !.key = key]
                             [] d = old.conn /\ d # c -> [sockets[d] EXCEPT !.bound = FALSE, !.key = FALSE]
                             [] OTHER -> sockets[d]]
             /\ lease' = [lease EXCEPT ![s] = [conn |-> c, seq |-> f.seq, key |-> key]]
    BY <1>3 DEF ClientPresence
  <2>2. c \notin retired
    BY <1>3 DEF Ignored
  <2>3. /\ up' \in [Conns -> Seq(FrameType)] /\ OwnFrames'
        /\ f \in FrameType /\ f.inst = c /\ ~f.final
    BY <1>1, UpTail
  <2>4. sockets[c] \in SocketType /\ s \in Sites
    BY <1>0, PresenceSizes DEF PresenceTypeOK, SocketType
  <2>5. old \in LeaseType
    BY <1>0, <2>4, NothingTyped DEF PresenceTypeOK
  <2>6. key \in BOOLEAN /\ f.seq \in Nat
    BY <2>3, <2>4 DEF SocketType, FrameType
  <2> HIDE DEF f, s, old, key
  <2>7. usage' \in UsageType /\ usage'.conns = usage.conns
    <3>1. Cardinality(slow) \in Nat
      <4>1. slow \subseteq Conns
        BY DEF Open
      <4>2. IsFiniteSet(Conns)
        BY PresenceSizes, FS_Interval DEF Conns
      <4> QED BY <4>1, <4>2, FS_Subset, FS_CardinalityType
    <3> DEFINE n == Cardinality(slow)
    <3>2. n \in Nat /\ usage' = [usage EXCEPT !.lost = @ + n]
      BY <2>1, <3>1
    <3> HIDE DEF n
    <3>3. usage.lost + n \in Nat
      BY <1>0, <3>2 DEF PresenceTypeOK, UsageType
    <3> QED BY <1>0, <3>2, <3>3 DEF PresenceTypeOK, UsageType
  <2>8. /\ sockets' \in [Conns -> SocketType]
        /\ \A d \in Conns : sockets'[d].open = sockets[d].open
    <3> DEFINE a == [sockets[c] EXCEPT !.bound = TRUE, !.seq = f.seq, !.key = key]
    <3>1. a \in SocketType /\ a.open = sockets[c].open
      BY <2>4, <2>6 DEF SocketType
    <3>2. \A d \in Conns : [sockets[d] EXCEPT !.bound = FALSE, !.key = FALSE] \in SocketType
                           /\ [sockets[d] EXCEPT !.bound = FALSE, !.key = FALSE].open = sockets[d].open
      BY <1>0 DEF PresenceTypeOK, SocketType
    <3>3. ASSUME NEW d \in Conns
          PROVE sockets'[d] \in SocketType /\ sockets'[d].open = sockets[d].open
      <4>1. CASE d = c
        <5>1. sockets'[d] = a
          BY <2>1, <4>1
        <5> HIDE DEF a
        <5> QED BY <3>1, <4>1, <5>1
      <4>2. CASE d # c /\ d = old.conn
        <5>1. sockets'[d] = [sockets[d] EXCEPT !.bound = FALSE, !.key = FALSE]
          BY <2>1, <4>2
        <5> QED BY <3>2, <5>1
      <4>3. CASE d # c /\ d # old.conn
        <5>1. sockets'[d] = sockets[d]
          BY <2>1, <4>3
        <5> QED BY <1>0, <5>1 DEF PresenceTypeOK
      <4> QED BY <4>1, <4>2, <4>3
    <3>4. sockets' = [d \in Conns |-> sockets'[d]]
      BY <2>1
    <3> QED BY <3>3, <3>4
  <2>9. lease' \in [Sites -> LeaseType]
    <3> DEFINE l == [conn |-> c, seq |-> f.seq, key |-> key]
    <3>1. l \in LeaseType
      BY <2>6, PresenceSizes DEF LeaseType, Conns
    <3>2. lease' = [lease EXCEPT ![s] = l]
      BY <2>1
    <3> HIDE DEF l
    <3> QED BY <1>0, <3>1, <3>2 DEF PresenceTypeOK
  <2>10. retired' \in SUBSET Conns /\ retired \subseteq retired'
    <3>1. old.conn \in Conns \/ old.conn = 0
      BY <2>5, PresenceSizes DEF LeaseType, Conns
    <3> QED BY <1>0, <2>1, <3>1 DEF PresenceTypeOK
  <2>11. UNCHANGED <<presenceTab, store, buried>>
    BY <1>1 DEF client
  <2>12. ASSUME NEW d \in Conns
         PROVE /\ down'[d] \in Seq(FrameType) /\ FinalInOrder(down'[d], retired')
               /\ \A i \in retired : NotShown(down[d], i) => NotShown(down'[d], i)
    <3> DEFINE q == down[d]
               p == down'[d]
    <3>1. q \in Seq(FrameType) /\ FinalInOrder(q, retired)
      BY <1>0 DEF PresenceTypeOK, PresenceInv, FinalsLast
    <3>2. CASE d \notin Open
      <4>1. p = q
        BY <2>1, <3>2 DEF Sent
      <4> QED BY <2>10, <3>1, <4>1, InOrderMore
    <3>3. CASE d \in Open /\ old.conn \in {0, c}
      <4>1. p = q \o (<<>> \o (IF d = c \/ d \in slow THEN <<>> ELSE <<f>>))
        BY <2>1, <3>3 DEF Sent, Relayed
      <4>2. p \in {q, Append(q, f)}
        BY <2>3, <3>1, <4>1, JoinsAppend
      <4>3. \A k \in 1..Len(q) : q[k].final => q[k].inst # f.inst
        BY <2>2, <2>3, <3>1 DEF FinalInOrder
      <4>4. Append(q, f) \in Seq(FrameType) /\ FinalInOrder(Append(q, f), retired')
        BY <2>3, <2>10, <3>1, <4>3, InOrderMore, InOrderAppend
      <4>5. \A i \in retired : NotShown(q, i) => NotShown(Append(q, f), i)
        BY <2>2, <2>3, <3>1, AppendNotShown
      <4>6. FinalInOrder(q, retired')
        BY <2>10, <3>1, InOrderMore
      <4> HIDE DEF q, p
      <4> QED BY <3>1, <4>2, <4>4, <4>5, <4>6 DEF q, p
    <3>4. CASE d \in Open /\ old.conn \notin {0, c}
      <4> DEFINE x == Retirement(old)
      <4>1. x \in FrameType /\ x.inst = old.conn /\ x.entry # "up"
        <5>1. old.conn \in Conns /\ old.seq + 1 \in Nat
          BY <2>5, <3>4, PresenceSizes DEF LeaseType, Conns
        <5> QED BY <5>1 DEF Retirement, FrameType
      <4>2. x.inst \in retired' /\ x.inst # f.inst
        BY <2>1, <2>3, <3>4, <4>1
      <4>3. p = q \o ((IF old.conn \in {0, c, d} THEN <<>> ELSE <<x>>)
                      \o (IF d = c \/ d \in slow THEN <<>> ELSE <<f>>))
        BY <2>1, <3>4 DEF Sent, Relayed
      <4> HIDE DEF x
      <4>4. p \in {q, Append(q, x), Append(q, f), Append(Append(q, x), f)}
        <5>1. CASE old.conn = d
          <6>1. p = q \o (<<>> \o (IF d = c \/ d \in slow THEN <<>> ELSE <<f>>))
            BY <4>3, <5>1
          <6> QED BY <2>3, <3>1, <4>1, <6>1, JoinsAppend
        <5>2. CASE old.conn # d
          <6>1. p = q \o (<<x>> \o (IF d = c \/ d \in slow THEN <<>> ELSE <<f>>))
            BY <3>4, <4>3, <5>2
          <6>2. /\ q \o (<<x>> \o <<>>) = Append(q, x)
                /\ q \o (<<x>> \o <<f>>) = Append(Append(q, x), f)
            BY <2>3, <3>1, <4>1, JoinsAppend
          <6> QED BY <6>1, <6>2
        <5> QED BY <5>1, <5>2
      <4> HIDE DEF q, p
      <4>5. f.inst \notin retired
        BY <2>2, <2>3
      <4>6. /\ p \in Seq(FrameType) /\ FinalInOrder(p, retired')
            /\ \A i \in retired : NotShown(q, i) => NotShown(p, i)
        <5> DEFINE more == retired'
        <5>1. retired \subseteq more /\ x.inst \in more
          BY <2>10, <4>2
        <5> HIDE DEF more
        <5>2. /\ Relays(q, q, retired, more) /\ Relays(Append(q, x), q, retired, more)
              /\ Relays(Append(q, f), q, retired, more)
              /\ Relays(Append(Append(q, x), f), q, retired, more)
          <6>1. q \in Seq(FrameType) /\ FinalInOrder(q, retired)
            BY <3>1
          <6>2. f \in FrameType /\ ~f.final /\ f.inst \notin retired
            BY <2>3, <4>5
          <6>3. x \in FrameType /\ x.inst \in more /\ x.inst # f.inst /\ x.entry # "up"
            BY <4>1, <4>2, <5>1
          <6>4. retired \subseteq more
            BY <5>1
          <6> QED BY <6>1, <6>2, <6>3, <6>4, RelayInOrder
        <5> QED BY <4>4, <5>2 DEF more, Relays
      <4> QED BY <4>6 DEF q, p
    <3> QED BY <3>2, <3>3, <3>4
  <2>13. down' \in [Conns -> Seq(FrameType)]
    <3>1. down' = [d \in Conns |-> down'[d]]
      BY <2>1 DEF Sent
    <3> QED BY <2>12, <3>1
  <2>14. PresenceTypeOK'
    BY <1>0, <2>3, <2>7, <2>8, <2>9, <2>10, <2>11, <2>13 DEF PresenceTypeOK
  <2>15. Unopened'
    <3> SUFFICES ASSUME NEW d \in Conns, d > usage.conns PROVE down'[d] = <<>> /\ ~sockets'[d].open
      BY <2>7 DEF Unopened
    <3>1. down[d] = <<>> /\ ~sockets[d].open
      BY DEF PresenceInv, Unopened
    <3>2. d \notin Open
      BY <3>1 DEF Open
    <3> QED BY <2>1, <2>8, <3>1, <3>2 DEF Sent
  <2>16. FinalsLast'
    BY <2>12 DEF FinalsLast
  <2>17. BuriedForGood'
    <3> SUFFICES ASSUME NEW u \in PresenceTabs, NEW i \in buried[u]
                 PROVE /\ i \in retired'
                       /\ presenceTab[u].conn # 0 => NotShown(down'[presenceTab[u].conn], i)
      BY <2>11 DEF BuriedForGood, NotShown
    <3>1. i \in retired /\ (presenceTab[u].conn # 0 => NotShown(down[presenceTab[u].conn], i))
      BY DEF PresenceInv, BuriedForGood, NotShown
    <3>2. presenceTab[u].conn # 0 => presenceTab[u].conn \in Conns
      BY <1>0, PresenceSizes DEF PresenceTypeOK, PageType, Conns
    <3> QED BY <2>10, <2>12, <3>1, <3>2
  <2> QED BY <2>3, <2>14, <2>15, <2>16, <2>17 DEF PresenceInv
<1> QED BY <1>2, <1>3

LEMMA TickStep == ASSUME PresenceInv, Tick PROVE PresenceInv'
<1>0. PresenceTypeOK
  BY DEF PresenceInv
<1>1. UNCHANGED <<down, sockets, lease, retired, buried>>
  BY DEF Tick, room
<1>2. usage.ticks + 1 \in Nat /\ usage' = [usage EXCEPT !.ticks = @ + 1]
  BY <1>0 DEF Tick, PresenceTypeOK, UsageType
<1>3. usage' \in UsageType /\ usage'.conns = usage.conns
  BY <1>0, <1>2 DEF PresenceTypeOK, UsageType
<1>4. store' \in [PresenceTabs -> [Sites -> EntryType]]
  <2>1. ASSUME NEW t \in PresenceTabs, NEW s \in Sites
        PROVE (IF s = Site[t] /\ t \in Beating THEN Own(t, "up")
               ELSE IF store[t][s].state = "absent" THEN Absent
               ELSE [store[t][s] EXCEPT !.age = @ + 1]) \in EntryType
    <3>1. Own(t, "up") \in EntryType /\ Absent \in EntryType
      BY <1>0, OwnTyped, NothingTyped
    <3>2. store[t][s] \in EntryType /\ store[t][s].age + 1 \in Nat
      BY <1>0 DEF PresenceTypeOK, EntryType
    <3>3. [store[t][s] EXCEPT !.age = @ + 1] \in EntryType
      BY <3>2 DEF EntryType
    <3> QED BY <3>1, <3>3
  <2> QED BY <2>1 DEF Tick
<1>5. /\ presenceTab' \in [PresenceTabs -> PageType]
      /\ \A t \in PresenceTabs : presenceTab'[t].conn = presenceTab[t].conn
  <2>1. ASSUME NEW t \in PresenceTabs
        PROVE /\ [presenceTab[t] EXCEPT !.seq = @ + 1] \in PageType
              /\ [presenceTab[t] EXCEPT !.seq = @ + 1].conn = presenceTab[t].conn
              /\ presenceTab[t] \in PageType
    <3>1. presenceTab[t] \in PageType /\ presenceTab[t].seq + 1 \in Nat
      BY <1>0 DEF PresenceTypeOK, PageType
    <3> QED BY <3>1 DEF PageType
  <2> QED BY <2>1 DEF Tick
<1>6. up' \in [Conns -> Seq(FrameType)] /\ OwnFrames'
  <2>1. ASSUME NEW c \in Conns
        PROVE up'[c] \in Seq(FrameType) /\ \A k \in 1..Len(up'[c]) : up'[c][k].inst = c /\ ~up'[c][k].final
    <3> DEFINE f == Frame(c, presenceTab[sockets[c].owner].seq + 1, "up")
               q == <<f>>
    <3>1. CASE \E t \in Beating : presenceTab[t].conn = c
      <4>1. sockets[c].owner \in PresenceTabs
        BY <1>0 DEF PresenceTypeOK, SocketType
      <4>2. presenceTab[sockets[c].owner].seq + 1 \in Nat
        BY <1>0, <4>1 DEF PresenceTypeOK, PageType
      <4>3. f \in FrameType /\ f.inst = c /\ ~f.final
        BY <4>2, FrameTyped
      <4>4. up'[c] = q
        BY <3>1 DEF Tick
      <4> HIDE DEF f
      <4>5. q \in Seq(FrameType) /\ Len(q) = 1 /\ q[1] = f
        BY <4>3
      <4> HIDE DEF q
      <4>6. \A k \in 1..Len(q) : k = 1
        BY <4>5
      <4> QED BY <4>3, <4>4, <4>5, <4>6
    <3>2. CASE ~\E t \in Beating : presenceTab[t].conn = c
      <4>1. up'[c] = up[c]
        BY <3>2 DEF Tick
      <4> QED BY <1>0, <4>1 DEF PresenceTypeOK, PresenceInv, OwnFrames
    <3> QED BY <3>1, <3>2
  <2>2. up' = [c \in Conns |-> up'[c]]
    BY DEF Tick
  <2> QED BY <2>1, <2>2 DEF OwnFrames
<1>7. PresenceTypeOK'
  BY <1>0, <1>1, <1>3, <1>4, <1>5, <1>6 DEF PresenceTypeOK
<1> QED BY <1>1, <1>3, <1>5, <1>6, <1>7, SameQueues, SameSockets DEF PresenceInv

LEMMA PresenceStutter == ASSUME PresenceInv, UNCHANGED presenceVars PROVE PresenceInv'
BY DEF PresenceInv, presenceVars, PresenceTypeOK, OwnFrames, Unopened, FinalsLast, BuriedForGood

\* The two halves of the room's retirement: a retired instance sends nothing more,
\* and nothing that shows it follows its retirement on any socket.
THEOREM PresenceInvariant == PresenceSpec => []PresenceInv
<1>1. PresenceInit => PresenceInv
  BY PresenceInitInv
<1>2. PresenceInv /\ [PresenceNext]_presenceVars => PresenceInv'
  <2> SUFFICES ASSUME PresenceInv, [PresenceNext]_presenceVars PROVE PresenceInv'
    OBVIOUS
  <2>1. CASE Tick
    BY <2>1, TickStep
  <2>2. ASSUME NEW t \in PresenceTabs,
               Connect(t) \/ Activity(t) \/ GoInactive(t) \/ HandlePageHide(t)
                 \/ LoseSocket(t) \/ Receive(t) \/ Sweep(t)
        PROVE PresenceInv'
    BY <2>2, ConnectStep, ActivityStep, GoInactiveStep, HidePageStep, LoseSocketStep,
       ReceiveStep, SweepStep
  <2>3. ASSUME NEW c \in Conns, ClientPresence(c) \/ RateLimited(c) \/ Leave(c)
        PROVE PresenceInv'
    BY <2>3, ClientPresenceStep, RateLimitedStep, LeaveStep
  <2>4. CASE UNCHANGED presenceVars
    BY <2>4, PresenceStutter
  <2> QED BY <2>1, <2>2, <2>3, <2>4 DEF PresenceNext
<1> QED BY <1>1, <1>2, PTL DEF PresenceSpec

-----------------------------------------------------------------------------
\* What one step may do to an entry.
NotRevived(t, s) ==
  LET e == store'[t][s] IN
  (e.state = "up" /\ ~e.local /\ e.inst \in buried[t])
    => store[t][s].state = "up" /\ store[t][s].inst = e.inst /\ store[t][s].age <= e.age

\* An entry that stays, is the page's own or is not up revives nothing.
LEMMA PlainEntry ==
  ASSUME PresenceTypeOK, NEW t \in PresenceTabs, NEW s \in Sites,
         \/ store'[t][s] = store[t][s]
         \/ store'[t][s].local
         \/ store'[t][s].state # "up"
  PROVE NotRevived(t, s)
BY DEF NotRevived, PresenceTypeOK, EntryType

LEMMA ClearedPlain ==
  ASSUME PresenceTypeOK, NEW u \in PresenceTabs, NEW t \in PresenceTabs, NEW s \in Sites,
         store' = ClearedStore(u)
  PROVE NotRevived(t, s)
<1> DEFINE o == Own(u, "deleted")
<1>1. o \in EntryType /\ o.local /\ Site[u] \in Sites
  BY OwnTyped, PresenceSizes
<1> HIDE DEF o
<1>2. CASE Deletes(u)
  <2>1. store' = [store EXCEPT ![u][Site[u]] = o]
    BY <1>2 DEF ClearedStore, o
  <2>2. store'[t][s] = IF t = u /\ s = Site[u] THEN o ELSE store[t][s]
    BY <1>1, <2>1, StoreSet
  <2> QED BY <1>1, <2>2, PlainEntry
<1>3. CASE ~Deletes(u)
  <2>1. store' = store
    BY <1>3 DEF ClearedStore
  <2> QED BY <2>1, PlainEntry
<1> QED BY <1>2, <1>3

LEMMA PagePlain ==
  ASSUME PresenceTypeOK, NEW u \in PresenceTabs, NEW t \in PresenceTabs, NEW s \in Sites,
         Connect(u) \/ Activity(u) \/ GoInactive(u) \/ HandlePageHide(u) \/ LoseSocket(u) \/ Sweep(u)
  PROVE NotRevived(t, s)
<1>1. CASE Connect(u)
  <2> DEFINE e == store[u][Site[u]]
             own == IF e.local THEN [e EXCEPT !.inst = usage.conns + 1] ELSE e
  <2>1. store' = [store EXCEPT ![u][Site[u]] = own]
    BY <1>1 DEF Connect
  <2>2. e \in EntryType /\ Site[u] \in Sites /\ usage.conns + 1 \in Nat
    BY PresenceSizes DEF PresenceTypeOK, UsageType
  <2>3. own \in EntryType /\ (own = e \/ own.local)
    BY <2>2 DEF EntryType
  <2> HIDE DEF own
  <2>4. store'[t][s] = IF t = u /\ s = Site[u] THEN own ELSE store[t][s]
    BY <2>1, <2>2, <2>3, StoreSet
  <2> QED BY <2>3, <2>4, PlainEntry
<1>2. CASE Activity(u)
  <2> DEFINE o == Own(u, "up")
  <2>1. o \in EntryType /\ o.local /\ Site[u] \in Sites
    BY OwnTyped, PresenceSizes
  <2>2. store' = [store EXCEPT ![u][Site[u]] = o]
    BY <1>2 DEF Activity
  <2> HIDE DEF o
  <2>3. store'[t][s] = IF t = u /\ s = Site[u] THEN o ELSE store[t][s]
    BY <2>1, <2>2, StoreSet
  <2> QED BY <2>1, <2>3, PlainEntry
<1>3. CASE GoInactive(u) \/ HandlePageHide(u)
  BY <1>3, ClearedPlain DEF GoInactive, HandlePageHide
<1>4. CASE LoseSocket(u)
  BY <1>4, PlainEntry DEF LoseSocket
<1>5. CASE Sweep(u)
  <2>1. store' = [store EXCEPT ![u] = [r \in Sites |-> IF Expired(store[u][r]) THEN Absent ELSE store[u][r]]]
    BY <1>5 DEF Sweep, PresenceTypeOK
  <2>2. store'[t][s] = store[t][s] \/ store'[t][s] = Absent
    BY <2>1 DEF PresenceTypeOK
  <2>3. Absent.state # "up"
    BY DEF Absent
  <2> QED BY <2>2, <2>3, PlainEntry
<1> QED BY <1>1, <1>2, <1>3, <1>4, <1>5

LEMMA TickKeeps ==
  ASSUME PresenceTypeOK, NEW t \in PresenceTabs, NEW s \in Sites, Tick
  PROVE NotRevived(t, s)
<1>1. store'[t][s] = IF s = Site[t] /\ t \in Beating THEN Own(t, "up")
                     ELSE IF store[t][s].state = "absent" THEN Absent
                     ELSE [store[t][s] EXCEPT !.age = @ + 1]
  BY DEF Tick
<1>2. Own(t, "up").local /\ Absent.state # "up"
  BY OwnTyped DEF Absent
<1>3. CASE store'[t][s] = Own(t, "up") \/ store'[t][s] = Absent
  BY <1>2, <1>3, PlainEntry
<1>4. CASE store'[t][s] = [store[t][s] EXCEPT !.age = @ + 1]
  <2>1. store[t][s] \in EntryType
    BY DEF PresenceTypeOK
  <2> QED BY <1>4, <2>1 DEF NotRevived, EntryType
<1> QED BY <1>1, <1>3, <1>4

LEMMA ReceiveKeeps ==
  ASSUME PresenceInv, NEW u \in PresenceTabs, Receive(u), NEW t \in PresenceTabs, NEW s \in Sites
  PROVE NotRevived(t, s)
<1> DEFINE c == presenceTab[u].conn
           q == down[c]
           f == Head(q)
           r == Site[sockets[f.inst].owner]
           e == Applied(u, f, store[u][r])
<1>0. PresenceTypeOK
  BY DEF PresenceInv
<1>1. c \in Conns /\ q # <<>> /\ c # 0
  <2>1. c # 0 /\ q # <<>>
    BY DEF Receive, Connected
  <2>2. presenceTab[u] \in PageType
    BY <1>0 DEF PresenceTypeOK
  <2>3. c \in 0..MaxConns
    BY <2>2 DEF PageType
  <2> HIDE DEF c, q
  <2> QED BY <2>1, <2>3, PresenceSizes DEF Conns
<1>2. q \in Seq(FrameType) /\ f \in FrameType /\ f = q[1] /\ 1 \in 1..Len(q)
  BY <1>0, <1>1, HeadTailProperties DEF PresenceTypeOK
<1>3. r \in Sites
  BY <1>0, <1>2, PresenceSizes DEF PresenceTypeOK, FrameType, SocketType
<1>4. store' = [store EXCEPT ![u][r] = e]
  BY <1>0, <1>3 DEF Receive, PresenceTypeOK
<1>5. e \in EntryType
  BY <1>0, <1>2, <1>3, AppliedTyped DEF PresenceTypeOK
<1>6. f.inst \in buried[u] => f.entry # "up"
  BY <1>1, <1>2 DEF PresenceInv, BuriedForGood
<1>7. \/ e = store[u][r]
      \/ e.state # "up"
      \/ f.entry = "up" /\ e.inst = f.inst
  BY <1>2 DEF Applied, FrameType
<1> HIDE DEF e, f, q, c, r
<1>8. store'[t][s] = IF t = u /\ s = r THEN e ELSE store[t][s]
  BY <1>0, <1>3, <1>4, <1>5, StoreSet
<1>9. CASE t = u /\ s = r /\ f.entry = "up" /\ e.inst = f.inst
  BY <1>6, <1>8, <1>9 DEF NotRevived
<1> QED BY <1>0, <1>7, <1>8, <1>9, PlainEntry

\* A page never shows anew an instance whose retirement it applied: the frames
\* of a retired instance are dropped by the room, and those already on their way
\* come before its retirement (retired_presence, client_presence).
THEOREM RetiredStaysBuried == PresenceSpec => RetiredStaysGone
<1>1. PresenceInv /\ PresenceNext => \A t \in PresenceTabs, s \in Sites : NotRevived(t, s)
  <2> SUFFICES ASSUME PresenceInv, PresenceNext, NEW t \in PresenceTabs, NEW s \in Sites
               PROVE NotRevived(t, s)
    OBVIOUS
  <2>0. PresenceTypeOK
    BY DEF PresenceInv
  <2>1. CASE Tick
    BY <2>0, <2>1, TickKeeps
  <2>2. ASSUME NEW u \in PresenceTabs,
               Connect(u) \/ Activity(u) \/ GoInactive(u) \/ HandlePageHide(u)
                 \/ LoseSocket(u) \/ Receive(u) \/ Sweep(u)
        PROVE NotRevived(t, s)
    <3>1. CASE Receive(u)
      BY <3>1, ReceiveKeeps
    <3>2. CASE ~Receive(u)
      BY <2>0, <2>2, <3>2, PagePlain
    <3> QED BY <3>1, <3>2
  <2>3. ASSUME NEW c \in Conns, ClientPresence(c) \/ RateLimited(c) \/ Leave(c)
        PROVE NotRevived(t, s)
    <3>1. store' = store
      BY <2>3 DEF ClientPresence, RateLimited, Leave, client
    <3> QED BY <2>0, <3>1, PlainEntry
  <2> QED BY <2>1, <2>2, <2>3 DEF PresenceNext
<1>2. PresenceInv /\ [PresenceNext]_presenceVars
        => [\A t \in PresenceTabs, s \in Sites : NotRevived(t, s)]_presenceVars
  BY <1>1
<1>3. PresenceSpec => [][\A t \in PresenceTabs, s \in Sites : NotRevived(t, s)]_presenceVars
  BY <1>2, PresenceInvariant, PTL DEF PresenceSpec
<1> QED BY <1>3 DEF RetiredStaysGone, NotRevived
=============================================================================
