----------------------------- MODULE Connection -----------------------------
(***************************************************************************)
(* The transport of one document session (EsbtEngine): admission, sockets, *)
(* deadlines, reconnection, the grace after an authority change and the    *)
(* two final states.  Sockets and admissions carry numbers because events  *)
(* of abandoned ones still arrive.  A timer is present or absent; the      *)
(* environment decides which present timer fires first.                    *)
(***************************************************************************)
EXTENDS Naturals, Sequences, FiniteSets

CONSTANTS
  MaxSockets, MaxAdmissions,  \* bounds on constructed sockets and admissions
  MaxToggles                  \* how often the page goes offline or is hidden

ASSUME ConnectionAssumption == {MaxSockets, MaxAdmissions, MaxToggles} \subseteq Nat

VARIABLES
  phase,      \* live, terminal (destroyed) or fatal (storageFatal)
  page,       \* shown, hidden by pagehide, or returned from it
  online,     \* what the browser reports
  sock,       \* the current socket's number, 0 for none
  wire,       \* state of every socket constructed so far
  asked,      \* sockets close() was called on
  synced,     \* serverSynced
  work,       \* mutations are waiting for their receipt
  adm,        \* the current admission's number, 0 for none
  asking,     \* admissions without an answer
  nadm,       \* admissions started
  role,       \* the permission role: none, or the epoch it was granted under
  epoch,      \* the document's authority epoch at the server
  deadline, errclose, reconnect, grace,  \* timers: a socket number or a flag
  toggles

vars == <<phase, page, online, sock, wire, asked, synced, work, adm, asking, nadm,
          role, epoch, deadline, errclose, reconnect, grace, toggles>>
net == <<sock, wire, asked, synced, deadline, errclose>>
admission == <<adm, asking, nadm>>
env == <<page, online, toggles>>

NoRole == 0
Sockets == DOMAIN wire

Init ==
  /\ phase = "live" /\ page = "shown" /\ online = TRUE
  /\ sock = 0 /\ wire = <<>> /\ asked = {} /\ synced = FALSE /\ work = FALSE
  /\ adm = 0 /\ asking = {} /\ nadm = 0
  /\ role = NoRole /\ epoch = 1
  /\ deadline = 0 /\ errclose = 0 /\ reconnect = TRUE /\ grace = FALSE
  /\ toggles = 0

------------------------------------------------------------------------------
\* connect: one socket or one admission at a time.
CanConnect == phase = "live" /\ sock = 0 /\ adm = 0 /\ nadm < MaxAdmissions

Admit == /\ adm' = nadm + 1 /\ nadm' = nadm + 1 /\ asking' = asking \cup {nadm + 1}

ConnectNow ==
  IF CanConnect THEN Admit ELSE UNCHANGED admission

\* scheduleReconnect and its timer.
ReconnectTimer ==
  /\ reconnect /\ phase = "live" /\ page # "hidden"
  /\ nadm < MaxAdmissions
  /\ reconnect' = FALSE
  /\ ConnectNow
  /\ UNCHANGED <<phase, net, work, role, epoch, grace, env>>

\* enterTerminalRecovery: destroyed, every timer and the socket let go.
EnterTerminal ==
  /\ phase' = "terminal" /\ role' = NoRole /\ synced' = FALSE
  /\ adm' = 0 /\ grace' = FALSE /\ errclose' = 0 /\ deadline' = 0 /\ reconnect' = FALSE
  /\ sock' = 0 /\ asked' = IF sock = 0 THEN asked ELSE asked \cup {sock}
  /\ UNCHANGED <<asking, nadm, wire>>

\* recordStorageError, fatal: the same for the transport.
StorageFails ==
  /\ phase = "live" /\ work
  /\ phase' = "fatal" /\ synced' = FALSE
  /\ adm' = 0 /\ grace' = FALSE /\ errclose' = 0 /\ deadline' = 0 /\ reconnect' = FALSE
  /\ sock' = 0 /\ asked' = IF sock = 0 THEN asked ELSE asked \cup {sock}
  /\ UNCHANGED <<asking, nadm, wire, role, work, epoch, env>>

\* Mutant: the handshake has no deadline.
OpenSocketUnarmed(g) ==
  /\ sock' = g /\ wire' = Append(wire, "connecting")
  /\ synced' = FALSE /\ UNCHANGED <<asked, errclose, deadline>>

\* openSocket: a new socket with the handshake deadline.
OpenSocket(g) ==
  /\ sock' = g /\ wire' = Append(wire, "connecting")
  /\ synced' = FALSE /\ deadline' = g /\ UNCHANGED <<asked, errclose>>

\* admit answers with a ticket of the current epoch.  An answer to an
\* abandoned admission is dropped.
Admitted(n) ==
  /\ n \in asking /\ Len(wire) < MaxSockets /\ online
  /\ asking' = asking \ {n}
  /\ IF phase = "live" /\ adm = n
     THEN /\ adm' = 0 /\ grace' = FALSE /\ role' = epoch
          /\ OpenSocket(Len(wire) + 1)
     ELSE UNCHANGED <<adm, grace, role, net>>
  /\ UNCHANGED <<phase, nadm, work, epoch, reconnect, env>>

\* The admission fails: a timeout, a retryable status, or a denial.
AdmissionFails(n, retryable) ==
  /\ n \in asking
  /\ asking' = asking \ {n}
  /\ IF phase # "live" \/ adm # n
     THEN UNCHANGED <<phase, adm, nadm, role, net, grace, reconnect>>
     ELSE IF retryable \/ grace
     THEN /\ adm' = 0 /\ reconnect' = TRUE
          /\ UNCHANGED <<phase, nadm, role, net, grace>>
     ELSE /\ phase' = "terminal" /\ role' = NoRole /\ adm' = 0 /\ grace' = FALSE
          /\ reconnect' = FALSE
          /\ UNCHANGED <<nadm, net>>
  /\ UNCHANGED <<work, epoch, env>>

\* expireAuthorityChangeGrace.
GraceExpires ==
  /\ grace /\ phase = "live" /\ page # "hidden"
  /\ EnterTerminal
  /\ UNCHANGED <<work, epoch, env>>

------------------------------------------------------------------------------
\* Events of a socket g, ignored unless it is the current one.
Opens(g) ==
  /\ g \in Sockets /\ wire[g] = "connecting" /\ g \notin asked /\ online
  /\ wire' = [wire EXCEPT ![g] = "open"]
  /\ deadline' = IF sock = g /\ phase = "live" THEN g ELSE deadline
  /\ UNCHANGED <<phase, sock, asked, synced, work, admission, role, epoch, errclose,
                 reconnect, grace, env>>

\* MSG_SYNCED clears the deadline; pending mutations are sent and arm it again.
Synced(g) ==
  /\ g = sock /\ g # 0 /\ wire[g] = "open" /\ ~synced /\ phase = "live" /\ online
  /\ synced' = TRUE
  /\ deadline' = IF work THEN g ELSE 0
  /\ UNCHANGED <<phase, sock, wire, asked, work, admission, role, epoch, errclose,
                 reconnect, grace, env>>

\* An edit: journaled, and sent with the commit deadline if the socket is synced.
Work ==
  /\ phase = "live" /\ role # NoRole /\ ~work
  /\ work' = TRUE
  /\ deadline' = IF synced /\ sock # 0 THEN sock ELSE deadline
  /\ UNCHANGED <<phase, sock, wire, asked, synced, admission, role, epoch, errclose,
                 reconnect, grace, env>>

\* COMMITTED for the last pending mutation clears the deadline.
Committed ==
  /\ phase = "live" /\ work /\ synced /\ sock # 0 /\ online
  /\ work' = FALSE /\ deadline' = 0
  /\ UNCHANGED <<phase, sock, wire, asked, synced, admission, role, epoch, errclose,
                 reconnect, grace, env>>

Detached(g) ==
  /\ sock' = 0 /\ synced' = FALSE
  /\ deadline' = IF deadline = g THEN 0 ELSE deadline
  /\ errclose' = IF errclose = g THEN 0 ELSE errclose

\* onDisconnect by close code: rejected work and deletion are final, a change
\* of authority withdraws the role and admits at once, all else retries.
Disconnect(g, code) ==
  /\ IF sock # g THEN UNCHANGED <<phase, sock, synced, deadline, errclose, admission, role,
                                  grace, reconnect>>
     ELSE IF code = "final"
     THEN /\ phase' = "terminal" /\ role' = NoRole
          /\ adm' = 0 /\ grace' = FALSE /\ reconnect' = FALSE
          /\ sock' = 0 /\ synced' = FALSE /\ deadline' = 0 /\ errclose' = 0
          /\ UNCHANGED <<asking, nadm>>
     ELSE IF code = "authority"
     THEN /\ Detached(g) /\ role' = NoRole /\ grace' = TRUE
          /\ IF adm = 0 /\ nadm < MaxAdmissions THEN Admit ELSE UNCHANGED admission
          /\ UNCHANGED <<phase, reconnect>>
     ELSE /\ Detached(g) /\ reconnect' = TRUE
          /\ UNCHANGED <<phase, admission, role, grace>>

\* A share, promotion or revocation: every socket will be closed for it.
AuthorityChanges ==
  /\ epoch < MaxSockets
  /\ epoch' = epoch + 1
  /\ wire' = [g \in Sockets |-> IF wire[g] \in {"connecting", "open"} THEN "revoked" ELSE wire[g]]
  /\ UNCHANGED <<phase, sock, asked, synced, work, admission, role, deadline, errclose,
                 reconnect, grace, env>>

\* The room or the network closes a socket.
Closes(g, code) ==
  /\ g \in Sockets /\ wire[g] # "closed"
  /\ code # "none" => nadm < MaxAdmissions
  /\ code = "authority" => wire[g] = "revoked"
  /\ code = "final" => wire[g] \in {"open", "revoked"}
  /\ wire' = [wire EXCEPT ![g] = "closed"]
  /\ IF phase = "live" THEN Disconnect(g, code)
     ELSE UNCHANGED <<phase, sock, synced, deadline, errclose, admission, role, grace, reconnect>>
  /\ UNCHANGED <<asked, work, epoch, env>>

\* armSocketDeadline: no progress, so the socket is detached and closed.
DeadlineFires ==
  /\ deadline # 0 /\ deadline = sock /\ phase = "live" /\ page # "hidden"
  /\ asked' = asked \cup {sock}
  /\ Detached(sock) /\ reconnect' = TRUE
  /\ UNCHANGED <<phase, wire, work, admission, role, epoch, grace, env>>

\* onSocketError: close, and a second timer in case no close event follows.
SocketError ==
  /\ sock # 0 /\ phase = "live" /\ errclose # sock
  /\ errclose' = sock /\ asked' = asked \cup {sock}
  /\ UNCHANGED <<phase, sock, wire, synced, work, admission, role, epoch, deadline,
                 reconnect, grace, env>>

ErrorCloseFires ==
  /\ errclose # 0 /\ errclose = sock /\ phase = "live" /\ page # "hidden"
  /\ Detached(sock) /\ reconnect' = TRUE
  /\ UNCHANGED <<phase, wire, asked, work, admission, role, epoch, grace, env>>

------------------------------------------------------------------------------
\* handleOffline aborts and detaches everything; handleOnline starts again.
GoOffline ==
  /\ online /\ page # "hidden" /\ toggles < MaxToggles
  /\ online' = FALSE /\ toggles' = toggles + 1
  /\ adm' = 0 /\ errclose' = 0 /\ reconnect' = FALSE
  /\ sock' = 0 /\ synced' = IF sock = 0 THEN synced ELSE FALSE
  /\ deadline' = IF deadline = sock THEN 0 ELSE deadline
  /\ asked' = IF sock = 0 THEN asked ELSE asked \cup {sock}
  /\ UNCHANGED <<phase, page, wire, work, asking, nadm, role, epoch, grace>>

GoOnline ==
  /\ ~online /\ page # "hidden" /\ nadm < MaxAdmissions
  /\ online' = TRUE
  /\ IF phase = "live" THEN reconnect' = FALSE /\ ConnectNow
     ELSE UNCHANGED <<reconnect, admission>>
  /\ UNCHANGED <<phase, page, toggles, net, work, role, epoch, grace>>

\* handlePageHide, for pagehide and beforeunload alike.
PageHide ==
  /\ page # "hidden" /\ phase = "live" /\ toggles < MaxToggles
  /\ page' = "hidden" /\ toggles' = toggles + 1
  /\ errclose' = 0 /\ deadline' = 0
  /\ sock' = 0 /\ asked' = IF sock = 0 THEN asked ELSE asked \cup {sock}
  /\ UNCHANGED <<phase, online, wire, synced, work, admission, role, epoch, reconnect, grace>>

\* The page is restored, or the navigation was called off: no handler runs.
PageShow ==
  /\ page = "hidden" /\ page' = "returned"
  /\ UNCHANGED <<phase, online, toggles, net, work, admission, role, epoch, reconnect, grace>>

------------------------------------------------------------------------------
SocketEvents == AuthorityChanges \/ \E g \in Sockets :
  \/ Opens(g) \/ Synced(g)
  \/ \E code \in {"none", "authority", "final"} : Closes(g, code)
AdmissionEvents == \E n \in asking : Admitted(n) \/ \E r \in BOOLEAN : AdmissionFails(n, r)
Timers == ReconnectTimer \/ GraceExpires \/ DeadlineFires \/ ErrorCloseFires

Next ==
  \/ SocketEvents \/ AdmissionEvents \/ Timers \/ Work \/ Committed \/ StorageFails
  \/ SocketError \/ GoOffline \/ GoOnline \/ PageHide \/ PageShow

Spec == Init /\ [][Next]_vars

------------------------------------------------------------------------------
(* Properties.                                                              *)

\* A live session with a network, on a page that was not hidden so far, is never
\* left without a next step: it has an admission, a reconnect timer, or a socket
\* that is synced and idle or watched by a deadline (connect, onDisconnect,
\* armSocketDeadline).
AlwaysProgressing ==
  phase = "live" /\ page = "shown" /\ online =>
    IF sock = 0 THEN adm # 0 \/ reconnect
    ELSE (synced /\ ~work) \/ sock \in {deadline, errclose}

\* Once a session is terminal or its storage failed, no late answer, socket
\* event or timer revives the transport.
FinalIsQuiet ==
  phase # "live" =>
    sock = 0 /\ adm = 0 /\ ~reconnect /\ ~grace /\ deadline = 0 /\ errclose = 0

\* Every socket the session no longer follows was closed by it or ended.
NoSocketLeaked ==
  \A g \in Sockets : wire[g] \in {"connecting", "open"} /\ g # sock => g \in asked

\* The transport of a session goes on while it is live, is silent once it is
\* over, and follows every socket it opened to its end (connect, onDisconnect,
\* disconnect, enterTerminal).
TransportSound == AlwaysProgressing /\ FinalIsQuiet /\ NoSocketLeaked
==============================================================================
