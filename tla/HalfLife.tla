------------------------------ MODULE HalfLife ------------------------------
(***************************************************************************)
(* Context half-life and the intent horizon over the browser's possibility *)
(* store, which every tab of a document shares.  A tab scans its replica   *)
(* for aging claims some time after each change and reconciles the store   *)
(* with what it found; its studio shows the store as its last load read    *)
(* it; what a person chooses on a card is written back as the whole record *)
(* the card was drawn from.                                                *)
(***************************************************************************)
EXTENDS Integers, Sequences, FiniteSets

CONSTANTS
    Tabs,        \* tabs with the document and its studio open
    Claims,      \* claims the scan recognises in the text
    Explicit,    \* signals people add themselves
    Intents,     \* candidates inferred from the document
    ContextMax,  \* MAX_CONTEXT_PER_DOCUMENT
    IntentMax,   \* MAX_INTENTS_PER_DOCUMENT
    MaxEdits,    \* bound: edits of the text
    MaxChoices,  \* bound: buttons pressed in the studios
    MaxFailures  \* bound: loads the store rejects

HalfLifeAssumption ==
    {ContextMax, IntentMax, MaxEdits, MaxChoices, MaxFailures} \subseteq Nat

VARIABLES
    text,     \* the claims in the newest text
    doc,      \* the claims in each tab's replica
    timer,    \* a scan is scheduled in the tab
    scans,    \* what each tab found, on its way into the store
    store,    \* the context store: signal -> record or Absent
    horizon,  \* the intentions store: intent -> state
    view,     \* what each studio shows
    loads,    \* the loads in flight of each studio; `newest' is loadVersion's one
    notice,   \* a change message waits in the tab's channel
    broken,   \* the studio shows the empty view of a failed load
    edits, choices, failures  \* what the bounds count

vars == <<text, doc, timer, scans, store, horizon, view, loads, notice,
          broken, edits, choices, failures>>

Signals == Claims \cup Explicit
Absent == [here |-> FALSE]
Fresh == [here |-> TRUE, active |-> TRUE, dismissed |-> FALSE, reviewed |-> FALSE, ttl |-> 0]
Stored == {s \in Signals : store[s].here}

\* EMPTY_DATA.
Empty == [store |-> [s \in Signals |-> Absent], horizon |-> [i \in Intents |-> "none"]]

\* load: a new one outdates the ones before it.
Load == [newest |-> TRUE, read |-> FALSE, data |-> Empty]

StartLoad(t) ==
    loads' = [loads EXCEPT ![t] = {[l EXCEPT !.newest = FALSE] : l \in @} \cup {Load}]

\* emit: the tab's own studio starts a load, the others get a message.
Emit(t) ==
    /\ StartLoad(t)
    /\ notice' = [u \in Tabs |-> notice[u] \/ u # t]

Init ==
    /\ text = {} /\ doc = [t \in Tabs |-> {}]
    /\ timer = [t \in Tabs |-> TRUE] /\ scans = [t \in Tabs |-> <<>>]
    /\ store = Empty.store /\ horizon = Empty.horizon
    /\ view = [t \in Tabs |-> Empty]
    /\ loads = [t \in Tabs |-> {Load}]
    /\ notice = [t \in Tabs |-> FALSE] /\ broken = [t \in Tabs |-> FALSE]
    /\ edits = 0 /\ choices = 0 /\ failures = 0

----------------------------------------------------------------------------
(* The scan.                                                               *)

\* A claim is written or taken out in one tab; a change schedules a scan.
Edit(t, c, present) ==
    /\ edits < MaxEdits /\ (c \in text) # present
    /\ edits' = edits + 1
    /\ text' = IF present THEN text \cup {c} ELSE text \ {c}
    /\ doc' = [doc EXCEPT ![t] = IF present THEN @ \cup {c} ELSE @ \ {c}]
    /\ timer' = [timer EXCEPT ![t] = TRUE]
    /\ UNCHANGED <<scans, store, horizon, view, loads, notice, broken,
                   choices, failures>>

\* The replica of a tab catches up, which is a change there too.
Deliver(t) ==
    /\ doc[t] # text
    /\ doc' = [doc EXCEPT ![t] = text]
    /\ timer' = [timer EXCEPT ![t] = TRUE]
    /\ UNCHANGED <<text, scans, store, horizon, view, loads, notice, broken,
                   edits, choices, failures>>

\* The timer fires: deriveContextSignals reads the text of this moment.
Scan(t) ==
    /\ timer[t]
    /\ timer' = [timer EXCEPT ![t] = FALSE]
    /\ scans' = [scans EXCEPT ![t] = Append(@, doc[t])]
    /\ UNCHANGED <<text, doc, store, horizon, view, loads, notice, broken,
                   edits, choices, failures>>

\* A known signal is active again and keeps what a person chose; a new one is
\* put while there is room; one no longer found goes inactive and stays.
Reconciled(found, admitted) ==
    [s \in Signals |->
        IF s \in found /\ store[s].here THEN [store[s] EXCEPT !.active = TRUE]
        ELSE IF s \in admitted THEN Fresh
        ELSE IF s \in Stored \ Explicit THEN [store[s] EXCEPT !.active = FALSE]
        ELSE store[s]]

Reconcile(t) ==
    /\ scans[t] # <<>>
    /\ LET found == Head(scans[t])
           room == IF ContextMax > Cardinality(Stored) THEN ContextMax - Cardinality(Stored) ELSE 0
           new == found \ Stored
       IN  \E admitted \in SUBSET new :
               /\ Cardinality(admitted) = IF Cardinality(new) < room THEN Cardinality(new) ELSE room
               /\ store' = Reconciled(found, admitted)
    /\ scans' = [scans EXCEPT ![t] = Tail(@)]
    /\ Emit(t)
    /\ UNCHANGED <<text, doc, timer, horizon, view, broken, edits, choices, failures>>

----------------------------------------------------------------------------
(* The studio.                                                             *)

\* A message from another tab starts a load; a newer load outdates it.
Notified(t) ==
    /\ notice[t]
    /\ notice' = [notice EXCEPT ![t] = FALSE]
    /\ StartLoad(t)
    /\ UNCHANGED <<text, doc, timer, scans, store, horizon, view, broken, edits,
                   choices, failures>>

LoadRead(t, l) ==
    /\ l \in loads[t] /\ ~l.read
    /\ loads' = [loads EXCEPT ![t] = (@ \ {l}) \cup
                    {[l EXCEPT !.read = TRUE, !.data = [store |-> store, horizon |-> horizon]]}]
    /\ UNCHANGED <<text, doc, timer, scans, store, horizon, view, notice,
                   broken, edits, choices, failures>>

\* Only the newest load may set what the studio shows.
Current(t, l) == l.newest

LoadDone(t, l) ==
    /\ l \in loads[t] /\ l.read
    /\ loads' = [loads EXCEPT ![t] = @ \ {l}]
    /\ view' = IF Current(t, l) THEN [view EXCEPT ![t] = l.data] ELSE view
    /\ broken' = IF Current(t, l) THEN [broken EXCEPT ![t] = FALSE] ELSE broken
    /\ UNCHANGED <<text, doc, timer, scans, store, horizon, notice, edits,
                   choices, failures>>

LoadFails(t, l) ==
    /\ failures < MaxFailures /\ l \in loads[t] /\ ~l.read
    /\ failures' = failures + 1
    /\ loads' = [loads EXCEPT ![t] = @ \ {l}]
    /\ view' = IF Current(t, l) THEN [view EXCEPT ![t] = Empty] ELSE view
    /\ broken' = IF Current(t, l) THEN [broken EXCEPT ![t] = TRUE] ELSE broken
    /\ UNCHANGED <<text, doc, timer, scans, store, horizon, notice, edits,
                   choices>>

\* The cards of the half-life list.
Visible(t) == {s \in Signals : LET r == view[t].store[s]
                               IN  r.here /\ r.active /\ ~r.dismissed}

\* The record a button writes: the drawn one with its own field changed.
Chosen(r, button) ==
    CASE button = "cadence" -> [r EXCEPT !.ttl = 1 - @]
      [] button = "reviewed" -> [r EXCEPT !.reviewed = TRUE]
      [] button = "dismiss" -> [r EXCEPT !.dismissed = TRUE]
      [] button = "reveal" -> r   \* a claim that moved: only its range changes

Save(t, s, button) ==
    /\ choices < MaxChoices /\ s \in Visible(t)
    /\ s \in Stored \/ Cardinality(Stored) < ContextMax
    /\ choices' = choices + 1
    /\ store' = [store EXCEPT ![s] = Chosen(view[t].store[s], button)]
    /\ Emit(t)
    /\ UNCHANGED <<text, doc, timer, scans, horizon, view, broken, edits, failures>>

\* A person marks the selected claim; it counts as reviewed now.
AddExplicit(t, s) ==
    /\ choices < MaxChoices /\ s \in Explicit \ Stored
    /\ Cardinality(Stored) < ContextMax
    /\ choices' = choices + 1
    /\ store' = [store EXCEPT ![s] = [Fresh EXCEPT !.reviewed = TRUE]]
    /\ Emit(t)
    /\ UNCHANGED <<text, doc, timer, scans, horizon, view, broken, edits, failures>>

\* Pin, Done and Dismiss on a card of the horizon: a pinned intent, or a
\* candidate the view does not hold as done or dismissed.
SaveIntent(t, i, state) ==
    /\ choices < MaxChoices
    /\ \/ view[t].horizon[i] = "pinned" /\ state \in {"done", "dismissed"}
       \/ view[t].horizon[i] = "none" /\ state \in {"pinned", "dismissed"}
    /\ \/ horizon[i] # "none"
       \/ Cardinality({j \in Intents : horizon[j] # "none"}) < IntentMax
    /\ choices' = choices + 1
    /\ horizon' = [horizon EXCEPT ![i] = state]
    /\ Emit(t)
    /\ UNCHANGED <<text, doc, timer, scans, store, view, broken, edits, failures>>

Next ==
    \/ \E t \in Tabs, c \in Claims, p \in BOOLEAN : Edit(t, c, p)
    \/ \E t \in Tabs : Deliver(t)
    \/ \E t \in Tabs : Scan(t)
    \/ \E t \in Tabs : Reconcile(t)
    \/ \E t \in Tabs : Notified(t)
    \/ \E t \in Tabs : \E l \in loads[t] : LoadRead(t, l)
    \/ \E t \in Tabs : \E l \in loads[t] : LoadDone(t, l)
    \/ \E t \in Tabs : \E l \in loads[t] : LoadFails(t, l)
    \/ \E t \in Tabs, s \in Signals, b \in {"cadence", "reviewed", "dismiss", "reveal"} : Save(t, s, b)
    \/ \E t \in Tabs, s \in Explicit : AddExplicit(t, s)
    \/ \E t \in Tabs, i \in Intents, st \in {"pinned", "done", "dismissed"} : SaveIntent(t, i, st)

Spec == Init /\ [][Next]_vars

----------------------------------------------------------------------------
(* Properties.                                                             *)

\* No scan, of any tab and however late, takes back what a person chose on a
\* signal, not even when the claim left the text and came back.
ScanKeepsChoices ==
    [][choices' = choices =>
          \A s \in Stored :
              /\ store'[s].here
              /\ store'[s].dismissed = store[s].dismissed
              /\ store'[s].reviewed = store[s].reviewed
              /\ store'[s].ttl = store[s].ttl]_vars
=============================================================================
