------------------------------ MODULE Catalog ------------------------------
(***************************************************************************)
(* The document index of a page in service mode: creating documents under  *)
(* a retry identity that survives a reload, moving them to the trash and   *)
(* back, and the list that is polled, cached in IndexedDB and shown.       *)
(* Requests and answers are separate steps, so answers arrive in any       *)
(* order.  Documents and request ids are numbers, 0 stands for none.       *)
(***************************************************************************)
EXTENDS Integers, FiniteSets

CONSTANTS
  Scopes,       \* create actions with an identity of their own; "starter" is the automatic one
  MaxDocs, MaxRequests, MaxCalls, MaxLists,
  MaxFailures,  \* requests, answers and writes that fail
  MaxLoads,
  MaxRemoved    \* documents moved to the trash

\* "none" is the scope of a row that no call made yet.
ASSUME CatalogAssumption ==
  /\ {MaxDocs, MaxRequests, MaxCalls, MaxLists, MaxFailures, MaxLoads, MaxRemoved} \subseteq Nat
  /\ "none" \notin Scopes

VARIABLES
  docRow,    \* the server's document rows
  pend,      \* per scope the pending request: in sessionStorage, in memory
  call,      \* create calls
  list,      \* list requests
  view,      \* route, list shown, whether it is stale, the starter page begun
  idb,       \* the cached catalog, a read under way, a removal under way
  spent,     \* bounds spent
  done,      \* history: per scope the requests whose answer reached a page
  seen       \* history: the network answered this page, a replay was refused

catalogVars == <<docRow, pend, call, list, view, idb, spent, done, seen>>

DocIds == 1..MaxDocs
NoCall == [st |-> "idle", scope |-> "none", req |-> 0, doc |-> 0]
NoList == [st |-> "idle", docs |-> {}]
NewPage == [route |-> 0, shown |-> {}, stale |-> FALSE, started |-> FALSE]

CatalogInit ==
  /\ docRow = [d \in DocIds |-> [st |-> "none", req |-> 0, scope |-> "none"]]
  /\ pend = [s \in Scopes |-> [stored |-> 0, memory |-> 0]]
  /\ call = [c \in 1..MaxCalls |-> NoCall]
  /\ list = [i \in 1..MaxLists |-> NoList]
  /\ view = NewPage
  /\ idb = [catalog |-> {}, read |-> {}, reading |-> "begin", forget |-> 0, copy |-> {}]
  /\ spent = [req |-> 0, faults |-> 0, reloads |-> 0, removed |-> 0]
  /\ done = [s \in Scopes |-> {}]
  /\ seen = [answered |-> FALSE, refused |-> FALSE]

Live == {d \in DocIds : docRow[d].st = "live"}
CanFail == spent.faults < MaxFailures
FailureSpent == [spent EXCEPT !.faults = @ + 1]

------------------------------------------------------------------------------
(* Creating. *)

\* Mutant: the identity lives in memory only.
PendingRequestVolatile(s) == pend[s].memory

\* pendingDocumentCreateRequest: the stored identity, then the one in memory.
PendingRequest(s) == IF pend[s].stored # 0 THEN pend[s].stored ELSE pend[s].memory

\* A create action, from a page whose storage works.
Begin(s) ==
  /\ \E c \in 1..MaxCalls :
       /\ call[c].st = "idle"
       /\ \/ /\ PendingRequest(s) # 0
             /\ call' = [call EXCEPT ![c] = [st |-> "sent", scope |-> s, req |-> PendingRequest(s), doc |-> 0]]
             /\ UNCHANGED <<pend, spent>>
          \/ /\ PendingRequest(s) = 0 /\ spent.req < MaxRequests
             /\ call' = [call EXCEPT ![c] = [st |-> "sent", scope |-> s, req |-> spent.req + 1, doc |-> 0]]
             /\ pend' = [pend EXCEPT ![s] = [stored |-> spent.req + 1, memory |-> spent.req + 1]]
             /\ spent' = [spent EXCEPT !.req = @ + 1]

Create(s) ==
  /\ s # "starter"
  /\ Begin(s)
  /\ UNCHANGED <<docRow, list, view, idb, done, seen>>

\* The page an anonymous visitor of "/" gets.
Starter ==
  /\ "starter" \in Scopes /\ view.route = 0 /\ ~view.started
  /\ Begin("starter")
  /\ view' = [view EXCEPT !.started = TRUE]
  /\ UNCHANGED <<docRow, list, idb, done, seen>>

\* load_create_replay.
Replayed(r) == {d \in DocIds : docRow[d].req = r}

\* create: the row of an earlier attempt, or a new one.  A row in the trash is not found.
ServerCreates(c) ==
  /\ call[c].st \in {"sent", "orphan"}
  /\ \/ \E d \in Replayed(call[c].req) :
          /\ call' = [call EXCEPT ![c].st = IF call[c].st = "orphan" THEN "idle"
                                           ELSE IF docRow[d].st = "live" THEN "answered" ELSE "refused",
                                  ![c].doc = d]
          /\ seen' = [seen EXCEPT !.refused = @ \/ docRow[d].st # "live"]
          /\ UNCHANGED docRow
     \/ /\ Replayed(call[c].req) = {}
        /\ \E d \in DocIds :
             /\ docRow[d].st = "none" /\ \A e \in 1..(d - 1) : docRow[e].st # "none"
             /\ docRow' = [docRow EXCEPT ![d] = [st |-> "live", req |-> call[c].req, scope |-> call[c].scope]]
             /\ call' = [call EXCEPT ![c].st = IF call[c].st = "orphan" THEN "idle" ELSE "answered",
                                     ![c].doc = d]
        /\ UNCHANGED seen
  /\ UNCHANGED <<pend, list, view, idb, spent, done>>

\* A refresh for a change of the repository, if a request can still be begun.
Refreshed ==
  \/ \E i \in 1..MaxLists : list[i].st = "idle" /\ list' = [list EXCEPT ![i].st = "sent"]
  \/ (\A i \in 1..MaxLists : list[i].st # "idle") /\ UNCHANGED list

\* confirmDocumentCreateRequest.
Confirmed(s, r) == [pend EXCEPT ![s] = [stored |-> IF @.stored = r THEN 0 ELSE @.stored,
                                        memory |-> IF @.memory = r THEN 0 ELSE @.memory]]

CreateArrives(c) ==
  /\ call[c].st = "answered"
  /\ pend' = Confirmed(call[c].scope, call[c].req)
  /\ done' = [done EXCEPT ![call[c].scope] = @ \union {call[c].req}]
  /\ view' = [view EXCEPT !.route = IF call[c].scope = "starter" /\ @ # 0 THEN @ ELSE call[c].doc,
                          !.started = FALSE]
  /\ call' = [call EXCEPT ![c] = NoCall]
  /\ Refreshed
  /\ UNCHANGED <<docRow, idb, spent, seen>>

CreateFails(c) ==
  /\ \/ call[c].st = "refused" /\ UNCHANGED spent
     \/ call[c].st \in {"sent", "answered"} /\ CanFail /\ spent' = FailureSpent
  /\ call' = [call EXCEPT ![c] = NoCall]
  /\ view' = [view EXCEPT !.started = IF call[c].scope = "starter" THEN FALSE ELSE @]
  /\ UNCHANGED <<docRow, pend, list, idb, done, seen>>

\* The deadline passes while the request is on its way.
CreateTimesOut(c) ==
  /\ call[c].st = "sent" /\ CanFail
  /\ spent' = FailureSpent
  /\ call' = [call EXCEPT ![c].st = "orphan"]
  /\ view' = [view EXCEPT !.started = IF call[c].scope = "starter" THEN FALSE ELSE @]
  /\ UNCHANGED <<docRow, pend, list, idb, done, seen>>

------------------------------------------------------------------------------
(* The trash. *)

Remove(d) ==
  /\ docRow[d].st = "live" /\ d \in view.shown /\ spent.removed < MaxRemoved /\ idb.forget = 0
  /\ docRow' = [docRow EXCEPT ![d].st = "trash"]
  /\ view' = [view EXCEPT !.route = IF @ = d THEN 0 ELSE @]
  /\ idb' = [idb EXCEPT !.forget = d, !.copy = idb.catalog]
  /\ spent' = [spent EXCEPT !.removed = @ + 1]
  /\ Refreshed
  /\ UNCHANGED <<pend, call, done, seen>>

\* forgetDocumentMeta: the catalog read before is written back without the document.
Forget ==
  /\ idb.forget # 0
  /\ idb' = [idb EXCEPT !.catalog = idb.copy \ {idb.forget}, !.forget = 0, !.copy = {}]
  /\ UNCHANGED <<docRow, pend, call, list, view, spent, done, seen>>

Restore(d) ==
  /\ docRow[d].st = "trash"
  /\ docRow' = [docRow EXCEPT ![d].st = "live"]
  /\ Refreshed
  /\ UNCHANGED <<pend, call, view, idb, spent, done, seen>>

------------------------------------------------------------------------------
(* The list. *)

\* The interval, and the page that becomes visible.
PollList ==
  /\ \E i \in 1..MaxLists :
       /\ list[i].st = "idle"
       /\ list' = [list EXCEPT ![i].st = "sent"]
  /\ UNCHANGED <<docRow, pend, call, view, idb, spent, done, seen>>

ServerLists(i) ==
  /\ list[i].st = "sent"
  /\ list' = [list EXCEPT ![i] = [st |-> "answered", docs |-> Live]]
  /\ UNCHANGED <<docRow, pend, call, view, idb, spent, done, seen>>

\* setDocuments.
Shown(docs) == docs

\* refresh: whatever arrives last is shown, and cached.
ListArrives(i) ==
  /\ list[i].st = "answered"
  /\ view' = [view EXCEPT !.shown = Shown(list[i].docs), !.stale = FALSE]
  /\ idb' = [idb EXCEPT !.catalog = list[i].docs]
  /\ seen' = [seen EXCEPT !.answered = TRUE]
  /\ list' = [list EXCEPT ![i] = NoList]
  /\ UNCHANGED <<docRow, pend, call, spent, done>>

ListFails(i) ==
  /\ list[i].st # "idle" /\ CanFail
  /\ spent' = FailureSpent
  /\ list' = [list EXCEPT ![i] = NoList]
  /\ UNCHANGED <<docRow, pend, call, view, idb, done, seen>>

\* readCatalog at the start.
ReadCatalog ==
  /\ idb.reading = "begin"
  /\ idb' = [idb EXCEPT !.reading = "read", !.read = idb.catalog]
  /\ UNCHANGED <<docRow, pend, call, list, view, spent, done, seen>>

CatalogRead ==
  /\ idb.reading = "read"
  /\ idb' = [idb EXCEPT !.reading = "done", !.read = {}]
  /\ view' = IF idb.read = {} THEN view ELSE [view EXCEPT !.shown = idb.read, !.stale = TRUE]
  /\ UNCHANGED <<docRow, pend, call, list, spent, done, seen>>

\* Requests already sent reach the server; sessionStorage and IndexedDB stay.
ReloadPage ==
  /\ spent.reloads < MaxLoads
  /\ spent' = [spent EXCEPT !.reloads = @ + 1]
  /\ view' = [NewPage EXCEPT !.route = view.route]
  /\ pend' = [s \in Scopes |-> [pend[s] EXCEPT !.memory = 0]]
  /\ call' = [c \in 1..MaxCalls |-> IF call[c].st \in {"sent", "orphan"} THEN [call[c] EXCEPT !.st = "orphan"] ELSE NoCall]
  /\ list' = [i \in 1..MaxLists |-> NoList]
  /\ idb' = [idb EXCEPT !.reading = "begin", !.read = {}, !.forget = 0, !.copy = {}]
  /\ seen' = [seen EXCEPT !.answered = FALSE]
  /\ UNCHANGED <<docRow, done>>

\* Home from a document.
GoHome ==
  /\ view.route # 0
  /\ view' = [view EXCEPT !.route = 0]
  /\ UNCHANGED <<docRow, pend, call, list, idb, spent, done, seen>>

CatalogNext ==
  \/ \E s \in Scopes : Create(s)
  \/ \E c \in 1..MaxCalls : ServerCreates(c) \/ CreateArrives(c) \/ CreateFails(c) \/ CreateTimesOut(c)
  \/ \E d \in DocIds : Remove(d) \/ Restore(d)
  \/ \E i \in 1..MaxLists : ServerLists(i) \/ ListArrives(i) \/ ListFails(i)
  \/ Starter \/ Forget \/ PollList \/ ReadCatalog \/ CatalogRead \/ ReloadPage \/ GoHome

CatalogSpec == CatalogInit /\ [][CatalogNext]_catalogVars

------------------------------------------------------------------------------
(* Properties. *)

\* However often a create is repeated, timed out or cut by a reload, a page has
\* at most one document more than the answers it got: "instead of publishing a
\* second anonymous page".
OnePagePerAction ==
  \A s \in Scopes : Cardinality({d \in DocIds : docRow[d].scope = s}) <= Cardinality(done[s]) + 1
=============================================================================
