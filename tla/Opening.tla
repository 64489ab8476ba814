------------------------------ MODULE Opening ------------------------------
(***************************************************************************)
(* From a route to an open session: the metadata lookup of a document with *)
(* its cached copy, the session that is constructed under a deadline, and  *)
(* what a navigation, a change of the caller or a late answer does to      *)
(* them.  One page in service mode.  The effects of a render belong to the *)
(* step that causes it.                                                    *)
(***************************************************************************)
EXTENDS Integers

CONSTANTS
  N,            \* documents 1..N; About is the built-in one
  Legacy,       \* documents of a retired engine
  About,
  Direct,       \* navigation from one document to another, not only through home
  MaxNav, MaxOpen, MaxGets, MaxRowChanges, MaxFaults, MaxAccess

ASSUME OpeningAssumption ==
  /\ {N, About, MaxNav, MaxOpen, MaxGets, MaxRowChanges, MaxFaults, MaxAccess} \subseteq Nat
  /\ Legacy \subseteq 1..N /\ About \in (1..N) \ Legacy /\ Direct \in BOOLEAN

VARIABLES
  row,      \* the server's rows: live or gone
  cache,    \* metadata in IndexedDB
  route,    \* the document of the URL, 0 for none
  nav,      \* navigations so far; also the number of the active effect
  hook,     \* useDocumentMeta: meta, resolved, error
  look,     \* the lookup of every navigation
  gets,     \* lookups begun by repository changes
  access,   \* the document access provider, 0 before the caller is known
  cur,      \* the session effect's opening
  open,     \* openings and the sessions they made
  failed,   \* the session error
  bounds,     \* bounds spent
  proved    \* history: the last answer for this route was an openable document

openingVars == <<row, cache, route, nav, hook, look, gets, access, cur, open, failed, bounds, proved>>

Docs == 1..N
Kind(d) == IF d \in Legacy THEN "legacy" ELSE "esbt"
Answer(d) == IF row[d] = "live" THEN Kind(d) ELSE "gone"
NoLook == [doc |-> 0, st |-> "idle", cached |-> "none", ans |-> "none"]
NoGet == [nav |-> 0, doc |-> 0, ans |-> "none"]
NoOpening == [st |-> "idle", doc |-> 0, aborted |-> FALSE]
NoMeta == [kind |-> "none", resolved |-> FALSE, error |-> FALSE]

OpeningInit ==
  /\ row = [d \in Docs |-> "live"]
  /\ cache = [d \in Docs |-> "none"]
  /\ route = 0 /\ nav = 0 /\ access = 0 /\ cur = 0 /\ failed = FALSE /\ proved = FALSE
  /\ hook = NoMeta
  /\ look = [n \in 1..MaxNav |-> NoLook]
  /\ gets = [i \in 1..MaxGets |-> NoGet]
  /\ open = [o \in 1..MaxOpen |-> NoOpening]
  /\ bounds = [rows |-> 0, faults |-> 0]

Fault == bounds.faults < MaxFaults
Spent == [bounds EXCEPT !.faults = @ + 1]

------------------------------------------------------------------------------
(* useSession. *)

\* The document the application hands to useSession.
SessionDoc == IF hook.resolved /\ hook.kind = "esbt" THEN route ELSE 0

\* What the session effect depends on.
Key == <<SessionDoc, IF SessionDoc = About THEN 0 ELSE access>>

\* The cleanup aborts the opening, or destroys the session it made.
Ended(o) ==
  CASE o.st = "held" -> NoOpening
    [] o.st = "idle" -> o
    [] OTHER -> [o EXCEPT !.aborted = TRUE]

MayOpen == SessionDoc # 0 /\ (SessionDoc = About \/ access # 0)

\* The session effect after a render that changed route, hook or access.
Effects ==
  IF Key' = Key THEN UNCHANGED <<cur, open, failed>>
  ELSE LET cleaned == [o \in 1..MaxOpen |-> IF o = cur THEN Ended(open[o]) ELSE open[o]] IN
    /\ failed' = FALSE
    /\ \/ ~MayOpen' /\ cur' = 0 /\ open' = cleaned
       \/ /\ MayOpen'
          /\ \E o \in 1..MaxOpen :
               /\ cleaned[o].st = "idle" /\ \A p \in 1..(o - 1) : cleaned[p].st # "idle"
               /\ cur' = o
               /\ open' = [cleaned EXCEPT ![o] = [st |-> "load", doc |-> SessionDoc', aborted |-> FALSE]]

\* openSessionWithTimeout: the module arrived.
Loaded(o) ==
  /\ open[o].st = "load"
  /\ open' = [open EXCEPT ![o] = IF @.aborted THEN NoOpening ELSE [@ EXCEPT !.st = "make"]]
  /\ UNCHANGED <<row, cache, route, nav, hook, look, gets, access, cur, failed, bounds, proved>>

\* Mutant: a session that arrives after the abort is kept.
ArrivedKept(o) == [o EXCEPT !.st = IF o.aborted THEN "held" ELSE "made"]

\* A session constructed after the abort is destroyed.
Arrived(o) == IF o.aborted THEN NoOpening ELSE [o EXCEPT !.st = "made"]

Made(o) ==
  /\ open[o].st = "make"
  /\ open' = [open EXCEPT ![o] = Arrived(@)]
  /\ UNCHANGED <<row, cache, route, nav, hook, look, gets, access, cur, failed, bounds, proved>>

\* The continuation in the effect.
Delivered(o) ==
  /\ open[o].st = "made"
  /\ open' = [open EXCEPT ![o] = IF o = cur THEN [@ EXCEPT !.st = "held"] ELSE NoOpening]
  /\ failed' = IF o = cur THEN FALSE ELSE failed
  /\ UNCHANGED <<row, cache, route, nav, hook, look, gets, access, cur, bounds, proved>>

\* The deadline, or a constructor that throws.
OpenFails(o) ==
  /\ open[o].st \in {"load", "make"} /\ ~open[o].aborted /\ Fault
  /\ bounds' = Spent
  /\ \/ open' = [open EXCEPT ![o].aborted = TRUE]
     \/ open' = [open EXCEPT ![o] = NoOpening]
  /\ failed' = (o = cur \/ failed)
  /\ cur' = IF o = cur THEN 0 ELSE cur
  /\ UNCHANGED <<row, cache, route, nav, hook, look, gets, access, proved>>

------------------------------------------------------------------------------
(* useDocumentMeta. *)

Navigate(d) ==
  /\ d # route /\ nav < MaxNav
  /\ d # 0 /\ route # 0 => Direct
  /\ route' = d /\ nav' = nav + 1
  /\ hook' = CASE d = 0 -> NoMeta
               [] d = About -> [kind |-> "esbt", resolved |-> TRUE, error |-> FALSE]
               [] OTHER -> [hook EXCEPT !.resolved = FALSE, !.error = FALSE]
  /\ look' = [look EXCEPT ![nav + 1] = IF d \in {0, About} THEN @ ELSE [NoLook EXCEPT !.doc = d, !.st = "asked"]]
  /\ cache' = IF d = About THEN [cache EXCEPT ![d] = "esbt"] ELSE cache
  /\ proved' = (d = About)
  /\ UNCHANGED <<row, gets, access, bounds>>
  /\ Effects

\* The effect of navigation n has not been cleaned up.
Active(n) == n = nav /\ route # 0

\* The cached metadata, or none when the read takes too long.
CacheRead(n) ==
  /\ look[n].st = "asked"
  /\ \E c \in {"none", cache[look[n].doc]} :
       /\ \/ c = cache[look[n].doc] /\ UNCHANGED bounds
          \/ c # cache[look[n].doc] /\ Fault /\ bounds' = Spent
       /\ look' = [look EXCEPT ![n].st = "waiting", ![n].cached = c]
       /\ IF Active(n) /\ c # "none"
          THEN hook' = [hook EXCEPT !.kind = c, !.resolved = TRUE] /\ proved' = (c = "esbt" /\ look[n].doc = route)
          ELSE UNCHANGED <<hook, proved>>
  /\ UNCHANGED <<row, cache, route, nav, gets, access>>
  /\ Effects

ServerAnswers(n) ==
  /\ look[n].st \in {"asked", "waiting"} /\ look[n].ans = "none"
  /\ \/ look' = [look EXCEPT ![n].ans = Answer(look[n].doc)] /\ UNCHANGED bounds
     \/ Fault /\ bounds' = Spent /\ look' = [look EXCEPT ![n].ans = "failed"]
  /\ UNCHANGED <<row, cache, route, nav, hook, gets, access, cur, open, failed, proved>>

LookupDone(n) ==
  /\ look[n].st = "waiting" /\ look[n].ans # "none"
  /\ look' = [look EXCEPT ![n] = NoLook]
  /\ \/ ~Active(n) /\ UNCHANGED <<hook, cache, proved>>
     \/ /\ Active(n) /\ look[n].ans = "failed"
        /\ hook' = [hook EXCEPT !.resolved = TRUE, !.error = @ \/ look[n].cached = "none"]
        /\ UNCHANGED <<cache, proved>>
     \/ /\ Active(n) /\ look[n].ans # "failed"
        /\ hook' = [kind |-> look[n].ans, resolved |-> TRUE, error |-> FALSE]
        /\ cache' = IF look[n].ans = "gone" THEN cache ELSE [cache EXCEPT ![look[n].doc] = look[n].ans]
        /\ proved' = (look[n].ans = "esbt" /\ look[n].doc = route)
  /\ UNCHANGED <<row, route, nav, gets, access, bounds>>
  /\ Effects

\* A repository change in this page looks the document up again.
Signal ==
  /\ route \notin {0, About}
  /\ \E i \in 1..MaxGets :
       /\ gets[i].nav = 0
       /\ gets' = [gets EXCEPT ![i] = [nav |-> nav, doc |-> route, ans |-> "none"]]
  /\ UNCHANGED <<row, cache, route, nav, hook, look, access, cur, open, failed, bounds, proved>>

GetAnswers(i) ==
  /\ gets[i].nav # 0 /\ gets[i].ans = "none"
  /\ \/ gets' = [gets EXCEPT ![i].ans = Answer(gets[i].doc)] /\ UNCHANGED bounds
     \/ Fault /\ bounds' = Spent /\ gets' = [gets EXCEPT ![i] = NoGet]
  /\ UNCHANGED <<row, cache, route, nav, hook, look, access, cur, open, failed, proved>>

GetArrives(i) ==
  /\ gets[i].ans # "none"
  /\ gets' = [gets EXCEPT ![i] = NoGet]
  /\ IF Active(gets[i].nav)
     THEN hook' = [hook EXCEPT !.kind = gets[i].ans] /\ proved' = (gets[i].ans = "esbt" /\ gets[i].doc = route)
     ELSE UNCHANGED <<hook, proved>>
  /\ UNCHANGED <<row, cache, route, nav, look, access, bounds>>
  /\ Effects

------------------------------------------------------------------------------
(* The caller, and the other people. *)

\* The caller resolves, or is promoted.
AccessChanges ==
  /\ access < MaxAccess
  /\ access' = access + 1
  /\ UNCHANGED <<row, cache, route, nav, hook, look, gets, bounds, proved>>
  /\ Effects

RowChanges(d) ==
  /\ d # About /\ bounds.rows < MaxRowChanges
  /\ bounds' = [bounds EXCEPT !.rows = @ + 1]
  /\ row' = [row EXCEPT ![d] = IF @ = "live" THEN "gone" ELSE "live"]
  /\ UNCHANGED <<cache, route, nav, hook, look, gets, access, cur, open, failed, proved>>

OpeningNext ==
  \/ \E d \in 0..N : Navigate(d)
  \/ \E d \in Docs : RowChanges(d)
  \/ \E n \in 1..MaxNav : CacheRead(n) \/ ServerAnswers(n) \/ LookupDone(n)
  \/ \E o \in 1..MaxOpen : Loaded(o) \/ Made(o) \/ Delivered(o) \/ OpenFails(o)
  \/ \E i \in 1..MaxGets : GetAnswers(i) \/ GetArrives(i)
  \/ Signal \/ AccessChanges

OpeningSpec == OpeningInit /\ [][OpeningNext]_openingVars

------------------------------------------------------------------------------
(* Properties. *)

\* Whatever was aborted, timed out or arrived late, the only living session is
\* the one the page holds, and it belongs to the document of the URL.
NoLeakedSession ==
  \A o \in 1..MaxOpen : open[o].st = "held" => o = cur /\ open[o].doc = route

\* "Resolve a document's metadata before opening a session": a session is
\* opened only for a document whose own metadata said that it may be.
OpenedWithProof == cur # 0 => proved

\* Both, where a page goes from one document to another through home.
SessionsSound == NoLeakedSession /\ (~Direct => OpenedWithProof)
=============================================================================
