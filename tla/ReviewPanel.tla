----------------------------- MODULE ReviewPanel -----------------------------
(***************************************************************************)
(* The review drawer of one document in service mode: threads listed by    *)
(* pages from the newest down, refreshed by every change this browser      *)
(* makes, and saved versions that are loaded when they are selected and    *)
(* created once the session's edits are committed.  Threads are numbered   *)
(* in the order of creation; requests and answers interleave.              *)
(***************************************************************************)
EXTENDS Integers, FiniteSets

CONSTANTS
  Page,           \* threads of a page
  MaxThreads, MaxRequests, MaxSaved, MaxTyped,
  MaxFailed       \* requests that fail

ASSUME ReviewPanelAssumption ==
  /\ Page \in Nat \ {0}
  /\ {MaxThreads, MaxRequests, MaxSaved, MaxTyped, MaxFailed} \subseteq Nat

VARIABLES
  threads,    \* how many threads the server has
  listed,      \* the threads in the drawer
  cursor,     \* where the next page begins, 0 when there is none
  gapped,     \* history: a page was appended that does not begin where the list ends
  earlier,    \* the button's request is under way
  req,        \* requests for threads
  saved,      \* versions saved: the edits they hold, and whether the server still has them
  list,       \* versions in the drawer: listed, loaded, selected; 0 is the current text
  loading,    \* the preview says that it is loading
  get,        \* requests for a version's text: its id, and whether its effect is active
  typed, committed,
  saving,     \* a save under way: the edits it must hold, and whether it was sent
  faults

reviewVars == <<threads, listed, cursor, gapped, earlier, req, saved, list, loading, get, typed, committed, saving, faults>>
threadVars == <<threads, listed, cursor, gapped, earlier, req>>
versionVars == <<saved, list, loading, get, typed, committed, saving>>

NoReq == [st |-> "idle", kind |-> "none", from |-> 0, ans |-> {}, next |-> 0]
NoSave == [st |-> "idle", need |-> 0]

ReviewInit ==
  /\ threads = 0 /\ listed = {} /\ cursor = 0 /\ gapped = FALSE /\ earlier = FALSE
  /\ req = [i \in 1..MaxRequests |-> NoReq]
  /\ saved = <<>>
  /\ list = [ids |-> {0}, loaded |-> {0}, selected |-> 0]
  /\ loading = FALSE /\ get = {}
  /\ typed = 0 /\ committed = 0
  /\ saving = NoSave /\ faults = 0

------------------------------------------------------------------------------
(* Threads. *)

Fresh(i) == req[i].st = "idle" /\ \A j \in 1..(i - 1) : req[j].st # "idle"

\* The first page is asked for again.
Refresh(i) == req' = [req EXCEPT ![i] = [NoReq EXCEPT !.st = "sent", !.kind = "list", !.from = MaxThreads + 1]]

\* A thread of this browser; emitReviewChange refreshes the drawer.
AddComment ==
  /\ threads < MaxThreads
  /\ threads' = threads + 1
  /\ \E i \in 1..MaxRequests : Fresh(i) /\ Refresh(i)
  /\ UNCHANGED <<listed, cursor, gapped, earlier, versionVars, faults>>

\* A thread of somebody else.
PeerComments ==
  /\ threads < MaxThreads
  /\ threads' = threads + 1
  /\ UNCHANGED <<listed, cursor, gapped, earlier, req, versionVars, faults>>

\* A reply, an edit or a resolution, here or in another tab of this browser.
ChangeThread ==
  /\ listed # {}
  /\ \E i \in 1..MaxRequests : Fresh(i) /\ Refresh(i)
  /\ UNCHANGED <<threads, listed, cursor, gapped, earlier, versionVars, faults>>

LoadEarlier ==
  /\ cursor # 0 /\ ~earlier
  /\ earlier' = TRUE
  /\ \E i \in 1..MaxRequests :
       /\ Fresh(i)
       /\ req' = [req EXCEPT ![i] = [NoReq EXCEPT !.st = "sent", !.kind = "earlier", !.from = cursor]]
  /\ UNCHANGED <<threads, listed, cursor, gapped, versionVars, faults>>

\* Keyset pagination: the newest threads below the cursor.
PageBelow(n) == {k \in 1..threads : k < n /\ k >= (IF n > threads THEN threads + 1 ELSE n) - Page}
Oldest(S) == CHOOSE k \in S : \A j \in S : k <= j
NextCursor(n) == IF PageBelow(n) = {} \/ Oldest(PageBelow(n)) = 1 THEN 0 ELSE Oldest(PageBelow(n))

ServerLists(i) ==
  /\ req[i].st = "sent"
  /\ req' = [req EXCEPT ![i].st = "answered", ![i].ans = PageBelow(req[i].from), ![i].next = NextCursor(req[i].from)]
  /\ UNCHANGED <<threads, listed, cursor, gapped, earlier, versionVars, faults>>

\* setCommentCursor, for a first page as for an earlier one.
CursorAfter(r) == r.next

ListArrives(i) ==
  /\ req[i].st = "answered"
  /\ listed' = IF req[i].kind = "list" THEN req[i].ans ELSE listed \union req[i].ans
  /\ cursor' = CursorAfter(req[i])
  /\ gapped' = (req[i].kind = "earlier" /\ (gapped \/ req[i].from # cursor))
  /\ earlier' = IF req[i].kind = "earlier" THEN FALSE ELSE earlier
  /\ req' = [req EXCEPT ![i] = NoReq]
  /\ UNCHANGED <<threads, versionVars, faults>>

ListFails(i) ==
  /\ req[i].st # "idle" /\ faults < MaxFailed
  /\ faults' = faults + 1
  /\ earlier' = IF req[i].kind = "earlier" THEN FALSE ELSE earlier
  /\ req' = [req EXCEPT ![i] = NoReq]
  /\ UNCHANGED <<threads, listed, cursor, gapped, versionVars>>

------------------------------------------------------------------------------
(* Versions. *)

\* The effect on the selection and the list: the request before is disowned, and
\* one begins when the selected version has no text yet.
Selection(l) ==
  LET old == {[g EXCEPT !.active = FALSE] : g \in get} IN
  /\ list' = l
  /\ IF l.selected \in l.loaded \/ l.selected \notin l.ids
     THEN get' = old /\ UNCHANGED loading
     ELSE get' = old \union {[id |-> l.selected, active |-> TRUE]} /\ loading' = TRUE

SelectVersion(v) ==
  /\ v \in list.ids /\ v # list.selected
  /\ Selection([list EXCEPT !.selected = v])
  /\ UNCHANGED <<threadVars, saved, typed, committed, saving, faults>>

\* The text of a version arrives, or does not.
VersionArrives(g) ==
  /\ g \in get
  /\ \/ /\ g.active
        /\ list' = [list EXCEPT !.loaded = @ \union {g.id}]
        /\ loading' = FALSE /\ UNCHANGED faults
     \/ ~g.active /\ UNCHANGED <<list, loading, faults>>
     \/ /\ IF saved[g.id].live THEN faults < MaxFailed /\ faults' = faults + 1 ELSE UNCHANGED faults
        /\ loading' = (loading /\ ~g.active) /\ UNCHANGED list
  /\ get' = get \ {g}
  /\ UNCHANGED <<threadVars, saved, typed, committed, saving>>

\* refresh of the versionVars: the texts are loaded again when they are needed.
ListVersions ==
  /\ LET ids == {0} \union {v \in DOMAIN saved : saved[v].live} IN
       Selection([ids |-> ids, loaded |-> {0}, selected |-> IF list.selected \in ids THEN list.selected ELSE 0])
  /\ UNCHANGED <<threadVars, saved, typed, committed, saving, faults>>

Type ==
  /\ typed < MaxTyped
  /\ typed' = typed + 1
  /\ UNCHANGED <<threadVars, saved, list, loading, get, committed, saving, faults>>

\* The room commits an edit.
Commit ==
  /\ committed < typed
  /\ committed' = committed + 1
  /\ UNCHANGED <<threadVars, saved, list, loading, get, typed, saving, faults>>

SaveVersion ==
  /\ saving = NoSave /\ Cardinality(DOMAIN saved) < MaxSaved
  /\ saving' = [st |-> "waiting", need |-> typed]
  /\ UNCHANGED <<threadVars, saved, list, loading, get, typed, committed, faults>>

\* Mutant: the save does not wait.
EditsCommittedAnyway == TRUE

\* session.whenDurable() of the moment the button was pressed.
EditsCommitted == committed >= saving.need

SaveSent ==
  /\ saving.st = "waiting" /\ EditsCommitted
  /\ saving' = [saving EXCEPT !.st = "sent"]
  /\ UNCHANGED <<threadVars, saved, list, loading, get, typed, committed, faults>>

\* The server captures the committed text; the answer selects the version.
VersionSaved ==
  /\ saving.st = "sent"
  /\ LET v == Cardinality(DOMAIN saved) + 1 IN
       /\ saved' = [k \in 1..v |-> IF k = v THEN [need |-> saving.need, text |-> committed, live |-> TRUE] ELSE saved[k]]
       /\ Selection([list EXCEPT !.selected = v])
  /\ saving' = NoSave
  /\ UNCHANGED <<threadVars, typed, committed, faults>>

SaveFails ==
  /\ saving # NoSave /\ faults < MaxFailed
  /\ faults' = faults + 1
  /\ saving' = NoSave
  /\ UNCHANGED <<threadVars, saved, list, loading, get, typed, committed>>

\* A restore is a new edit.
RestoreVersion ==
  /\ list.selected \in list.loaded \ {0} /\ typed < MaxTyped
  /\ typed' = typed + 1
  /\ UNCHANGED <<threadVars, saved, list, loading, get, committed, saving, faults>>

\* deleteVersion; the list follows with emitReviewChange.
DeleteSavedVersion ==
  /\ list.selected # 0 /\ saved[list.selected].live
  /\ saved' = [saved EXCEPT ![list.selected].live = FALSE]
  /\ UNCHANGED <<threadVars, list, loading, get, typed, committed, saving, faults>>

ReviewNext ==
  \/ AddComment \/ PeerComments \/ ChangeThread \/ LoadEarlier
  \/ \E i \in 1..MaxRequests : ServerLists(i) \/ ListArrives(i) \/ ListFails(i)
  \/ \E v \in 0..MaxSaved : SelectVersion(v)
  \/ \E g \in get : VersionArrives(g)
  \/ ListVersions \/ Type \/ Commit \/ SaveVersion \/ SaveSent \/ VersionSaved \/ SaveFails
  \/ RestoreVersion \/ DeleteSavedVersion

ReviewSpec == ReviewInit /\ [][ReviewNext]_reviewVars

------------------------------------------------------------------------------
(* Properties. *)

\* When the drawer offers no earlier threads the oldest one it was told of is in
\* it, whatever pages and refreshes arrived in which order.
OldestReachable == listed # {} /\ cursor = 0 => 1 \in listed

\* The drawer shows every thread between the newest and the oldest it shows, and the
\* next page begins where they end, so that a click away is every one of them: unless a
\* refresh put back the first page while an earlier one was under way, which is then
\* appended to it although pages between them are gone (AppOverlays.tsx, setComments).
PagesMeet ==
  ~gapped => /\ \A j, k \in listed : j..k \subseteq listed
             /\ cursor # 0 => cursor \in listed /\ \A k \in listed : cursor <= k

\* "Every prior edit was committed before the server captured this Markdown."
VersionCoversEdits == \A v \in DOMAIN saved : saved[v].text >= saved[v].need

\* Both: the drawer's threads and the saved versions (VersionHistory saveVersion,
\* the pages and refreshes of the comments drawer).
ReviewExact == OldestReachable /\ PagesMeet /\ VersionCoversEdits
=============================================================================
