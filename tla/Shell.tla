------------------------------- MODULE Shell -------------------------------
(***************************************************************************)
(* The application shell (client/src/App.tsx): which page is shown, which  *)
(* surfaces and dialogs are open over it, focus mode with what it puts     *)
(* away, and the operations on documents whose answers arrive after the    *)
(* reader has moved on.  The dialogs are those of                          *)
(* components/overlays/AppOverlays.tsx, each carrying the document it was  *)
(* opened for while the rest of its properties come from the page.         *)
(***************************************************************************)
EXTENDS Integers, FiniteSets

CONSTANTS Docs,     \* documents that exist
          Owned,    \* those whose owner this account is
          New,      \* the document a creation makes
          MaxOps,   \* operations started
          MaxSteps  \* things the reader does

ShellAssumption == Owned \subseteq Docs /\ New \notin Docs /\ MaxOps \in Nat /\ MaxSteps \in Nat

VARIABLES ui,    \* the state of the App component
          ops,   \* creations, renames and removals that have not come back
          asked, steps

vars == <<ui, ops, asked, steps>>

Pages == Docs \cup {New}
NoDialog == [type |-> "none", doc |-> "none"]

Init ==
    /\ ui \in [route : Docs \cup {"home"}, sidebar : {TRUE}, outline : {FALSE},
               practical : {FALSE}, wild : {FALSE}, draft : {FALSE}, review : {"none"},
               focus : {FALSE}, put : {<<>>}, dialog : {NoDialog}, error : {FALSE}]
    /\ ops = {}
    /\ asked = 0 /\ steps = 0

----------------------------------------------------------------------------
(* The effects of a render, from the state before to the one asked for      *)

Closed(s) == [s EXCEPT !.review = "none", !.draft = FALSE, !.practical = FALSE, !.wild = FALSE]

\* The effects on route.name and on docId
Effects(old, new) ==
    CASE new.route = old.route -> new
      [] new.route \in Pages -> Closed(new)
      [] OTHER -> [Closed(new) EXCEPT !.focus = FALSE, !.outline = FALSE]

Becomes(s) == ui' = Effects(ui, s)

Does(s) ==
    /\ steps < MaxSteps
    /\ steps' = steps + 1
    /\ Becomes(s)
    /\ UNCHANGED <<ops, asked>>

OnPage == ui.route \in Pages

\* Behind a dialog the page is inert; the address bar and its history are not
Reach == ui.dialog = NoDialog

----------------------------------------------------------------------------
(* Navigation                                                               *)

\* openDocument, from the list, the home page or a command
OpenDocument(d) == Reach /\ Does([ui EXCEPT !.route = d, !.error = FALSE])

\* popstate: Back and Forward work whatever is open
PopState(r) == ui.route # r /\ Does([ui EXCEPT !.route = r])

\* openBenchmark
OpenBenchmark ==
    /\ Reach /\ ui.route # "bench"
    /\ Does([ui EXCEPT !.route = "bench", !.review = "none", !.practical = FALSE, !.wild = FALSE])

----------------------------------------------------------------------------
(* Surfaces: runAction, the dock, the telemetry strip                       *)

Practical ==
    /\ OnPage /\ Reach
    /\ Does([ui EXCEPT !.practical = TRUE, !.wild = FALSE, !.review = "none", !.draft = FALSE])

Wild ==
    /\ OnPage /\ Reach
    /\ Does([ui EXCEPT !.wild = TRUE, !.practical = FALSE, !.review = "none", !.draft = FALSE])

\* WildTelemetry: onOpenCausal
Causal ==
    /\ OnPage /\ Reach
    /\ Does([ui EXCEPT !.practical = FALSE, !.review = "none", !.draft = FALSE, !.wild = TRUE])

\* 'comments' and 'history': a second press closes
Review ==
    /\ OnPage /\ Reach
    /\ Does([ui EXCEPT !.practical = FALSE, !.wild = FALSE,
                       !.review = IF ui.review = "none" THEN ui.route ELSE "none"])

DraftTools ==
    /\ OnPage /\ Reach
    /\ Does([ui EXCEPT !.practical = FALSE, !.wild = FALSE, !.draft = TRUE])

\* The phone's composer and the ribbon open the sheet without runAction
OpenDraftTools == OnPage /\ Reach /\ Does([ui EXCEPT !.draft = TRUE])

CloseSurface == Reach /\ Does(Closed(ui))

ToggleOutline == Reach /\ Does([ui EXCEPT !.outline = ~@])
ToggleSidebar == Reach /\ Does([ui EXCEPT !.sidebar = ~@])

\* 'focus': what is open is put away, and given back as it was
EnterFocus ==
    /\ Reach /\ ~ui.focus
    /\ Does([Closed(ui) EXCEPT
                !.focus = TRUE, !.put = <<ui.sidebar, ui.outline, ui.review>>,
                !.sidebar = FALSE, !.outline = FALSE, !.draft = ui.draft])

LeaveFocus ==
    /\ Reach /\ ui.focus /\ ui.put # <<>>
    /\ Does([ui EXCEPT !.focus = FALSE, !.put = <<>>, !.sidebar = ui.put[1],
                       !.outline = ui.put[2], !.review = ui.put[3]])

----------------------------------------------------------------------------
(* Dialogs                                                                  *)

\* 'rename', 'share', 'delete' of the page, 'delete' from the list, and those
\* that name no document
OpenDialog(t, d) ==
    /\ Reach
    /\ t \in {"rename", "share"} => d = ui.route
    /\ t = "rename" => d \in Owned
    /\ Does([ui EXCEPT !.dialog = [type |-> t, doc |-> d]])

CloseDialog == ~Reach /\ Does([ui EXCEPT !.dialog = NoDialog])

----------------------------------------------------------------------------
(* Operations.  `from' is the page of the render that started one.          *)

Start(kind, d) ==
    /\ asked < MaxOps
    /\ asked' = asked + 1
    /\ ops' = ops \cup {[kind |-> kind, doc |-> d, from |-> ui.route]}
    /\ UNCHANGED steps

\* createDocument
Create == Start("create", New) /\ ui' = [ui EXCEPT !.error = FALSE]

\* duplicateDocument
Duplicate == OnPage /\ Start("duplicate", New) /\ UNCHANGED ui

\* renameDocument, and removeDocument, from their dialogs
Rename == ui.dialog.type = "rename" /\ Start("rename", ui.dialog.doc) /\ UNCHANGED ui
Remove == ui.dialog.type = "delete" /\ Start("remove", ui.dialog.doc)
          /\ ui' = [ui EXCEPT !.error = FALSE]

Finish(o) == o \in ops /\ ops' = ops \ {o} /\ UNCHANGED <<asked, steps>>

Created(o) ==
    /\ o.kind = "create" /\ Finish(o)
    /\ Becomes([ui EXCEPT !.dialog = NoDialog, !.route = New, !.error = FALSE])

Duplicated(o) ==
    /\ o.kind = "duplicate" /\ Finish(o)
    /\ Becomes([ui EXCEPT !.route = New, !.error = FALSE])

Renamed(o) ==
    /\ o.kind = "rename" /\ Finish(o)
    /\ Becomes([ui EXCEPT !.dialog = NoDialog])

Removed(o) ==
    /\ o.kind = "remove" /\ Finish(o)
    /\ Becomes([ui EXCEPT !.dialog = NoDialog,
                          !.route = IF o.from = o.doc THEN "home" ELSE @])

\* A creation that fails sets uiError; the others say so in a toast
Failed(o) ==
    /\ Finish(o)
    /\ ui' = [ui EXCEPT !.error = @ \/ o.kind = "create"]

----------------------------------------------------------------------------
(* What is on the screen                                                    *)

\* The branches of the render for a service build whose caller is known
Screen(s) ==
    CASE s.route = "bench" -> "benchmark"
      [] s.route = "home" -> IF s.error THEN "could-not-open" ELSE "home"
      [] OTHER -> "workspace"

\* ShareDialog is given the capabilities of the page's session
ShareOffersOwner(s) == s.route \in Owned

Next ==
    \/ \E d \in Docs : OpenDocument(d)
    \/ \E r \in Docs \cup {"home", "bench"} : PopState(r)
    \/ OpenBenchmark
    \/ Practical
    \/ Wild
    \/ Causal
    \/ Review
    \/ DraftTools
    \/ OpenDraftTools
    \/ CloseSurface
    \/ ToggleOutline
    \/ ToggleSidebar
    \/ EnterFocus
    \/ LeaveFocus
    \/ \E d \in Docs : OpenDialog("rename", d)
    \/ \E d \in Docs : OpenDialog("share", d)
    \/ \E d \in Docs : OpenDialog("delete", d)
    \/ OpenDialog("other", "none")
    \/ CloseDialog
    \/ Create
    \/ Duplicate
    \/ Rename
    \/ Remove
    \/ \E o \in ops : Created(o)
    \/ \E o \in ops : Duplicated(o)
    \/ \E o \in ops : Renamed(o)
    \/ \E o \in ops : Removed(o)
    \/ \E o \in ops : Failed(o)

Spec == Init /\ [][Next]_vars

----------------------------------------------------------------------------
(* Properties                                                               *)

\* The inspector and the studio are never both open, whichever of the ribbon,
\* the dock, the telemetry strip, focus mode or navigation opened or closed one.
OneInspector == ~(ui.practical /\ ui.wild)

\* No surface of a document is open over a page that is not a document's,
\* whatever focus mode put away and whenever it gives it back.
OtherPagesClear ==
    ui.route \notin Pages => ~ui.practical /\ ~ui.wild /\ ~ui.draft /\ ui.review = "none"
=============================================================================
