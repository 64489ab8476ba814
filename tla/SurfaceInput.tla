---------------------------- MODULE SurfaceInput ----------------------------
(***************************************************************************)
(* Which of the page's surfaces a gesture is for: Select All, which stays  *)
(* inside the document, the context menu of the mouse, and the menu a long *)
(* press opens.  The page remembers the pane that was last used; a press   *)
(* is timed from the finger that began it.                                 *)
(***************************************************************************)
EXTENDS Integers, FiniteSets

CONSTANTS
    Fingers,   \* pointers that can touch the page
    MaxSteps   \* bound: gestures

SurfaceInputAssumption == MaxSteps \in Nat

None == "none"
Targets == {"editor", "preview", "button", "input"}

VARIABLES
    session,      \* a document is open
    focus,        \* where the focus is
    lastSurface,  \* the pane last used
    took,         \* what the last Select All selected: "native" or "preview"
    coarse,       \* the primary pointer is coarse
    selection,    \* there is a live selection of text
    down, moved,  \* fingers on the page, and those of them past the slop
    origin,       \* the finger being timed, or None
    over,         \* what it was put down on
    timer,        \* the timer is set
    menu,         \* the surface whose menu is open, or None
    steps

press == <<origin, over, timer>>
vars == <<session, focus, lastSurface, took, coarse, selection, down, moved, press, menu, steps>>

Step == steps < MaxSteps /\ steps' = steps + 1

\* surfaceForEvent, surfaceFromTarget.
SurfaceOf(target) == IF target \in {"editor", "preview"} THEN target ELSE "chrome"

\* The workspace notes the pane of each press and each focus.
Note(target) ==
    lastSurface' = IF SurfaceOf(target) = "chrome" THEN lastSurface ELSE target

\* shouldHandleSelectAll.
ShouldHandleSelectAll(target) ==
    SurfaceOf(target) = "preview" \/ (SurfaceOf(target) = "chrome" /\ lastSurface = "preview")

\* shouldOfferCustomMenu.
ShouldOfferCustomMenu(surface) ==
    surface = "preview" \/ (surface = "editor" /\ ~(coarse /\ selection))

Clear == timer' = FALSE /\ origin' = None /\ over' = None

Init ==
    /\ session = TRUE /\ focus = "editor" /\ lastSurface = "editor" /\ took = None
    /\ coarse \in BOOLEAN /\ selection = FALSE
    /\ down = {} /\ moved = {} /\ origin = None /\ over = None /\ timer = FALSE
    /\ menu = None /\ steps = 0

Focus(target) ==
    /\ Step /\ session /\ focus' = target /\ Note(target)
    /\ UNCHANGED <<session, took, coarse, selection, down, moved, press, menu>>

\* Mod-A; what is not handled here is the browser's or the editor's.
SelectAll ==
    /\ Step /\ session
    /\ took' = IF ShouldHandleSelectAll(focus) THEN "preview" ELSE "native"
    /\ UNCHANGED <<session, focus, lastSurface, coarse, selection, down, moved, press, menu>>

\* The user selects text, or the selection collapses.
Select ==
    /\ Step /\ selection' = ~selection
    /\ UNCHANGED <<session, focus, lastSurface, took, coarse, down, moved, press, menu>>

\* onContextMenu.
RightClick(target) ==
    /\ Step /\ session /\ ShouldOfferCustomMenu(target)
    /\ menu' = target /\ Note(target)
    /\ UNCHANGED <<session, focus, took, coarse, selection, down, moved, press>>

\* pointerdown of a finger: it is the one timed now; a menu elsewhere closes.
Down(f, target) ==
    /\ Step /\ f \notin down
    /\ down' = down \cup {f} /\ moved' = moved \ {f}
    /\ menu' = None /\ IF session THEN Note(target) ELSE UNCHANGED lastSurface
    /\ IF session THEN origin' = f /\ over' = target /\ timer' = TRUE ELSE UNCHANGED press
    /\ UNCHANGED <<session, focus, took, coarse, selection>>

\* pointermove past the slop.
Move(f) ==
    /\ Step /\ f \in down /\ moved' = moved \cup {f}
    /\ IF session /\ f = origin THEN Clear ELSE UNCHANGED press
    /\ UNCHANGED <<session, focus, lastSurface, took, coarse, selection, down, menu>>

\* pointerup, or pointercancel when the browser takes the touch to scroll.
Lift(f, cancelled) ==
    /\ Step /\ f \in down /\ down' = down \ {f}
    /\ IF session THEN Clear ELSE UNCHANGED press
    /\ UNCHANGED <<session, focus, lastSurface, took, coarse, selection, moved, menu>>

\* Mutant: the menu was decided on when the finger came down.
FireBlind ==
    /\ timer /\ timer' = FALSE /\ menu' = over
    /\ UNCHANGED <<session, focus, lastSurface, took, coarse, selection, down, moved,
                   origin, over, steps>>

\* 520 ms after the press began.
Fire ==
    /\ timer /\ timer' = FALSE
    /\ menu' = IF ShouldOfferCustomMenu(over) THEN over ELSE menu
    /\ UNCHANGED <<session, focus, lastSurface, took, coarse, selection, down, moved,
                   origin, over, steps>>

\* Escape, a click elsewhere, or an action chosen.
CloseMenu ==
    /\ Step /\ menu # None /\ menu' = None
    /\ UNCHANGED <<session, focus, lastSurface, took, coarse, selection, down, moved, press>>

\* The document closes or another opens: the effects are undone.
SetSession ==
    /\ Step /\ session' = ~session /\ Clear
    /\ UNCHANGED <<focus, lastSurface, took, coarse, selection, down, moved, menu>>

Next ==
    \/ \E target \in Targets : Focus(target)
    \/ SelectAll
    \/ Select
    \/ \E target \in Targets : RightClick(target)
    \/ \E f \in Fingers, target \in Targets : Down(f, target)
    \/ \E f \in Fingers : Move(f)
    \/ \E f \in Fingers, cancelled \in BOOLEAN : Lift(f, cancelled)
    \/ Fire
    \/ CloseMenu
    \/ SetSession

Spec == Init /\ [][Next]_vars

----------------------------------------------------------------------------
\* A press is timed only while the finger that began it rests on the page of
\* an open document and has not moved: a scroll is a scroll, whatever the
\* other fingers do.
PressHeld == timer => session /\ origin \in down /\ origin \notin moved

\* On a phone the menu never opens over an editor with a live selection, by
\* either of the two ways: the platform's own callout is kept.
CalloutKept ==
    [][(menu' = "editor" /\ menu # "editor") => ~(coarse /\ selection)]_vars

\* Select All is taken for the preview only from the preview, or when it was
\* the pane last used, and never from the editor.
SelectAllScoped ==
    [][(took' = "preview" /\ took # "preview") =>
           focus # "editor" /\ "preview" \in {focus, lastSurface}]_vars
=============================================================================
