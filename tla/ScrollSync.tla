----------------------------- MODULE ScrollSync -----------------------------
(***************************************************************************)
(* Two panes that scroll together.  A browser's frame first delivers the   *)
(* scroll events of the positions that changed and then runs the           *)
(* callbacks of requestAnimationFrame; a position changed by a handler is  *)
(* announced in the same frame or, as in Blink, in the next one.  The      *)
(* editor's position is the line at its top, the preview's is in pixels;   *)
(* where a pixel falls between two lines, or a line between two pixels,    *)
(* either neighbour is possible.                                           *)
(***************************************************************************)
EXTENDS Integers, Sequences, FiniteSets, FiniteSetsExt

CONSTANTS
    Layouts,   \* texts as they are laid out: lines, bottom (the last line that
               \* can be at the top), blocks, height and max, in pixels
    MaxMoves   \* bound: what the user does

ScrollAssumption == MaxMoves \in Nat

Panes == {"editor", "preview"}

VARIABLES
    lay,       \* the layout there is
    ed, pv,    \* positions
    follow,    \* "off", "both" or "preview"
    indexed,   \* the layout the index was built from, or 0
    applying,
    raf,       \* a callback is asked for
    pending,   \* panes whose event is to come
    batch,     \* panes whose event comes in this frame
    phase,     \* "tasks" or "scroll"
    own,       \* panes whose event is of a move of the user
    last,      \* the user's last move: the pane and its position
    lost,      \* an event of the user's came while applying
    moves

frame == <<pending, batch, phase>>
user == <<own, last, lost, moves>>
vars == <<lay, ed, pv, follow, indexed, applying, raf, frame, user>>

L == Layouts[lay]

Clamped(x, low, high) == IF x < low THEN low ELSE IF x > high THEN high ELSE x

\* The two integers a quotient lies between.
Near(a, b) == {a \div b, (a + b - 1) \div b}

\* previewOffsetForLine: the pixels a line may be given; none without blocks.
PreviewOffsetForLine(blocks, line) ==
    LET i == Min({j \in DOMAIN blocks : j = Len(blocks) \/ line < blocks[j + 1].line})
        span == Max({blocks[i + 1].line - blocks[i].line, 1})
        part == Clamped(line - blocks[i].line, 0, span)
    IN  IF blocks = <<>> THEN {}
        ELSE IF line <= blocks[1].line THEN {0}
        ELSE IF i = Len(blocks) THEN {blocks[i].top}
        ELSE {blocks[i].top + d : d \in Near((blocks[i + 1].top - blocks[i].top) * part, span)}

\* topVisiblePreviewLine, rounded up as doc.line does with a fraction.
LineAtTop(blocks, top) ==
    LET i == Min({j \in DOMAIN blocks : blocks[j].bottom > top})
        height == Max({blocks[i].bottom - blocks[i].top, 1})
        span == IF i = Len(blocks) THEN 1 ELSE Max({blocks[i + 1].line - blocks[i].line, 1})
        part == Clamped(top - blocks[i].top, 0, height)
    IN  IF \E j \in DOMAIN blocks : blocks[j].bottom > top
        THEN blocks[i].line + (span * part + height - 1) \div height
        ELSE blocks[Len(blocks)].line

\* The index is of a layout as high and with as many blocks as the one there is.
LooksAlike ==
    /\ indexed # 0
    /\ Len(Layouts[indexed].blocks) = Len(L.blocks) /\ Layouts[indexed].height = L.height

\* buildIndex: the layout the offsets are of.
BuildIndex == IF LooksAlike THEN indexed ELSE lay

Init ==
    /\ lay = 1 /\ ed = 1 /\ pv = 0 /\ follow = "off" /\ indexed = 0
    /\ applying = FALSE /\ raf = FALSE
    /\ pending = {} /\ batch = {} /\ phase = "tasks"
    /\ own = {} /\ last = <<>> /\ lost = FALSE /\ moves = 0

\* The panes move to x and y and those of served have had their event; one
\* that moved has an event to come, in a frame under way perhaps at once.
Place(x, y, served) ==
    LET moved == (IF x # ed THEN {"editor"} ELSE {}) \cup (IF y # pv THEN {"preview"} ELSE {})
    IN  /\ ed' = x /\ pv' = y
        /\ own' = own \ (served \cup moved)
        /\ \/ pending' = pending \cup moved /\ batch' = batch \ served
           \/ /\ phase = "scroll" /\ moved # {}
              /\ batch' = (batch \ served) \cup moved /\ UNCHANGED pending

\* Where a line puts the preview, and the editor.
PreviewAt(line) ==
    LET offsets == PreviewOffsetForLine(Layouts[BuildIndex].blocks, line)
    IN  IF offsets = {} THEN {pv} ELSE {Clamped(x, 0, L.max) : x \in offsets}

EditorAt(line) == Clamped(Clamped(line + 1, 1, L.lines), 1, L.bottom)

\* guard
Guard == applying' = TRUE /\ raf' = TRUE

\* An event its handler returns from at once.
Ignore(p) ==
    /\ lost' = (lost \/ (applying /\ p \in own)) /\ Place(ed, pv, {p})
    /\ UNCHANGED <<indexed, applying, raf>>

\* fromEditor
FromEditor ==
    IF follow = "off" \/ applying THEN Ignore("editor")
    ELSE /\ Guard /\ indexed' = BuildIndex /\ UNCHANGED lost
         /\ \E y \in PreviewAt(ed - 1) : Place(ed, y, {"editor"})

\* fromPreview
FromPreview ==
    IF follow # "both" \/ applying THEN Ignore("preview")
    ELSE /\ Guard /\ indexed' = BuildIndex /\ UNCHANGED lost
         /\ LET blocks == Layouts[BuildIndex].blocks
            IN  Place(IF blocks = <<>> THEN ed ELSE EditorAt(LineAtTop(blocks, pv)), pv, {"preview"})

\* A frame begins when there is something to announce or to call.
BeginFrame ==
    /\ phase = "tasks" /\ (pending # {} \/ raf)
    /\ phase' = "scroll" /\ batch' = pending /\ pending' = {}
    /\ UNCHANGED <<lay, ed, pv, follow, indexed, applying, raf, user>>

Dispatch(p) ==
    /\ phase = "scroll" /\ p \in batch
    /\ IF p = "editor" THEN FromEditor ELSE FromPreview
    /\ UNCHANGED <<lay, follow, phase, last, moves>>

\* The callbacks asked for until now.
EndFrame ==
    /\ phase = "scroll" /\ batch = {} /\ phase' = "tasks"
    /\ applying' = (applying /\ ~raf) /\ raf' = FALSE
    /\ UNCHANGED <<lay, ed, pv, follow, indexed, pending, batch, user>>

Task == phase = "tasks" /\ moves < MaxMoves /\ moves' = moves + 1

\* The user scrolls a pane.
Scroll(p, to) ==
    /\ Task /\ UNCHANGED <<lay, follow, indexed, applying, raf, phase, batch>>
    /\ IF p = "editor" THEN to \in (1 .. L.bottom) \ {ed} /\ ed' = to /\ UNCHANGED pv
       ELSE follow = "both" /\ to \in (0 .. L.max) \ {pv} /\ pv' = to /\ UNCHANGED ed
    /\ pending' = pending \cup {p} /\ own' = own \cup {p} /\ last' = <<p, to>> /\ lost' = FALSE

\* scrollToLine, from the outline.
ScrollToLine(line) ==
    /\ Task /\ Guard /\ indexed' = IF follow = "off" THEN indexed ELSE BuildIndex
    /\ \E y \in IF follow = "off" THEN {pv} ELSE PreviewAt(line) : Place(EditorAt(line), y, {})
    /\ last' = <<>> /\ UNCHANGED <<lay, follow, lost, phase>>

\* followPreviewToLine, from the caret on a phone.
FollowPreviewToLine(line) ==
    /\ Task /\ follow = "preview" /\ ~applying
    /\ Guard /\ indexed' = BuildIndex
    /\ \E y \in PreviewAt(line) : Place(ed, y, {})
    /\ last' = <<>> /\ UNCHANGED <<lay, follow, lost, phase>>

\* setFollow and setPreview: the layout of the workspace changes and with it
\* the preview's element.
SetFollow(f) ==
    /\ Task /\ f # follow /\ follow' = f /\ indexed' = 0 /\ pv' = 0
    /\ pending' = pending \ {"preview"} /\ own' = own \ {"preview"} /\ last' = <<>>
    /\ UNCHANGED <<lay, ed, applying, raf, phase, batch, lost>>

\* An edit is laid out anew.
Relayout(l) ==
    /\ Task /\ l # lay /\ lay' = l
    /\ ed' = Min({ed, Layouts[l].bottom}) /\ pv' = Min({pv, Layouts[l].max})
    /\ pending' = pending \cup (IF ed' # ed THEN {"editor"} ELSE {})
                          \cup (IF pv' # pv THEN {"preview"} ELSE {})
    /\ last' = <<>> /\ UNCHANGED <<follow, indexed, applying, raf, phase, batch, own, lost>>

Positions == 0 .. Max({Layouts[l].max : l \in DOMAIN Layouts})
Lines == 0 .. Max({Layouts[l].lines : l \in DOMAIN Layouts}) - 1

Next ==
    \/ BeginFrame \/ EndFrame
    \/ \E p \in Panes : Dispatch(p)
    \/ \E p \in Panes, to \in Positions : Scroll(p, to)
    \/ \E line \in Lines : ScrollToLine(line)
    \/ \E line \in Lines : FollowPreviewToLine(line)
    \/ \E f \in {"off", "both", "preview"} : SetFollow(f)
    \/ \E l \in DOMAIN Layouts : Relayout(l)

Spec == Init /\ [][Next]_vars

AtRest == phase = "tasks" /\ pending = {} /\ ~raf

----------------------------------------------------------------------------
\* The index is of lines that an edit has moved since.
LinesMoved == LooksAlike /\ Layouts[indexed].blocks # L.blocks

\* Once the frames are done after a scroll that no other motion hid, the pane
\* that did not move shows what the text as it is laid out puts beside the
\* other.  An edit that moves lines without a change of height or of the number
\* of blocks is excepted: buildIndex keeps the lines from before it.
PanesAgree ==
    AtRest /\ follow = "both" /\ last # <<>> /\ ~lost /\ ~LinesMoved =>
        \/ pv \in {Clamped(y, 0, L.max) : y \in PreviewOffsetForLine(L.blocks, ed - 1)}
        \/ ed = EditorAt(LineAtTop(L.blocks, pv))

\* On a phone the preview never moves the editor.
GhostIsPassive ==
    [][follow = "preview" /\ ed' # ed => phase = "tasks"]_vars
=============================================================================
