----------------------------- MODULE Clipboard -----------------------------
(***************************************************************************)
(* Edits that wait: cut and paste through the asynchronous clipboard, and  *)
(* images that are uploaded before their Markdown is written.  Between the *)
(* request and the edit the document changes under other hands, access may *)
(* be withdrawn and another document may be opened.  Cut keeps offsets,    *)
(* uploads keep anchors: an anchor names a character, deleted or not.      *)
(***************************************************************************)
EXTENDS Integers, Sequences, SequencesExt, FiniteSets

CONSTANTS
    Docs,      \* documents
    First,     \* First[d]: the characters a document starts with
    Typed,     \* characters others type, pasted text and image Markdown
    MaxOps     \* bound: requests

ClipboardAssumption == MaxOps \in Nat

None == "none"

VARIABLES
    open,     \* the document whose editor is mounted
    order,    \* order[d]: its characters in order, the deleted ones too
    dead,     \* dead[d]: the deleted ones
    canEdit,  \* capabilities().edit
    clip,     \* characters on the clipboard
    waiting,  \* requests whose await has not returned
    cuts,     \* of each cut: what it copied and what it took out
    uploads,  \* of each upload written: what was asked for and taken out
    pastes,   \* of each paste: where it was asked for and where it went
    ops

vars == <<open, order, dead, canEdit, clip, waiting, cuts, uploads, pastes, ops>>

Text(d) == SelectSeq(order[d], LAMBDA t : t \notin dead[d])
Unused == {t \in Typed : \A d \in Docs : t \notin ToSet(order[d])}
Slice(d, from, to) == ToSet(SubSeq(Text(d), from + 1, to))
Ranges(d) == {r \in (0 .. Len(Text(d))) \X (0 .. Len(Text(d))) : r[1] <= r[2]}

\* Where a new character goes for an offset: behind the one before it.
Place(d, at) ==
    IF at = 0 THEN 0 ELSE CHOOSE i \in DOMAIN order[d] : order[d][i] = Text(d)[at]

\* One change of a document: characters deleted, one perhaps inserted.
Change(d, gone, at, new) ==
    /\ dead' = [dead EXCEPT ![d] = @ \cup gone]
    /\ order' = IF new = None THEN order
                ELSE [order EXCEPT ![d] = InsertAt(@, Place(d, at) + 1, new)]

\* captureTextRange: the characters after its start and before its end, and
\* the offsets of then.
CaptureTextRange(d, from, to) ==
    [start |-> IF from = Len(Text(d)) THEN None ELSE Text(d)[from + 1],
     end |-> IF to = 0 THEN None ELSE Text(d)[to],
     startOffset |-> from, endOffset |-> to]

Before(d, t) == SelectInSeq(order[d], LAMBDA o : o = t) - 1
Alive(d, n) == Len(SelectSeq(SubSeq(order[d], 1, n), LAMBDA t : t \notin dead[d]))

\* Mutant: the offsets of then are used.
ResolveOffsets(d, r) ==
    LET len == Len(Text(d))
        to == IF r.endOffset > len THEN len ELSE r.endOffset
    IN  <<IF r.startOffset > to THEN to ELSE r.startOffset, to>>

\* resolveTextRange: where the anchors are in the text of now.
ResolveTextRange(d, r) ==
    LET from == IF r.start = None THEN Len(Text(d)) ELSE Alive(d, Before(d, r.start))
        to == IF r.end = None THEN 0 ELSE Alive(d, Before(d, r.end) + 1)
    IN  <<from, IF to < from THEN from ELSE to>>

Init ==
    /\ open \in Docs /\ order = First /\ dead = [d \in Docs |-> {}]
    /\ canEdit = TRUE /\ clip = {} /\ waiting = {}
    /\ cuts = {} /\ uploads = {} /\ pastes = {} /\ ops = 0

Ask(w) == ops < MaxOps /\ ops' = ops + 1 /\ waiting' = waiting \cup {w}

\* Somebody types into the open document, or deletes.
OtherTypes(at, t) ==
    /\ t \in Unused /\ at <= Len(Text(open))
    /\ Change(open, {}, at, t)
    /\ UNCHANGED <<open, canEdit, clip, waiting, cuts, uploads, pastes, ops>>

OtherDeletes(t) ==
    /\ t \in ToSet(Text(open)) /\ Change(open, {t}, 0, None)
    /\ UNCHANGED <<open, canEdit, clip, waiting, cuts, uploads, pastes, ops>>

LoseEdit ==
    /\ canEdit /\ canEdit' = FALSE
    /\ UNCHANGED <<open, order, dead, clip, waiting, cuts, uploads, pastes, ops>>

\* Another document is opened: the editor and the session of this one end.
OpenOther(d) ==
    /\ d # open /\ open' = d
    /\ UNCHANGED <<order, dead, canEdit, clip, waiting, cuts, uploads, pastes, ops>>

\* cutEditor of the context menu: the write is not waited for.
MenuCut(r, written) ==
    /\ canEdit /\ ops < MaxOps /\ ops' = ops + 1 /\ r[1] < r[2]
    /\ LET s == Slice(open, r[1], r[2])
       IN  /\ clip' = IF written THEN s ELSE clip
           /\ cuts' = cuts \cup {[by |-> "menu", copied |-> IF written THEN s ELSE {}, gone |-> s]}
           /\ Change(open, s, 0, None)
    /\ UNCHANGED <<open, canEdit, waiting, uploads, pastes>>

\* copySelection, and the menu's copy.
Copy(r) ==
    /\ ops < MaxOps /\ ops' = ops + 1 /\ r[1] < r[2]
    /\ clip' = Slice(open, r[1], r[2])
    /\ UNCHANGED <<open, order, dead, canEdit, waiting, cuts, uploads, pastes>>

\* cutSelection up to its await.
Cut(r) ==
    /\ canEdit /\ r[1] < r[2]
    /\ Ask([kind |-> "cut", doc |-> open, range |-> r, asked |-> Slice(open, r[1], r[2])])
    /\ UNCHANGED <<open, order, dead, canEdit, clip, cuts, uploads, pastes>>

\* cutSelection after it: the offsets of before.
CutWritten(w) ==
    /\ w \in waiting /\ w.kind = "cut" /\ w.doc = open /\ waiting' = waiting \ {w}
    /\ clip' = w.asked
    /\ LET s == Slice(open, w.range[1], w.range[2])
       IN  IF w.range[2] <= Len(Text(open))
           THEN /\ cuts' = cuts \cup {[by |-> "ribbon", copied |-> w.asked, gone |-> s]}
                /\ Change(open, s, 0, None)
           ELSE UNCHANGED <<cuts, order, dead>>
    /\ UNCHANGED <<open, canEdit, uploads, pastes, ops>>

\* pasteMarkdown and the menu's pasteEditor up to their await.
Paste(kind) ==
    /\ canEdit /\ Ask([kind |-> kind, doc |-> open, range |-> <<0, 0>>, asked |-> {}])
    /\ UNCHANGED <<open, order, dead, canEdit, clip, cuts, uploads, pastes>>

\* After it: the menu's goes to the editor of now, the ribbon's to its own.
Pasted(w, at, t) ==
    /\ w \in waiting /\ w.kind \in {"menu-paste", "paste"} /\ waiting' = waiting \ {w}
    /\ w.kind = "menu-paste" \/ w.doc = open
    /\ t \in Unused /\ at <= Len(Text(open)) /\ Change(open, {}, at, t)
    /\ pastes' = pastes \cup {[asked |-> w.doc, went |-> open]}
    /\ UNCHANGED <<open, canEdit, clip, cuts, uploads, ops>>

\* insertImageFilesAtRange and replaceImageFileAtCursor up to the upload.
Upload(kind, r) ==
    /\ canEdit /\ kind = "replace" => r[1] < r[2]
    /\ Ask([kind |-> kind, doc |-> open, range |-> CaptureTextRange(open, r[1], r[2]),
            asked |-> Slice(open, r[1], r[2])])
    /\ UNCHANGED <<open, order, dead, canEdit, clip, cuts, uploads, pastes>>

\* What is asked again after the upload.
MayWrite(w, now) == canEdit /\ (w.kind = "replace" => now = w.asked)

\* The upload is there and its Markdown is written over the range of now.
Uploaded(w, t) ==
    /\ w \in waiting /\ w.kind \in {"insert", "replace"} /\ w.doc = open
    /\ waiting' = waiting \ {w} /\ t \in Unused
    /\ LET r == ResolveTextRange(open, w.range)
           now == Slice(open, r[1], r[2])
       IN  /\ MayWrite(w, now)
           /\ Change(open, now, r[1], t)
           /\ uploads' = uploads \cup {[kind |-> w.kind, asked |-> w.asked, gone |-> now,
                                        allowed |-> canEdit]}
    /\ UNCHANGED <<open, canEdit, clip, cuts, pastes, ops>>

\* The clipboard or the upload refuses, the check after it fails, or the
\* editor or session it was asked of is gone.
Refused(w) ==
    /\ w \in waiting /\ waiting' = waiting \ {w}
    /\ UNCHANGED <<open, order, dead, canEdit, clip, cuts, uploads, pastes, ops>>

Next ==
    \/ \E at \in 0 .. Len(Text(open)), t \in Unused : OtherTypes(at, t)
    \/ \E t \in ToSet(Text(open)) : OtherDeletes(t)
    \/ LoseEdit
    \/ \E d \in Docs : OpenOther(d)
    \/ \E r \in Ranges(open), written \in BOOLEAN : MenuCut(r, written)
    \/ \E r \in Ranges(open) : Copy(r)
    \/ \E r \in Ranges(open) : Cut(r)
    \/ \E w \in waiting : CutWritten(w)
    \/ \E kind \in {"menu-paste", "paste"} : Paste(kind)
    \/ \E w \in waiting : \E at \in 0 .. Len(Text(open)), t \in Unused : Pasted(w, at, t)
    \/ \E kind \in {"insert", "replace"}, r \in Ranges(open) : Upload(kind, r)
    \/ \E w \in waiting : \E t \in Unused : Uploaded(w, t)
    \/ \E w \in waiting : Refused(w)

Spec == Init /\ [][Next]_vars

Span(d, s) == {i \in DOMAIN order[d] : \E j, k \in DOMAIN order[d] :
                   j <= i /\ i <= k /\ order[d][j] \in s /\ order[d][k] \in s}

----------------------------------------------------------------------------
\* What an uploaded image takes the place of lies within what was selected
\* when it was asked for: nothing that others typed at the ends of the
\* selection, or anywhere else, is lost to it.
UploadsWithin ==
    \A u \in uploads : \E d \in Docs :
        \A t \in u.gone : \E i \in Span(d, u.asked) : order[d][i] = t

\* A replaced image is the image that was selected, unchanged, and no upload
\* writes after edit access was withdrawn.
ReplacesSelected ==
    \A u \in uploads : u.allowed /\ (u.kind = "replace" => u.gone = u.asked)
=============================================================================
