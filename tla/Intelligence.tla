---------------------------- MODULE Intelligence ----------------------------
(***************************************************************************)
(* The document inspector: a worker analyses the source                    *)
(* (client/src/intelligence/useDocumentIntelligence.ts, analyze.ts) and    *)
(* the surfaces of components/practical/PracticalInspector.tsx rewrite the *)
(* source at the places the last analysis found (operations.ts), while the *)
(* editor and peers go on changing it.                                     *)
(*                                                                         *)
(* A document is a sequence of lines; a place is a line number.  A line is *)
(* a record of its syntax, its heading level and its words.                *)
(***************************************************************************)
EXTENDS Integers, Sequences, FiniteSets, SequencesExt

CONSTANTS Sources,    \* documents the inspector is opened on
          MaxLevel,   \* levels of heading (six in Markdown)
          MaxEdits,   \* edits of the editor and of peers
          MaxUses,    \* uses of the inspector's buttons
          MaxOpens,   \* times the inspector is opened
          Failures,   \* whether the worker may stop or hang
          Roles       \* whether the access to the document may change

IntelligenceAssumption ==
    /\ MaxLevel \in Nat \ {0} /\ MaxEdits \in Nat /\ MaxUses \in Nat /\ MaxOpens \in Nat
    /\ Failures \in BOOLEAN /\ Roles \in BOOLEAN

VARIABLES doc,      \* the source
          edit,     \* whether this reader may edit
          hook,     \* the state of useDocumentIntelligence
          posted,   \* analyses the worker has been sent and not answered
          job,      \* an extraction under way
          kept,     \* lines in documents the inspector created
          said,     \* the last outcome it reported
          done      \* edits, uses and openings so far

vars == <<doc, edit, hook, posted, job, kept, said, done>>

Line(k, n, w) == [k |-> k, n |-> n, w |-> w]
Block == Line("block", 0, "extracted")
NoAnalysis == [rev |-> 0, text |-> <<>>]
NoJob == [at |-> "none"]

----------------------------------------------------------------------------
(* What an analysis finds in a text                                         *)

\* A line is code in an open fence, or as a fence
Code(t, i) ==
    \/ t[i].k = "fence"
    \/ Cardinality({j \in 1 .. i - 1 : t[j].k = "fence"}) % 2 = 1

Headings(t) == {i \in DOMAIN t : t[i].k = "head" /\ ~Code(t, i)}

\* The first line after the section of the heading on line i
SectionTo(t, i) ==
    LET after == {j \in Headings(t) : j > i /\ t[j].n <= t[i].n}
    IN  IF after = {} THEN Len(t) + 1 ELSE CHOOSE j \in after : \A m \in after : j <= m

Unclosed(t) == Cardinality({i \in DOMAIN t : t[i].k = "fence"}) % 2 = 1
Blocks(t) == {i \in DOMAIN t : t[i].k = "block" /\ ~Code(t, i)}

----------------------------------------------------------------------------
(* Rewriting the text t of now at the places found in the text a of then.   *)
(* No text stands for a refusal.                                            *)

Refused == <<Line("refused", 0, "")>>

\* slice, which ends with the text, and replaceRange, which refuses to
Slice(t, from, to) == SubSeq(t, from, IF to - 1 > Len(t) THEN Len(t) ELSE to - 1)
ReplaceRange(t, from, to, with) ==
    IF to > Len(t) + 1 THEN Refused ELSE SubSeq(t, 1, from - 1) \o with \o SubSeq(t, to, Len(t))

\* renameHeading: the line there now has the form of a heading
RenameHeading(t, a, i) ==
    IF i \in DOMAIN t /\ t[i].k = "head"
    THEN [t EXCEPT ![i].w = "renamed"] ELSE Refused

\* shiftHeadingDepth, on every line of the section with the form of a heading
ShiftHeadingDepth(t, a, i, by) ==
    LET section == Slice(t, i, SectionTo(a, i))
        heads == {j \in DOMAIN section : section[j].k = "head"}
    IN  IF heads = {} \/ \E j \in heads : section[j].n + by \notin 1 .. MaxLevel THEN Refused
        ELSE ReplaceRange(t, i, SectionTo(a, i),
                          [j \in DOMAIN section |->
                              IF j \in heads THEN [section[j] EXCEPT !.n = @ + by] ELSE section[j]])

\* The headings of the level of i inside the section of its parent
Siblings(t, a, i) ==
    LET parents == {p \in Headings(a) : p < i /\ SectionTo(a, p) >= SectionTo(a, i) /\ a[p].n < a[i].n}
        parent == CHOOSE p \in parents : \A q \in parents : q <= p
    IN  {s \in Headings(a) : a[s].n = a[i].n
            /\ IF parents = {} THEN SectionTo(a, s) <= Len(t) + 1
               ELSE s >= parent /\ SectionTo(a, s) <= SectionTo(a, parent)}

\* Mutant: the neighbour above is taken without its section
MoveUpAlone(t, a, i) ==
    LET before == {s \in Siblings(t, a, i) : s < i}
        n == CHOOSE s \in before : \A r \in before : r <= s
    IN  IF before = {} THEN Refused
        ELSE ReplaceRange(t, n, SectionTo(a, i), Slice(t, i, SectionTo(a, i)) \o Slice(t, n, n + 1))

\* moveHeadingSection
MoveUp(t, a, i) ==
    LET before == {s \in Siblings(t, a, i) : s < i}
        n == CHOOSE s \in before : \A r \in before : r <= s
    IN  IF before = {} THEN Refused
        ELSE ReplaceRange(t, n, SectionTo(a, i), Slice(t, i, SectionTo(a, i)) \o Slice(t, n, i))

MoveDown(t, a, i) ==
    LET after == {s \in Siblings(t, a, i) : s > i}
        n == CHOOSE s \in after : \A r \in after : r >= s
    IN  IF after = {} THEN Refused
        ELSE ReplaceRange(t, i, SectionTo(a, n),
                          Slice(t, n, SectionTo(a, n)) \o Slice(t, i, SectionTo(a, i)))

\* applySourceFix, of a value on a line (a redaction, an alternative text) and at the document's end
FixValue(t, a, i) == IF i \in DOMAIN t /\ t[i] = a[i] THEN [t EXCEPT ![i].w = "redacted"] ELSE Refused
CloseFence(t, a) == ReplaceRange(t, Len(a) + 1, Len(a) + 1, <<Line("fence", 0, "closing")>>)

\* The ledger toggles a marker that is still a marker
ToggleTask(t, a, i) ==
    IF i \in DOMAIN t /\ t[i].k = "task"
    THEN [t EXCEPT ![i].n = IF a[i].n = 1 THEN 0 ELSE 1] ELSE Refused

\* insertCitationFootnote: a marker at the selection and its source at the end
InsertCitation(t, i) == Append(InsertAt(t, i, Line("text", 0, "marker")), Line("text", 0, "source"))

\* updateFrontMatter: the header rewritten, a blank line under it dropped
UpdateFrontMatter(t) ==
    LET header == <<Line("matter", 0, "saved")>> IN
    IF t = <<>> \/ t[1].k # "matter" THEN header \o t
    ELSE header \o SubSeq(t, IF Len(t) > 1 /\ t[2].k = "blank" THEN 3 ELSE 2, Len(t))

----------------------------------------------------------------------------
(* The hook: every change of the source schedules an analysis               *)

Opened(n) == [active |-> TRUE, rev |-> 1, timer |-> FALSE, armed |-> TRUE,
              analyzing |-> TRUE, error |-> FALSE, analysis |-> NoAnalysis]

Init ==
    /\ doc \in Sources
    /\ edit = TRUE
    /\ hook = Opened(1)
    /\ posted = <<[rev |-> 1, text |-> doc]>>
    /\ job = NoJob
    /\ kept = <<>>
    /\ said = "none"
    /\ done = [edits |-> 0, uses |-> 0, opens |-> 1]

Changed(h) == IF h.active THEN [h EXCEPT !.rev = @ + 1, !.timer = TRUE] ELSE h

Becomes(t) == doc' = t /\ hook' = Changed(hook)

\* The editor or a peer inserts or removes a line
Insert(i) ==
    /\ done.edits < MaxEdits
    /\ done' = [done EXCEPT !.edits = @ + 1]
    /\ Becomes(InsertAt(doc, i, Line("text", 0, "typed")))
    /\ UNCHANGED <<edit, posted, job, kept, said>>

Delete(i) ==
    /\ done.edits < MaxEdits
    /\ done' = [done EXCEPT !.edits = @ + 1]
    /\ Becomes(RemoveAt(doc, i))
    /\ UNCHANGED <<edit, posted, job, kept, said>>

\* An owner changes this reader's access
Regrant ==
    /\ Roles
    /\ done.edits < MaxEdits
    /\ done' = [done EXCEPT !.edits = @ + 1]
    /\ edit' = ~edit
    /\ UNCHANGED <<doc, hook, posted, job, kept, said>>

\* submit, when the source has been still for a moment
Submit ==
    /\ hook.active /\ hook.timer
    /\ hook' = [hook EXCEPT !.timer = FALSE, !.armed = TRUE, !.analyzing = TRUE, !.error = FALSE]
    /\ posted' = Append(posted, [rev |-> hook.rev, text |-> doc])
    /\ UNCHANGED <<doc, edit, job, kept, said, done>>

\* onmessage: an answer for another revision schedules a new analysis
Answered ==
    /\ hook.active /\ posted # <<>>
    /\ hook' = IF Head(posted).rev # hook.rev THEN [hook EXCEPT !.armed = FALSE, !.timer = TRUE]
               ELSE [hook EXCEPT !.armed = FALSE, !.analyzing = FALSE, !.error = FALSE, !.analysis = Head(posted)]
    /\ posted' = Tail(posted)
    /\ UNCHANGED <<doc, edit, job, kept, said, done>>

\* fail: the worker stops, or the deadline of an analysis passes
Fails ==
    /\ Failures /\ hook.active
    /\ hook.armed \/ posted # <<>>
    /\ hook' = [hook EXCEPT !.active = FALSE, !.timer = FALSE, !.armed = FALSE, !.analyzing = FALSE, !.error = TRUE]
    /\ posted' = <<>>
    /\ UNCHANGED <<doc, edit, job, kept, said, done>>

\* The inspector is closed and opened again
Reopen ==
    /\ done.opens < MaxOpens
    /\ done' = [done EXCEPT !.opens = @ + 1]
    /\ hook' = Opened(1)
    /\ posted' = <<[rev |-> 1, text |-> doc]>>
    /\ UNCHANGED <<doc, edit, job, kept, said>>

----------------------------------------------------------------------------
(* The surfaces                                                             *)

Found == hook.analysis.text
Editable == edit /\ ~hook.analyzing /\ hook.analysis.rev > 0
Fresh == Found = doc

\* A button that rewrites the source: commit, or the report of a refusal
Commit(t) ==
    /\ done.uses < MaxUses
    /\ done' = [done EXCEPT !.uses = @ + 1]
    /\ IF t \in {Refused, doc} THEN UNCHANGED <<doc, hook>> ELSE Becomes(t)
    /\ UNCHANGED <<edit, posted, job, kept, said>>

Rename == \E i \in Headings(Found) : Editable /\ Commit(RenameHeading(doc, Found, i))
Promote == \E i \in Headings(Found) : Editable /\ Found[i].n > 1 /\ Commit(ShiftHeadingDepth(doc, Found, i, -1))
Demote == \E i \in Headings(Found) : Editable /\ Found[i].n < MaxLevel /\ Commit(ShiftHeadingDepth(doc, Found, i, 1))
Up == \E i \in Headings(Found) : Editable /\ Commit(MoveUp(doc, Found, i))
Down == \E i \in Headings(Found) : Editable /\ Commit(MoveDown(doc, Found, i))
Redact == \E i \in DOMAIN Found : Editable /\ Found[i].w = "secret" /\ Commit(FixValue(doc, Found, i))
Close == Editable /\ Unclosed(Found) /\ Commit(CloseFence(doc, Found))
Toggle == \E i \in DOMAIN Found : Editable /\ Found[i].k = "task" /\ ~Code(Found, i) /\ Commit(ToggleTask(doc, Found, i))
Add == Editable /\ Commit(Append(doc, Line("task", 0, "added")))

Paste == \E i \in 1 .. Len(doc) + 1 : Editable /\ Commit(InsertAt(doc, i, Line("text", 0, "pasted")))
Cite == \E i \in 1 .. Len(doc) + 1 : Editable /\ Commit(InsertCitation(doc, i))
SaveSchema == edit /\ hook.analysis.rev > 0 /\ Commit(UpdateFrontMatter(doc))

\* onExtract: the source read first, a version of it, a new document, and the source without the section
Extract ==
    /\ job.at = "none" /\ done.uses < MaxUses
    /\ done' = [done EXCEPT !.uses = @ + 1]
    /\ \E i \in Headings(Found) :
          /\ Editable
          /\ job' = [at |-> "saving", text |-> doc, from |-> i, to |-> SectionTo(Found, i)]
    /\ UNCHANGED <<doc, edit, hook, posted, kept, said>>

Saved ==
    /\ job.at = "saving"
    /\ job' = [job EXCEPT !.at = "creating"]
    /\ UNCHANGED <<doc, edit, hook, posted, kept, said, done>>

NotExtracted ==
    /\ job.at # "none"
    /\ job' = NoJob /\ said' = "not extracted"
    /\ UNCHANGED <<doc, edit, hook, posted, kept, done>>

\* The new document, and commit, which only reports that the role cannot edit
Created ==
    /\ job.at = "creating"
    /\ LET remaining == ReplaceRange(job.text, job.from, job.to, <<Block>>) IN
          /\ kept' = kept \o Slice(job.text, job.from, job.to)
          /\ IF remaining = Refused THEN said' = "not extracted" /\ UNCHANGED <<doc, hook>>
             ELSE /\ said' = "extracted"
                  /\ IF ~edit \/ remaining = doc THEN UNCHANGED <<doc, hook>> ELSE Becomes(remaining)
    /\ job' = NoJob
    /\ UNCHANGED <<edit, posted, done>>

\* PublishActions: the blocks found are replaced by what they link to, last first
Resolved(t, found) ==
    FoldSet(LAMBDA i, s : IF i <= Len(s) THEN [s EXCEPT ![i] = Line("linked", 0, "")]
                                         ELSE Append(s, Line("linked", 0, "")), t, found)

Publish ==
    /\ done.uses < MaxUses /\ hook.analysis.rev > 0
    /\ done' = [done EXCEPT !.uses = @ + 1]
    /\ said' = IF Resolved(doc, Blocks(Found)) = Resolved(doc, Blocks(doc)) THEN "published" ELSE "published another"
    /\ UNCHANGED <<doc, edit, hook, posted, job, kept>>

Next ==
    \/ \E i \in 1 .. Len(doc) + 1 : Insert(i)
    \/ \E i \in DOMAIN doc : Delete(i)
    \/ Regrant
    \/ Submit
    \/ Answered
    \/ Fails
    \/ Reopen
    \/ Rename \/ Promote \/ Demote \/ Up \/ Down
    \/ Redact \/ Close \/ Toggle \/ Add \/ Paste \/ Cite \/ SaveSchema
    \/ Extract \/ Saved \/ NotExtracted \/ Created
    \/ Publish

Spec == Init /\ [][Next]_vars

----------------------------------------------------------------------------
(* Properties                                                               *)

\* While an analysis is awaited, a deadline runs or a new analysis is due: an
\* answer for an old revision clears the deadline of a later one still awaited
\* (useDocumentIntelligence.ts, onmessage).
DeadlineWatches == hook.active /\ hook.analyzing => hook.armed \/ hook.timer

\* An analysis shown at rest is of the source as it is, whatever order answers,
\* edits and timers came in (useDocumentIntelligence.ts, onmessage and onChange).
SettledIsExact == hook.active /\ ~hook.analyzing /\ ~hook.timer => Found = doc

Subtrees(t) == {Range(Slice(t, i, SectionTo(t, i))) : i \in Headings(t)}

\* The next heading of the level of i in the section of its parent begins where
\* the section of i ends
FollowedBySibling(t, i) == SectionTo(t, i) \in Siblings(t, t, i)

\* Moving a section of the analysed source keeps every section with all its
\* children, wherever the levels jump (moveHeadingSection): up, and down if the
\* next sibling follows it at once; what lies between the two is lost else.  An
\* open code fence at the end of the source is left out: moved up, it takes in
\* what follows.
MovesKeepSubtrees ==
    [][/\ Fresh /\ ~Unclosed(doc)
       /\ \/ Up
          \/ \E i \in Headings(doc) : FollowedBySibling(doc, i) /\ Commit(MoveDown(doc, doc, i))
       => Subtrees(doc') = Subtrees(doc)]_vars

\* Promoting or demoting a section of the analysed source takes its children
\* with it: none of them leaves it (shiftHeadingDepth).
ShiftsKeepChildren ==
    [][(Promote \/ Demote) /\ Fresh /\ doc' # doc
        => LET i == Min({j \in DOMAIN doc : doc'[j] # doc[j]}) IN SectionTo(doc', i) >= SectionTo(doc, i)]_vars
=============================================================================
