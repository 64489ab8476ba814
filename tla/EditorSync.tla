----------------------------- MODULE EditorSync -----------------------------
(***************************************************************************)
(* The bridge between the CodeMirror view and the replica (syncExtension): *)
(* editor transactions are replayed on the replica, replica changes are    *)
(* patched into the view by a microtask, a refused edit is undone in the   *)
(* view by a reconciliation with a text captured when it was scheduled.    *)
(***************************************************************************)
EXTENDS Integers, Sequences, SequencesExt

CONSTANTS
  Chars,
  MaxLen,      \* longest text
  MaxRanges,   \* changed ranges of one editor transaction
  TxLimit,     \* units one CRDT transaction may change
  Chunk,       \* EDITOR_CHUNK_UNITS
  MaxSteps,    \* bound on edits
  None

EditorSyncAssumption ==
  {MaxLen, MaxRanges, TxLimit, MaxSteps} \subseteq Nat /\ Chunk \in Nat \ {0}

VARIABLES
  text,      \* the replica's text
  view,      \* the editor's text
  mounted,   \* a view is attached
  patches,   \* editorPatchTarget.edits
  target,    \* reconcileTarget.text
  micro,     \* queued microtasks, in order
  ready,     \* the 16 ms interval that waits for the replica still runs
  crossed,   \* the replica changed in the task of the mount
  steps

vars == <<text, view, mounted, patches, target, micro, ready, crossed, steps>>

Texts == UNION {[1..n -> Chars] : n \in 0..MaxLen}
Edits == {e \in [from : 0..MaxLen, to : 0..MaxLen, insert : UNION {[1..n -> Chars] : n \in 0..2}] :
            e.from <= e.to /\ (e.from = e.to => e.insert # <<>>)}
Fits(e, s) == e.to <= Len(s) /\ Len(s) + Len(e.insert) <= MaxLen
Units(e) == e.to - e.from + Len(e.insert)

Init ==
  /\ text = <<>> /\ view = <<>> /\ mounted = FALSE
  /\ patches = <<>> /\ target = None /\ micro = <<>>
  /\ ready = FALSE /\ crossed = FALSE /\ steps = 0

------------------------------------------------------------------------------
\* A replacement in UTF-16 offsets.
Splice(s, e) == SubSeq(s, 1, e.from) \o e.insert \o SubSeq(s, e.to + 1, Len(s))
Applied(s, edits) == FoldLeft(Splice, s, edits)

\* replaceRangeChunked: deletions at a fixed offset, then insertions forward.
InChunks(e) ==
  [i \in 1..((e.to - e.from + Chunk - 1) \div Chunk) |->
     [from |-> e.from, insert |-> <<>>,
      to |-> e.from + (IF i * Chunk <= e.to - e.from THEN Chunk ELSE (e.to - e.from) % Chunk)]]
  \o [i \in 1..((Len(e.insert) + Chunk - 1) \div Chunk) |->
     [from |-> e.from + (i - 1) * Chunk, to |-> e.from + (i - 1) * Chunk,
      insert |-> SubSeq(e.insert, (i - 1) * Chunk + 1,
                        IF i * Chunk < Len(e.insert) THEN i * Chunk ELSE Len(e.insert))]]

Chunked(e) == IF Units(e) <= Chunk THEN <<e>> ELSE InChunks(e)

\* An editor transaction: ranges in old coordinates, shifted as they apply.
Shifted(ranges) ==
  FoldLeft(LAMBDA acc, r :
             [done |-> Append(acc.done, [r EXCEPT !.from = @ + acc.adjust, !.to = @ + acc.adjust]),
              adjust |-> acc.adjust + Len(r.insert) - (r.to - r.from)],
           [done |-> <<>>, adjust |-> 0], ranges).done

\* applyChangesInHalves: each range at its old coordinates; a range beyond the
\* end is refused by the engine and ends the loop.
Halves(s, ranges) ==
  FoldLeft(LAMBDA acc, r :
             IF ~acc.ok \/ r.to > Len(acc.text) THEN [acc EXCEPT !.ok = FALSE]
             ELSE [acc EXCEPT !.text = Applied(@, Chunked(r))],
           [text |-> s, ok |-> TRUE], ranges)

------------------------------------------------------------------------------
\* scheduleReconcile captures the replica's text.
Reconcile(t) ==
  /\ target' = t
  /\ micro' = IF "reconcile" \in ToSet(micro) THEN micro ELSE Append(micro, "reconcile")

\* onChange and scheduleEditorPatch.
SchedulePatch(edits) ==
  IF ~mounted \/ edits = <<>> THEN UNCHANGED <<patches, micro>>
  ELSE /\ patches' = patches \o edits
       /\ micro' = IF "patch" \in ToSet(micro) THEN micro ELSE Append(micro, "patch")

\* The view starts empty; the plugin queues a reconciliation of its own and
\* attaches to the loaded replica, which schedules another.
Mount ==
  /\ ~mounted /\ micro = <<>>
  /\ mounted' = TRUE /\ view' = <<>> /\ ready' = TRUE /\ crossed' = FALSE
  /\ target' = text /\ micro' = <<"remount", "reconcile">>
  /\ UNCHANGED <<text, patches, steps>>

\* The plugin's own microtask captures the text anew.
RunRemount ==
  /\ micro # <<>> /\ Head(micro) = "remount"
  /\ target' = text /\ micro' = Tail(micro)
  /\ UNCHANGED <<text, view, mounted, patches, ready, crossed, steps>>

\* The interval finds the replica: it is cleared, the plugin attaches again.
Ready ==
  /\ mounted /\ ready /\ micro = <<>>
  /\ ready' = FALSE /\ Reconcile(text)
  /\ UNCHANGED <<text, view, mounted, patches, crossed, steps>>

Unmount ==
  /\ mounted /\ micro = <<>>
  /\ mounted' = FALSE /\ ready' = FALSE /\ view' = <<>>
  /\ UNCHANGED <<text, patches, target, micro, crossed, steps>>

Ordered(ranges) ==
  /\ \A i \in 1..Len(ranges) : ranges[i].to <= Len(view)
  /\ \A i \in 1..Len(ranges) - 1 : ranges[i].to < ranges[i + 1].from
  /\ Len(Applied(view, Shifted(ranges))) <= MaxLen
\* Every range lies in the replica's text.
Within(ranges) == Last(ranges).to <= Len(text)
Size(ranges) == FoldLeft(LAMBDA n, r : n + Units(r), 0, ranges)

\* Mutant: the plugin does not know its own transactions.
TypedEchoed(ranges) ==
  /\ view' = Applied(view, Shifted(ranges))
  /\ text' = Applied(text, Shifted(ranges))
  /\ SchedulePatch(Shifted(ranges)) /\ UNCHANGED <<mounted, target, ready>>

\* The editor already shows the transaction; the replica takes it whole, or in
\* pieces when it is too large for one, and its own event is ignored.
Typed(ranges) ==
  /\ view' = Applied(view, Shifted(ranges))
  /\ \/ /\ Size(ranges) <= TxLimit /\ Within(ranges)
        /\ text' = Applied(text, Shifted(ranges)) /\ UNCHANGED <<target, micro>>
     \/ /\ Size(ranges) > TxLimit
        /\ LET h == Halves(text, ranges) IN
             /\ text' = h.text
             /\ IF h.ok THEN UNCHANGED <<target, micro>> ELSE Reconcile(h.text)
  /\ UNCHANGED <<mounted, patches, ready>>

\* The engine refuses the edit (document too large, no room at the position).
Refused(ranges) ==
  /\ view' = Applied(view, Shifted(ranges))
  /\ Reconcile(text)
  /\ UNCHANGED <<text, mounted, patches, ready>>

\* An edit beyond the end of the replica is no refusal: the plugin's update
\* throws and CodeMirror destroys the plugin.
Crashed(ranges) ==
  /\ ~Within(ranges)
  /\ view' = Applied(view, Shifted(ranges))
  /\ mounted' = FALSE /\ ready' = FALSE
  /\ UNCHANGED <<text, patches, target, micro>>

\* A transaction of the editor starts a task of its own.
UserEdits(ranges) ==
  /\ mounted /\ micro = <<>> /\ ranges # <<>> /\ Ordered(ranges)
  /\ Typed(ranges) \/ Refused(ranges) \/ Crashed(ranges)
  /\ steps' = steps + 1 /\ UNCHANGED crossed

\* A change of the replica in the task of the mount.
Cross == crossed' = (crossed \/ "remount" \in ToSet(micro))

\* replaceRange of the session: not yet in the view.
SessionReplace(e) ==
  /\ Fits(e, text)
  /\ text' = Applied(text, Chunked(e))
  /\ SchedulePatch(Chunked(e)) /\ Cross
  /\ steps' = steps + 1 /\ UNCHANGED <<view, mounted, target, ready>>

\* An imported update, undo or redo: visible edits in order.
Imported(edits) ==
  /\ edits # <<>>
  /\ Fits(edits[1], text) /\ (Len(edits) = 2 => Fits(edits[2], Splice(text, edits[1])))
  /\ text' = Applied(text, edits)
  /\ SchedulePatch(edits) /\ Cross
  /\ steps' = steps + 1 /\ UNCHANGED <<view, mounted, target, ready>>

------------------------------------------------------------------------------
\* The patch microtask: in range, or reconcile from the replica.
RunPatch ==
  /\ micro # <<>> /\ Head(micro) = "patch"
  /\ LET r == FoldLeft(LAMBDA acc, e :
                         IF ~acc.ok \/ e.to > Len(acc.text) THEN [acc EXCEPT !.ok = FALSE]
                         ELSE [acc EXCEPT !.text = Splice(@, e)],
                       [text |-> view, ok |-> TRUE], patches)
     IN /\ view' = r.text
        /\ IF r.ok THEN micro' = Tail(micro) /\ UNCHANGED target
           ELSE /\ target' = text
                /\ micro' = IF "reconcile" \in ToSet(Tail(micro)) THEN Tail(micro)
                            ELSE Append(Tail(micro), "reconcile")
  /\ patches' = <<>>
  /\ UNCHANGED <<text, mounted, ready, crossed, steps>>

\* The longest common prefix and suffix stay, the middle is replaced.
Reconciled(current, goal) ==
  LET common(n) == \A i \in 1..n : current[i] = goal[i]
      low == IF Len(current) < Len(goal) THEN Len(current) ELSE Len(goal)
      from == CHOOSE n \in 0..low : common(n) /\ (n < low => ~common(n + 1))
      tail(n) == \A i \in 0..n - 1 : current[Len(current) - i] = goal[Len(goal) - i]
      end == CHOOSE n \in 0..(low - from) : tail(n) /\ (n < low - from => ~tail(n + 1))
  IN Splice(current, [from |-> from, to |-> Len(current) - end,
                      insert |-> SubSeq(goal, from + 1, Len(goal) - end)])

RunReconcile ==
  /\ micro # <<>> /\ Head(micro) = "reconcile"
  /\ view' = Reconciled(view, target)
  /\ micro' = Tail(micro) /\ target' = None
  /\ UNCHANGED <<text, mounted, patches, ready, crossed, steps>>

Next ==
  \/ Mount \/ RunRemount \/ Ready \/ Unmount \/ RunPatch \/ RunReconcile
  \/ /\ steps < MaxSteps
     /\ \/ \E n \in 1..MaxRanges : \E ranges \in [1..n -> Edits] : UserEdits(ranges)
        \/ \E e \in Edits : SessionReplace(e) \/ Imported(<<e>>)
        \/ \E e, f \in {d \in Edits : Units(d) = 1} : Imported(<<e, f>>)

Spec == Init /\ [][Next]_vars

------------------------------------------------------------------------------
\* Between tasks the editor shows the replica's text, whatever was typed,
\* refused, imported and replaced within one task (syncExtension,
\* scheduleEditorPatch, scheduleReconcile); except, until the plugin's 16 ms
\* interval attaches it again, when the replica changed in the task of the mount.
EditorShowsReplica ==
  mounted /\ micro = <<>> => view = text \/ (crossed /\ ready)
==============================================================================
