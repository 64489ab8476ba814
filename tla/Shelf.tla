------------------------------- MODULE Shelf -------------------------------
(***************************************************************************)
(* The counterfactual shelf and the causal ledger of the possibility       *)
(* layer, in one tab: a command is observed before and after it runs, a    *)
(* finished observation waits in the telemetry's promise chain, which      *)
(* shelves a patch that would reverse the command and then seals a         *)
(* receipt; a person shelves alternatives of their own, archives, removes  *)
(* and applies them.  The text is a short sequence of words; a digest is   *)
(* the text itself.  The document is a local one, whose checkpoint keeps  *)
(* the text it is given.                                                   *)
(***************************************************************************)
EXTENDS Integers, Sequences, FiniteSets, FiniteSetsExt

CONSTANTS
    Words,        \* what the text is made of
    MaxLen,       \* bound: length of the text
    Window,       \* CONTEXT_WINDOW: words kept on each side of a patch
    ShelfMax,     \* MAX_COUNTERFACTUALS_PER_DOCUMENT
    LedgerMax,    \* MAX_CAUSAL_PER_DOCUMENT
    BacklogMax,   \* MAX_BACKLOG
    MaxRuns,      \* bound: commands run
    MaxEdits,     \* bound: edits by the author or a peer outside a command
    MaxPatches    \* bound: patches ever made

ASSUME ShelfAssumption ==
    /\ {MaxLen, Window, MaxRuns, MaxEdits, MaxPatches} \subseteq Nat
    /\ {ShelfMax, LedgerMax, BacklogMax} \subseteq Nat \ {0}

VARIABLES
    text,       \* session.getText()
    run,        \* the command in progress: its number and the text before it
    listening,  \* the telemetry has subscribed
    backlog,    \* finished observations no listener has seen
    queue,      \* persistenceQueue: observations still to be persisted
    shelf,      \* the counterfactuals store: id -> patch
    ledger,     \* the causal store, oldest first
    apply,      \* an apply() between its awaits
    versions,   \* texts of the saved checkpoints
    armed,      \* removeArmedId
    edits, made, runs,  \* what the bounds count
    lost,       \* runs whose observation or receipt the bounds or the store lost
    removed     \* ids a person removed

vars == <<text, run, listening, backlog, queue, shelf, ledger, apply, versions,
          armed, edits, made, runs, lost, removed>>

None == [at |-> "none"]
Texts == UNION {[1 .. n -> Words] : n \in 0 .. MaxLen}

\* JavaScript's slice: the words from offset a up to offset b, clamped.
Slice(t, a, b) == SubSeq(t, a + 1, IF b > Len(t) THEN Len(t) ELSE b)

\* One word inserted or one word taken out.
Neighbours(t) ==
    {u \in Texts : \/ \E i \in 0 .. Len(t), w \in Words :
                          u = Slice(t, 0, i) \o <<w>> \o Slice(t, i, Len(t))
                   \/ \E i \in 1 .. Len(t) :
                          u = Slice(t, 0, i - 1) \o Slice(t, i, Len(t))}

----------------------------------------------------------------------------
(* Patches.                                                                *)

CommonPrefix(b, a) ==
    Max({n \in 0 .. Min({Len(b), Len(a)}) : Slice(b, 0, n) = Slice(a, 0, n)})

\* The longest common ending that does not run into the first `from' words.
CommonSuffix(b, a, from) ==
    Max({n \in 0 .. Min({Len(b), Len(a)}) - from :
            Slice(b, Len(b) - n, Len(b)) = Slice(a, Len(a) - n, Len(a))})

\* minimalSourceDelta: where the two texts differ.
MinimalSourceDelta(b, a) ==
    LET from == CommonPrefix(b, a)
        same == CommonSuffix(b, a, from)
    IN  [from |-> from, before |-> Len(b) - from - same, after |-> Len(a) - from - same]

Patch(base, from, expected, replacement, by, wanted) ==
    [from |-> from, expected |-> expected, replacement |-> replacement,
     prefix |-> Slice(base, IF from > Window THEN from - Window ELSE 0, from),
     suffix |-> Slice(base, from + Len(expected), from + Len(expected) + Window),
     archived |-> FALSE, by |-> by, base |-> base, wanted |-> wanted]

ReverseCounterfactual(b, a) ==
    LET d == MinimalSourceDelta(b, a)
        tail == Len(a) - d.from - d.after
    IN  Patch(a, d.from, Slice(a, d.from, d.from + d.after),
              Slice(b, d.from, Len(b) - tail), "command", b)

\* Offsets at which the scan for the words x stops: it goes on behind each match.
Scanned(t, x) ==
    LET stops[o \in 0 .. Len(t)] ==
            /\ Slice(t, o, o + Len(x)) = x
            /\ \A s \in 0 .. o - 1 : o < s + Len(x) => ~stops[s]
    IN  {o \in 0 .. Len(t) : stops[o]}

\* Of those, the ones in their recorded surroundings.  The code stops at the third,
\* and two are as many as three to it.
Anchors(t, p) ==
    {o \in Scanned(t, p.expected) :
        /\ Slice(t, IF o > Len(p.prefix) THEN o - Len(p.prefix) ELSE 0, o) = p.prefix
        /\ LET e == o + Len(p.expected) IN Slice(t, e, e + Len(p.suffix)) = p.suffix}

\* The offset applyCounterfactual settles on, -1 when it throws.  An empty
\* expected text equals any empty slice, so an insertion is always exact.
Anchor(t, p) ==
    LET exact == Slice(t, p.from, p.from + Len(p.expected)) = p.expected
    IN  IF exact THEN p.from
        ELSE IF Cardinality(Anchors(t, p)) = 1 THEN Max(Anchors(t, p))
        ELSE -1

ApplyCounterfactual(t, p) ==
    LET from == Anchor(t, p)
    IN  Slice(t, 0, from) \o p.replacement \o Slice(t, from + Len(p.expected), Len(t))

\* putCounterfactual: refused when the other patches fill the shelf.
Admits(id) == Cardinality(DOMAIN shelf \ {id}) < ShelfMax
Put(id, p) == [i \in DOMAIN shelf \cup {id} |-> IF i = id THEN p ELSE shelf[i]]

----------------------------------------------------------------------------
Init ==
    /\ text \in Texts
    /\ run = None /\ listening = FALSE /\ backlog = <<>> /\ queue = <<>>
    /\ shelf = [i \in {} |-> None] /\ ledger = <<>> /\ apply = None
    /\ versions = {} /\ armed = 0 /\ edits = 0 /\ made = 0 /\ runs = 0
    /\ lost = {} /\ removed = {}

\* The author or a peer changes the text.
Edit ==
    /\ edits < MaxEdits
    /\ text' \in Neighbours(text)
    /\ edits' = edits + 1
    /\ UNCHANGED <<run, listening, backlog, queue, shelf, ledger, apply, versions,
                   armed, made, runs, lost, removed>>

\* An admitted command starts: the text before it is captured.
StartCommand ==
    /\ run = None /\ runs < MaxRuns
    /\ runs' = runs + 1
    /\ run' = [at |-> "running", id |-> runs + 1, before |-> text]
    /\ UNCHANGED <<text, listening, backlog, queue, shelf, ledger, apply, versions,
                   armed, edits, made, lost, removed>>

\* emitCommandEffect: without a listener the observation joins the backlog,
\* which drops its oldest.
EmitCommandEffect(o) ==
    LET waiting == Append(backlog, o)
    IN  IF listening
        THEN queue' = Append(queue, o) /\ UNCHANGED <<backlog, lost>>
        ELSE /\ UNCHANGED queue
             /\ IF Len(waiting) > BacklogMax
                THEN backlog' = Tail(waiting) /\ lost' = lost \cup {Head(waiting).id}
                ELSE backlog' = waiting /\ UNCHANGED lost

\* The command changes the text or not, and its end is observed.
FinishCommand(ok) ==
    /\ run.at = "running"
    /\ text' \in Neighbours(text) \cup {text}
    /\ run' = None
    /\ EmitCommandEffect([id |-> run.id, before |-> run.before, after |-> text', ok |-> ok,
                          kept |-> 0, at |-> "patch"])
    /\ UNCHANGED <<listening, shelf, ledger, apply, versions, armed, edits, made,
                   runs, removed>>

\* The telemetry mounts and takes the backlog over.
Subscribe ==
    /\ ~listening
    /\ listening' = TRUE
    /\ queue' = queue \o backlog /\ backlog' = <<>>
    /\ UNCHANGED <<text, run, shelf, ledger, apply, versions, armed, edits, made,
                   runs, lost, removed>>

\* The head of the chain shelves the reversal of a command that changed the
\* text; a refusal is swallowed and leaves the receipt without a patch.
PersistPatch ==
    /\ queue # <<>> /\ Head(queue).at = "patch"
    /\ LET o == Head(queue)
           id == made + 1
           wanted == o.ok /\ o.before # o.after
           kept == wanted /\ Admits(id)
       IN  /\ wanted => made < MaxPatches
           /\ made' = IF wanted THEN id ELSE made
           /\ shelf' = IF kept THEN Put(id, ReverseCounterfactual(o.before, o.after)) ELSE shelf
           /\ queue' = [queue EXCEPT ![1].at = "receipt", ![1].kept = IF kept THEN id ELSE 0]
    /\ UNCHANGED <<text, run, listening, backlog, ledger, apply, versions, armed,
                   edits, runs, lost, removed>>

\* putCausalReceipt: the receipt is put and the oldest beyond the bound go.
PersistReceipt ==
    /\ queue # <<>> /\ Head(queue).at = "receipt"
    /\ LET o == Head(queue)
           all == Append(ledger, [id |-> o.id, kept |-> o.kept, changed |-> o.before # o.after,
                                  ok |-> o.ok])
       IN  ledger' = Slice(all, IF Len(all) > LedgerMax THEN Len(all) - LedgerMax ELSE 0, Len(all))
    /\ queue' = Tail(queue)
    /\ UNCHANGED <<text, run, listening, backlog, shelf, apply, versions, armed,
                   edits, made, runs, lost, removed>>

\* The store rejects the receipt; the chain swallows it and goes on.
ReceiptRejected ==
    /\ queue # <<>> /\ Head(queue).at = "receipt"
    /\ lost' = lost \cup {Head(queue).id}
    /\ queue' = Tail(queue)
    /\ UNCHANGED <<text, run, listening, backlog, shelf, ledger, apply, versions,
                   armed, edits, made, runs, removed>>

\* A person places an alternative for the selection [from, to).
CreateCounterfactual(from, to, replacement) ==
    /\ made < MaxPatches /\ from <= to /\ to <= Len(text)
    /\ Slice(text, from, to) # replacement
    /\ made' = made + 1
    /\ shelf' = IF Admits(made + 1)
                THEN Put(made + 1, Patch(text, from, Slice(text, from, to), replacement,
                                         "human", <<>>))
                ELSE shelf
    /\ UNCHANGED <<text, run, listening, backlog, queue, ledger, apply, versions,
                   armed, edits, runs, lost, removed>>

\* Archive or Restore.
Archive(id) ==
    /\ id \in DOMAIN shelf
    /\ shelf' = Put(id, [shelf[id] EXCEPT !.archived = ~@])
    /\ UNCHANGED <<text, run, listening, backlog, queue, ledger, apply, versions,
                   armed, edits, made, runs, lost, removed>>

\* apply() up to its first await: the next text is worked out and the text as
\* it is now goes into the checkpoint.
ApplyStart(id) ==
    /\ apply = None /\ id \in DOMAIN shelf
    /\ Anchor(text, shelf[id]) >= 0
    /\ Len(ApplyCounterfactual(text, shelf[id])) <= MaxLen
    /\ apply' = [at |-> "checkpoint", id |-> id, patch |-> shelf[id], saved |-> text,
                 next |-> ApplyCounterfactual(text, shelf[id])]
    /\ UNCHANGED <<text, run, listening, backlog, queue, shelf, ledger, versions,
                   armed, edits, made, runs, lost, removed>>

\* The checkpoint could not be made: nothing is applied.
CheckpointRefused ==
    /\ apply.at = "checkpoint"
    /\ apply' = None
    /\ UNCHANGED <<text, run, listening, backlog, queue, shelf, ledger, versions,
                   armed, edits, made, runs, lost, removed>>

\* The checkpoint is saved, and setText replaces the whole text.
ApplySource ==
    /\ apply.at = "checkpoint"
    /\ versions' = versions \cup {apply.saved}
    /\ text' = apply.next
    /\ apply' = [apply EXCEPT !.at = "durable"]
    /\ UNCHANGED <<run, listening, backlog, queue, shelf, ledger, armed, edits,
                   made, runs, lost, removed>>

\* whenDurable settled either way: the patch apply() captured is put back as
\* archived; a refusal is swallowed.
ApplyRecord ==
    /\ apply.at = "durable"
    /\ shelf' = IF Admits(apply.id) THEN Put(apply.id, [apply.patch EXCEPT !.archived = TRUE])
                ELSE shelf
    /\ apply' = None
    /\ UNCHANGED <<text, run, listening, backlog, queue, ledger, versions, armed,
                   edits, made, runs, lost, removed>>

\* The button Remove: the first press arms, the second deletes.
RemoveEntry(id) ==
    /\ id \in DOMAIN shelf
    /\ IF armed # id
       THEN armed' = id /\ UNCHANGED <<shelf, removed>>
       ELSE /\ armed' = 0
            /\ shelf' = [i \in DOMAIN shelf \ {id} |-> shelf[i]]
            /\ removed' = removed \cup {id}
    /\ UNCHANGED <<text, run, listening, backlog, queue, ledger, apply, versions,
                   edits, made, runs, lost>>

Next ==
    \/ Edit
    \/ StartCommand
    \/ \E ok \in BOOLEAN : FinishCommand(ok)
    \/ Subscribe
    \/ PersistPatch
    \/ PersistReceipt
    \/ ReceiptRejected
    \/ \E from, to \in 0 .. MaxLen, w \in Words : CreateCounterfactual(from, to, <<w>>)
    \/ \E id \in 1 .. MaxPatches : Archive(id)
    \/ \E id \in 1 .. MaxPatches : ApplyStart(id)
    \/ CheckpointRefused
    \/ ApplySource
    \/ ApplyRecord
    \/ \E id \in 1 .. MaxPatches : RemoveEntry(id)

Spec == Init /\ [][Next]_vars

----------------------------------------------------------------------------
(* Properties.                                                             *)

\* A reversal patch applied to the text its command left gives the text the
\* command found, whatever the two texts share at their ends
\* (reverseCounterfactual, minimalSourceDelta).
ReversalRestores ==
    \A id \in DOMAIN shelf :
        shelf[id].by = "command" =>
            ApplyCounterfactual(shelf[id].base, shelf[id]) = shelf[id].wanted
=============================================================================
