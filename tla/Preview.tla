------------------------------- MODULE Preview -------------------------------
(***************************************************************************)
(* The preview of one document: PreviewRenderer on the page, the markdown  *)
(* worker behind its supervisor, and the messages between them.  A text is *)
(* a version for every block, 0 when the block is not there; block 1 holds *)
(* the definitions that the rendering of every block depends on, and       *)
(* version Lazy of a block needs a feature that is imported on demand.     *)
(***************************************************************************)
EXTENDS Integers, Sequences, FiniteSets

CONSTANTS
  LastBlock, Versions,   \* blocks and versions of a block
  Lazy,         \* the version that needs a lazy feature
  FirstPaint,   \* blocks inserted before the page yields
  MaxRecoveries,
  MaxPreviewEdits, MaxResets,   \* edits; theme switches and remounts
  MaxPreviewFaults              \* worker faults

ASSUME PreviewAssumption ==
  /\ LastBlock \in Nat \ {0} /\ Versions \in Nat \ {0}
  /\ {FirstPaint, MaxRecoveries, MaxPreviewEdits, MaxResets, MaxPreviewFaults} \subseteq Nat

VARIABLES
  page,     \* PreviewRenderer and its supervisor
  worker,   \* the worker
  inbox,    \* messages to the worker
  out,      \* messages to the page
  spoiled,  \* since the worker was last reset a rendering failed, or an answer overtook
            \* the idle painting of the one before
  gens, previewEdits, resets, previewFaults

previewVars == <<page, worker, inbox, out, spoiled, gens, previewEdits, resets, previewFaults>>

Blocks == 1..LastBlock
Empty == [b \in Blocks |-> 0]
Same == -1
Blank == -1
ErrorKey == <<0, 0>>
NoMap == [k \in {} |-> 0]

Keys(t) == {<<b, t[b]>> : b \in {d \in Blocks : t[d] # 0}}
Chars(t) == Cardinality(Keys(t))
Apply(t, ops) == [b \in Blocks |-> IF ops[b] = Same THEN t[b] ELSE ops[b]]

------------------------------------------------------------------------------
(* The page. *)

NoMsg == [type |-> "none", seq |-> 0, text |-> Empty, gen |-> 0, base |-> 0, chars |-> 0]
ResetMsg == [NoMsg EXCEPT !.type = "reset"]

\* Nothing is in flight: the queued text is sent, or the queued edits when the
\* worker has a state to apply them to.
Pump(p) ==
  LET q == IF p.edits # {} /\ p.known = 0 THEN [p EXCEPT !.edits = {}, !.full = {p.source}] ELSE p
      n == q.seq + 1
  IN IF p.flight # 0 \/ p.terminal \/ (q.full = {} /\ q.edits = {}) THEN [page |-> p, sent |-> <<>>]
     ELSE IF q.full # {}
       THEN [page |-> [q EXCEPT !.seq = n, !.flight = n, !.full = {}],
             sent |-> <<[NoMsg EXCEPT !.type = "render", !.seq = n, !.text = CHOOSE t \in q.full : TRUE]>>]
       ELSE LET e == CHOOSE x \in q.edits : TRUE IN
            [page |-> [q EXCEPT !.seq = n, !.flight = n, !.edits = {}],
             sent |-> <<[type |-> "patch", seq |-> n, text |-> e.ops, gen |-> q.known, base |-> e.base, chars |-> e.chars]>>]

\* The step to page p, with messages already sent, ends in pump().
Pumping(p, before) == page' = Pump(p).page /\ inbox' = before \o Pump(p).sent

\* A renderer and its worker, before the first invalidate().
NewPage(t) ==
  [source |-> t, full |-> {}, edits |-> {}, seq |-> 0, flight |-> 0, known |-> 0, nodes |-> NoMap,
   rest |-> {}, html |-> NoMap, fails |-> 0, terminal |-> FALSE]

\* held: the blocks of the last rendering, which the page is taken to have.
NewWorker(g) ==
  [gen |-> g, text |-> Empty, env |-> 0, held |-> NoMap, loaded |-> FALSE, stuck |-> FALSE, busy |-> NoMsg, of |-> g]

Invalidated(p) == [p EXCEPT !.known = 0, !.nodes = NoMap, !.rest = {}, !.edits = {}, !.full = {p.source}]

PreviewInit ==
  LET p == Pump(Invalidated(NewPage([b \in Blocks |-> 1]))) IN
  /\ page = p.page /\ worker = NewWorker(1)
  /\ inbox = <<ResetMsg>> \o p.sent /\ out = <<>> /\ spoiled = FALSE
  /\ gens = 1 /\ previewEdits = 0 /\ resets = 0 /\ previewFaults = 0

\* update(): the edits join those that are queued.
Updated(b, v) ==
  LET next == [page.source EXCEPT ![b] = v]
      old == IF page.edits = {} THEN [ops |-> [d \in Blocks |-> Same], base |-> Chars(page.source), chars |-> 0]
             ELSE CHOOSE x \in page.edits : TRUE
  IN [page EXCEPT !.source = next, !.edits = {[old EXCEPT !.ops[b] = v, !.chars = Chars(next)]}]

\* An edit of this client or of a peer.
EditBlock(b, v) ==
  /\ ~page.terminal /\ previewEdits < MaxPreviewEdits /\ page.source[b] # v
  /\ previewEdits' = previewEdits + 1
  /\ Pumping(Updated(b, v), inbox)
  /\ UNCHANGED <<worker, out, spoiled, gens, resets, previewFaults>>

\* The theme changes.
Invalidate ==
  /\ ~page.terminal /\ resets < MaxResets
  /\ resets' = resets + 1
  /\ spoiled' = FALSE
  /\ Pumping(Invalidated(page), Append(inbox, ResetMsg))
  /\ UNCHANGED <<worker, out, gens, previewEdits, previewFaults>>

\* The pane is unmounted and mounted again, with a renderer and a worker of its own.
Remount ==
  /\ resets < MaxResets
  /\ resets' = resets + 1
  /\ gens' = gens + 1 /\ worker' = NewWorker(gens + 1) /\ out' = <<>> /\ spoiled' = FALSE
  /\ Pumping(Invalidated(NewPage(page.source)), <<ResetMsg>>)
  /\ UNCHANGED <<previewEdits, previewFaults>>

Rank(K, k) == Cardinality({x \in K : x[1] < k[1]})

\* What patchRange leaves in the nodes of K: a block that comes without HTML keeps
\* its node, or gets an empty one.
Nodes(p, K, html) ==
  [k \in K |-> IF k \in DOMAIN html THEN html[k] ELSE IF k \in DOMAIN p.nodes THEN p.nodes[k] ELSE Blank]

\* patch(): the rest of an earlier response is forgotten; into an empty preview only
\* the first blocks go at once.
Patched(p, r) ==
  LET now == IF DOMAIN p.nodes = {} THEN {k \in r.keys : Rank(r.keys, k) < FirstPaint} ELSE r.keys IN
  [p EXCEPT !.nodes = Nodes(p, now, r.html),
            !.rest = r.keys \ now, !.html = r.html]

\* An idle callback paints the next block.
IdlePaint ==
  /\ page.rest # {}
  /\ LET k == CHOOSE x \in page.rest : Rank(page.rest, x) = 0 IN
       page' = [page EXCEPT !.rest = @ \ {k}, !.nodes = [x \in DOMAIN @ \union {k} |->
                         IF x = k THEN Nodes(page, {k}, page.html)[k] ELSE @[x]]]
  /\ UNCHANGED <<worker, inbox, out, spoiled, gens, previewEdits, resets, previewFaults>>

\* onRendered: a rendering, or a worker that asks for the whole text.
OnRendered ==
  /\ out # <<>>
  /\ LET r == Head(out)
         p == [page EXCEPT !.flight = 0, !.fails = 0]
         q == [p EXCEPT !.known = r.gen]
     IN IF r.seq # page.flight THEN Pumping(p, inbox) /\ UNCHANGED spoiled
        ELSE IF r.type = "resync"
          THEN /\ Pumping([q EXCEPT !.edits = {}, !.full = {q.source}], Append(inbox, ResetMsg))
               /\ spoiled' = FALSE
          ELSE Pumping(Patched(q, r), inbox) /\ spoiled' = (spoiled \/ page.rest # {})
  /\ out' = Tail(out)
  /\ UNCHANGED <<worker, gens, previewEdits, resets, previewFaults>>

\* onWorkerRecovery
Recovered(p) == [p EXCEPT !.flight = 0, !.known = 0, !.edits = {}, !.full = {p.source}]

\* onWorkerTerminal
Stopped(p) ==
  [p EXCEPT !.terminal = TRUE, !.flight = 0, !.edits = {}, !.full = {}, !.rest = {},
            !.nodes = [k \in {ErrorKey} |-> 0]]

\* fail(): the worker is replaced, until it failed too often without an answer.
WorkerLost ==
  /\ out' = <<>> /\ spoiled' = FALSE
  /\ gens' = gens + 1 /\ worker' = NewWorker(gens + 1)
  /\ LET p == [page EXCEPT !.fails = @ + 1] IN
       IF p.fails > MaxRecoveries
       THEN page' = Stopped(p) /\ inbox' = <<>>
       ELSE Pumping(Recovered(p), <<ResetMsg>>)
  /\ UNCHANGED <<previewEdits, resets>>

\* The deadline of the request in flight; a worker that is only slow counts as a fault.
AnswerTimeout ==
  /\ ~page.terminal /\ page.flight # 0
  /\ IF worker.stuck THEN UNCHANGED previewFaults
     ELSE previewFaults < MaxPreviewFaults /\ previewFaults' = previewFaults + 1
  /\ WorkerLost

\* An error event, an unreadable message, a message that cannot be posted.
WorkerError ==
  /\ ~page.terminal /\ previewFaults < MaxPreviewFaults /\ previewFaults' = previewFaults + 1
  /\ WorkerLost

------------------------------------------------------------------------------
(* The worker. *)

\* The dispatcher of this evaluation of the module has no message in hand.
Free == worker.busy = NoMsg \/ worker.of # worker.gen

\* transitionPatch
Applies(m) == m.gen = worker.gen /\ m.base = Chars(worker.text) /\ Chars(Apply(worker.text, m.text)) = m.chars

\* clearRenderCache
CacheCleared(v) == [v EXCEPT !.text = Empty, !.env = 0, !.held = NoMap]

TakeMessage ==
  /\ inbox # <<>> /\ Free /\ ~worker.stuck
  /\ LET m == Head(inbox) IN
       CASE m.type = "reset" -> worker' = CacheCleared(worker) /\ UNCHANGED out
         [] m.type = "render" -> worker' = [worker EXCEPT !.busy = m, !.of = worker.gen] /\ UNCHANGED out
         [] m.type = "patch" /\ Applies(m) ->
              worker' = [worker EXCEPT !.busy = [m EXCEPT !.text = Apply(worker.text, m.text)], !.of = worker.gen] /\ UNCHANGED out
         [] OTHER ->
              /\ out' = Append(out, [type |-> "resync", seq |-> m.seq, gen |-> worker.gen, keys |-> {}, html |-> NoMap])
              /\ UNCHANGED worker
  /\ inbox' = Tail(inbox)
  /\ UNCHANGED <<page, spoiled, gens, previewEdits, resets, previewFaults>>

NeedsFeature(t) == ~worker.loaded /\ \E b \in Blocks : t[b] = Lazy

\* incrementalParseSafe: few blocks changed and no definition did.
Dirty(prev, t) == Keys(t) \ Keys(prev)
Incremental(prev, t) ==
  /\ Chars(prev) > 0 /\ prev[1] = t[1] /\ Dirty(prev, t) # {}
  /\ Cardinality(Dirty(prev, t)) * 100 <= 35 * Cardinality(Keys(t))

\* Mutant: a block is kept although a definition changed.
StillHeldStale(v, t) == v.held

\* The blocks that need no rendering in a full pass.
StillHeld(v, t) == IF t[1] = v.env THEN v.held ELSE NoMap

\* render(): the worker after it, and the HTML it sends.
Rendering(v, t) ==
  LET inc == Incremental(v.text, t)
      env == IF inc THEN v.env ELSE t[1]
      held == IF inc THEN [k \in DOMAIN v.held \ Dirty(v.text, t) |-> v.held[k]] ELSE StillHeld(v, t)
      html == [k \in Keys(t) |-> IF k \in DOMAIN held THEN held[k] ELSE env]
  IN [worker |-> [v EXCEPT !.text = t, !.env = env, !.held = html],
      html |-> [k \in Keys(t) \ DOMAIN held |-> html[k]]]

\* Without a feature to wait for, or when it is there, the answer is sent.  An
\* evaluation of the module that is superseded answers too.
Render ==
  /\ worker.busy # NoMsg /\ ~worker.stuck
  /\ LET t == worker.busy.text
         v == IF worker.of # worker.gen \/ NeedsFeature(t) THEN CacheCleared(worker) ELSE worker
         r == Rendering(v, t)
     IN /\ out' = Append(out, [type |-> "rendered", seq |-> worker.busy.seq, gen |-> worker.of, keys |-> Keys(t), html |-> r.html])
        /\ worker' = IF worker.of = worker.gen
                THEN [r.worker EXCEPT !.busy = NoMsg, !.loaded = @ \/ NeedsFeature(t)]
                ELSE [worker EXCEPT !.busy = NoMsg]
  /\ UNCHANGED <<page, inbox, spoiled, gens, previewEdits, resets, previewFaults>>

\* "must not desynchronize subsequent delta coordinates"
TextAfterFailure(t) == t

\* The import fails: an error block takes the place of the preview.
RenderFails ==
  /\ worker.busy # NoMsg /\ ~worker.stuck /\ worker.of = worker.gen /\ NeedsFeature(worker.busy.text)
  /\ previewFaults < MaxPreviewFaults /\ previewFaults' = previewFaults + 1
  /\ out' = Append(out, [type |-> "rendered", seq |-> worker.busy.seq, gen |-> worker.gen, keys |-> {ErrorKey},
                         html |-> [k \in {ErrorKey} |-> 0]])
  /\ worker' = [worker EXCEPT !.busy = NoMsg, !.text = TextAfterFailure(worker.busy.text)]
  /\ spoiled' = TRUE
  /\ UNCHANGED <<page, inbox, gens, previewEdits, resets>>

\* The lazy chunk evaluates the worker's module again.
Reevaluate ==
  /\ worker.busy # NoMsg /\ worker.of = worker.gen /\ NeedsFeature(worker.busy.text) /\ ~worker.stuck
  /\ previewFaults < MaxPreviewFaults /\ previewFaults' = previewFaults + 1
  /\ gens' = gens + 1
  /\ worker' = [NewWorker(gens + 1) EXCEPT !.busy = worker.busy, !.of = worker.of]
  /\ UNCHANGED <<page, inbox, out, spoiled, previewEdits, resets>>

\* The worker never comes back from a message.
Hang ==
  /\ ~worker.stuck /\ worker.busy # NoMsg
  /\ previewFaults < MaxPreviewFaults /\ previewFaults' = previewFaults + 1
  /\ worker' = [worker EXCEPT !.stuck = TRUE]
  /\ UNCHANGED <<page, inbox, out, spoiled, gens, previewEdits, resets>>

------------------------------------------------------------------------------
PreviewNext ==
  \/ \E b \in Blocks, v \in 0..Versions : EditBlock(b, v)
  \/ Invalidate \/ Remount \/ IdlePaint \/ OnRendered \/ AnswerTimeout \/ WorkerError
  \/ TakeMessage \/ Render \/ RenderFails \/ Reevaluate \/ Hang

PreviewSpec == PreviewInit /\ [][PreviewNext]_previewVars

------------------------------------------------------------------------------
(* Properties. *)

Idle == page.flight = 0 /\ page.rest = {} /\ ~page.terminal
Failed == DOMAIN page.nodes = {ErrorKey}

\* When nothing is under way the preview has the blocks of the text, or says that
\* it failed: no reset, resync, restart or burst of edits leaves an older text.
\* What a block shows is its rendering with the definitions of the text, not an
\* older one and not an empty element, unless the worker takes the page to hold
\* blocks that a failed rendering or an overtaken first paint took from it
\* (PreviewRenderer, its worker supervisor, cache and present of the worker).
ShownIsSource ==
  Idle => \/ Failed
          \/ /\ DOMAIN page.nodes = Keys(page.source)
             /\ spoiled \/ \A k \in Keys(page.source) : page.nodes[k] = page.source[1]
=============================================================================
