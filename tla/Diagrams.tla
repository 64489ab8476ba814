------------------------------ MODULE Diagrams ------------------------------
(***************************************************************************)
(* The diagrams of the preview.  A block that holds a diagram is watched   *)
(* until it nears the viewport; the blocks that near it together are a     *)
(* batch, and the batches are drawn one after the other by Mermaid, which  *)
(* is loaded on first use, holds one configuration for the page and cannot *)
(* be interrupted: a drawing that outlives its deadline goes on.           *)
(***************************************************************************)
EXTENDS Integers, Sequences, SequencesExt, FiniteSets

CONSTANTS
    Hosts,        \* elements of diagram blocks; each is mounted once
    SourceOf,     \* SourceOf[h]: the diagram it holds
    SizeOf,       \* SizeOf[source]: its bytes, lines, tokens and structure
    MaxBatch,     \* MAX_DIAGRAMS_PER_BATCH (8)
    MaxCached,    \* MAX_CACHED_DIAGRAMS (32)
    MaxUnmounts,  \* bound: elements taken out of the page
    MaxThemes,    \* bound: changes of theme
    MaxQueue      \* bound: batches waiting

ASSUME DiagramsAssumption ==
    {MaxBatch, MaxCached} \subseteq Nat \ {0} /\ {MaxUnmounts, MaxThemes, MaxQueue} \subseteq Nat

Themes == {"light", "dark"}
NoTheme == "none"
Limits == [bytes |-> 4096, lines |-> 80, tokens |-> 320, structure |-> 160]

VARIABLES
    mounted,     \* elements in the page
    unmounted,   \* elements taken out of it
    state,       \* dataset.mermaid: "pending", "done", "error" or "crowded"
    watched,     \* elements the intersection observer reports on
    batches,     \* renderQueue: batches not begun
    active,      \* the batch being drawn: its elements in order, and the next
    phase,       \* "idle", "loading", "drawing" (between two) or "rendering"
    drawnIn,     \* the theme of the drawing under way
    cache,       \* svgCache: source and theme, the oldest first
    theme,       \* currentTheme
    promise,     \* mermaidPromise: "null", "pending" or "ready"
    configured,  \* the theme Mermaid was last initialised with
    late,        \* a load that missed its deadline is still under way
    circuit,     \* renderCircuitError
    running,     \* Mermaid drawings under way, abandoned ones included
    switched,    \* the last change of theme came while a batch was drawn
    themes

pageVars == <<mounted, unmounted, watched>>
rendererVars == <<promise, configured, late>>
themeVars == <<theme, switched, themes>>
diagramsVars == <<pageVars, state, batches, active, phase, drawnIn, cache, rendererVars,
                  circuit, running, themeVars>>

\* validateMermaidSource.
ValidDiagram(h) == \A k \in DOMAIN Limits : SizeOf[SourceOf[h]][k] <= Limits[k]

InCache(s) == {i \in DOMAIN cache : cache[i].source = s}

\* An empty fence has nothing to draw.
HasSource(h) == SizeOf[SourceOf[h]].tokens > 0

Fill(f, s, v) == [h \in Hosts |-> IF h \in s THEN v ELSE f[h]]
Remaining == ToSet(active)

DiagramsInit ==
    /\ mounted = {} /\ unmounted = {} /\ watched = {}
    /\ state = [h \in Hosts |-> "pending"]
    /\ batches = <<>> /\ active = <<>> /\ phase = "idle" /\ drawnIn = NoTheme /\ cache = <<>>
    /\ theme = "light" /\ promise = "null" /\ configured = NoTheme /\ late = FALSE
    /\ circuit = FALSE /\ running = 0 /\ switched = FALSE /\ themes = 0

\* scan: every pending element of the page m is watched.
Scan(m, states) == (watched \cap m) \cup {h \in m : states[h] = "pending"}

\* Writing into an element of the page sets off a scan.
ScanAfter(written) ==
    watched' = IF written \cap mounted # {} THEN Scan(mounted, state') ELSE watched

\* An edit puts a diagram's block in the page.
Mount(h) ==
    /\ h \notin mounted \cup unmounted
    /\ mounted' = mounted \cup {h} /\ watched' = Scan(mounted \cup {h}, state)
    /\ UNCHANGED <<unmounted, state, batches, active, phase, drawnIn, cache, rendererVars,
                   circuit, running, themeVars>>

\* An edit takes it out; a batch that holds it still draws it.
Unmount(h) ==
    /\ h \in mounted /\ Cardinality(unmounted) < MaxUnmounts
    /\ mounted' = mounted \ {h} /\ unmounted' = unmounted \cup {h}
    /\ watched' = Scan(mounted \ {h}, state)
    /\ UNCHANGED <<state, batches, active, phase, drawnIn, cache, rendererVars, circuit,
                   running, themeVars>>

\* The observer reports the elements that near the viewport: one batch.
Near(s) ==
    /\ s # {} /\ s \subseteq watched /\ Len(batches) < MaxQueue
    /\ watched' = watched \ s /\ batches' = Append(batches, s)
    /\ UNCHANGED <<mounted, unmounted, state, active, phase, drawnIn, cache, rendererVars,
                   circuit, running, themeVars>>

\* renderHosts until Mermaid is asked for: an element without a source is left
\* as it is, unwatched; what is too large or too many is refused; behind an open
\* circuit only what is cached is shown.
StartBatch ==
    /\ phase = "idle" /\ batches # <<>>
    /\ batches' = Tail(batches)
    /\ LET pending == {h \in Head(batches) : state[h] = "pending" /\ HasSource(h)}
           order == SetToSeq({h \in pending : ValidDiagram(h)})
           taken == SubSeq(order, 1, IF Len(order) < MaxBatch THEN Len(order) ELSE MaxBatch)
           refused == Fill(Fill(state, ToSet(order) \ ToSet(taken), "crowded"),
                           pending \ ToSet(order), "error")
           hits == {h \in ToSet(taken) : InCache(SourceOf[h]) # {}}
       IN  /\ state' = IF circuit
                       THEN Fill(Fill(refused, hits, "done"), ToSet(taken) \ hits, "error")
                       ELSE refused
           /\ active' = IF circuit THEN <<>> ELSE taken
           /\ phase' = IF active' = <<>> THEN "idle"
                       ELSE IF promise = "ready" THEN "drawing" ELSE "loading"
           /\ promise' = IF phase' = "loading" THEN "pending" ELSE promise
           /\ ScanAfter(IF circuit THEN pending ELSE pending \ ToSet(taken))
    /\ UNCHANGED <<mounted, unmounted, drawnIn, cache, configured, late, circuit, running,
                   themeVars>>

\* The module is there and is initialised with the theme of this moment; the
\* promise is kept unless a change of theme dropped it.
Loaded ==
    /\ phase = "loading" /\ phase' = "drawing" /\ configured' = theme
    /\ promise' = IF promise = "null" THEN "null" ELSE "ready"
    /\ UNCHANGED <<pageVars, state, batches, active, drawnIn, cache, late, circuit, running,
                   themeVars>>

\* The load fails or misses its deadline.
LoadFails(missed) ==
    /\ phase = "loading"
    /\ phase' = "idle" /\ active' = <<>>
    /\ promise' = "null" /\ late' = (late \/ missed)
    /\ state' = Fill(state, Remaining, "error")
    /\ ScanAfter(Remaining)
    /\ UNCHANGED <<mounted, unmounted, batches, drawnIn, cache, configured, circuit,
                   running, themeVars>>

\* A load that missed its deadline initialises Mermaid all the same; another
\* may be under way.
LateLoad ==
    /\ late /\ late' \in BOOLEAN /\ configured' = theme
    /\ UNCHANGED <<pageVars, state, batches, active, phase, drawnIn, cache, promise,
                   circuit, running, themeVars>>

\* The next of the batch is cached.
ShowCached ==
    /\ phase = "drawing" /\ active # <<>> /\ InCache(SourceOf[active[1]]) # {}
    /\ state' = [state EXCEPT ![active[1]] = "done"]
    /\ active' = Tail(active)
    /\ ScanAfter({active[1]})
    /\ UNCHANGED <<mounted, unmounted, batches, phase, drawnIn, cache, rendererVars,
                   circuit, running, themeVars>>

\* The next of the batch is drawn, in the theme Mermaid has.
RenderDiagram ==
    /\ phase = "drawing" /\ active # <<>> /\ InCache(SourceOf[active[1]]) = {}
    /\ phase' = "rendering" /\ running' = running + 1 /\ drawnIn' = configured
    /\ UNCHANGED <<pageVars, state, batches, active, cache, rendererVars, circuit,
                   themeVars>>

\* The cache makes room for one more.
Evicted(c) == IF Len(c) >= MaxCached THEN Tail(c) ELSE c

Rendered ==
    /\ phase = "rendering" /\ phase' = "drawing" /\ running' = running - 1
    /\ cache' = Append(Evicted(cache), [source |-> SourceOf[active[1]], theme |-> drawnIn])
    /\ state' = [state EXCEPT ![active[1]] = "done"]
    /\ active' = Tail(active) /\ drawnIn' = NoTheme
    /\ ScanAfter({active[1]})
    /\ UNCHANGED <<mounted, unmounted, batches, rendererVars, circuit, themeVars>>

\* Mermaid refuses the diagram.
DiagramFails ==
    /\ phase = "rendering" /\ phase' = "drawing" /\ running' = running - 1
    /\ state' = [state EXCEPT ![active[1]] = "error"]
    /\ active' = Tail(active) /\ drawnIn' = NoTheme
    /\ ScanAfter({active[1]})
    /\ UNCHANGED <<mounted, unmounted, batches, cache, rendererVars, circuit, themeVars>>

\* Mutant: the page goes on drawing beside the drawing that missed its deadline
RenderTimesOutOnly ==
    /\ phase = "rendering" /\ phase' = "idle"
    /\ state' = Fill(state, Remaining, "error")
    /\ active' = <<>> /\ drawnIn' = NoTheme
    /\ ScanAfter(Remaining)
    /\ UNCHANGED <<mounted, unmounted, batches, cache, rendererVars, circuit, running,
                   themeVars>>

\* The drawing misses its deadline and goes on: the page draws no more.
RenderTimesOut ==
    /\ phase = "rendering" /\ phase' = "idle" /\ circuit' = TRUE
    /\ state' = Fill(state, Remaining, "error")
    /\ active' = <<>> /\ drawnIn' = NoTheme
    /\ ScanAfter(Remaining)
    /\ UNCHANGED <<mounted, unmounted, batches, cache, rendererVars, running, themeVars>>

\* The abandoned drawing ends, and nobody takes it.
AbandonedEnds ==
    /\ running > (IF phase = "rendering" THEN 1 ELSE 0) /\ running' = running - 1
    /\ UNCHANGED <<pageVars, state, batches, active, phase, drawnIn, cache, rendererVars,
                   circuit, themeVars>>

EndBatch ==
    /\ phase = "drawing" /\ active = <<>> /\ phase' = "idle"
    /\ UNCHANGED <<pageVars, state, batches, active, drawnIn, cache, rendererVars, circuit,
                   running, themeVars>>

\* setMermaidTheme, from the effect of useTheme.
SetTheme(t) ==
    /\ themes < MaxThemes /\ themes' = themes + 1 /\ t # theme
    /\ theme' = t /\ promise' = "null" /\ cache' = <<>>
    /\ switched' = (phase \in {"drawing", "rendering"})
    /\ UNCHANGED <<pageVars, state, batches, active, phase, drawnIn, configured, late,
                   circuit, running>>

DiagramsNext ==
    \/ \E h \in Hosts : Mount(h)
    \/ \E h \in Hosts : Unmount(h)
    \/ \E s \in SUBSET watched : Near(s)
    \/ StartBatch
    \/ Loaded
    \/ \E missed \in BOOLEAN : LoadFails(missed)
    \/ LateLoad
    \/ ShowCached
    \/ RenderDiagram
    \/ Rendered
    \/ DiagramFails
    \/ RenderTimesOut
    \/ AbandonedEnds
    \/ EndBatch
    \/ \E t \in Themes : SetTheme(t)

DiagramsSpec == DiagramsInit /\ [][DiagramsNext]_diagramsVars

----------------------------------------------------------------------------
\* Mermaid draws one diagram at a time, abandoned drawings included: a
\* drawing that missed its deadline is still on the main thread, and no other
\* is begun beside it by the batches that wait.
OneDrawing == running <= 1

\* The cache keeps its limit, one drawing for a source, whatever the themes
\* and the batches in between.
CacheBounded ==
    /\ Len(cache) <= MaxCached
    /\ \A i, j \in DOMAIN cache : cache[i].source = cache[j].source => i = j

\* A diagram with a source that is in the page and not yet drawn is watched or
\* in a batch: none is left out when its neighbours change.
NoneForgotten ==
    \A h \in mounted : state[h] = "pending" /\ HasSource(h) =>
        \/ h \in watched
        \/ h \in ToSet(active)
        \/ \E i \in DOMAIN batches : h \in batches[i]

\* What the next batch takes from the cache was drawn in the theme of the page,
\* whatever was loaded late and drawn in between, if the theme did not change
\* while a batch was drawn.
CacheInTheme ==
    ~switched => \A i \in DOMAIN cache : cache[i].theme = theme

\* The four of them (watchDiagrams, renderHosts, getMermaid and svgCache).
DiagramsExact == NoneForgotten /\ OneDrawing /\ CacheBounded /\ CacheInTheme
=============================================================================
