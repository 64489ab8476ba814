------------------------------ MODULE Surface ------------------------------
(***************************************************************************)
(* The material surfaces: one runtime that keeps the tier, the quality and *)
(* the frame clock, and the canvases that attach an engine to it.  A tier  *)
(* is its place in the order opaque, foundation, balanced, cinematic;      *)
(* quality is its score and comes closer to its target by a step a frame.  *)
(* A frame or a timer that no handle names any more still fires.           *)
(***************************************************************************)
EXTENDS Integers, FiniteSets

CONSTANTS
    Canvases,     \* canvases of the page
    MaxMounts,    \* bound: mounts of a canvas
    MaxSoftens,   \* bound: lowerings of the tier for slow frames
    MaxFailures,  \* bound: engine failures
    MaxReloads,   \* bound: reloads of the page
    MaxToggles    \* bound: changes of visibility, keyboard, preferences and media

SurfaceAssumption ==
    {MaxMounts, MaxSoftens, MaxFailures, MaxReloads, MaxToggles} \subseteq Nat

VARIABLES
    tier, remembered,     \* currentTier, and the one in sessionStorage
    quality, target,      \* quality, qualityTarget
    webgpu,               \* webgpuPreferred
    shader,               \* shaderAvailable
    clock,                \* frame, timer: a handle is set; strayF, strayT: callbacks without one
    state,                \* of a canvas: out, creating, bound, failed, gone
    engine,               \* of a canvas: none, live, disposed
    enabled, ready,       \* of a bound canvas: it may draw; data-ready is set
    first,                \* its firstFrame
    listeners,            \* the canvases subscribed
    page,                 \* visible, keyboard; the attributes glass and motion; the media
                          \* queries still and solid (reduced motion and transparency)
    mounts, softens, failures, reloads, toggles  \* what the bounds count

clocks == <<clock, listeners>>
counts == <<mounts, softens, failures, reloads, toggles>>
canvas == <<state, engine, enabled, ready, first>>
level == <<tier, remembered, quality, target, webgpu, shader>>
vars == <<level, clocks, canvas, page, counts>>

Tiers == 0 .. 3
Score(t) == IF t <= 1 THEN 0 ELSE t - 1
Lower(t) == IF t = 0 THEN 0 ELSE t - 1
Idle == [frame |-> FALSE, timer |-> FALSE, strayF |-> 0, strayT |-> 0]
Bit(b) == IF b THEN 1 ELSE 0
\* motionAllowed
MotionAllowed == page.motion /\ ~page.still

Pending == Bit(clock.frame) + Bit(clock.timer) + clock.strayF + clock.strayT

----------------------------------------------------------------------------
(* The clock.                                                              *)

\* frameHandle and timerHandle are assigned whatever they held.
RequestFrame(c) == [c EXCEPT !.strayF = @ + Bit(c.frame), !.frame = TRUE]
SetTimer(c) == [c EXCEPT !.strayT = @ + Bit(c.timer), !.timer = TRUE]

\* cancel: what the handles name is cancelled.
Cancel(c) == [c EXCEPT !.frame = FALSE, !.timer = FALSE]

\* invalidate, for the given subscribers.
Invalidate(c, subscribed) ==
    IF ~shader \/ subscribed = {} \/ c.frame THEN c
    ELSE RequestFrame([c EXCEPT !.timer = FALSE])

\* schedule: at once, or after a delay.
Schedule(c, soon) ==
    IF listeners = {} \/ ~page.visible THEN c
    ELSE IF soon THEN RequestFrame(c) ELSE SetTimer(c)

----------------------------------------------------------------------------
(* The tier.                                                               *)

\* detectTier: the hints' tier, unless the session remembers a lower score.
Detected(hint) == IF Score(remembered) < Score(hint) THEN remembered ELSE hint

Boot(t, gpu) ==
    /\ tier' = t /\ remembered' = t
    /\ quality' = Score(t) /\ target' = Score(t)
    /\ webgpu' = (t = 3 /\ gpu) /\ shader' = (t >= 2)
    /\ clock' = Idle /\ listeners' = {}
    /\ state' = [c \in Canvases |-> "out"] /\ engine' = [c \in Canvases |-> "none"]
    /\ enabled' = [c \in Canvases |-> FALSE] /\ ready' = [c \in Canvases |-> FALSE]
    /\ first' = [c \in Canvases |-> TRUE]
    /\ page' = [page EXCEPT !.visible = TRUE, !.keyboard = FALSE, !.glass = TRUE, !.motion = TRUE]

Init ==
    /\ tier \in Tiers /\ remembered = tier
    /\ quality = Score(tier) /\ target = Score(tier)
    /\ webgpu \in {FALSE, tier = 3} /\ shader = (tier >= 2)
    /\ clock = Idle /\ listeners = {}
    /\ state = [c \in Canvases |-> "out"] /\ engine = [c \in Canvases |-> "none"]
    /\ enabled = [c \in Canvases |-> FALSE] /\ ready = [c \in Canvases |-> FALSE]
    /\ first = [c \in Canvases |-> TRUE]
    /\ page \in [visible : {TRUE}, keyboard : {FALSE}, glass : {TRUE}, motion : {TRUE},
                 still : BOOLEAN, solid : {FALSE}]
    /\ mounts = 0 /\ softens = 0 /\ failures = 0 /\ reloads = 0 /\ toggles = 0

Reload(hint, gpu) ==
    /\ reloads < MaxReloads /\ reloads' = reloads + 1
    /\ Boot(Detected(hint), gpu)
    /\ UNCHANGED <<mounts, softens, failures, toggles>>

\* soften to the given tier; the clock it invalidates is c.
Soften(lower, c, subscribed) ==
    IF lower = tier /\ target = Score(lower)
    THEN /\ UNCHANGED <<tier, remembered, target, webgpu>>
         /\ clock' = c
    ELSE /\ tier' = lower /\ remembered' = lower /\ target' = Score(lower)
         /\ webgpu' = (webgpu /\ lower >= 2)
         /\ clock' = Invalidate(c, subscribed)

\* noteEngineFailure: WebGPU is given up first, then the tier is lowered.
NoteEngineFailure ==
    IF webgpu
    THEN webgpu' = FALSE /\ UNCHANGED <<tier, remembered, target, clock>>
    ELSE Soften(Lower(tier), clock, listeners)

----------------------------------------------------------------------------
(* Canvases.                                                               *)

\* bindEngine: preferences are read and the canvas subscribes.
Bind(c) ==
    /\ state' = [state EXCEPT ![c] = "bound"]
    /\ engine' = [engine EXCEPT ![c] = "live"]
    /\ enabled' = [enabled EXCEPT ![c] = page.glass /\ ~page.solid]
    /\ first' = [first EXCEPT ![c] = TRUE]
    /\ IF shader
       THEN listeners' = listeners \cup {c} /\ clock' = Invalidate(clock, listeners \cup {c})
       ELSE UNCHANGED clocks
    /\ UNCHANGED ready

\* attachSurfaceMaterial: WebGPU's engine takes several awaits, WebGL's none.
Attach(c, ok) ==
    /\ state[c] \in {"out", "gone"} /\ mounts < MaxMounts /\ shader
    /\ mounts' = mounts + 1
    /\ IF webgpu
       THEN /\ ok
            /\ state' = [state EXCEPT ![c] = "creating"]
            /\ engine' = [engine EXCEPT ![c] = "none"]
            /\ UNCHANGED <<enabled, ready, first, clocks, level, failures>>
       ELSE IF ok
       THEN Bind(c) /\ UNCHANGED <<level, failures>>
       ELSE /\ failures < MaxFailures /\ failures' = failures + 1
            /\ state' = [state EXCEPT ![c] = "failed"]
            /\ NoteEngineFailure
            /\ UNCHANGED <<engine, enabled, ready, first, listeners, quality, shader>>
    /\ UNCHANGED <<page, softens, reloads, toggles>>

\* start, once an engine is there: a canvas detached meanwhile disposes of it.
Start(c) ==
    IF state[c] = "leaving"
    THEN /\ state' = [state EXCEPT ![c] = "gone"]
         /\ engine' = [engine EXCEPT ![c] = "disposed"]
         /\ UNCHANGED <<enabled, ready, first, clocks>>
    ELSE Bind(c)

\* The adapter, the device or WebGL as the second choice gave an engine.
Created(c) ==
    /\ state[c] \in {"creating", "leaving"}
    /\ Start(c)
    /\ UNCHANGED <<level, page, counts>>

\* Neither WebGPU nor WebGL did.
NotCreated(c) ==
    /\ state[c] \in {"creating", "leaving"} /\ failures < MaxFailures
    /\ failures' = failures + 1
    /\ IF state[c] = "leaving"
       THEN state' = [state EXCEPT ![c] = "gone"] /\ UNCHANGED <<tier, remembered, target, webgpu, clock>>
       ELSE state' = [state EXCEPT ![c] = "failed"] /\ NoteEngineFailure
    /\ UNCHANGED <<engine, enabled, ready, first, listeners, quality, shader, page, mounts,
                   softens, reloads, toggles>>

\* The component unmounts; the last subscriber stops the clock.
Detach(c) ==
    /\ state[c] \in {"creating", "bound", "failed"}
    /\ state' = [state EXCEPT ![c] = IF @ = "creating" THEN "leaving" ELSE "gone"]
    /\ engine' = [engine EXCEPT ![c] = IF @ = "live" THEN "disposed" ELSE @]
    /\ enabled' = [enabled EXCEPT ![c] = FALSE] /\ ready' = [ready EXCEPT ![c] = FALSE]
    /\ listeners' = listeners \ {c} /\ UNCHANGED first
    /\ clock' = IF c \in listeners /\ listeners' = {} THEN Cancel(clock) ELSE clock
    /\ UNCHANGED <<level, page, counts>>

\* webglcontextlost on a bound canvas.
ContextLost(c) ==
    /\ state[c] = "bound" /\ failures < MaxFailures
    /\ failures' = failures + 1
    /\ enabled' = [enabled EXCEPT ![c] = FALSE] /\ ready' = [ready EXCEPT ![c] = FALSE]
    /\ NoteEngineFailure
    /\ UNCHANGED <<state, engine, first, listeners, quality, shader, page, mounts, softens,
                   reloads, toggles>>

\* A pointer, a resize or a canvas scrolling into sight asks for a frame.
Activate(c) ==
    /\ state[c] = "bound"
    /\ clock' = Invalidate(clock, listeners)
    /\ UNCHANGED <<level, listeners, canvas, page, counts>>

----------------------------------------------------------------------------
(* The page.                                                               *)

Toggle == toggles < MaxToggles /\ toggles' = toggles + 1
OnlyToggles == UNCHANGED <<level, listeners, state, engine, first, mounts, softens, failures, reloads>>

Visibility ==
    /\ Toggle /\ page' = [page EXCEPT !.visible = ~@]
    /\ clock' = IF page'.visible THEN Invalidate(clock, listeners) ELSE clock
    /\ UNCHANGED <<enabled, ready>> /\ OnlyToggles

\* The visual viewport shrinks for the keyboard, or grows back.
Keyboard ==
    /\ Toggle /\ page' = [page EXCEPT !.keyboard = ~@]
    /\ clock' = IF page'.keyboard THEN Cancel(clock) ELSE Invalidate(clock, listeners)
    /\ UNCHANGED <<enabled, ready>> /\ OnlyToggles

\* data-glass, data-motion or the theme changes: each bound canvas reads the preferences.
Preferences(glass, motion) ==
    LET may == glass /\ ~page.solid IN
    /\ Toggle /\ page' = [page EXCEPT !.glass = glass, !.motion = motion]
    /\ enabled' = [c \in Canvases |-> IF state[c] = "bound" THEN may ELSE enabled[c]]
    /\ ready' = [c \in Canvases |-> ready[c] /\ may]
    /\ clock' = Invalidate(clock, listeners)
    /\ OnlyToggles

\* A media query changes.  Nothing listens: it is read when something else asks.
Media(still, solid) ==
    /\ Toggle /\ page' = [page EXCEPT !.still = still, !.solid = solid] /\ page' # page
    /\ UNCHANGED <<clock, enabled, ready>> /\ OnlyToggles

----------------------------------------------------------------------------
(* Frames.                                                                 *)

\* The handle is cleared by whichever frame fires, its own or a stray one.
Fired(tracked) ==
    IF tracked THEN [clock EXCEPT !.frame = FALSE]
    ELSE [clock EXCEPT !.frame = FALSE, !.strayF = @ - 1 + Bit(clock.frame)]

\* tick while nothing may be drawn: the clock stops.
TickIdle(tracked) ==
    /\ IF tracked THEN clock.frame ELSE clock.strayF > 0
    /\ listeners = {} \/ ~page.visible \/ ~page.glass
    /\ clock' = Fired(tracked)
    /\ UNCHANGED <<level, listeners, canvas, page, counts>>

Draws(tracked) ==
    /\ IF tracked THEN clock.frame ELSE clock.strayF > 0
    /\ listeners # {} /\ page.visible /\ page.glass

\* Too soon after the last frame: the rest of the gap is waited for.
TickEarly(tracked, soon) ==
    /\ Draws(tracked) /\ MotionAllowed
    /\ clock' = Schedule(Fired(tracked), soon)
    /\ UNCHANGED <<level, listeners, canvas, page, counts>>

\* The blend of a frame.
Closer == IF quality > target THEN quality - 1 ELSE IF quality < target THEN quality + 1 ELSE quality

\* draw of each subscriber: the first frame drawn makes the canvas ready, a
\* frame with nothing to mix takes that back.
Drawn ==
    LET draws(c) == c \in listeners /\ enabled[c] /\ quality > 0
    IN  /\ ready' = [c \in Canvases |-> (ready[c] /\ ~(c \in listeners /\ quality = 0))
                                           \/ (draws(c) /\ first[c])]
        /\ first' = [c \in Canvases |-> first[c] /\ ~draws(c)]

\* A frame is presented.  When nothing is left to mix the shader is given up;
\* slow frames lower the tier, and the tick then schedules as it always does.
Tick(tracked, soon, slow) ==
    /\ Draws(tracked)
    /\ quality' = Closer /\ Drawn
    /\ IF quality = 0 /\ target = 0
       THEN /\ ~slow /\ shader' = FALSE
            /\ clock' = Fired(tracked)
            /\ UNCHANGED <<tier, remembered, target, webgpu, softens>>
       ELSE /\ UNCHANGED shader
            /\ IF slow
               THEN /\ MotionAllowed /\ target > 0 /\ softens < MaxSoftens
                    /\ softens' = softens + 1
                    /\ tier' = Lower(tier) /\ remembered' = Lower(tier)
                    /\ target' = Score(Lower(tier)) /\ webgpu' = (webgpu /\ Lower(tier) >= 2)
                    /\ clock' = Schedule(Invalidate(Fired(tracked), listeners), soon)
               ELSE /\ UNCHANGED <<tier, remembered, target, webgpu, softens>>
                    /\ clock' = IF MotionAllowed THEN Schedule(Fired(tracked), soon) ELSE Fired(tracked)
    /\ UNCHANGED <<listeners, state, engine, enabled, page, mounts, failures, reloads, toggles>>

\* A timer fires, its handle is cleared and a frame is asked for.
TimerFires(tracked) ==
    /\ IF tracked THEN clock.timer ELSE clock.strayT > 0
    /\ clock' = RequestFrame(
           IF tracked THEN [clock EXCEPT !.timer = FALSE]
           ELSE [clock EXCEPT !.timer = FALSE, !.strayT = @ - 1 + Bit(clock.timer)])
    /\ UNCHANGED <<level, listeners, canvas, page, counts>>

Next ==
    \/ \E t \in Tiers, gpu \in BOOLEAN : Reload(t, gpu)
    \/ \E c \in Canvases, ok \in BOOLEAN : Attach(c, ok)
    \/ \E c \in Canvases : Created(c)
    \/ \E c \in Canvases : NotCreated(c)
    \/ \E c \in Canvases : Detach(c)
    \/ \E c \in Canvases : ContextLost(c)
    \/ \E c \in Canvases : Activate(c)
    \/ Visibility
    \/ Keyboard
    \/ \E g, m \in BOOLEAN : Preferences(g, m)
    \/ \E still, solid \in BOOLEAN : Media(still, solid)
    \/ \E k \in BOOLEAN : TickIdle(k)
    \/ \E k, soon \in BOOLEAN : TickEarly(k, soon)
    \/ \E k, soon, slow \in BOOLEAN : Tick(k, soon, slow)
    \/ \E k \in BOOLEAN : TimerFires(k)

Spec == Init /\ [][Next]_vars

----------------------------------------------------------------------------
(* Properties.                                                             *)

\* Something can be seen and may move.
Moving ==
    /\ shader /\ listeners # {} /\ page.visible /\ ~page.keyboard
    /\ page.glass /\ MotionAllowed

\* The clock never stops on its own while something moves: a frame or a timer is
\* pending, except from the moment reduced motion is lifted, which nothing listens
\* to, until the next thing that asks for a frame.
ClockRuns ==
    [][(Moving /\ Pending = 0)' =>
          (Moving /\ Pending = 0) \/ (page.still /\ ~page'.still)]_vars

\* A canvas that is gone holds no live engine, even when it went while its
\* engine was being created.
EngineReleased == \A c \in Canvases : state[c] = "gone" => engine[c] # "live"

\* Within a session the tier's score only falls, across reloads too.
TierOnlyFalls == [][Score(tier') <= Score(tier)]_vars
=============================================================================
