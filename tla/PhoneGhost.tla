------------------------------ MODULE PhoneGhost ------------------------------
(***************************************************************************)
(* The workspace on a phone: the two-finger gesture that moves the ghost   *)
(* of the rendered page between its halves, the one-finger swipe between   *)
(* editor and preview that listens to the same pointers, and the shell     *)
(* that the posture of the device selects.  Travel and percentages are in  *)
(* quarters of the way between the stops.                                  *)
(***************************************************************************)
EXTENDS Integers, Sequences, FiniteSets

CONSTANTS Fingers, MaxDowns, MaxTurns

PhoneGhostAssumption ==
  IsFiniteSet(Fingers) /\ MaxDowns \in Nat /\ MaxTurns \in Nat

VARIABLES
  view,       \* what the device reports: width, height, pointer, spanning
  mode,       \* "edit" or "preview"
  enabled,    \* the preference
  shift,      \* the committed half
  percent,    \* ghostPercentRef
  g,          \* PhoneGhostGesture: pointers in the order they came down, the session
  off,        \* travel of each finger since the session began
  suppress,   \* suppressSwipeRef
  swipe,      \* the swipe's pointer, and whether another finger spoiled it
  touched,    \* fingers on the glass
  met,        \* fingers that were joined by another one since they came down
  downs, turns

vars == <<view, mode, enabled, shift, percent, g, off, suppress, swipe, touched, met, downs, turns>>

NoFinger == 0
NoSession == [kind |-> "idle", ids |-> <<>>, start |-> 0, last |-> 0]
NoGesture == [ptrs |-> <<>>, session |-> NoSession]

------------------------------------------------------------------------------
(* classifyPosture: spanned segments before width. *)

\* flat: a low window under a coarse pointer, a phone on its side.
Views == [width : {"phone", "studio", "wide"}, flat : BOOLEAN, span : {"none", "book", "laptop"},
          override : {"none", "fold-book"}]

Shell(v) ==
  CASE v.override # "none" -> v.override
    [] v.override = "none" /\ v.span = "laptop" -> "fold-laptop"
    [] v.override = "none" /\ v.span = "book" -> "fold-book"
    [] v.override = "none" /\ v.span = "none" ->
         IF v.width = "phone" \/ v.flat THEN "phone"
         ELSE IF v.width = "studio" THEN "studio" ELSE "desktop"

Stop(s) == IF s = "start" THEN 4 ELSE 0
Half(p) == IF p < 2 THEN "end" ELSE "start"
Clamp(p) == IF p < 0 THEN 0 ELSE IF p > 4 THEN 4 ELSE p

Ghost(v, m, e) == Shell(v) = "phone" /\ m = "edit" /\ e
Bound == Ghost(view, mode, enabled)

Init ==
  /\ view = [width |-> "phone", flat |-> FALSE, span |-> "none", override |-> "none"]
  /\ mode = "edit" /\ enabled = TRUE
  /\ shift = "start" /\ percent = Stop("start")
  /\ g = NoGesture /\ off = [f \in Fingers |-> 0]
  /\ suppress = FALSE /\ swipe = [active |-> NoFinger, spoiled |-> FALSE]
  /\ touched = {} /\ met = {} /\ downs = 0 /\ turns = 0

\* The layout effects of a change of shell, mode or preference: the listeners go
\* with their pointers, the percentage returns to the committed stop.
Rebind(v, m, e, p, gesture) ==
  /\ view' = v /\ mode' = m /\ enabled' = e
  /\ IF Ghost(v, m, e) = Bound THEN percent' = p /\ g' = gesture
     ELSE percent' = Stop(shift') /\ g' = NoGesture

------------------------------------------------------------------------------
(* Pointers. *)

\* PhoneGhostGesture.down
GestureDown(f) ==
  LET ptrs == Append(g.ptrs, f) IN
  [ptrs |-> ptrs,
   session |-> IF Len(ptrs) = 2 THEN [kind |-> "undecided", ids |-> ptrs, start |-> percent, last |-> percent]
               ELSE IF Len(ptrs) > 2 /\ g.session # NoSession
                    THEN [g.session EXCEPT !.kind = "pinch", !.last = g.session.start]
                    ELSE g.session]

\* The swipe's listener: a second finger, or the ghost's gesture, spoils it.
SwipeDown(sw, f, quiet) ==
  IF quiet \/ (sw.active # NoFinger /\ sw.active # f) THEN [sw EXCEPT !.spoiled = TRUE] ELSE [sw EXCEPT !.active = f]

\* pointerdown: the ghost's listener captures, then the swipe's one sees the event.  A
\* capture cancels the first finger's contact with the editor, and that event
\* reaches the swipe too.
Down(f) ==
  LET capture == Bound /\ Len(g.ptrs) = 1
      quiet == suppress \/ capture
      seen == IF capture /\ swipe.active = g.ptrs[1] THEN [active |-> NoFinger, spoiled |-> FALSE] ELSE swipe
  IN /\ f \notin touched /\ downs < MaxDowns /\ downs' = downs + 1
     /\ touched' = touched \union {f}
     /\ met' = IF touched = {} THEN {} ELSE touched
     /\ IF Bound THEN g' = GestureDown(f) ELSE UNCHANGED g
     /\ off' = IF capture THEN [x \in Fingers |-> 0] ELSE off
     /\ suppress' = quiet
     /\ swipe' = IF Shell(view) # "phone" THEN swipe ELSE SwipeDown(seen, f, quiet)
     /\ UNCHANGED <<view, mode, enabled, shift, percent, turns>>

\* classifyTwoFinger: together is a pan, apart is a pinch.
Kind(a, b) == IF a * b > 0 THEN "pan" ELSE IF a * b < 0 THEN "pinch" ELSE "undecided"

\* pointermove
Move(f, d) ==
  /\ f \in touched /\ off[f] # d
  /\ off' = [off EXCEPT ![f] = d]
  /\ LET s == g.session
         both == s # NoSession /\ \A i \in 1..2 : \E k \in 1..Len(g.ptrs) : g.ptrs[k] = s.ids[i]
         a == off'[s.ids[1]] b == off'[s.ids[2]]
         kind == IF s.kind = "undecided" THEN Kind(a, b) ELSE s.kind
         at == IF kind = "pan" THEN Clamp(s.start + a + b) ELSE s.start
     IN IF ~both \/ f \notin {s.ids[1], s.ids[2]} THEN UNCHANGED <<g, percent>>
        ELSE /\ g' = [g EXCEPT !.session.kind = kind, !.session.last = IF kind = "undecided" THEN @ ELSE at]
             /\ percent' = IF kind = "pan" THEN at ELSE percent
  /\ UNCHANGED <<view, mode, enabled, shift, suppress, swipe, touched, met, downs, turns>>

\* The gesture ends without a pan.
Restored(s) == s.start

\* pointerup and pointercancel: snap or restore, the swipe allowed again before its
\* own listener runs, and the swipe itself when the finger travelled far enough.
Up(f, far) ==
  LET ptrs == SelectSeq(g.ptrs, LAMBDA x : x # f)
      s == g.session
      ends == s # NoSession /\ Len(ptrs) < 2
      half == Half(s.last)
      quiet == suppress /\ ~(Bound /\ ptrs = <<>>)
      to == CASE far = "left" -> "preview" [] far = "right" -> "edit" [] far = "no" -> mode
      flips == Shell(view) = "phone" /\ swipe.active = f /\ ~swipe.spoiled /\ ~quiet
  IN /\ f \in touched /\ touched' = touched \ {f}
     /\ shift' = IF ends /\ s.kind = "pan" THEN half ELSE shift
     /\ suppress' = quiet
     /\ swipe' = IF swipe.active = f THEN [active |-> NoFinger, spoiled |-> FALSE] ELSE swipe
     /\ Rebind(view, IF flips THEN to ELSE mode, enabled,
               IF ~ends THEN percent ELSE IF s.kind = "pan" THEN Stop(half) ELSE Restored(s),
               IF Bound THEN [ptrs |-> ptrs, session |-> IF ends THEN NoSession ELSE s] ELSE g)
     /\ UNCHANGED <<off, met, downs, turns>>

------------------------------------------------------------------------------
(* The sheet of the ghost and the device. *)

\* The switch of the sheet, and the mode switch of the ribbon.
SetEnabled ==
  /\ touched = {} /\ turns < MaxTurns /\ turns' = turns + 1
  /\ UNCHANGED <<shift, off, suppress, swipe, touched, met, downs>>
  /\ \/ Rebind(view, mode, ~enabled, percent, g)
     \/ Rebind(view, IF mode = "edit" THEN "preview" ELSE "edit", enabled, percent, g)

\* "Left half", "Right half"
SetShift(s) ==
  /\ touched = {} /\ s # shift
  /\ shift' = s /\ percent' = Stop(s)
  /\ UNCHANGED <<view, mode, enabled, g, off, suppress, swipe, touched, met, downs, turns>>

\* The device is turned, folded or its keyboard opens; the swipe's listeners go
\* with the shell.
Turn(v) ==
  /\ v # view /\ turns < MaxTurns /\ turns' = turns + 1
  /\ swipe' = IF (Shell(v) = "phone") = (Shell(view) = "phone") THEN swipe
              ELSE [active |-> NoFinger, spoiled |-> FALSE]
  /\ UNCHANGED <<shift, off, suppress, touched, met, downs>>
  /\ Rebind(v, mode, enabled, percent, g)

Next ==
  \/ \E f \in Fingers : Down(f) \/ (\E d \in {-2, 0, 1} : Move(f, d)) \/ (\E far \in {"no", "left", "right"} : Up(f, far))
  \/ SetEnabled
  \/ \E s \in {"start", "end"} : SetShift(s)
  \/ \E v \in Views : Turn(v)

Spec == Init /\ [][Next]_vars

------------------------------------------------------------------------------
(* Properties. *)

\* "pinch restores the committed stop": without a gesture the ghost rests at the
\* half that is committed, however the gesture ended and whatever unbound it.
RestsAtStop == g.session = NoSession => percent = Stop(shift)

\* A finger that another one joined never switches between editor and preview.
OnlyLoneSwipe ==
  [][\A f \in Fingers : f \in touched /\ touched' = touched \ {f} /\ f \in met => mode' = mode]_vars

\* "Foldable unfolded shells keep a real split and never use the ghost", and a
\* gesture in progress does not outlive its shell.
NeverUnfolded == Shell(view) \in {"fold-book", "fold-laptop"} => g = NoGesture /\ percent = Stop(shift)
=============================================================================
