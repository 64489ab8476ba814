----------------------------- MODULE MCInterface -----------------------------
(*****************************************************************************)
(* The page around the document: the ribbon (extended), the surfaces and     *)
(* dialogs of the shell, the clock and tiers of the glass surface, presses   *)
(* and fingers, the phone's ghost page, dictation, and panes that scroll     *)
(* together. The modules share no state: each behaviour moves one of them    *)
(* and leaves the others as they start, so a run explores the sum of their   *)
(* states.                                                                   *)
(*****************************************************************************)
EXTENDS Ribbon

CONSTANTS
  Parts   \* the components a run moves, one in each behaviour

VARIABLES
  part,  \* the component whose steps this behaviour takes
  ui, ops, asked, steps,
  tier, remembered, quality, target, webgpu, shader, clock, state, engine,
  enabled, ready, first, listeners, page, mounts, softens, failures, reloads,
  toggles,
  session, focus, lastSurface, took, coarse, selection, down, moved, origin,
  over, timer, menu, pressSteps,
  supported, doc, status, want, recogniser, shown, interim, inserting, text,
  said, voiceSteps,
  view, mode, ghostEnabled, shift, percent, g, off, suppress, swipe, touched,
  met, downs, turns,
  lay, ed, pv, follow, indexed, applying, raf, pending, batch, phase, own, last,
  lost, moves

FirstEnv ==
  [mode |-> "edit", pane |-> "editor", shell |-> "desktop", object |-> "text", edit |-> TRUE, scratch |-> FALSE]


\* Texts of four lines, five and one; a table is taller than its lines, a comment
\* has no height.  The last is the first with a blank line: it looks the same.
Block(line, top, bottom) == [line |-> line, top |-> top, bottom |-> bottom]
TextLayouts ==
  <<[lines |-> 4, bottom |-> 4, height |-> 7, max |-> 5, blocks |-> <<Block(0, 0, 1), Block(1, 1, 6), Block(3, 6, 7)>>],
    [lines |-> 5, bottom |-> 4, height |-> 8, max |-> 6, blocks |-> <<Block(0, 0, 1), Block(1, 1, 1), Block(2, 2, 8)>>],
    [lines |-> 1, bottom |-> 1, height |-> 1, max |-> 0, blocks |-> <<>>],
    [lines |-> 5, bottom |-> 5, height |-> 7, max |-> 5, blocks |-> <<Block(0, 0, 1), Block(2, 1, 6), Block(4, 6, 7)>>]>>

shellVars == <<ui, ops, asked, steps>>
surfaceVars == <<tier, remembered, quality, target, webgpu, shader, clock,
                 state, engine, enabled, ready, first, listeners, page, mounts,
                 softens, failures, reloads, toggles>>
pressVars == <<session, focus, lastSurface, took, coarse, selection, down,
               moved, origin, over, timer, menu, pressSteps>>
voiceVars == <<supported, doc, status, want, recogniser, shown, interim,
               inserting, text, said, voiceSteps>>
ghostVars == <<view, mode, ghostEnabled, shift, percent, g, off, suppress,
               swipe, touched, met, downs, turns>>
scrollVars == <<lay, ed, pv, follow, indexed, applying, raf, pending, batch,
                phase, own, last, lost, moves>>

Shell == INSTANCE Shell WITH
  Docs <- {"a", "b"}, Owned <- {"a"}, New <- "n", MaxOps <- 2, MaxSteps <- 4
Surface == INSTANCE Surface WITH
  Canvases <- {"c1", "c2"}, MaxMounts <- 2, MaxSoftens <- 1, MaxFailures <- 1,
  MaxReloads <- 1, MaxToggles <- 1
Press == INSTANCE SurfaceInput WITH
  Fingers <- {"f1", "f2"}, MaxSteps <- 5, steps <- pressSteps
Voice == INSTANCE Voice WITH
  Docs <- {"d1", "d2"}, Utterances <- {"u1", "u2"}, MaxSteps <- 8,
  steps <- voiceSteps
Swipes == INSTANCE PhoneGhost WITH
  Fingers <- {1, 2, 3}, MaxDowns <- 4, MaxTurns <- 0, enabled <- ghostEnabled
Turns == INSTANCE PhoneGhost WITH
  Fingers <- {1, 2}, MaxDowns <- 3, MaxTurns <- 1, enabled <- ghostEnabled
Scroll == INSTANCE ScrollSync WITH
  Layouts <- TextLayouts, MaxMoves <- 4

ASSUME MCInterfaceSettings ==
  /\ Shell!ShellAssumption
  /\ Surface!SurfaceAssumption
  /\ Press!SurfaceInputAssumption
  /\ Voice!VoiceAssumption
  /\ Swipes!PhoneGhostAssumption
  /\ Turns!PhoneGhostAssumption
  /\ Scroll!ScrollAssumption

AllInit ==
  /\ part \in Parts
  /\ Init
  /\ part # "ribbon" => env = FirstEnv
  /\ Shell!Init
  /\ part # "shell" => ui.route = "home"
  /\ Surface!Init
  /\ part # "surface" => tier = 1 /\ ~webgpu /\ ~page.still
  /\ Press!Init
  /\ part # "press" => coarse
  /\ Voice!Init
  /\ part # "voice" => supported
  /\ IF part = "turns" THEN Turns!Init ELSE Swipes!Init
  /\ Scroll!Init

AllNext ==
  \/ /\ part = "ribbon" /\ Next
     /\ UNCHANGED <<part, shellVars, surfaceVars, pressVars, voiceVars, ghostVars,
                  scrollVars>>
  \/ /\ part = "shell" /\ Shell!Next
     /\ UNCHANGED <<part, vars, surfaceVars, pressVars, voiceVars, ghostVars,
                  scrollVars>>
  \/ /\ part = "surface" /\ Surface!Next
     /\ UNCHANGED <<part, vars, shellVars, pressVars, voiceVars, ghostVars,
                  scrollVars>>
  \/ /\ part = "press" /\ Press!Next
     /\ UNCHANGED <<part, vars, shellVars, surfaceVars, voiceVars, ghostVars,
                  scrollVars>>
  \/ /\ part = "voice" /\ Voice!Next
     /\ UNCHANGED <<part, vars, shellVars, surfaceVars, pressVars, ghostVars,
                  scrollVars>>
  \/ /\ part = "swipes" /\ Swipes!Next
     /\ UNCHANGED <<part, vars, shellVars, surfaceVars, pressVars, voiceVars,
                  scrollVars>>
  \/ /\ part = "turns" /\ Turns!Next
     /\ UNCHANGED <<part, vars, shellVars, surfaceVars, pressVars, voiceVars,
                  scrollVars>>
  \/ /\ part = "scroll" /\ Scroll!Next
     /\ UNCHANGED <<part, vars, shellVars, surfaceVars, pressVars, voiceVars,
                  ghostVars>>

AllVars == <<part, vars, shellVars, surfaceVars, pressVars, voiceVars,
             ghostVars, scrollVars>>

AllSpec == AllInit /\ [][AllNext]_AllVars

-----------------------------------------------------------------------------
\* What the ribbon shows is what can be done: a command offered as enabled is
\* admitted when it is pressed and a disabled one is not, and object tabs follow
\* the caret (projection.ts).
RibbonHonest == OfferedIsAdmitted /\ ObjectTabsFollowCaret

\* Whatever gestures, frames, late events and navigations interleave, what is
\* still held, open or moving is something that still wants it: one inspector and
\* only over a document, no engine of a canvas that is gone, a press timed only while its finger rests, a microphone
\* only while wanted and words only where they were said, a ghost page at its
\* stop, two panes that agree (App.tsx, lib/surface.ts, useBrowserSurface.ts,
\* voice.ts, PhoneGhost, scroll-sync.ts).
Settled ==
  CASE part = "shell" -> Shell!OneInspector /\ Shell!OtherPagesClear
    [] part = "surface" -> Surface!EngineReleased
    [] part = "press" -> Press!PressHeld
    [] part = "voice" -> Voice!MicWanted /\ Voice!DictatedThere /\ Voice!StatusShown
    [] part = "swipes" -> Swipes!RestsAtStop
    [] part = "turns" -> Turns!RestsAtStop /\ Turns!NeverUnfolded
    [] part = "scroll" -> Scroll!PanesAgree
    [] OTHER -> TRUE

\* The same of every state, and of the steps between them: the clock does not stop
\* under what moves, the tier of a session only falls, on a phone the menu does not open over a selection, keys select
\* only what they are meant for, a finger that another one joined never turns
\* the page, and the ghost's preview never moves the editor.
GesturesSettle ==
  /\ []Settled
  /\ Surface!ClockRuns /\ Surface!TierOnlyFalls
  /\ Press!CalloutKept /\ Press!SelectAllScoped
  /\ Turns!OnlyLoneSwipe
  /\ Scroll!GhostIsPassive
=============================================================================
