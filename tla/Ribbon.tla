------------------------------- MODULE Ribbon -------------------------------
(***************************************************************************)
(* What the ribbons offer and what the runtime admits (commands/           *)
(* projection.ts, registry.ts), and the tab the desktop ribbon and the     *)
(* phone's composer show while the document, the caret, the agent and the  *)
(* user all move it (DesktopRibbon.tsx, PhoneComposer.tsx).                *)
(***************************************************************************)
EXTENDS Naturals, Sequences, FiniteSets

VARIABLES
  env,       \* mode, clicked pane, shell, caret's object, edit capability, scratch workspace
  expanded,  \* the profile shows every command
  tab,       \* the tab state of the mounted ribbon
  since,     \* time since a tab was chosen by hand: 0 below 2.5 s, 1 below 4.5 s, 2 later
  active     \* the command an agent's run is at, "none" without one

vars == <<env, expanded, tab, since, active>>

Modes == {"edit", "split", "preview"}
Shells == {"desktop", "phone", "fold"}
ALL == {"ribbon", "phone", "foldable", "palette", "agent"}
HumanSurfaces == {"ribbon", "phone", "foldable", "mini", "quick-access"}
TabOrder == <<"file", "login", "home", "tools", "review", "view", "picture">>
EssentialTabs == {"file", "login", "home", "review", "view"}

\* A registry entry: its tab, whether it edits, the object it is for, whether the
\* essential ribbon and the phone's deck keep it, its surfaces, its workspace.
Entry(t, edit, object, essential, deck, surfaces, scratch) ==
  [tab |-> t, edit |-> edit, object |-> object, essential |-> essential, deck |-> deck,
   surfaces |-> surfaces, scratch |-> scratch]

\* One entry of the registry for every way its entries differ.
Registry ==
  [new     |-> Entry("file", FALSE, "any", TRUE, TRUE, ALL, FALSE),
   keep    |-> Entry("login", FALSE, "any", TRUE, TRUE, ALL, TRUE),
   bold    |-> Entry("home", TRUE, "any", TRUE, TRUE, ALL \cup {"mini", "quick-access"}, FALSE),
   quote   |-> Entry("home", TRUE, "any", FALSE, FALSE, ALL, FALSE),
   draft   |-> Entry("tools", TRUE, "any", FALSE, FALSE, ALL, FALSE),
   comments |-> Entry("review", FALSE, "any", TRUE, TRUE, ALL, FALSE),
   focus   |-> Entry("view", FALSE, "any", TRUE, TRUE, ALL, FALSE),
   ghost   |-> Entry("view", FALSE, "any", TRUE, TRUE, {"phone"}, FALSE),
   palette |-> Entry("view", FALSE, "any", FALSE, FALSE, {"ribbon", "foldable"}, FALSE),
   small   |-> Entry("picture", TRUE, "image", TRUE, FALSE, ALL, FALSE)]

Commands == DOMAIN Registry

\* Shortcuts of the provider's key handler.
Shortcuts == {"new", "focus", "palette"}

\* defaultInvocationSources.
InvocationSources(c) ==
  LET s == Registry[c].surfaces
  IN (IF s \cap HumanSurfaces # {} THEN {"human"} ELSE {})
     \cup (IF "palette" \in s THEN {"keyboard", "palette"} ELSE {})
     \cup (IF "agent" \in s THEN {"agent", "bridge"} ELSE {})

------------------------------------------------------------------------------
(* Projection and admission. *)

\* ribbonTask.
Task(e) ==
  CASE e.mode = "preview" -> "inspect"
    [] e.mode = "edit" -> "compose"
    [] e.mode = "split" -> IF e.shell = "fold" \/ e.pane = "editor" THEN "compose" ELSE "inspect"

RibbonSurface(e) == CASE e.shell = "phone" -> "phone" [] e.shell = "fold" -> "foldable" [] e.shell = "desktop" -> "ribbon"

Ribbons == {"ribbon", "phone", "foldable"}

\* Mutant: a ribbon is projected for the document's mode, not for the clicked pane.
DocumentMode(e, surface) == e.mode

\* presentationCommandMode.
PresentationMode(e, surface) == IF surface \in Ribbons /\ Task(e) = "inspect" THEN "preview" ELSE e.mode

\* presentationContext.
PresentationContext(e, surface) == IF surface \in Ribbons /\ Task(e) = "inspect" THEN "text" ELSE e.object

InvocationMode(e, source) == IF source = "human" /\ Task(e) = "inspect" THEN "preview" ELSE e.mode

\* evaluateAvailability: no reason against the command.
Evaluate(c, e, mode) ==
  LET k == Registry[c] IN
  /\ k.edit => mode # "preview" /\ e.edit
  /\ k.object # "any" => e.object = k.object
  /\ k.scratch => e.scratch

Enabled(c, e, surface) == surface \in Registry[c].surfaces /\ Evaluate(c, e, PresentationMode(e, surface))

\* commandAvailability: shown, enabled or not.
Visible(c, e, surface) ==
  LET k == Registry[c]
      offObject == k.object # "any" /\ PresentationContext(e, surface) # k.object
      offMode == k.edit /\ PresentationMode(e, surface) = "preview"
  IN /\ surface \in k.surfaces
     /\ k.scratch => e.scratch
     /\ surface \in Ribbons \cup {"mini"} => ~offObject /\ (surface = "phone" \/ ~offMode)

\* commandInvocationAvailability.
Admitted(c, e, source) == source \in InvocationSources(c) /\ Evaluate(c, e, InvocationMode(e, source))

\* composeRibbon: the commands the shell's ribbon shows.
Projected(e, all, raised) ==
  {c \in Commands :
     /\ Visible(c, e, RibbonSurface(e))
     /\ \/ all \/ Registry[c].object # "any" \/ c = raised
        \/ IF e.shell = "phone" THEN Registry[c].deck
           ELSE Registry[c].tab \in EssentialTabs /\ Registry[c].essential}

Tabs(e, all, raised) == {Registry[c].tab : c \in Projected(e, all, raised)}

ContextTabs(e, all, raised) == {Registry[c].tab : c \in {d \in Projected(e, all, raised) : Registry[d].object # "any"}}

\* selectedTab: the tab state, or the first tab when it is gone.
Shown(e, all, raised, t) ==
  LET tabs == Tabs(e, all, raised) IN
  IF t \in tabs THEN t ELSE SelectSeq(TabOrder, LAMBDA x : x \in tabs)[1]

------------------------------------------------------------------------------
(* The tab. *)

FirstTab(e) == IF e.mode = "preview" THEN "view" ELSE "home"

\* The task changed: view (or review) to inspect, home to compose.
TaskTab(e, f, all, raised, t) ==
  LET tabs == Tabs(f, all, raised)
      wanted == IF Task(f) = "inspect" THEN IF "view" \in tabs THEN "view" ELSE "review" ELSE "home"
  IN IF Task(e) # Task(f) /\ wanted \in tabs THEN wanted ELSE t

\* The effects leave a tab chosen by hand alone for 2.5 s.
Free(s) == s >= 1

\* The agent's effect shows the tab of its command, after 4.5 s.
AgentTab(f, all, raised, s, t) ==
  IF raised # "none" /\ s = 2 /\ raised \in Projected(f, all, raised) THEN Registry[raised].tab ELSE t

\* DesktopRibbon: the task while rendering, then the agent's effect and the caret's;
\* the caret's runs again when the tab became home.
DesktopTab(e, f, all, raised, s, t) ==
  LET objects == ContextTabs(f, all, raised)
      Caret(u, v) == IF u = "home" /\ objects # {} /\ Free(s) THEN CHOOSE x \in objects : TRUE ELSE v
      t1 == TaskTab(e, f, all, raised, t)
      t2 == Caret(t1, AgentTab(f, all, raised, s, t1))
  IN Caret(t2, t2)

\* PhoneComposer: effects for the task, the caret and the agent, in that order.
PhoneTab(e, f, all, raised, s, t) ==
  LET objects == ContextTabs(f, all, raised)
      t1 == TaskTab(e, f, all, raised, t)
      t2 == IF objects # {} /\ Free(s) THEN CHOOSE x \in objects : TRUE ELSE t1
  IN AgentTab(f, all, raised, s, t2)

\* A new render with environment f: another shell mounts another ribbon.
Render(f, all, raised) ==
  /\ env' = f /\ expanded' = all /\ active' = raised
  /\ LET mounted == f.shell # env.shell
         s == IF mounted THEN 2 ELSE since
         t == IF mounted THEN FirstTab(f) ELSE tab
         e == IF mounted THEN f ELSE env
     IN /\ since' = s
        /\ tab' = IF f.shell = "phone" THEN PhoneTab(e, f, all, raised, s, t) ELSE DesktopTab(e, f, all, raised, s, t)

Init ==
  /\ env \in [mode : {"edit", "preview"}, pane : {"editor"}, shell : Shells, object : {"text"}, edit : {TRUE}, scratch : BOOLEAN]
  /\ expanded = FALSE /\ active = "none" /\ since = 2
  /\ tab = FirstTab(env)

\* The mode; the phone has no split.
SetMode(m) == (m = "split" => env.shell # "phone") /\ m # env.mode /\ Render([env EXCEPT !.mode = m], expanded, active)

\* The key handler's next mode.  It looks for "view.edit", but the command is "view.editor".
CycleMode(e) ==
  LET order == IF e.shell = "phone" THEN <<"edit", "preview">> ELSE <<"edit", "split", "preview">>
      at == IF e.mode = "edit" THEN 0 ELSE CHOOSE i \in DOMAIN order : order[i] = e.mode
  IN order[(at % Len(order)) + 1]

CycleView == CycleMode(env) # env.mode /\ Render([env EXCEPT !.mode = CycleMode(env)], expanded, active)

ClickPane(p) == env.mode # "edit" /\ p # env.pane /\ Render([env EXCEPT !.pane = p], expanded, active)

\* The caret moves while the editor is shown.
MoveCaret(o) == env.mode # "preview" /\ o # env.object /\ Render([env EXCEPT !.object = o], expanded, active)

ChangeRole == Render([env EXCEPT !.edit = ~@], expanded, active)

\* Unfolding or turning the device; split becomes edit on a phone.
ChangeShell(sh) ==
  /\ sh # env.shell
  /\ Render([env EXCEPT !.shell = sh, !.mode = IF sh = "phone" /\ @ = "split" THEN "edit" ELSE @], expanded, active)

SetExpanded == Render(env, ~expanded, active)

\* An agent's run starts or ends.
AgentRun(c) == c # active /\ (c # "none" => Admitted(c, env, "agent")) /\ Render(env, expanded, c)

\* selectTab, by a click or the arrows.
SelectTab(t) ==
  /\ t \in Tabs(env, expanded, active)
  /\ tab' = t /\ since' = 0
  /\ UNCHANGED <<env, expanded, active>>

\* A tab's key tip does not count as chosen by hand: home gives way to the caret's tab.
KeyTipTab(t) ==
  LET objects == ContextTabs(env, expanded, active) IN
  /\ env.shell # "phone" /\ t \in Tabs(env, expanded, active)
  /\ tab' = IF t = "home" /\ t # tab /\ objects # {} /\ Free(since) THEN CHOOSE x \in objects : TRUE ELSE t
  /\ UNCHANGED <<env, expanded, since, active>>

Tick == since < 2 /\ since' = since + 1 /\ UNCHANGED <<env, expanded, tab, active>>

Next ==
  \/ \E m \in Modes : SetMode(m)
  \/ \E p \in {"editor", "preview"} : ClickPane(p)
  \/ \E o \in {"text", "image"} : MoveCaret(o)
  \/ \E sh \in Shells : ChangeShell(sh)
  \/ \E c \in Commands \cup {"none"} : AgentRun(c)
  \/ \E t \in {Registry[c].tab : c \in Commands} : SelectTab(t) \/ KeyTipTab(t)
  \/ CycleView \/ ChangeRole \/ SetExpanded \/ Tick

Spec == Init /\ [][Next]_vars

------------------------------------------------------------------------------
(* Properties. *)

\* A command the shell's ribbon, or the mini toolbar while composing, offers as enabled
\* is admitted when the user presses it, and one shown as disabled is not
\* (projection.ts: two separate evaluations of one environment).
OfferedIsAdmitted ==
  \A c \in Commands :
    /\ Visible(c, env, RibbonSurface(env)) => (Enabled(c, env, RibbonSurface(env)) <=> Admitted(c, env, "human"))
    /\ Task(env) = "compose" /\ Enabled(c, env, "mini") => Admitted(c, env, "human")

\* Object tabs appear only while the caret is in the object and the text is composed,
\* with everything raised and expanded (UI-SURFACE.md: "appear only when the caret is
\* in those objects").
ObjectTabsFollowCaret ==
  \A raised \in Commands \cup {"none"} :
    "picture" \in Tabs(env, TRUE, raised) => env.object = "image" /\ Task(env) = "compose"
=============================================================================
