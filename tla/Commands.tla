------------------------------ MODULE Commands ------------------------------
(***************************************************************************)
(* The guarded command runtime of one open document: admission, approval,  *)
(* cancellation and receipts (commands/runtime.ts), what a command does    *)
(* between its awaits (executor.ts, react.tsx, editor/actions.ts), the     *)
(* bridge that starts commands for a page script and the agent plan that   *)
(* runs them in order (agent/execution.ts).  Another document gets another *)
(* provider: opening it is Close.                                          *)
(***************************************************************************)
EXTENDS Naturals, Sequences

CONSTANTS
  Kinds,      \* commands tried: "ui" (external), "edit", "image" (external)
  Sources,    \* who starts one: "human", "agent", "bridge"
  MaxRuns,    \* runs ever started
  Shown,      \* how many runs the snapshot keeps: 12 in the code
  MaxSteps,   \* steps of the agent's plan
  MaxEnv      \* changes of role or mode

ASSUME CommandsAssumption ==
  /\ Kinds \subseteq {"ui", "edit", "image"} /\ Sources \subseteq {"human", "agent", "bridge"}
  /\ {MaxRuns, Shown, MaxSteps, MaxEnv} \subseteq Nat /\ Shown > 0

VARIABLES
  command,   \* every run so far: its pending entry, its receipts, its executor's stage
  shown,     \* the snapshot's runs
  env,       \* edit: the role allows edits; view: the mounted editor, 0 in preview
  picker,    \* pickerRef: the run it belongs to, 0 for null; dialog, file chosen
  plan,      \* the agent's plan: runs started, the one awaited, aborted, ended
  closed,    \* the provider is unmounted
  changes    \* env changes and editors mounted

commandsVars == <<command, shown, env, picker, plan, closed, changes>>

Runs == DOMAIN command
Terminal == {"succeeded", "failed", "cancelled"}
NoPlan == [runs |-> <<>>, active |-> 0, aborted |-> FALSE, ended |-> FALSE]

CommandsInit ==
  /\ command = <<>> /\ shown = <<>>
  /\ env = [edit |-> TRUE, view |-> 1]
  /\ picker = [of |-> 0, dialog |-> FALSE, file |-> FALSE]
  /\ plan = NoPlan
  /\ closed = FALSE
  /\ changes = [env |-> 0, views |-> 1]

------------------------------------------------------------------------------
(* CommandRuntime. *)

\* commandInvocationAvailability: role, and for an edit the mode.
Available(k) == env.edit /\ (k = "ui" \/ env.view # 0)

NeedsApproval(k, s) == s \in {"agent", "bridge"} /\ k \in {"ui", "image"}

\* finish: the run leaves the pending map and its receipt is emitted.
FinishRun(x, status) ==
  IF x.pending
  THEN [x EXCEPT !.pending = FALSE, !.status = status, !.receipts = Append(@, status)]
  ELSE x

\* The executor's promise settles: aborted wins over the result.
End(x, ok) ==
  FinishRun([x EXCEPT !.stage = "end"],
            IF x.aborted THEN "cancelled" ELSE IF ok THEN "succeeded" ELSE "failed")

\* validateInput, for callers that are not the user.
Valid(s, valid) == s = "human" \/ valid

\* create: the new run, born failed if it is not admitted.
Created(k, s, valid) ==
  LET ok == Available(k) /\ Valid(s, valid)
      status == IF ~ok THEN "failed" ELSE IF NeedsApproval(k, s) THEN "awaiting-approval" ELSE "proposed"
      x == [kind |-> k, src |-> s, status |-> status, pending |-> TRUE, receipts |-> <<>>,
            aborted |-> FALSE, approved |-> FALSE, applied |-> FALSE, view |-> 0,
            listening |-> FALSE, insert |-> "none",
            stage |-> IF status = "proposed" THEN "queued" ELSE "none"]
  IN IF ok THEN x ELSE FinishRun(x, "failed")

\* The new run is listed: the snapshot keeps the last runs.
Show(x) ==
  LET all == Append(shown, Len(command) + 1) IN
  /\ ~closed /\ Len(command) < MaxRuns
  /\ command' = Append(command, x)
  /\ shown' = SubSeq(all, (IF Len(all) > Shown THEN Len(all) - Shown ELSE 0) + 1, Len(all))

Start(k, s, valid) == Show(Created(k, s, valid)) /\ UNCHANGED <<env, picker, plan, closed, changes>>

\* A run goes on.
Moves(r, x) == command' = [command EXCEPT ![r] = x]

\* execute: the environment is read again before the command runs.
Execute(x) ==
  IF x.status # "proposed" THEN x
  ELSE IF ~Available(x.kind) THEN FinishRun([x EXCEPT !.stage = "end"], "failed")
  ELSE [x EXCEPT !.status = "running", !.stage = "observe"]

\* The microtask start queued.
Microtask(r) ==
  /\ command[r].stage = "queued"
  /\ Moves(r, IF command[r].pending THEN Execute(command[r]) ELSE [command[r] EXCEPT !.stage = "end"])
  /\ UNCHANGED <<shown, env, picker, plan, closed, changes>>

\* approve: a click in the agent pill, or a call of the page script that may itself have
\* proposed the run (window.marksRibbon.approve).  The runtime does not tell them apart.
Approve(r) ==
  /\ command[r].pending /\ command[r].status = "awaiting-approval" /\ ~closed
  /\ Moves(r, Execute([command[r] EXCEPT !.status = "proposed", !.approved = TRUE]))
  /\ UNCHANGED <<shown, env, picker, plan, closed, changes>>

\* abort: an image picker still waiting settles false.
Abort(x) == [x EXCEPT !.aborted = TRUE, !.stage = IF @ = "picker" THEN "end" ELSE @]

\* cancel, by the pill, the bridge's signal or the plan's.
CancelledRun(x) == FinishRun(Abort(x), "cancelled")

Cancel(r) ==
  /\ command[r].pending /\ command[r].status \notin Terminal
  /\ Moves(r, CancelledRun(command[r]))
  /\ UNCHANGED <<shown, env, picker, plan, closed, changes>>

\* A page script's tool call, whose signal may be aborted already.
BridgeCall(k, valid, gone) ==
  LET x == Created(k, "bridge", valid) IN
  /\ "bridge" \in Sources
  /\ Show(IF gone /\ x.pending THEN CancelledRun(x) ELSE x)
  /\ UNCHANGED <<env, picker, plan, closed, changes>>

\* Another document is opened: destroy, and the picker is cancelled.
Close ==
  /\ ~closed /\ closed' = TRUE
  /\ command' = [r \in Runs |-> IF command[r].pending THEN CancelledRun(command[r]) ELSE command[r]]
  /\ env' = [env EXCEPT !.view = 0]
  /\ UNCHANGED <<shown, picker, plan, changes>>

------------------------------------------------------------------------------
(* The executor between its awaits. *)

\* The picker's promise: a second settlement is ignored, an image goes on to durability.
Picked(x, value) ==
  IF x.stage # "picker" THEN x
  ELSE IF value THEN [x EXCEPT !.stage = "durable"] ELSE End(x, FALSE)

\* An action of the interface: done at once.
BeginUi(r) == Moves(r, End([command[r] EXCEPT !.applied = TRUE], TRUE)) /\ UNCHANGED picker

\* An edit takes the mounted editor and loads its code.
BeginEdit(r) == Moves(r, [command[r] EXCEPT !.stage = "actions", !.view = env.view]) /\ UNCHANGED picker

\* chooseImage cancels the picker before it.
ReplacePicker(r, x) ==
  [o \in Runs |-> IF o = r THEN x ELSE IF o = picker.of THEN Picked(command[o], FALSE) ELSE command[o]]

BeginImage(r) ==
  /\ command' = ReplacePicker(r, [command[r] EXCEPT !.stage = "picker", !.listening = TRUE])
  /\ picker' = [of |-> r, dialog |-> TRUE, file |-> FALSE]

\* executeCommand.  A build with the Wild observations awaits them first; in one without,
\* this is the same step as Execute and only the interleavings between the two are gone.
Begin(r) ==
  LET k == command[r].kind
      refused == command[r].aborted \/ (k # "ui" /\ env.view = 0)
  IN /\ command[r].stage = "observe"
     /\ \/ refused /\ Moves(r, End(command[r], FALSE)) /\ UNCHANGED picker
        \/ ~refused /\ k = "ui" /\ BeginUi(r)
        \/ ~refused /\ k = "edit" /\ BeginEdit(r)
        \/ ~refused /\ k = "image" /\ BeginImage(r)
     /\ UNCHANGED <<shown, env, plan, closed, changes>>

\* editor/actions.ts is loaded: the one check of the signal.
Actions(r) ==
  /\ command[r].stage = "actions"
  /\ Moves(r, IF command[r].aborted THEN End(command[r], FALSE) ELSE [command[r] EXCEPT !.stage = "commands"])
  /\ UNCHANGED <<shown, env, picker, plan, closed, changes>>

\* editor/commands.ts is loaded: the state command is dispatched to the view taken before.
\* A destroyed view, or the session's filter when the role was lost, drops it.
Edits(r) == env.edit /\ command[r].view = env.view
Dispatch(r) ==
  /\ command[r].stage = "commands"
  /\ Moves(r, [command[r] EXCEPT !.stage = "durable", !.applied = @ \/ Edits(r)])
  /\ UNCHANGED <<shown, env, picker, plan, closed, changes>>

\* whenDurable resolves or rejects.
Durable(r, ok) ==
  /\ command[r].stage = "durable"
  /\ Moves(r, End(command[r], ok))
  /\ UNCHANGED <<shown, env, picker, plan, closed, changes>>

\* The window has the focus again and 400 ms have passed.
FocusCheck(r) ==
  /\ command[r].listening
  /\ LET x == [command[r] EXCEPT !.listening = FALSE]
     IN Moves(r, IF picker.of = r /\ ~picker.file THEN Picked(x, FALSE) ELSE x)
  /\ UNCHANGED <<shown, env, picker, plan, closed, changes>>

\* The dialog reports a file, for whatever picker the ref holds: it is never cleared.
FileChosen ==
  LET x == command[picker.of] IN
  /\ picker.dialog /\ ~closed
  /\ picker' = [picker EXCEPT !.dialog = FALSE, !.file = TRUE]
  /\ Moves(picker.of, IF env.view = 0 \/ x.aborted THEN Picked(x, FALSE) ELSE [x EXCEPT !.insert = "loading"])
  /\ UNCHANGED <<shown, env, plan, closed, changes>>

DialogDismissed ==
  /\ picker.dialog /\ picker' = [picker EXCEPT !.dialog = FALSE]
  /\ UNCHANGED <<command, shown, env, plan, closed, changes>>

\* insertImageFilesAtRange: the role is read, then the upload starts.
Upload(r) ==
  /\ command[r].insert = "loading"
  /\ Moves(r, IF env.edit THEN [command[r] EXCEPT !.insert = "uploading"]
              ELSE Picked([command[r] EXCEPT !.insert = "none"], FALSE))
  /\ UNCHANGED <<shown, env, picker, plan, closed, changes>>

\* The upload ends; the role is read again and the image inserted.
Uploaded(r, ok) ==
  /\ command[r].insert = "uploading"
  /\ LET done == ok /\ env.edit
     IN Moves(r, Picked([command[r] EXCEPT !.insert = "none", !.applied = @ \/ done], done))
  /\ UNCHANGED <<shown, env, picker, plan, closed, changes>>

------------------------------------------------------------------------------
(* The role and the mode. *)

ChangeEnv ==
  /\ changes.env < MaxEnv /\ ~closed
  /\ \/ env' = [env EXCEPT !.edit = ~@] /\ changes' = [changes EXCEPT !.env = @ + 1]
     \/ env.view # 0 /\ env' = [env EXCEPT !.view = 0] /\ changes' = [changes EXCEPT !.env = @ + 1]
     \/ /\ env.view = 0 /\ env' = [env EXCEPT !.view = changes.views + 1]
        /\ changes' = [changes EXCEPT !.env = @ + 1, !.views = @ + 1]
  /\ UNCHANGED <<command, shown, picker, plan, closed>>

------------------------------------------------------------------------------
(* executeAgentSteps. *)

\* planAgentRequest: a request becomes a few steps, of any commands.
HasStep == Len(plan.runs) < MaxSteps

PlanStep(k) ==
  /\ ~plan.ended /\ plan.active = 0 /\ ~plan.aborted /\ HasStep
  /\ Show(Created(k, "agent", TRUE))
  /\ plan' = [plan EXCEPT !.runs = Append(@, Len(command) + 1), !.active = Len(command) + 1]
  /\ UNCHANGED <<env, picker, closed, changes>>

\* Mutant: the plan goes on whatever the receipt says.
GoesOnAnyway(status) == TRUE

GoesOn(status) == status = "succeeded"

\* The awaited receipt arrives.
PlanReceipt ==
  /\ plan.active # 0 /\ ~command[plan.active].pending
  /\ plan' = [plan EXCEPT !.active = 0, !.ended = ~GoesOn(command[plan.active].status) \/ plan.aborted \/ ~HasStep]
  /\ UNCHANGED <<command, shown, env, picker, closed, changes>>

\* The plan's signal: the run it awaits is cancelled.
PlanStop ==
  /\ plan.runs # <<>> /\ ~plan.ended /\ ~plan.aborted
  /\ plan' = [plan EXCEPT !.aborted = TRUE, !.ended = plan.active = 0]
  /\ IF plan.active # 0 /\ command[plan.active].pending
     THEN Moves(plan.active, CancelledRun(command[plan.active])) ELSE UNCHANGED command
  /\ UNCHANGED <<shown, env, picker, closed, changes>>

CommandsNext ==
  \/ \E k \in Kinds, s \in Sources \ {"bridge"}, valid \in BOOLEAN : Start(k, s, valid)
  \/ \E k \in Kinds, valid \in BOOLEAN, gone \in BOOLEAN : BridgeCall(k, valid, gone)
  \/ \E k \in Kinds : PlanStep(k)
  \/ \E r \in Runs : Microtask(r) \/ Approve(r) \/ Cancel(r) \/ Begin(r) \/ Actions(r) \/ Dispatch(r)
       \/ FocusCheck(r) \/ Upload(r) \/ \E ok \in BOOLEAN : Durable(r, ok) \/ Uploaded(r, ok)
  \/ FileChosen \/ DialogDismissed \/ ChangeEnv \/ Close \/ PlanReceipt \/ PlanStop

CommandsSpec == CommandsInit /\ [][CommandsNext]_commandsVars

------------------------------------------------------------------------------
(* Properties. *)

\* An external command an agent or a page script asked for takes effect only after approve was
\* called for that very run while it waited, whatever was cancelled or changed before (runtime.ts,
\* needsApproval).  It does not say that a human called it: see Approve.
ApprovedFirst ==
  \A r \in Runs : command[r].applied /\ command[r].src # "human" /\ command[r].kind # "edit" => command[r].approved

\* Exactly one receipt per run that is no longer pending, with its status, although a
\* cancelled executor settles later ("cancellation prevents a late success receipt").
FinishedOnce ==
  \A r \in Runs : command[r].receipts = IF command[r].pending THEN <<>> ELSE <<command[r].status>>

\* A plan starts a command only after every earlier one succeeded (execution.ts: "A
\* later command is never launched until the preceding command has a terminal receipt").
PlanInOrder ==
  \A i \in DOMAIN plan.runs : i < Len(plan.runs) => command[plan.runs[i]].status = "succeeded"

\* The three of them: the guarded runtime and the plan that goes through it.
CommandsInOrder == ApprovedFirst /\ FinishedOnce /\ PlanInOrder
=============================================================================
