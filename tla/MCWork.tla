------------------------------- MODULE MCWork -------------------------------
(*****************************************************************************)
(* What is done in a document: the hosted agent's run, a local workspace     *)
(* shared by two tabs, the command runtime and the agent's plan, review      *)
(* threads and versions, and the requests that write after an await.         *)
(* The modules share no state: each behaviour moves one of them and leaves   *)
(* the others as they start, so a run explores the sum of their states.      *)
(*****************************************************************************)
EXTENDS AgentRun, LocalStore, Commands, ReviewPanel

CONSTANTS
  Parts   \* the components a run moves, one in each behaviour

VARIABLES
  part,  \* the component whose steps this behaviour takes
  open, order, dead, canEdit, clip, waiting, cuts, uploads, pastes, ops

FirstText == [d1 |-> <<"a", "b">>, d2 |-> <<"z">>]

clipboardVars == <<open, order, dead, canEdit, clip, waiting, cuts, uploads,
                   pastes, ops>>

Remounted == INSTANCE AgentRun WITH
  MaxCalls <- 1, MaxEvents <- 20, MaxText <- 1, MaxMounts <- 2, MaxLost <- 1,
  MaxRemounts <- 2, MaxRestarts <- 1
Trash == INSTANCE LocalStore WITH
  Seeds <- {"a"}, Legacy <- {"a"}, MaxTime <- 2, MaxSaves <- 0, MaxFaults <- 0,
  MaxReloads <- 1
TwoDocuments == INSTANCE LocalStore WITH
  Docs <- {"a", "b"}, Seeds <- {"a"}, Legacy <- {}, MaxEdits <- 0, MaxSaves <- 0
Threads == INSTANCE ReviewPanel WITH
  MaxThreads <- 4, MaxSaved <- 0, MaxTyped <- 0
ThreeSources == INSTANCE Commands WITH
  Kinds <- {"ui", "edit", "image"}, Sources <- {"human", "agent", "bridge"},
  MaxRuns <- 2, MaxSteps <- 0
Clipboard == INSTANCE Clipboard WITH
  Docs <- {"d1", "d2"}, First <- FirstText, Typed <- {"x", "y"}, MaxOps <- 1

ASSUME MCWorkSettings ==
  /\ Trash!LocalStoreAssumption
  /\ TwoDocuments!LocalStoreAssumption
  /\ Threads!ReviewPanelAssumption
  /\ ThreeSources!CommandsAssumption
  /\ Clipboard!ClipboardAssumption

AllInit ==
  /\ part \in Parts
  /\ IF part = "remounted" THEN Remounted!Init ELSE Init
  /\ CASE part = "trash" -> Trash!LocalInit
       [] part = "refused" -> TwoDocuments!LocalInit
       [] OTHER -> LocalInit
  /\ ReviewInit
  /\ CommandsInit
  /\ Clipboard!Init
  /\ part # "clipboard" => open = "d1"

AllNext ==
  \/ /\ part = "agent" /\ Next
     /\ UNCHANGED <<part, localVars, reviewVars, commandsVars, clipboardVars>>
  \/ /\ part = "remounted" /\ Remounted!Next
     /\ UNCHANGED <<part, localVars, reviewVars, commandsVars, clipboardVars>>
  \/ /\ part = "trash" /\ Trash!LocalNext
     /\ UNCHANGED <<part, vars, reviewVars, commandsVars, clipboardVars>>
  \/ /\ part = "refused" /\ TwoDocuments!LocalNext
     /\ UNCHANGED <<part, vars, reviewVars, commandsVars, clipboardVars>>
  \/ /\ part = "saves" /\ LocalNext
     /\ UNCHANGED <<part, vars, reviewVars, commandsVars, clipboardVars>>
  \/ /\ part = "versions" /\ ReviewNext
     /\ UNCHANGED <<part, vars, localVars, commandsVars, clipboardVars>>
  \/ /\ part = "threads" /\ Threads!ReviewNext
     /\ UNCHANGED <<part, vars, localVars, commandsVars, clipboardVars>>
  \/ /\ part = "runs" /\ ThreeSources!CommandsNext
     /\ UNCHANGED <<part, vars, localVars, reviewVars, clipboardVars>>
  \/ /\ part = "plan" /\ CommandsNext
     /\ UNCHANGED <<part, vars, localVars, reviewVars, clipboardVars>>
  \/ /\ part = "clipboard" /\ Clipboard!Next
     /\ UNCHANGED <<part, vars, localVars, reviewVars, commandsVars>>

AllVars == <<part, vars, localVars, reviewVars, commandsVars, clipboardVars>>

AllSpec == AllInit /\ [][AllNext]_AllVars

-----------------------------------------------------------------------------
\* What an uploaded image takes the place of is what was selected when it was
\* asked for, whatever others typed meanwhile (insertImageFilesAtRange,
\* replaceImageFileAtCursor).
UploadsExact == Clipboard!UploadsWithin /\ Clipboard!ReplacesSelected
=============================================================================
