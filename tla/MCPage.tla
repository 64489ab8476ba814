------------------------------- MODULE MCPage -------------------------------
(*****************************************************************************)
(* What the page makes of the text: the shelf of counterfactual patches, the *)
(* preview and its worker, the diagrams (these extended), the analysis       *)
(* behind the inspector and half-life signals. The modules share no state:   *)
(* each behaviour moves one of them and leaves the others as they start, so  *)
(* a run explores the sum of their states.                                   *)
(*****************************************************************************)
EXTENDS Shelf, Preview, Diagrams

CONSTANTS
  Parts   \* the components a run moves, one in each behaviour

VARIABLES
  part,  \* the component whose steps this behaviour takes
  doc, edit, hook, posted, job, kept, said, done,
  halflifeText, halflifeDoc, timer, scans, store, horizon, view, loads, notice,
  broken, halflifeEdits, choices, failures

\* Four elements of diagrams: two hold the same one, the third is as large as
\* may be, the fourth is empty.
FourHosts == {"h1", "h2", "h3", "h4"}
DiagramOf == [h1 |-> "flow", h2 |-> "flow", h3 |-> "chart", h4 |-> "empty"]
DiagramSize ==
  [flow |-> [bytes |-> 40, lines |-> 2, tokens |-> 5, structure |-> 3],
   chart |-> [bytes |-> 4096, lines |-> 80, tokens |-> 320, structure |-> 160],
   empty |-> [bytes |-> 1, lines |-> 2, tokens |-> 0, structure |-> 0]]

\* Every document of four lines, and of five without code; and a section, a task,
\* a value to redact, a block and an open fence.
Line(kind, level, words) == [k |-> kind, n |-> level, w |-> words]
Documents(kinds, n) ==
  {[i \in 1..n |-> Line(f[i][1], f[i][2], <<"a", "b", "c", "d", "e">>[i])] : f \in [1..n -> kinds]}
HeadingKinds == {<<"head", 1>>, <<"head", 2>>, <<"head", 3>>}
Structures ==
  Documents(HeadingKinds \union {<<"fence", 0>>, <<"text", 0>>}, 4) \union Documents(HeadingKinds, 5)
FirstDocument == <<Line("head", 1, "a"), Line("task", 0, "b")>>
Mixed ==
  {FirstDocument,
   <<Line("matter", 0, "a"), Line("blank", 0, "b"), Line("block", 0, "c")>>,
   <<Line("block", 0, "a"), Line("text", 0, "secret")>>,
   <<Line("head", 1, "a"), Line("fence", 0, "b")>>}

analysisVars == <<doc, edit, hook, posted, job, kept, said, done>>
halflifeVars == <<halflifeText, halflifeDoc, timer, scans, store, horizon, view,
                  loads, notice, broken, halflifeEdits, choices, failures>>

Analysis == INSTANCE Intelligence WITH
  Sources <- Mixed, MaxLevel <- 3, MaxEdits <- 2, MaxUses <- 1, MaxOpens <- 2,
  Failures <- TRUE, Roles <- TRUE
Outline == INSTANCE Intelligence WITH
  Sources <- Structures, MaxLevel <- 3, MaxEdits <- 0, MaxUses <- 1,
  MaxOpens <- 1, Failures <- FALSE, Roles <- FALSE
Scans == INSTANCE HalfLife WITH
  Tabs <- {"t1"}, Claims <- {"c1"}, Explicit <- {}, Intents <- {},
  ContextMax <- 1, IntentMax <- 1, MaxEdits <- 3, MaxChoices <- 1,
  MaxFailures <- 0, text <- halflifeText, doc <- halflifeDoc,
  edits <- halflifeEdits
Studio == INSTANCE HalfLife WITH
  Tabs <- {"t1"}, Claims <- {"c1"}, Explicit <- {"e1"}, Intents <- {"i1", "i2"},
  ContextMax <- 2, IntentMax <- 1, MaxEdits <- 1, MaxChoices <- 2,
  MaxFailures <- 1, text <- halflifeText, doc <- halflifeDoc,
  edits <- halflifeEdits

ASSUME MCPageSettings ==
  /\ Analysis!IntelligenceAssumption
  /\ Outline!IntelligenceAssumption
  /\ Scans!HalfLifeAssumption
  /\ Studio!HalfLifeAssumption

AllInit ==
  /\ part \in Parts
  /\ Init
  /\ part # "shelf" => text = <<>>
  /\ PreviewInit
  /\ DiagramsInit
  /\ IF part = "outline" THEN Outline!Init ELSE Analysis!Init
  /\ part \notin {"analysis", "outline"} => doc = FirstDocument
  /\ IF part = "studio" THEN Studio!Init ELSE Scans!Init

AllNext ==
  \/ /\ part = "shelf" /\ Next
     /\ UNCHANGED <<part, previewVars, diagramsVars, analysisVars, halflifeVars>>
  \/ /\ part = "preview" /\ PreviewNext
     /\ UNCHANGED <<part, vars, diagramsVars, analysisVars, halflifeVars>>
  \/ /\ part = "diagrams" /\ DiagramsNext
     /\ UNCHANGED <<part, vars, previewVars, analysisVars, halflifeVars>>
  \/ /\ part = "analysis" /\ Analysis!Next
     /\ UNCHANGED <<part, vars, previewVars, diagramsVars, halflifeVars>>
  \/ /\ part = "outline" /\ Outline!Next
     /\ UNCHANGED <<part, vars, previewVars, diagramsVars, halflifeVars>>
  \/ /\ part = "scans" /\ Scans!Next
     /\ UNCHANGED <<part, vars, previewVars, diagramsVars, analysisVars>>
  \/ /\ part = "studio" /\ Studio!Next
     /\ UNCHANGED <<part, vars, previewVars, diagramsVars, analysisVars>>

AllVars == <<part, vars, previewVars, diagramsVars, analysisVars, halflifeVars>>

AllSpec == AllInit /\ [][AllNext]_AllVars

-----------------------------------------------------------------------------
\* What is said or changed on a request is about the text as it is: a reversal
\* patch gives the text its command found, a change of level takes a section with
\* all its children and so does a move, down if the next sibling follows at once,
\* an analysis at rest is of the source, with a deadline while it is awaited, and
\* no scan takes back what a person chose
\* (reverseCounterfactual, moveHeadingSection, shiftHeadingDepth,
\* useDocumentIntelligence, the half-life store).
ChangesAsAsked ==
  /\ [](part = "shelf" => ReversalRestores)
  /\ [](part = "analysis" => Analysis!SettledIsExact /\ Analysis!DeadlineWatches)
  /\ Outline!MovesKeepSubtrees /\ Outline!ShiftsKeepChildren
  /\ Scans!ScanKeepsChoices
=============================================================================
