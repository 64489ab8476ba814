------------------------------- MODULE Voice -------------------------------
(***************************************************************************)
(* Dictation.  One VoiceSession lives as long as the open document's       *)
(* session; it drives the browser's speech recogniser, which ends by       *)
(* itself after a pause or an error and is started again while the user    *)
(* wants it.  Final text goes into the editor once the editing module has  *)
(* been loaded; the interface shows the last status it was told.           *)
(***************************************************************************)
EXTENDS Integers, FiniteSets

CONSTANTS
    Docs,        \* documents
    Utterances,  \* what is said
    MaxSteps     \* bound: openings, presses, errors and ends

VoiceAssumption == MaxSteps \in Nat

None == "none"

VARIABLES
    supported,    \* the browser has a recogniser
    doc,          \* the document of the open session, or None
    status,       \* the VoiceSession's status
    want,         \* wantRunning
    recogniser,   \* "none", "running", "ending" (an end event is due) or "ended"
    shown,        \* voiceStatus: what the interface shows
    interim,      \* voiceInterim: an utterance, or None
    inserting,    \* final text waiting for the editing module, and its editor
    text,         \* text[d]: utterances in the document
    said,         \* said[u]: the document open when u became final
    steps

voice == <<status, want, recogniser>>
vars == <<supported, doc, voice, shown, interim, inserting, text, said, steps>>

Idle == IF supported THEN "idle" ELSE "unsupported"
Step == steps < MaxSteps /\ steps' = steps + 1

\* setStatus: the interface hears of each change.
SetStatus(s) == status' = s /\ shown' = s

Init ==
    /\ supported \in BOOLEAN
    /\ doc = None /\ status = Idle /\ want = FALSE /\ recogniser = "none"
    /\ shown = Idle /\ interim = None /\ inserting = {}
    /\ text = [d \in Docs |-> {}] /\ said = [u \in Utterances |-> None] /\ steps = 0

\* A session opens: a new VoiceSession.
Open(d) ==
    /\ Step /\ doc = None
    /\ doc' = d /\ status' = Idle /\ want' = FALSE /\ recogniser' = "none"
    /\ UNCHANGED <<supported, shown, interim, inserting, text, said>>

\* destroy: the recogniser's handlers are taken off and it is aborted.
Destroy == status' = status /\ want' = FALSE /\ recogniser' = "none"

\* The editor that waiting text was for is taken down.
TakeDown == inserting' = {[i EXCEPT !.view = None] : i \in inserting}

\* The session closes, and its document's editor with it.
Close ==
    /\ Step /\ doc # None
    /\ doc' = None /\ Destroy /\ TakeDown
    /\ shown' = Idle /\ interim' = None
    /\ UNCHANGED <<supported, text, said>>

\* stop, from the bar, and toggle while listening.
Stop ==
    /\ Step /\ doc # None /\ recogniser' = "none" /\ want' = FALSE
    /\ IF status = "listening" THEN SetStatus("idle") ELSE UNCHANGED <<status, shown>>
    /\ UNCHANGED <<supported, doc, interim, inserting, text, said>>

\* start, by toggle when not listening; a recogniser there is, is dropped.
Start(ok) ==
    /\ Step /\ doc # None /\ status \notin {"listening", "unsupported"}
    /\ want' = ok /\ recogniser' = (IF ok THEN "running" ELSE "none")
    /\ SetStatus(IF ok THEN "listening" ELSE "error")
    /\ UNCHANGED <<supported, doc, interim, inserting, text, said>>

StartUnsupported ==
    /\ Step /\ doc # None /\ status = "unsupported"
    /\ shown' = "unsupported"
    /\ UNCHANGED <<supported, doc, voice, interim, inserting, text, said>>

\* onresult with a hypothesis.
Hypothesis(u) ==
    /\ recogniser = "running" /\ said[u] = None
    /\ interim' = u
    /\ UNCHANGED <<supported, doc, voice, shown, inserting, text, said, steps>>

\* onresult with final text: an insertion into the editor of now.
Final(u) ==
    /\ recogniser = "running" /\ said[u] = None
    /\ interim' = None /\ said' = [said EXCEPT ![u] = doc]
    /\ inserting' = inserting \cup {[text |-> u, view |-> doc]}
    /\ UNCHANGED <<supported, doc, voice, shown, text, steps>>

\* insertTextAtSelection: the editing module is there; an editor that was
\* taken down meanwhile changes no document.
Insert(i) ==
    /\ i \in inserting /\ inserting' = inserting \ {i}
    /\ text' = IF i.view # None THEN [text EXCEPT ![i.view] = @ \cup {i.text}] ELSE text
    /\ UNCHANGED <<supported, doc, voice, shown, interim, said, steps>>

\* onerror; the browser ends the recogniser after it.
Error(kind) ==
    /\ Step /\ recogniser = "running" /\ recogniser' = "ending"
    /\ \/ /\ kind = "not-allowed" /\ want' = FALSE /\ SetStatus("denied")
       \/ /\ kind = "no-speech" /\ UNCHANGED <<want, status, shown>>
       \/ /\ kind = "network" /\ UNCHANGED want /\ SetStatus("error")
    /\ UNCHANGED <<supported, doc, interim, inserting, text, said>>

\* The recogniser pauses.
Pause ==
    /\ Step /\ recogniser = "running" /\ recogniser' = "ending"
    /\ UNCHANGED <<supported, doc, status, want, shown, interim, inserting, text, said>>

\* Whether onend starts the recogniser again.
Restarts == want /\ status # "denied"

\* onend.
End(ok) ==
    /\ recogniser = "ending"
    /\ \/ /\ Restarts /\ ok /\ recogniser' = "running" /\ UNCHANGED <<status, shown>>
       \/ /\ Restarts /\ ~ok /\ recogniser' = "ended" /\ SetStatus("idle")
       \/ /\ ~Restarts /\ recogniser' = "ended"
          /\ IF status = "listening" THEN SetStatus("idle") ELSE UNCHANGED <<status, shown>>
    /\ UNCHANGED <<supported, doc, want, interim, inserting, text, said, steps>>

Next ==
    \/ \E d \in Docs : Open(d)
    \/ Close
    \/ Stop
    \/ \E ok \in BOOLEAN : Start(ok)
    \/ StartUnsupported
    \/ \E u \in Utterances : Hypothesis(u)
    \/ \E u \in Utterances : Final(u)
    \/ \E i \in inserting : Insert(i)
    \/ \E kind \in {"not-allowed", "no-speech", "network"} : Error(kind)
    \/ Pause
    \/ \E ok \in BOOLEAN : End(ok)

Spec == Init /\ [][Next]_vars

----------------------------------------------------------------------------
\* The microphone is open only for an open document whose user asked for it
\* and was not refused: not after a stop, a refusal or the document's closing,
\* whatever event of the recogniser comes late.
MicWanted == recogniser = "running" => doc # None /\ want /\ status # "denied"

\* What is dictated goes into the document it was said over, and nowhere else.
DictatedThere == \A d \in Docs : \A u \in text[d] : said[u] = d

\* What the interface shows is the status of the session that is open.
StatusShown == doc # None => shown = status
=============================================================================
