------------------------------ MODULE AgentRun ------------------------------
(***************************************************************************)
(* A hosted agent run: the server's run with its event journal, tool       *)
(* receipts and terminal states (agent/mod.rs), and the pages that start,  *)
(* stream, resume and stop it (AgentPill, gateway, run-store).  Commands   *)
(* run in the page's command centre, which outlives the agent pill.        *)
(***************************************************************************)
EXTENDS Naturals, Sequences, TLAPS

CONSTANTS
  MaxCalls,     \* MAX_TOOL_CALLS
  MaxEvents,    \* MAX_EVENTS
  MaxText,      \* assistant.delta events of the provider
  MaxMounts,    \* agent pills ever mounted
  MaxLost,      \* requests or answers lost on the network
  MaxRemounts,  \* pills unmounted without a reload
  MaxRestarts   \* server restarts

ASSUME AgentAssumption ==
  /\ {MaxCalls, MaxEvents, MaxText, MaxMounts, MaxLost, MaxRemounts, MaxRestarts} \subseteq Nat
  /\ MaxMounts > 0

VARIABLES
  run,       \* status, events, the pending tool call and whether it is answered
  receipts,  \* agent_tool_receipts: per call the request and its status
  pill,      \* per mount: state, abort signal, cursor, storedRunRef, call, tries
  mounted,   \* the pill on screen, 0 for none
  storage,   \* the session-storage record
  create, cancel,  \* a create request and a cancel request in flight
  launched, outcome,  \* history: launches per call, what its command did
  refused,   \* history: an identical resubmission was refused
  used

vars == <<run, receipts, pill, mounted, storage, create, cancel, launched, outcome, refused, used>>
server == <<run, receipts>>
history == <<launched, outcome, refused>>

Calls == 1..MaxCalls
Pills == 1..MaxMounts
Ended == {"completed", "failed", "cancelled"}
Statuses == {"succeeded", "failed", "cancelled"}
NoCall == [state |-> "none", req |-> 0, status |-> "none"]
NoRecord == [live |-> FALSE, last |-> 0, calls |-> [c \in Calls |-> NoCall]]
NewRecord == [NoRecord EXCEPT !.live = TRUE]
NoPill == [state |-> "none", aborted |-> FALSE, stopped |-> FALSE, after |-> 0,
           ref |-> NoRecord, call |-> 0, tries |-> 0]

Init ==
  /\ run = [status |-> "none", events |-> <<>>, pending |-> 0, answered |-> FALSE, calls |-> 0, text |-> 0]
  /\ receipts = [c \in Calls |-> NoCall]
  /\ pill = [i \in Pills |-> IF i = 1 THEN [NoPill EXCEPT !.state = "idle"] ELSE NoPill]
  /\ mounted = 1
  /\ storage = NoRecord
  /\ create = FALSE /\ cancel = FALSE
  /\ launched = [c \in Calls |-> 0] /\ outcome = [c \in Calls |-> "none"]
  /\ refused = FALSE
  /\ used = [lost |-> 0, restarts |-> 0, mounts |-> 1, remounts |-> 0]

------------------------------------------------------------------------------
(* The server. *)

Live == run.status \in {"queued", "running", "waiting"}
Full == Len(run.events) >= MaxEvents
Event(kind, c) == [kind |-> kind, call |-> c]
Journal(kind, c) == Append(run.events, Event(kind, c))

StartRun ==
  /\ create /\ run.status = "none"
  /\ run' = [run EXCEPT !.status = "queued"]
  /\ UNCHANGED <<receipts, pill, mounted, storage, create, cancel, history, used>>

\* finalize: nothing happens to an ended run, and nothing when the journal is full.
Finalized(status) ==
  IF ~Live \/ Full THEN run
  ELSE [run EXCEPT !.status = status, !.events = Journal(status, 0), !.pending = 0, !.answered = FALSE]

ServerStep(r) ==
  /\ run' = r
  /\ UNCHANGED <<receipts, pill, mounted, storage, create, cancel, history, used>>

RunStarts ==
  /\ run.status = "queued"
  /\ ServerStep(IF Full THEN Finalized("failed")
                ELSE [run EXCEPT !.status = "running", !.events = Journal("started", 0)])

EmitText ==
  /\ run.status = "running" /\ run.text < MaxText
  /\ ServerStep(IF Full THEN Finalized("failed")
                ELSE [run EXCEPT !.events = Journal("delta", 0), !.text = @ + 1])

\* call_tool, up to the wait for the result.
CallTool ==
  /\ run.status = "running" /\ run.calls < MaxCalls
  /\ LET c == run.calls + 1 IN
     ServerStep(IF Full THEN [run EXCEPT !.status = "waiting", !.calls = c]
                ELSE [run EXCEPT !.status = "waiting", !.pending = c, !.calls = c,
                                 !.events = Journal("call", c)])

\* call_tool, once the result is there.
TakeResult ==
  /\ run.status = "waiting" /\ run.answered
  /\ ServerStep([run EXCEPT !.status = "running", !.pending = 0, !.answered = FALSE])

Complete == run.status = "running" /\ ServerStep(Finalized("completed"))

\* A provider error, the tool wait or the runtime limit.
ProviderFails == run.status \in {"running", "waiting"} /\ ServerStep(Finalized("failed"))

Cancelled == Finalized("cancelled")

CancelArrives ==
  /\ cancel
  /\ cancel' = FALSE
  /\ run' = IF run.status = "none" THEN run ELSE Cancelled
  /\ UNCHANGED <<receipts, pill, mounted, storage, create, history, used>>

\* recover_interrupted_runs.
Restart ==
  /\ used.restarts < MaxRestarts /\ run.status # "none"
  /\ used' = [used EXCEPT !.restarts = @ + 1]
  /\ run' = IF Live THEN [run EXCEPT !.status = "failed", !.events = Journal("failed", 0),
                                    !.pending = 0, !.answered = FALSE]
            ELSE run
  /\ UNCHANGED <<receipts, pill, mounted, storage, create, cancel, history>>

------------------------------------------------------------------------------
(* The pill. *)

\* submit, runHosted: the create request.
Submit(i) ==
  /\ i = mounted /\ pill[i].state = "idle" /\ run.status = "none" /\ ~create
  /\ pill' = [pill EXCEPT ![i].state = "creating"]
  /\ create' = TRUE
  /\ UNCHANGED <<server, mounted, storage, cancel, history, used>>

CreateAnswered(i) ==
  /\ pill[i].state = "creating" /\ create /\ run.status # "none"
  /\ create' = FALSE
  /\ IF pill[i].aborted
     THEN pill' = [pill EXCEPT ![i].state = "done"] /\ UNCHANGED storage
     ELSE /\ pill' = [pill EXCEPT ![i].state = "reading", ![i].ref = NewRecord]
          /\ storage' = NewRecord
  /\ UNCHANGED <<server, mounted, cancel, history, used>>

\* retryIdempotent gives up, or the answer is lost for good.
CreateFails(i) ==
  /\ pill[i].state = "creating" /\ used.lost < MaxLost
  /\ used' = [used EXCEPT !.lost = @ + 1]
  /\ create' = FALSE
  /\ pill' = [pill EXCEPT ![i].state = IF pill[i].aborted THEN "done" ELSE "idle"]
  /\ UNCHANGED <<server, mounted, storage, cancel, history>>

Saved(i, ref) == /\ pill' = [pill EXCEPT ![i].ref = ref, ![i].after = ref.last]
                 /\ storage' = ref

\* The stream's next event that is not a tool call: the cursor is saved, or the
\* record is cleared with the run's end.
ReadEvent(i) ==
  /\ pill[i].state = "reading" /\ ~pill[i].aborted
  /\ pill[i].after < Len(run.events)
  /\ LET e == run.events[pill[i].after + 1] IN
     /\ e.kind # "call"
     /\ IF e.kind \in Ended
        THEN /\ pill' = [pill EXCEPT ![i].state = "done", ![i].ref = NoRecord]
             /\ storage' = NoRecord
        ELSE Saved(i, [pill[i].ref EXCEPT !.last = pill[i].after + 1])
  /\ UNCHANGED <<server, mounted, create, cancel, history, used>>

\* Mutant: a launch is not recorded before the command runs.
LaunchRecordNone(i) == NoCall

LaunchRecord(i) == [state |-> "executing", req |-> i, status |-> "none"]

\* The previous page went away before it recorded the command's receipt.
Interrupted(call) == [call EXCEPT !.state = "terminal", !.status = "failed"]

\* handleHostedTool: a recorded call is never launched again; a call that does not
\* match the command's contract is refused.
ReadCall(i, valid) ==
  /\ pill[i].state = "reading" /\ ~pill[i].aborted
  /\ pill[i].after < Len(run.events)
  /\ LET c == run.events[pill[i].after + 1].call
         stored == pill[i].ref.calls[c]
         launch == stored.state = "none" /\ valid
         next == CASE launch -> LaunchRecord(i)
                   [] stored.state = "none" /\ ~valid -> [state |-> "terminal", req |-> i, status |-> "failed"]
                   [] stored.state = "executing" -> Interrupted(stored)
                   [] OTHER -> stored
         ref == [pill[i].ref EXCEPT !.calls[c] = next]
     IN /\ c # 0
        /\ pill' = [pill EXCEPT ![i].ref = ref, ![i].call = c, ![i].tries = 0,
                                ![i].state = IF launch THEN "command" ELSE "submitting"]
        /\ storage' = ref
        /\ launched' = IF launch THEN [launched EXCEPT ![c] = @ + 1] ELSE launched
  /\ UNCHANGED <<server, mounted, create, cancel, outcome, refused, used>>

\* The command's receipt is recorded before it crosses the network.  An aborted
\* pill only records it, and its cursor.
CommandFinishes(i, status) ==
  /\ pill[i].state = "command"
  /\ LET c == pill[i].call
         ref == [pill[i].ref EXCEPT !.calls[c] = [state |-> "terminal", req |-> i, status |-> status]]
         final == [ref EXCEPT !.last = pill[i].after + 1]
     IN /\ outcome' = [outcome EXCEPT ![c] = status]
        /\ IF ~pill[i].ref.live
           THEN pill' = [pill EXCEPT ![i].state = "done"] /\ UNCHANGED storage
           ELSE IF pill[i].aborted
           THEN pill' = [pill EXCEPT ![i].state = "done", ![i].ref = final] /\ storage' = final
           ELSE pill' = [pill EXCEPT ![i].state = "submitting", ![i].ref = ref] /\ storage' = ref
  /\ UNCHANGED <<server, mounted, create, cancel, launched, refused, used>>

\* submit_tool_result: accepted, replayed or refused.
Answer(c, call) ==
  CASE run.status = "waiting" /\ run.pending = c /\ ~run.answered ->
         IF receipts[c] = NoCall THEN "accepted" ELSE "refused"
    [] run.status = "waiting" /\ run.pending \notin {0, c} -> "refused"
    [] OTHER -> IF receipts[c] = call THEN "replayed" ELSE "refused"

\* The consumer of the stream failed: the run is given up.
GivesUp(i) ==
  /\ pill' = [pill EXCEPT ![i].state = "done", ![i].ref = NoRecord]
  /\ storage' = NoRecord /\ cancel' = TRUE

\* The request reaches the server; its answer may be lost and is then retried.
SubmitResult(i, lost) ==
  /\ pill[i].state = "submitting" /\ ~pill[i].aborted
  /\ lost => used.lost < MaxLost
  /\ LET c == pill[i].call
         call == pill[i].ref.calls[c]
         answer == IF Full /\ run.status = "waiting" /\ run.pending = c THEN "error" ELSE Answer(c, call)
     IN /\ IF answer \in {"accepted", "error"} /\ receipts[c] = NoCall
           THEN /\ receipts' = [receipts EXCEPT ![c] = call]
                /\ run' = [run EXCEPT !.answered = TRUE,
                             !.events = IF answer = "error" THEN @ ELSE Journal("accepted", 0)]
           ELSE UNCHANGED server
        /\ refused' = (refused \/ (answer = "refused" /\ receipts[c] = call))
        /\ IF lost \/ answer = "error"
           THEN IF pill[i].tries < 2
                THEN /\ pill' = [pill EXCEPT ![i].tries = @ + 1]
                     /\ UNCHANGED <<storage, cancel>>
                ELSE GivesUp(i)
           ELSE IF answer = "refused" THEN GivesUp(i)
           ELSE LET ref == [pill[i].ref EXCEPT !.last = pill[i].after + 1]
                IN /\ pill' = [pill EXCEPT ![i].state = "reading", ![i].ref = ref, ![i].after = ref.last]
                   /\ storage' = ref /\ UNCHANGED cancel
  /\ used' = IF lost THEN [used EXCEPT !.lost = @ + 1] ELSE used
  /\ UNCHANGED <<mounted, create, launched, outcome>>

\* An aborted stream or submission returns.
Returns(i) ==
  /\ pill[i].state \in {"reading", "submitting"} /\ pill[i].aborted
  /\ pill' = [pill EXCEPT ![i].state = "done"]
  /\ UNCHANGED <<server, mounted, storage, create, cancel, history, used>>

\* cancelCurrent, and a change of document: the run is cancelled when it is known.
Stop(i) ==
  /\ i = mounted /\ pill[i].state \in {"creating", "reading", "command", "submitting"}
  /\ ~pill[i].aborted
  /\ pill' = [pill EXCEPT ![i].aborted = TRUE, ![i].stopped = TRUE, ![i].ref = NoRecord]
  /\ cancel' = (cancel \/ pill[i].state # "creating")
  /\ storage' = NoRecord
  /\ UNCHANGED <<server, mounted, create, history, used>>

\* The pill is unmounted: its signal is aborted, its command goes on.
Unmount ==
  /\ used.remounts < MaxRemounts /\ mounted # 0
  /\ pill' = [pill EXCEPT ![mounted].aborted = TRUE]
  /\ mounted' = 0 /\ used' = [used EXCEPT !.remounts = @ + 1]
  /\ UNCHANGED <<server, storage, create, cancel, history>>

\* The page is reloaded: pills and commands are gone, session storage is not.
Reload ==
  /\ used.mounts < MaxMounts
  /\ pill' = [i \in Pills |-> IF pill[i].state = "none" THEN NoPill
                              ELSE [NoPill EXCEPT !.state = "done", !.stopped = pill[i].stopped]]
  /\ mounted' = 0 /\ create' = FALSE
  /\ UNCHANGED <<server, storage, cancel, history, used>>

\* A pill is mounted: a recorded run is resumed after its last saved event.
Mount ==
  /\ mounted = 0 /\ used.mounts < MaxMounts
  /\ LET i == used.mounts + 1 IN
     /\ pill' = [pill EXCEPT ![i] = [NoPill EXCEPT !.ref = storage, !.after = storage.last,
                                       !.state = IF storage.live THEN "reading" ELSE "idle"]]
     /\ mounted' = i /\ used' = [used EXCEPT !.mounts = i]
  /\ UNCHANGED <<server, storage, create, cancel, history>>

Provider == RunStarts \/ EmitText \/ CallTool \/ TakeResult \/ Complete \/ ProviderFails
Next ==
  \/ StartRun \/ Provider \/ CancelArrives \/ Restart \/ Unmount \/ Reload \/ Mount
  \/ \E i \in Pills :
       \/ Submit(i) \/ CreateAnswered(i) \/ CreateFails(i) \/ ReadEvent(i) \/ Returns(i) \/ Stop(i)
       \/ \E valid \in BOOLEAN : ReadCall(i, valid)
       \/ \E status \in Statuses : CommandFinishes(i, status)
       \/ \E lost \in BOOLEAN : SubmitResult(i, lost)

Spec == Init /\ [][Next]_vars

------------------------------------------------------------------------------
\* No tool call launches its command twice, whatever is reloaded, retried or resumed
\* (handleHostedTool: "can never launch this call twice").
LaunchedOnce == \A c \in DOMAIN launched : launched[c] <= 1

\* A receipt that says a command succeeded is about a command that did, though the
\* page may have gone away between the launch and the receipt.
ReceiptTruthful == \A c \in DOMAIN receipts : receipts[c].status = "succeeded" => outcome[c] = "succeeded"

\* A run has one end, and it is the last event of the journal, however completion,
\* cancellation, deadlines and a restart race (finalize, recover_interrupted_runs).
OneTerminal ==
  \A n \in DOMAIN run.events : run.events[n].kind \in Ended
     => n = Len(run.events) /\ run.status = run.events[n].kind

\* Whatever is reloaded, retried, resumed or cut by a restart: no tool call of
\* a page launches its command twice, a receipt of success is about a command
\* that succeeded, and a run has one end, the last event of its journal
\* (handleHostedTool, submit_tool_result, finalize).  A pill that is mounted
\* anew in the same page keeps only the last of the three.
AgentRunExact ==
  /\ OneTerminal
  /\ used.remounts = 0 => LaunchedOnce /\ ReceiptTruthful

------------------------------------------------------------------------------
(* Proofs: AgentRunExact for any number of calls, events, pills, losses and    *)
(* restarts.                                                                   *)

CallState == [state: {"none", "executing", "terminal"}, req: Nat, status: Statuses \cup {"none"}]
Record == [live: BOOLEAN, last: Nat, calls: [Calls -> CallState]]
Working == {"reading", "command", "submitting"}
PillState ==
  [state: {"none", "idle", "creating", "done"} \cup Working, aborted: BOOLEAN, stopped: BOOLEAN,
   after: Nat, ref: Record, call: 0..MaxCalls, tries: Nat]
EventState == [kind: {"started", "delta", "call", "accepted"} \cup Ended, call: 0..MaxCalls]
RunState ==
  [status: {"none", "queued", "running", "waiting"} \cup Ended, events: Seq(EventState),
   pending: 0..MaxCalls, answered: BOOLEAN, calls: 0..MaxCalls, text: Nat]

\* A pill that runs a command or submits its result has a call.
TypeOK ==
  /\ run \in RunState /\ receipts \in [Calls -> CallState]
  /\ pill \in [Pills -> PillState] /\ mounted \in 0..MaxMounts /\ storage \in Record
  /\ create \in BOOLEAN /\ cancel \in BOOLEAN /\ refused \in BOOLEAN
  /\ launched \in [Calls -> Nat] /\ outcome \in [Calls -> Statuses \cup {"none"}]
  /\ used \in [lost: Nat, restarts: Nat, mounts: 1..MaxMounts, remounts: Nat]
  /\ \A i \in Pills : pill[i].state \in {"command", "submitting"} => pill[i].call \in Calls

\* Only the pill on screen is at work, and its reference is what is stored.
Alone ==
  /\ \A i \in Pills : i # mounted => pill[i].state \in {"none", "done"}
  /\ mounted # 0 => pill[mounted].ref = storage

\* Before the run's creation is answered there is no record and no command.
Before ==
  /\ ~storage.live /\ \A c \in Calls : launched[c] = 0
  /\ \A i \in Pills : pill[i].state \notin Working

\* After it no pill creates a run.
After == run.status # "none" /\ ~create /\ \A i \in Pills : pill[i].state # "creating"

\* A launch is on record as long as there is a record, and there is one while a
\* pill works.
Recorded ==
  /\ \A c \in Calls : launched[c] <= 1
  /\ \A c \in Calls : launched[c] # 0 /\ storage.live => storage.calls[c].state # "none"
  /\ \A i \in Pills : pill[i].state \in Working /\ ~pill[i].aborted => storage.live

\* What is recorded or submitted as a success was one; a command that runs was
\* launched and has no outcome yet.
Outcomes ==
  /\ \A c \in Calls : launched[c] = 0 => outcome[c] = "none"
  /\ \A c \in Calls : storage.calls[c].status = "succeeded" => outcome[c] = "succeeded"
  /\ \A c \in Calls : receipts[c].status = "succeeded" => outcome[c] = "succeeded"
  /\ \A i \in Pills : pill[i].state = "command" =>
       launched[pill[i].call] # 0 /\ outcome[pill[i].call] = "none"

PageInv == Alone /\ (Before \/ After) /\ Recorded /\ Outcomes
AgentInv == TypeOK /\ OneTerminal /\ (used.remounts = 0 => PageInv)

\* The limits are numbers, and there is a pill.
LEMMA Limits ==
  /\ MaxCalls \in Nat /\ MaxEvents \in Nat /\ MaxText \in Nat /\ MaxMounts \in Nat \ {0}
  /\ MaxLost \in Nat /\ MaxRemounts \in Nat /\ MaxRestarts \in Nat
  /\ 0 \in 0..MaxCalls
  BY AgentAssumption

\* The records of a run that is not there.
LEMMA Empties ==
  /\ NoCall \in CallState /\ NoRecord \in Record /\ NewRecord \in Record
  /\ ~NoRecord.live /\ NewRecord.live /\ NoRecord.last = 0
  /\ \A c \in Calls : NoRecord.calls[c] = NoCall /\ NewRecord.calls[c] = NoCall
  /\ NoCall.state = "none" /\ NoCall.status = "none"
  /\ NoPill \in PillState /\ NoPill.state = "none"
<1>1. NoCall \in CallState /\ NoCall.state = "none" /\ NoCall.status = "none"
  BY DEF NoCall, CallState
<1>2. NoRecord \in Record /\ ~NoRecord.live /\ NoRecord.last = 0
      /\ \A c \in Calls : NoRecord.calls[c] = NoCall
  BY <1>1 DEF NoRecord, Record
<1>3. NewRecord \in Record /\ NewRecord.live /\ \A c \in Calls : NewRecord.calls[c] = NoCall
  BY <1>1 DEF NoRecord, NewRecord, Record
<1>4. NoPill \in PillState /\ NoPill.state = "none"
  BY <1>2, Limits DEF NoPill, PillState
<1> QED BY <1>1, <1>2, <1>3, <1>4

\* A run that has not ended may get events, its end the last.
LEMMA Appended ==
  ASSUME TypeOK, OneTerminal, NEW e \in EventState, NEW r \in RunState, run' = r,
         run.status \notin Ended, r.events \in {run.events, Append(run.events, e)},
         e.kind \in Ended => r.status = e.kind
  PROVE  OneTerminal'
<1>1. \A n \in DOMAIN run.events : run.events[n].kind \notin Ended
  BY DEF OneTerminal
<1>2. run.events \in Seq(EventState)
  BY DEF TypeOK, RunState
<1>3. CASE r.events = run.events
  BY <1>1, <1>3 DEF OneTerminal
<1>4. CASE r.events = Append(run.events, e)
  <2> SUFFICES ASSUME NEW n \in DOMAIN r.events, r.events[n].kind \in Ended
               PROVE  n = Len(r.events) /\ r.status = r.events[n].kind
    BY DEF OneTerminal
  <2>1. n \in 1..(Len(run.events) + 1) /\ Len(r.events) = Len(run.events) + 1
    BY <1>2, <1>4
  <2>2. CASE n \in 1..Len(run.events)
    <3>1. r.events[n] = run.events[n] /\ n \in DOMAIN run.events
      BY <1>2, <1>4, <2>2
    <3> QED BY <1>1, <3>1
  <2>3. CASE n = Len(run.events) + 1
    <3>1. r.events[n] = e
      BY <1>2, <1>4, <2>3
    <3> QED BY <2>1, <2>3, <3>1
  <2> QED BY <1>2, <2>1, <2>2, <2>3
<1> QED BY <1>3, <1>4

\* What finalize makes of a run.
LEMMA FinalizedRun ==
  ASSUME TypeOK, OneTerminal, NEW status \in Ended, run' = Finalized(status)
  PROVE  run' \in RunState /\ OneTerminal' /\ (run.status # "none" => run'.status # "none")
<1>1. CASE ~Live \/ Full
  <2>1. run' = run
    BY <1>1 DEF Finalized
  <2> QED BY <2>1 DEF TypeOK, OneTerminal
<1>2. CASE Live /\ ~Full
  <2> DEFINE e == Event(status, 0)
  <2>1. e \in EventState /\ e.kind = status
    BY Limits DEF Event, EventState
  <2>2. run' = [run EXCEPT !.status = status, !.events = Append(run.events, e), !.pending = 0, !.answered = FALSE]
    BY <1>2 DEF Finalized, Journal
  <2> HIDE DEF e
  <2>3. run' \in RunState /\ run'.events = Append(run.events, e) /\ run'.status = status
    <3>1. run \in RunState /\ Append(run.events, e) \in Seq(EventState)
      BY <2>1 DEF TypeOK, RunState
    <3> QED BY <2>2, <3>1, Limits DEF RunState
  <2>4. run.status \notin Ended /\ status # "none"
    BY <1>2 DEF Live, Ended
  <2> QED BY <2>1, <2>3, <2>4, Appended
<1> QED BY <1>1, <1>2

\* A step of the server alone.
LEMMA ServerTyped ==
  ASSUME TypeOK, OneTerminal, StartRun \/ Provider \/ CancelArrives \/ Restart
  PROVE  /\ run' \in RunState /\ OneTerminal' /\ (run.status # "none" => run'.status # "none")
         /\ UNCHANGED <<receipts, pill, mounted, storage, create, launched, outcome, refused>>
         /\ cancel' \in BOOLEAN /\ used'.remounts = used.remounts
         /\ used' \in [lost: Nat, restarts: Nat, mounts: 1..MaxMounts, remounts: Nat]
<1> DEFINE Goal == run' \in RunState /\ OneTerminal' /\ (run.status # "none" => run'.status # "none")
<1>1. \A e \in EventState : Append(run.events, e) \in Seq(EventState)
  BY DEF TypeOK, RunState
<1>2. /\ Event("started", 0) \in EventState /\ Event("started", 0).kind = "started"
      /\ Event("delta", 0) \in EventState /\ Event("delta", 0).kind = "delta"
      /\ Event("failed", 0) \in EventState /\ Event("failed", 0).kind = "failed"
      /\ \A c \in Calls : Event("call", c) \in EventState /\ Event("call", c).kind = "call"
  BY Limits DEF Event, EventState, Calls, Ended
<1>3. CASE StartRun
  <2>1. run' \in RunState /\ run'.events = run.events /\ run'.status = "queued" /\ run.status = "none"
    BY <1>3 DEF StartRun, TypeOK, RunState
  <2>2. Goal
    BY <1>2, <2>1, Appended DEF Ended
  <2> QED BY <1>3, <2>2 DEF StartRun, history, TypeOK
<1>4. CASE Provider
  <2>1. UNCHANGED <<receipts, pill, mounted, storage, create, cancel, history, used>>
    BY <1>4 DEF Provider, RunStarts, EmitText, CallTool, TakeResult, Complete, ProviderFails, ServerStep
  <2>2. CASE RunStarts
    <3>1. CASE Full
      <4>1. Goal
        BY <2>2, <3>1, FinalizedRun DEF RunStarts, ServerStep, Ended
      <4> QED BY <2>1, <4>1 DEF history, TypeOK
    <3>2. CASE ~Full
      <4>1. run' \in RunState /\ run'.events = Append(run.events, Event("started", 0))
            /\ run'.status = "running" /\ run.status = "queued"
        BY <1>1, <1>2, <2>2, <3>2 DEF RunStarts, ServerStep, Journal, TypeOK, RunState
      <4>2. Goal
        BY <1>2, <4>1, Appended DEF Ended
      <4> QED BY <2>1, <4>2 DEF history, TypeOK
    <3> QED BY <3>1, <3>2
  <2>3. CASE EmitText
    <3>1. CASE Full
      <4>1. Goal
        BY <2>3, <3>1, FinalizedRun DEF EmitText, ServerStep, Ended
      <4> QED BY <2>1, <4>1 DEF history, TypeOK
    <3>2. CASE ~Full
      <4>1. run' \in RunState /\ run'.events = Append(run.events, Event("delta", 0))
            /\ run'.status = "running" /\ run.status = "running"
        <5>1. run \in RunState /\ run.text + 1 \in Nat
          BY DEF TypeOK, RunState
        <5>2. run' = [run EXCEPT !.events = Append(run.events, Event("delta", 0)), !.text = run.text + 1]
              /\ run.status = "running"
          BY <2>3, <3>2 DEF EmitText, ServerStep, Journal
        <5> QED BY <1>1, <1>2, <5>1, <5>2 DEF RunState
      <4>2. Goal
        BY <1>2, <4>1, Appended DEF Ended
      <4> QED BY <2>1, <4>2 DEF history, TypeOK
    <3> QED BY <3>1, <3>2
  <2>4. CASE CallTool
    <3> DEFINE c == run.calls + 1
    <3>1. c \in Calls
      <4>1. run.calls \in 0..MaxCalls /\ run.calls < MaxCalls
        BY <2>4 DEF CallTool, TypeOK, RunState
      <4> QED BY <4>1, Limits DEF Calls
    <3>2. run' \in RunState /\ run'.events \in {run.events, Append(run.events, Event("call", c))}
          /\ run'.status = "waiting" /\ run.status = "running"
      <4> HIDE DEF c
      <4>1. /\ run.status = "running"
            /\ \/ run' = [run EXCEPT !.status = "waiting", !.calls = c]
               \/ run' = [run EXCEPT !.status = "waiting", !.pending = c, !.calls = c,
                                     !.events = Append(run.events, Event("call", c))]
        BY <2>4 DEF CallTool, ServerStep, Journal, c
      <4>2. run \in RunState /\ c \in 0..MaxCalls
        BY <3>1, Limits DEF TypeOK, Calls
      <4>3. Append(run.events, Event("call", c)) \in Seq(EventState)
        BY <1>1, <1>2, <3>1
      <4> QED BY <4>1, <4>2, <4>3 DEF RunState
    <3>3. Goal
      BY <1>2, <3>1, <3>2, Appended DEF Ended
    <3> QED BY <2>1, <3>3 DEF history, TypeOK
  <2>5. CASE TakeResult
    <3>1. run' \in RunState /\ run'.events = run.events /\ run'.status = "running" /\ run.status = "waiting"
      BY <2>5, Limits DEF TakeResult, ServerStep, TypeOK, RunState
    <3>2. Goal
      BY <1>2, <3>1, Appended DEF Ended
    <3> QED BY <2>1, <3>2 DEF history, TypeOK
  <2>6. CASE Complete \/ ProviderFails
    <3>1. Goal
      BY <2>6, FinalizedRun DEF Complete, ProviderFails, ServerStep, Ended
    <3> QED BY <2>1, <3>1 DEF history, TypeOK
  <2> QED BY <1>4, <2>2, <2>3, <2>4, <2>5, <2>6 DEF Provider
<1>5. CASE CancelArrives
  <2>1. CASE run' = run
    BY <1>5, <2>1 DEF CancelArrives, history, TypeOK, OneTerminal
  <2>2. CASE run' = Finalized("cancelled")
    <3>1. Goal
      BY <2>2, FinalizedRun DEF Ended
    <3> QED BY <1>5, <3>1 DEF CancelArrives, history, TypeOK
  <2> QED BY <1>5, <2>1, <2>2 DEF CancelArrives, Cancelled
<1>6. CASE Restart
  <2>1. /\ used' \in [lost: Nat, restarts: Nat, mounts: 1..MaxMounts, remounts: Nat]
        /\ used'.remounts = used.remounts
    BY <1>6 DEF Restart, TypeOK
  <2>2. CASE ~Live
    BY <1>6, <2>1, <2>2 DEF Restart, history, TypeOK, OneTerminal
  <2>3. CASE Live
    <3>1. run' \in RunState /\ run'.events = Append(run.events, Event("failed", 0))
          /\ run'.status = "failed" /\ run.status \notin Ended
      BY <1>1, <1>2, <1>6, <2>3, Limits DEF Restart, Journal, TypeOK, RunState, Live, Ended
    <3>2. Goal
      BY <1>2, <3>1, Appended DEF Ended
    <3> QED BY <1>6, <2>1, <3>2 DEF Restart, history, TypeOK
  <2> QED BY <2>2, <2>3
<1> QED BY <1>3, <1>4, <1>5, <1>6

\* A step of the server keeps what is on the pages.
LEMMA ServerInv ==
  ASSUME AgentInv, StartRun \/ Provider \/ CancelArrives \/ Restart
  PROVE  AgentInv'
<1>1. TypeOK /\ OneTerminal
  BY DEF AgentInv
<1>2. /\ run' \in RunState /\ OneTerminal' /\ (run.status # "none" => run'.status # "none")
      /\ UNCHANGED <<receipts, pill, mounted, storage, create, launched, outcome, refused>>
      /\ cancel' \in BOOLEAN /\ used'.remounts = used.remounts
      /\ used' \in [lost: Nat, restarts: Nat, mounts: 1..MaxMounts, remounts: Nat]
  BY <1>1, ServerTyped
<1>3. TypeOK'
  BY <1>1, <1>2 DEF TypeOK
<1>4. PageInv => PageInv'
  BY <1>2 DEF PageInv, Alone, Before, After, Recorded, Outcomes
<1> QED BY <1>2, <1>3, <1>4 DEF AgentInv

\* What a step of a pill at work has in common: the pill is the one on screen, and
\* what it stores is its reference.
LEMMA Working1 ==
  ASSUME TypeOK, TypeOK', PageInv, NEW i \in Pills, pill[i].state \notin {"none", "done"},
         \A j \in Pills \ {i} : pill'[j] = pill[j], mounted' = mounted,
         storage' = pill'[i].ref \/ (storage' = storage /\ pill'[i].ref = pill[i].ref)
  PROVE  /\ i = mounted /\ pill[i].ref = storage /\ storage' = pill'[i].ref /\ Alone'
         /\ \A j \in Pills \ {i} : pill'[j].state = pill[j].state /\ pill[j].state \in {"none", "done"}
<1>1. i = mounted
  BY DEF PageInv, Alone
<1>2. i # 0
  BY Limits DEF Pills
<1>3. pill[i].ref = storage
  BY <1>1, <1>2 DEF PageInv, Alone
<1>4. \A j \in Pills \ {i} : pill[j].state \in {"none", "done"}
  BY <1>1 DEF PageInv, Alone
<1> QED BY <1>1, <1>3, <1>4 DEF Alone

\* A pill's step that launches nothing and ends no command.
LEMMA CalmStep ==
  ASSUME TypeOK, TypeOK', PageInv, NEW i \in Pills, pill[i].state \notin {"none", "done"},
         \A j \in Pills \ {i} : pill'[j] = pill[j], UNCHANGED <<mounted, launched, outcome>>,
         storage' = pill'[i].ref \/ (storage' = storage /\ pill'[i].ref = pill[i].ref),
         storage'.live => storage.live,
         \A c \in Calls : storage'.live /\ storage.calls[c].state # "none"
                            => storage'.calls[c].state # "none",
         \A c \in Calls : storage'.calls[c].status = "succeeded" => storage.calls[c].status = "succeeded",
         \A c \in Calls : receipts'[c].status = "succeeded"
                            => "succeeded" \in {receipts[c].status, storage.calls[c].status},
         pill'[i].state \in Working => pill[i].state \in Working,
         pill'[i].state \in Working /\ ~pill'[i].aborted => storage'.live,
         pill'[i].state = "command" => pill[i].state = "command" /\ pill'[i].call = pill[i].call,
         pill'[i].state = "creating" => pill[i].state = "creating",
         create' => create, run.status # "none" => run'.status # "none"
  PROVE  PageInv'
<1>1. Alone' /\ \A j \in Pills \ {i} : pill'[j].state = pill[j].state /\ pill[j].state \in {"none", "done"}
  BY Working1
<1>2. Before => Before'
  BY <1>1 DEF Before, Working
<1>3. After => After'
  BY <1>1 DEF After
<1>4. Recorded'
  BY <1>1 DEF Recorded, PageInv, Working
<1>5. Outcomes'
  BY <1>1 DEF Outcomes, PageInv
<1> QED BY <1>1, <1>2, <1>3, <1>4, <1>5 DEF PageInv

\* The create request, its answer and its failure.
LEMMA CreateInv ==
  ASSUME AgentInv, NEW i \in Pills, Submit(i) \/ CreateAnswered(i) \/ CreateFails(i)
  PROVE  AgentInv'
<1> USE DEF server, history
<1>1. TypeOK /\ OneTerminal /\ pill \in [Pills -> PillState]
  BY DEF AgentInv, TypeOK
<1>2. CASE Submit(i)
  <2>1. /\ pill' \in [Pills -> PillState] /\ \A j \in Pills \ {i} : pill'[j] = pill[j]
        /\ pill'[i].state = "creating" /\ pill'[i].ref = pill[i].ref
    BY <1>1, <1>2 DEF Submit, PillState
  <2>2. TypeOK' /\ OneTerminal'
    BY <1>1, <1>2, <2>1 DEF Submit, TypeOK, OneTerminal
  <2>3. ASSUME PageInv PROVE PageInv'
    <3>1. Alone' /\ \A j \in Pills \ {i} : pill'[j].state \in {"none", "done"}
      BY <1>1, <1>2, <2>1, <2>2, <2>3, Working1 DEF Submit
    <3>2. Before
      BY <1>2, <2>3 DEF Submit, PageInv, After
    <3>3. Before'
      BY <1>2, <2>1, <3>1, <3>2 DEF Submit, Before, Working
    <3>4. Recorded' /\ Outcomes'
      BY <1>2, <2>1, <2>3, <3>1 DEF Submit, PageInv, Recorded, Outcomes, Working
    <3> QED BY <3>1, <3>3, <3>4 DEF PageInv
  <2> QED BY <1>2, <2>2, <2>3 DEF AgentInv, Submit
<1>3. CASE CreateAnswered(i) /\ pill[i].aborted
  <2>1. /\ pill' \in [Pills -> PillState] /\ \A j \in Pills \ {i} : pill'[j] = pill[j]
        /\ pill'[i].state = "done" /\ pill'[i].ref = pill[i].ref
        /\ storage' = storage /\ create' = FALSE
    BY <1>1, <1>3 DEF CreateAnswered, PillState
  <2>2. TypeOK' /\ OneTerminal'
    BY <1>1, <1>3, <2>1 DEF CreateAnswered, TypeOK, OneTerminal
  <2>3. PageInv => PageInv'
    BY <1>1, <1>3, <2>1, <2>2, CalmStep DEF CreateAnswered, Working
  <2> QED BY <1>3, <2>2, <2>3 DEF AgentInv, CreateAnswered
<1>4. CASE CreateAnswered(i) /\ ~pill[i].aborted
  <2>1. /\ pill' \in [Pills -> PillState] /\ \A j \in Pills \ {i} : pill'[j] = pill[j]
        /\ pill'[i].state = "reading" /\ pill'[i].ref = NewRecord
        /\ storage' = NewRecord /\ create' = FALSE
    BY <1>1, <1>4, Empties DEF CreateAnswered, PillState, Working
  <2>2. TypeOK' /\ OneTerminal'
    BY <1>1, <1>4, <2>1, Empties DEF CreateAnswered, TypeOK, OneTerminal
  <2>3. ASSUME PageInv PROVE PageInv'
    <3>1. Alone' /\ \A j \in Pills \ {i} : pill'[j].state \in {"none", "done"}
      BY <1>1, <1>4, <2>1, <2>2, <2>3, Working1 DEF CreateAnswered
    <3>2. Before
      BY <1>4, <2>3 DEF CreateAnswered, PageInv, After
    <3>3. After'
      BY <1>4, <2>1, <3>1 DEF CreateAnswered, After
    <3>4. Recorded'
      BY <1>4, <2>1, <2>3, <3>1, <3>2, Empties DEF CreateAnswered, PageInv, Before, Recorded, Working
    <3>5. Outcomes'
      BY <1>4, <2>1, <2>3, <3>1, Empties DEF CreateAnswered, PageInv, Outcomes
    <3> QED BY <3>1, <3>3, <3>4, <3>5 DEF PageInv
  <2> QED BY <1>4, <2>2, <2>3 DEF AgentInv, CreateAnswered
<1>5. CASE CreateFails(i)
  <2>1. /\ pill' \in [Pills -> PillState] /\ \A j \in Pills \ {i} : pill'[j] = pill[j]
        /\ pill'[i].state \in {"done", "idle"} /\ pill'[i].ref = pill[i].ref
    BY <1>1, <1>5 DEF CreateFails, PillState
  <2>2. /\ used' \in [lost: Nat, restarts: Nat, mounts: 1..MaxMounts, remounts: Nat]
        /\ used'.remounts = used.remounts
    BY <1>1, <1>5 DEF CreateFails, TypeOK
  <2>3. TypeOK' /\ OneTerminal'
    BY <1>1, <1>5, <2>1, <2>2 DEF CreateFails, TypeOK, OneTerminal
  <2>4. PageInv => PageInv'
    BY <1>1, <1>5, <2>1, <2>3, CalmStep DEF CreateFails, Working
  <2> QED BY <2>2, <2>3, <2>4 DEF AgentInv
<1> QED BY <1>2, <1>3, <1>4, <1>5

\* The next event of the stream, an aborted stream that returns, and the stop.
LEMMA StreamInv ==
  ASSUME AgentInv, NEW i \in Pills, ReadEvent(i) \/ Returns(i) \/ Stop(i)
  PROVE  AgentInv'
<1> USE DEF server, history
<1>1. TypeOK /\ OneTerminal /\ pill \in [Pills -> PillState] /\ pill[i].ref \in Record
  BY DEF AgentInv, TypeOK, PillState
<1>2. CASE ReadEvent(i)
  <2> DEFINE e == run.events[pill[i].after + 1]
             ref == [pill[i].ref EXCEPT !.last = pill[i].after + 1]
  <2>1. ref \in Record /\ ref.live = pill[i].ref.live /\ ref.calls = pill[i].ref.calls /\ ref.last \in Nat
    BY <1>1 DEF Record, PillState
  <2> HIDE DEF ref
  <2>2. \/ /\ pill' = [pill EXCEPT ![i].state = "done", ![i].ref = NoRecord] /\ storage' = NoRecord
        \/ /\ pill' = [pill EXCEPT ![i].ref = ref, ![i].after = ref.last] /\ storage' = ref
    BY <1>2 DEF ReadEvent, Saved, ref
  <2>3. /\ pill' \in [Pills -> PillState] /\ \A j \in Pills \ {i} : pill'[j] = pill[j]
        /\ storage' = pill'[i].ref /\ pill'[i].aborted = pill[i].aborted /\ storage' \in Record
        /\ \/ pill'[i].state = "done" /\ storage' = NoRecord
           \/ pill'[i].state = "reading" /\ storage' = ref
    <3>1. NoRecord \in Record /\ pill[i].state = "reading"
      BY <1>2, Empties DEF ReadEvent
    <3>2. CASE pill' = [pill EXCEPT ![i].state = "done", ![i].ref = NoRecord] /\ storage' = NoRecord
      BY <1>1, <3>1, <3>2 DEF PillState
    <3>3. CASE pill' = [pill EXCEPT ![i].ref = ref, ![i].after = ref.last] /\ storage' = ref
      BY <1>1, <2>1, <3>1, <3>3 DEF PillState
    <3> QED BY <2>2, <3>2, <3>3
  <2>4. TypeOK' /\ OneTerminal'
    BY <1>1, <1>2, <2>3 DEF ReadEvent, TypeOK, OneTerminal
  <2>5. ASSUME PageInv PROVE PageInv'
    <3>1. pill[i].ref = storage /\ storage.live
      BY <1>1, <1>2, <2>3, <2>4, <2>5, Working1 DEF ReadEvent, PageInv, Recorded, Working
    <3> QED BY <1>1, <1>2, <2>1, <2>3, <2>4, <2>5, <3>1, Empties, CalmStep DEF ReadEvent, Working
  <2> QED BY <1>2, <2>4, <2>5 DEF AgentInv, ReadEvent
<1>3. CASE Returns(i)
  <2>1. /\ pill' \in [Pills -> PillState] /\ \A j \in Pills \ {i} : pill'[j] = pill[j]
        /\ pill'[i].state = "done" /\ pill'[i].ref = pill[i].ref
    BY <1>1, <1>3 DEF Returns, PillState
  <2>2. TypeOK' /\ OneTerminal'
    BY <1>1, <1>3, <2>1 DEF Returns, TypeOK, OneTerminal
  <2>3. PageInv => PageInv'
    BY <1>1, <1>3, <2>1, <2>2, CalmStep DEF Returns, Working
  <2> QED BY <1>3, <2>2, <2>3 DEF AgentInv, Returns
<1>4. CASE Stop(i)
  <2>1. /\ pill' \in [Pills -> PillState] /\ \A j \in Pills \ {i} : pill'[j] = pill[j]
        /\ pill'[i].state = pill[i].state /\ pill'[i].ref = NoRecord /\ storage' = NoRecord
        /\ pill'[i].aborted /\ pill'[i].call = pill[i].call
    <3>1. NoRecord \in Record
      BY Empties
    <3>2. /\ pill' = [pill EXCEPT ![i].aborted = TRUE, ![i].stopped = TRUE, ![i].ref = NoRecord]
          /\ storage' = NoRecord
      BY <1>4 DEF Stop
    <3> QED BY <1>1, <3>1, <3>2 DEF PillState
  <2>2. TypeOK' /\ OneTerminal'
    BY <1>1, <1>4, <2>1, Empties DEF Stop, TypeOK, OneTerminal
  <2>3. PageInv => PageInv'
    BY <1>1, <1>4, <2>1, <2>2, Empties, CalmStep DEF Stop, Working
  <2> QED BY <1>4, <2>2, <2>3 DEF AgentInv, Stop
<1> QED BY <1>2, <1>3, <1>4

\* A tool call read from the stream: only a call that is not on record is launched.
LEMMA CallInv ==
  ASSUME AgentInv, NEW i \in Pills, NEW valid \in BOOLEAN, ReadCall(i, valid)
  PROVE  AgentInv'
<1> USE DEF server, history
<1> DEFINE c == run.events[pill[i].after + 1].call
           stored == pill[i].ref.calls[c]
           launch == stored.state = "none" /\ valid
           next == CASE launch -> LaunchRecord(i)
                     [] stored.state = "none" /\ ~valid -> [state |-> "terminal", req |-> i, status |-> "failed"]
                     [] stored.state = "executing" -> Interrupted(stored)
                     [] OTHER -> stored
           ref == [pill[i].ref EXCEPT !.calls[c] = next]
<1>1. /\ TypeOK /\ OneTerminal /\ pill \in [Pills -> PillState]
      /\ pill[i].ref \in Record /\ pill[i].after \in Nat /\ run.events \in Seq(EventState)
  BY DEF AgentInv, TypeOK, PillState, RunState
<1>2. /\ pill[i].state = "reading" /\ ~pill[i].aborted /\ pill[i].after < Len(run.events) /\ c # 0
      /\ pill' = [pill EXCEPT ![i].ref = ref, ![i].call = c, ![i].tries = 0,
                              ![i].state = IF launch THEN "command" ELSE "submitting"]
      /\ storage' = ref
      /\ launched' = IF launch THEN [launched EXCEPT ![c] = @ + 1] ELSE launched
      /\ UNCHANGED <<server, mounted, create, cancel, outcome, refused, used>>
  BY DEF ReadCall
<1>3. c \in Calls
  <2> HIDE DEF c, ref
  <2>1. pill[i].after < Len(run.events) /\ c # 0
    BY <1>2
  <2>2. pill[i].after + 1 \in 1..Len(run.events)
    BY <1>1, <2>1
  <2>3. run.events[pill[i].after + 1] \in EventState
    BY <1>1, <2>2
  <2>4. c \in 0..MaxCalls
    BY <2>3 DEF EventState, c
  <2> QED BY <2>1, <2>4, Limits DEF Calls
<1>4. stored \in CallState
  BY <1>1, <1>3 DEF Record
<1>5. /\ next \in CallState /\ next.state # "none"
      /\ next.status = "succeeded" => stored.status = "succeeded" /\ ~launch
  <2>1. i \in Nat
    BY Limits DEF Pills
  <2>2. CASE launch
    BY <2>1, <2>2 DEF LaunchRecord, CallState
  <2>3. CASE stored.state = "none" /\ ~launch
    BY <2>1, <2>3 DEF CallState, Statuses
  <2>4. CASE stored.state = "executing"
    BY <1>4, <2>4 DEF Interrupted, CallState, Statuses
  <2>5. CASE stored.state = "terminal"
    BY <1>4, <2>5
  <2> QED BY <1>4, <2>2, <2>3, <2>4, <2>5 DEF CallState
<1> HIDE DEF next
<1>6. /\ ref \in Record /\ ref.live = pill[i].ref.live /\ ref.calls[c] = next
      /\ \A d \in Calls \ {c} : ref.calls[d] = pill[i].ref.calls[d]
  BY <1>1, <1>3, <1>5 DEF Record
<1> HIDE DEF ref, launch, c
<1>7. /\ pill' \in [Pills -> PillState] /\ \A j \in Pills \ {i} : pill'[j] = pill[j]
      /\ pill'[i].ref = ref /\ pill'[i].call = c /\ pill'[i].aborted = pill[i].aborted
      /\ pill'[i].state = IF launch THEN "command" ELSE "submitting"
  <2>1. c \in 0..MaxCalls
    BY <1>3, Limits DEF Calls
  <2> DEFINE s == IF launch THEN "command" ELSE "submitting"
  <2>2. s \in Working
    BY DEF Working
  <2> HIDE DEF s
  <2>3. pill' = [pill EXCEPT ![i].ref = ref, ![i].call = c, ![i].tries = 0, ![i].state = s]
    BY <1>2 DEF s
  <2>4. /\ pill' \in [Pills -> PillState] /\ \A j \in Pills \ {i} : pill'[j] = pill[j]
        /\ pill'[i].ref = ref /\ pill'[i].call = c /\ pill'[i].aborted = pill[i].aborted
        /\ pill'[i].state = s
    <3> DEFINE y == [pill[i] EXCEPT !.ref = ref, !.call = c, !.tries = 0, !.state = s]
    <3>1. /\ y \in PillState /\ y.ref = ref /\ y.call = c /\ y.aborted = pill[i].aborted
          /\ y.state = s
      BY <1>1, <1>6, <2>1, <2>2 DEF PillState
    <3>2. pill'[i] = y /\ DOMAIN pill' = Pills /\ \A j \in Pills \ {i} : pill'[j] = pill[j]
      BY <1>1, <2>3
    <3>3. pill' = [j \in Pills |-> pill'[j]]
      BY <2>3, <1>1
    <3> HIDE DEF y
    <3> QED BY <1>1, <3>1, <3>2, <3>3
  <2> QED BY <2>4 DEF s
<1>8. TypeOK' /\ OneTerminal'
  <2>1. launched' \in [Calls -> Nat]
    BY <1>1, <1>2, <1>3 DEF TypeOK
  <2> QED BY <1>1, <1>2, <1>3, <1>6, <1>7, <2>1 DEF TypeOK, OneTerminal
<1>9. ASSUME PageInv PROVE PageInv'
  <2>1. /\ pill[i].ref = storage /\ Alone'
        /\ \A j \in Pills \ {i} : pill'[j].state = pill[j].state /\ pill[j].state \in {"none", "done"}
    BY <1>1, <1>2, <1>7, <1>8, <1>9, Working1
  <2>2. storage.live
    BY <1>2, <1>9 DEF PageInv, Recorded, Working
  <2>3. CASE ~launch
    <3>1. launched' = launched
      BY <1>2, <2>3
    <3>2. pill'[i].state = "submitting"
      BY <1>7, <2>3
    <3>3. /\ \A d \in Calls : storage.calls[d].state # "none" => storage'.calls[d].state # "none"
          /\ \A d \in Calls : storage'.calls[d].status = "succeeded" => storage.calls[d].status = "succeeded"
      BY <1>2, <1>5, <1>6, <2>1 DEF c
    <3>4. pill[i].state \in Working
      BY <1>2 DEF Working
    <3>5. storage' = pill'[i].ref /\ storage'.live
      BY <1>2, <1>6, <1>7, <2>1, <2>2
    <3> QED BY <1>1, <1>2, <1>7, <1>8, <1>9, <2>2, <3>1, <3>2, <3>3, <3>4, <3>5, CalmStep
  <2>4. CASE launch
    <3>1. stored = storage.calls[c] /\ storage.calls[c].state = "none"
      BY <2>1, <2>4 DEF launch, c
    <3>2. launched[c] = 0 /\ outcome[c] = "none"
      BY <1>3, <1>9, <2>2, <3>1 DEF PageInv, Recorded, Outcomes
    <3>3. launched'[c] = 1 /\ \A d \in Calls \ {c} : launched'[d] = launched[d]
      BY <1>1, <1>2, <1>3, <2>4, <3>2 DEF TypeOK
    <3>4. After'
      <4>1. After
        BY <1>2, <1>9 DEF PageInv, Before, Working
      <4> QED BY <1>2, <1>7, <2>1, <2>4, <4>1 DEF After
    <3>5. Recorded'
      <4>1. storage'.live
        BY <1>2, <1>6, <2>1, <2>2
      <4>2. \A d \in Calls : launched'[d] <= 1
        BY <1>9, <3>3 DEF PageInv, Recorded
      <4>3. \A d \in Calls : launched'[d] # 0 => storage'.calls[d].state # "none"
        BY <1>2, <1>5, <1>6, <1>9, <2>1, <2>2, <3>3 DEF PageInv, Recorded
      <4> QED BY <4>1, <4>2, <4>3 DEF Recorded
    <3>6. Outcomes'
      <4>1. \A d \in Calls : launched'[d] = 0 => outcome[d] = "none"
        BY <1>9, <3>3 DEF PageInv, Outcomes
      <4>2. \A d \in Calls : storage'.calls[d].status = "succeeded" => outcome[d] = "succeeded"
        BY <1>2, <1>5, <1>6, <1>9, <2>1, <2>4 DEF PageInv, Outcomes
      <4>3. \A j \in Pills : pill'[j].state = "command"
              => launched'[pill'[j].call] # 0 /\ outcome[pill'[j].call] = "none"
        BY <1>7, <2>1, <3>2, <3>3
      <4> QED BY <1>2, <1>9, <4>1, <4>2, <4>3 DEF PageInv, Outcomes
    <3> QED BY <2>1, <3>4, <3>5, <3>6 DEF PageInv
  <2> QED BY <2>3, <2>4
<1> QED BY <1>2, <1>8, <1>9 DEF AgentInv

\* A command ends; what it did is recorded.
LEMMA FinishInv ==
  ASSUME AgentInv, NEW i \in Pills, NEW status \in Statuses, CommandFinishes(i, status)
  PROVE  AgentInv'
<1> USE DEF server, history
<1> DEFINE c == pill[i].call
           done == [state |-> "terminal", req |-> i, status |-> status]
           ref == [pill[i].ref EXCEPT !.calls[c] = done]
           final == [ref EXCEPT !.last = pill[i].after + 1]
<1>1. /\ TypeOK /\ OneTerminal /\ pill \in [Pills -> PillState]
      /\ pill[i].ref \in Record /\ pill[i].after + 1 \in Nat
  BY DEF AgentInv, TypeOK, PillState
<1>2. /\ pill[i].state = "command" /\ outcome' = [outcome EXCEPT ![c] = status]
      /\ UNCHANGED <<server, mounted, create, cancel, launched, refused, used>>
      /\ \/ ~pill[i].ref.live /\ pill' = [pill EXCEPT ![i].state = "done"] /\ storage' = storage
         \/ pill' = [pill EXCEPT ![i].state = "done", ![i].ref = final] /\ storage' = final
         \/ ~pill[i].aborted /\ pill' = [pill EXCEPT ![i].state = "submitting", ![i].ref = ref] /\ storage' = ref
  BY DEF CommandFinishes
<1>3. c \in Calls
  BY <1>1, <1>2 DEF TypeOK
<1>4. done \in CallState /\ done.state # "none" /\ done.status = status
  BY Limits DEF CallState, Pills
<1> HIDE DEF done
<1>5. /\ ref \in Record /\ ref.live = pill[i].ref.live /\ ref.calls[c] = done
      /\ \A d \in Calls \ {c} : ref.calls[d] = pill[i].ref.calls[d]
  BY <1>1, <1>3, <1>4 DEF Record
<1> HIDE DEF ref
<1>6. final \in Record /\ final.live = ref.live /\ final.calls = ref.calls
  BY <1>1, <1>5 DEF Record
<1> HIDE DEF final
<1>7. /\ pill' \in [Pills -> PillState] /\ \A j \in Pills \ {i} : pill'[j] = pill[j]
      /\ pill'[i].call = c
      /\ \/ pill'[i].state = "done"
         \/ pill'[i].state = "submitting" /\ ~pill[i].aborted
      /\ \/ storage' = storage /\ pill'[i].ref = pill[i].ref
         \/ storage' = pill'[i].ref /\ storage' \in {ref, final}
  <2>1. CASE pill' = [pill EXCEPT ![i].state = "done"] /\ storage' = storage
    BY <1>1, <2>1 DEF PillState
  <2>2. CASE pill' = [pill EXCEPT ![i].state = "done", ![i].ref = final] /\ storage' = final
    BY <1>1, <1>6, <2>2 DEF PillState
  <2>3. CASE ~pill[i].aborted /\ pill' = [pill EXCEPT ![i].state = "submitting", ![i].ref = ref] /\ storage' = ref
    BY <1>1, <1>5, <2>3 DEF PillState, Working
  <2> QED BY <1>2, <2>1, <2>2, <2>3
<1>8. TypeOK' /\ OneTerminal'
  <2>1. storage' \in Record
    BY <1>1, <1>5, <1>6, <1>7 DEF TypeOK
  <2>2. outcome' \in [Calls -> Statuses \cup {"none"}]
    BY <1>1, <1>2, <1>3 DEF TypeOK
  <2> QED BY <1>1, <1>2, <1>3, <1>7, <2>1, <2>2 DEF TypeOK, OneTerminal
<1>9. ASSUME PageInv PROVE PageInv'
  <2>1. /\ pill[i].ref = storage /\ Alone'
        /\ \A j \in Pills \ {i} : pill'[j].state = pill[j].state /\ pill[j].state \in {"none", "done"}
    BY <1>1, <1>2, <1>7, <1>8, <1>9, Working1
  <2>2. outcome'[c] = status /\ outcome[c] = "none" /\ \A d \in Calls \ {c} : outcome'[d] = outcome[d]
    BY <1>1, <1>2, <1>3, <1>9 DEF TypeOK, PageInv, Outcomes
  <2>3. launched[c] # 0
    BY <1>2, <1>9 DEF PageInv, Outcomes
  <2>4. After'
    <3>1. After
      BY <1>2, <1>9 DEF PageInv, Before, Working
    <3> QED BY <1>2, <1>7, <2>1, <3>1 DEF After
  <2>5. Recorded'
    <3>1. /\ storage'.live = storage.live
          /\ \A d \in Calls : storage.calls[d].state # "none" => storage'.calls[d].state # "none"
      BY <1>3, <1>4, <1>5, <1>6, <1>7, <2>1
    <3>2. pill'[i].state \in Working => storage.live
      BY <1>2, <1>7, <1>9 DEF PageInv, Recorded, Working
    <3> QED BY <1>2, <1>9, <2>1, <3>1, <3>2 DEF PageInv, Recorded, Working
  <2>6. Outcomes'
    <3>1. \A d \in Calls : launched'[d] = 0 => outcome'[d] = "none"
      BY <1>2, <1>9, <2>2, <2>3 DEF PageInv, Outcomes
    <3>2. \A d \in Calls : storage'.calls[d].status = "succeeded" => outcome'[d] = "succeeded"
      BY <1>3, <1>4, <1>5, <1>6, <1>7, <1>9, <2>1, <2>2 DEF PageInv, Outcomes
    <3>3. \A d \in Calls : receipts'[d].status = "succeeded" => outcome'[d] = "succeeded"
      BY <1>2, <1>9, <2>2 DEF PageInv, Outcomes
    <3>4. \A j \in Pills : pill'[j].state # "command"
      BY <1>7, <2>1
    <3> QED BY <3>1, <3>2, <3>3, <3>4 DEF Outcomes
  <2> QED BY <2>1, <2>4, <2>5, <2>6 DEF PageInv
<1> QED BY <1>2, <1>8, <1>9 DEF AgentInv

\* The result is submitted; what the server takes is what the page has on record.
LEMMA ResultInv ==
  ASSUME AgentInv, NEW i \in Pills, NEW lost \in BOOLEAN, SubmitResult(i, lost)
  PROVE  AgentInv'
<1> USE DEF server, history
<1> DEFINE c == pill[i].call
           call == pill[i].ref.calls[c]
           ref == [pill[i].ref EXCEPT !.last = pill[i].after + 1]
           e == Event("accepted", 0)
<1>1. /\ TypeOK /\ OneTerminal /\ pill \in [Pills -> PillState] /\ run \in RunState
      /\ pill[i].ref \in Record /\ pill[i].after + 1 \in Nat /\ pill[i].tries + 1 \in Nat
  BY DEF AgentInv, TypeOK, PillState
<1>2. /\ pill[i].state = "submitting" /\ ~pill[i].aborted
      /\ \/ UNCHANGED <<run, receipts>>
         \/ /\ run.status = "waiting" /\ receipts' = [receipts EXCEPT ![c] = call]
            /\ \/ run' = [run EXCEPT !.answered = TRUE, !.events = run.events]
               \/ run' = [run EXCEPT !.answered = TRUE, !.events = Append(run.events, e)]
      /\ \/ /\ pill' = [pill EXCEPT ![i].tries = pill[i].tries + 1] /\ storage' = storage /\ cancel' = cancel
         \/ /\ pill' = [pill EXCEPT ![i].state = "done", ![i].ref = NoRecord]
            /\ storage' = NoRecord /\ cancel' = TRUE
         \/ /\ pill' = [pill EXCEPT ![i].state = "reading", ![i].ref = ref, ![i].after = ref.last]
            /\ storage' = ref /\ cancel' = cancel
      /\ used' = used \/ used' = [used EXCEPT !.lost = used.lost + 1]
      /\ UNCHANGED <<mounted, create, launched, outcome>>
  BY DEF SubmitResult, GivesUp, Answer, Journal
<1>3. refused' \in BOOLEAN
  BY <1>1 DEF SubmitResult, TypeOK
<1>4. c \in Calls /\ call \in CallState
  BY <1>1, <1>2 DEF TypeOK, Record
<1>5. /\ ref \in Record /\ ref.live = pill[i].ref.live /\ ref.calls = pill[i].ref.calls
      /\ ref.last \in Nat
  BY <1>1 DEF Record
<1>6. e \in EventState /\ e.kind = "accepted"
  BY Limits DEF Event, EventState
<1> HIDE DEF c, call, ref, e
<1>7. /\ run' \in RunState /\ OneTerminal' /\ receipts' \in [Calls -> CallState]
      /\ run.status # "none" => run'.status # "none"
      /\ \A d \in Calls : receipts'[d] = receipts[d] \/ (d = c /\ receipts'[d] = call)
  <2>1. CASE UNCHANGED <<run, receipts>>
    BY <1>1, <2>1 DEF TypeOK, OneTerminal
  <2>2. CASE /\ run.status = "waiting" /\ receipts' = [receipts EXCEPT ![c] = call]
             /\ \/ run' = [run EXCEPT !.answered = TRUE, !.events = run.events]
                \/ run' = [run EXCEPT !.answered = TRUE, !.events = Append(run.events, e)]
    <3>1. Append(run.events, e) \in Seq(EventState)
      BY <1>1, <1>6 DEF RunState
    <3>2. /\ run' \in RunState /\ run'.events \in {run.events, Append(run.events, e)}
          /\ run'.status = "waiting"
      BY <1>1, <2>2, <3>1 DEF RunState
    <3>3. OneTerminal'
      BY <1>1, <1>6, <2>2, <3>2, Appended DEF Ended
    <3> QED BY <1>1, <1>4, <2>2, <3>2, <3>3 DEF TypeOK
  <2> QED BY <1>2, <2>1, <2>2
<1>8. /\ pill' \in [Pills -> PillState] /\ \A j \in Pills \ {i} : pill'[j] = pill[j]
      /\ pill'[i].aborted = pill[i].aborted /\ pill'[i].call = c
      /\ \/ pill'[i].state = "submitting" /\ storage' = storage /\ pill'[i].ref = pill[i].ref
         \/ pill'[i].state = "done" /\ storage' = NoRecord /\ pill'[i].ref = NoRecord
         \/ pill'[i].state = "reading" /\ storage' = ref /\ pill'[i].ref = ref
  <2>1. CASE pill' = [pill EXCEPT ![i].tries = pill[i].tries + 1] /\ storage' = storage
    BY <1>1, <1>2, <2>1 DEF PillState, c
  <2>2. CASE pill' = [pill EXCEPT ![i].state = "done", ![i].ref = NoRecord] /\ storage' = NoRecord
    <3>1. NoRecord \in Record
      BY Empties
    <3> QED BY <1>1, <2>2, <3>1 DEF PillState, c
  <2>3. CASE /\ pill' = [pill EXCEPT ![i].state = "reading", ![i].ref = ref, ![i].after = ref.last]
             /\ storage' = ref
    <3> DEFINE y == [pill[i] EXCEPT !.state = "reading", !.ref = ref, !.after = ref.last]
    <3>1. /\ y \in PillState /\ y.state = "reading" /\ y.ref = ref
          /\ y.aborted = pill[i].aborted /\ y.call = pill[i].call
      BY <1>1, <1>5 DEF PillState, Working
    <3>2. pill'[i] = y /\ DOMAIN pill' = Pills /\ \A j \in Pills \ {i} : pill'[j] = pill[j]
      BY <1>1, <2>3
    <3>3. pill' = [j \in Pills |-> pill'[j]]
      BY <1>1, <2>3
    <3> HIDE DEF y
    <3> QED BY <1>1, <2>3, <3>1, <3>2, <3>3 DEF c
  <2> QED BY <1>2, <2>1, <2>2, <2>3
<1>9. /\ used' \in [lost: Nat, restarts: Nat, mounts: 1..MaxMounts, remounts: Nat]
      /\ used'.remounts = used.remounts
  BY <1>1, <1>2 DEF TypeOK
<1>10. TypeOK'
  <2>1. storage' \in Record
    BY <1>1, <1>5, <1>8, Empties DEF TypeOK
  <2>2. cancel' \in BOOLEAN
    BY <1>1, <1>2 DEF TypeOK
  <2> QED BY <1>1, <1>2, <1>3, <1>4, <1>7, <1>8, <1>9, <2>1, <2>2 DEF TypeOK
<1>11. ASSUME PageInv PROVE PageInv'
  <2>1. pill[i].ref = storage
    BY <1>1, <1>2, <1>8, <1>10, <1>11, Working1
  <2>2. storage.live
    BY <1>2, <1>11 DEF PageInv, Recorded, Working
  <2>3. /\ storage'.live => storage.live
        /\ \A d \in Calls : storage'.live /\ storage.calls[d].state # "none" => storage'.calls[d].state # "none"
        /\ \A d \in Calls : storage'.calls[d].status = "succeeded" => storage.calls[d].status = "succeeded"
    BY <1>5, <1>8, <2>1, Empties
  <2>4. \A d \in Calls : receipts'[d].status = "succeeded"
          => "succeeded" \in {receipts[d].status, storage.calls[d].status}
    BY <1>7, <2>1 DEF call
  <2>5. pill'[i].state \in Working /\ ~pill'[i].aborted => storage'.live
    BY <1>5, <1>8, <2>1, <2>2 DEF Working
  <2>6. /\ pill[i].state \in Working /\ pill[i].state \notin {"none", "done"}
        /\ pill'[i].state \notin {"command", "creating"}
    BY <1>2, <1>8 DEF Working
  <2>7. storage' = pill'[i].ref \/ (storage' = storage /\ pill'[i].ref = pill[i].ref)
    BY <1>8
  <2> QED BY <1>1, <1>2, <1>7, <1>8, <1>10, <1>11, <2>3, <2>4, <2>5, <2>6, <2>7, CalmStep
<1> QED BY <1>7, <1>9, <1>10, <1>11 DEF AgentInv

\* A pill is unmounted, the page is reloaded, a pill is mounted.
LEMMA MountInv ==
  ASSUME AgentInv, Unmount \/ Reload \/ Mount
  PROVE  AgentInv'
<1> USE DEF server, history
<1>1. /\ TypeOK /\ OneTerminal /\ pill \in [Pills -> PillState] /\ storage \in Record
      /\ used \in [lost: Nat, restarts: Nat, mounts: 1..MaxMounts, remounts: Nat]
      /\ mounted \in 0..MaxMounts
  BY DEF AgentInv, TypeOK
<1>2. CASE Unmount
  <2>1. mounted \in Pills
    BY <1>1, <1>2, Limits DEF Unmount, Pills
  <2>2. pill' \in [Pills -> PillState]
        /\ \A j \in Pills : pill'[j].state = pill[j].state /\ pill'[j].call = pill[j].call
    BY <1>1, <1>2, <2>1 DEF Unmount, PillState
  <2>3. /\ used' \in [lost: Nat, restarts: Nat, mounts: 1..MaxMounts, remounts: Nat]
        /\ used'.remounts # 0
    BY <1>1, <1>2 DEF Unmount
  <2>4. TypeOK' /\ OneTerminal'
    BY <1>1, <1>2, <2>2, <2>3, Limits DEF Unmount, TypeOK, OneTerminal
  <2> QED BY <2>3, <2>4 DEF AgentInv
<1>3. CASE Reload
  <2>1. \A s \in BOOLEAN : LET y == [NoPill EXCEPT !.state = "done", !.stopped = s]
                           IN  y \in PillState /\ y.state = "done"
    BY Empties DEF PillState
  <2>2. pill' \in [Pills -> PillState] /\ \A j \in Pills : pill'[j].state \in {"none", "done"}
    BY <1>1, <1>3, <2>1, Empties DEF Reload, PillState
  <2>3. TypeOK' /\ OneTerminal'
    <3>1. mounted' = 0 /\ create' = FALSE
      BY <1>3 DEF Reload
    <3>2. \A j \in Pills : pill'[j].state \notin {"command", "submitting"}
      BY <2>2
    <3>3. OneTerminal'
      BY <1>1, <1>3 DEF Reload, OneTerminal
    <3>4. UNCHANGED <<run, receipts, storage, cancel, refused, launched, outcome, used>>
      BY <1>3 DEF Reload
    <3>5. mounted' \in 0..MaxMounts
      BY <3>1, Limits
    <3>6. create' \in BOOLEAN
      BY <3>1
    <3> QED BY <1>1, <2>2, <3>2, <3>3, <3>4, <3>5, <3>6 DEF TypeOK
  <2>4. PageInv => PageInv'
    BY <1>3, <2>2 DEF Reload, PageInv, Alone, Before, After, Recorded, Outcomes, Working
  <2> QED BY <1>3, <2>3, <2>4 DEF AgentInv, Reload
<1>4. CASE Mount
  <2> DEFINE i == used.mounts + 1
             x == [NoPill EXCEPT !.ref = storage, !.after = storage.last,
                                 !.state = IF storage.live THEN "reading" ELSE "idle"]
  <2>1. i \in Pills /\ i \in 1..MaxMounts /\ i # 0
    BY <1>1, <1>4, Limits DEF Mount, Pills
  <2>2. /\ x \in PillState /\ x.ref = storage
        /\ x.state = IF storage.live THEN "reading" ELSE "idle"
    <3>1. storage.last \in Nat /\ storage \in Record
      BY <1>1 DEF Record
    <3> QED BY <3>1, Empties DEF PillState, Working
  <2>3. pill' = [pill EXCEPT ![i] = x] /\ mounted' = i /\ used' = [used EXCEPT !.mounts = i] /\ mounted = 0
    BY <1>4 DEF Mount
  <2> HIDE DEF i, x
  <2>4. /\ pill' \in [Pills -> PillState] /\ pill'[i] = x /\ \A j \in Pills \ {i} : pill'[j] = pill[j]
        /\ used' \in [lost: Nat, restarts: Nat, mounts: 1..MaxMounts, remounts: Nat]
        /\ used'.remounts = used.remounts
    BY <1>1, <2>1, <2>2, <2>3
  <2>5. TypeOK' /\ OneTerminal'
    <3>1. mounted' \in 0..MaxMounts
      BY <2>1, <2>3, Limits
    <3> QED BY <1>1, <1>4, <2>2, <2>4, <3>1 DEF Mount, TypeOK, OneTerminal
  <2>6. ASSUME PageInv PROVE PageInv'
    <3>1. \A j \in Pills : pill[j].state \in {"none", "done"}
      BY <2>3, <2>6, Limits DEF PageInv, Alone, Pills
    <3>2. Alone'
      BY <1>4, <2>2, <2>3, <2>4, <3>1 DEF Mount, Alone
    <3>3. Before \/ After => Before' \/ After'
      BY <1>4, <2>2, <2>4, <3>1 DEF Mount, Before, After, Working
    <3>4. Recorded' /\ Outcomes'
      BY <1>4, <2>2, <2>4, <2>6, <3>1 DEF Mount, PageInv, Recorded, Outcomes, Working
    <3> QED BY <2>6, <3>2, <3>3, <3>4 DEF PageInv
  <2> QED BY <2>4, <2>5, <2>6 DEF AgentInv
<1> QED BY <1>2, <1>3, <1>4

\* For any numbers of calls, pills, losses, restarts and remounts: a run has one end,
\* and as long as no pill was mounted anew in its page no command is launched twice
\* and no receipt claims a success that was none.
THEOREM AgentRunStaysExact == Spec => []AgentRunExact
<1>1. Init => AgentInv
  <2> SUFFICES ASSUME Init PROVE AgentInv
    OBVIOUS
  <2>1. run \in RunState /\ OneTerminal
    BY Limits DEF Init, RunState, OneTerminal
  <2>2. [NoPill EXCEPT !.state = "idle"] \in PillState /\ [NoPill EXCEPT !.state = "idle"].state = "idle"
        /\ [NoPill EXCEPT !.state = "idle"].ref = NoRecord
    BY Empties DEF NoPill, PillState
  <2>3. /\ pill \in [Pills -> PillState] /\ 1 \in Pills /\ pill[1].state = "idle" /\ pill[1].ref = NoRecord
        /\ \A j \in Pills \ {1} : pill[j].state = "none"
    BY <2>2, Empties, Limits DEF Init, Pills
  <2>4. TypeOK
    <3>1. receipts \in [Calls -> CallState] /\ storage \in Record
      BY Empties DEF Init
    <3>2. mounted \in 0..MaxMounts
          /\ used \in [lost: Nat, restarts: Nat, mounts: 1..MaxMounts, remounts: Nat]
      BY Limits DEF Init
    <3>3. \A j \in Pills : pill[j].state \notin {"command", "submitting"}
      BY <2>3
    <3> QED BY <2>1, <2>3, <3>1, <3>2, <3>3 DEF Init, TypeOK
  <2>5. PageInv
    <3>1. Alone
      BY <2>3 DEF Init, Alone
    <3>2. \A j \in Pills : pill[j].state \notin Working
      BY <2>3 DEF Working
    <3>3. Before
      BY <3>2, Empties DEF Init, Before
    <3>4. Recorded
      BY <3>2, Empties DEF Init, Recorded
    <3>5. Outcomes
      BY <2>3, Empties DEF Init, Outcomes
    <3> QED BY <3>1, <3>3, <3>4, <3>5 DEF PageInv
  <2> QED BY <2>1, <2>4, <2>5 DEF AgentInv
<1>2. AgentInv /\ [Next]_vars => AgentInv'
  <2> SUFFICES ASSUME AgentInv, [Next]_vars PROVE AgentInv'
    OBVIOUS
  <2>1. CASE UNCHANGED vars
    BY <2>1 DEF vars, AgentInv, TypeOK, OneTerminal, PageInv, Alone, Before, After, Recorded, Outcomes
  <2> QED BY <2>1, ServerInv, CreateInv, StreamInv, CallInv, FinishInv, ResultInv, MountInv DEF Next
<1>3. AgentInv => AgentRunExact
  BY DEF AgentInv, TypeOK, PageInv, Recorded, Outcomes, AgentRunExact, LaunchedOnce, ReceiptTruthful
<1> QED BY <1>1, <1>2, <1>3, PTL DEF Spec
=============================================================================
