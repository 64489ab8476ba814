# Marks: a TLA+ verification project

Marks is a collaborative markdown editor. A Rust server (`crates/marks-server`)
keeps documents in SQLite and runs one *room* per open document; browsers hold a
full replica of the document (the ESBT CRDT engine, compiled to Wasm), a durable
journal in IndexedDB and a WebSocket to the room. Everything else (identity,
sharing, comments, assets, agent runs, backups) is HTTP around these two.

This directory holds TLA+ models of that system, TLC runs that check them on
small instances, and TLAPS proofs of the results that matter most. `PROJECT.json`
lists components, runs, mutants, the map from definitions to source lines,
findings, hazards and theorems.

## 1. Inventory

### Server: collaboration

| Part | State | Operations | Hard behaviour | What makes it correct |
| --- | --- | --- | --- | --- |
| Room task, `room/task.rs` | live replica, revision, epoch, socket table, dead code, two bounded queues | hydrate, join, control, collect a batch, prepare a frame, commit, acknowledge and broadcast, compact, read, idle exit, shutdown | authority changes between preparing and committing; a failed transaction after the replica was changed; crash between commit and receipt; retries in the same batch, later, or after receipts were pruned | nothing is published before it is stored; a usable replica equals the stored state; receipts are stable; only current editors store; every sender hears |
| Room manager, `room/mod.rs` | owner map: sender, control sender, join handle, connection count | `entry_tx`, `join`, `leave`, `read`, `control`, `shutdown` | database read without the map lock; full control lanes; abort of a task that is inside a batch; a refusing task that never leaves the map | one writer per document; stale authority is evicted; capacity is not leaked |
| Socket loop, `room/ws.rs` | one-use ticket, writer task | `admit`, hand off frames, leave | revocation between admission and join; a full queue; a wedged writer | revoked sessions end up with no socket |
| Presence, `client_presence` in `room/task.rs` | active and retired instances per socket | relay a delta, lease, retire | superseded instances, old sequences, forged identities | a socket shows only its own presence, in order |
| Rows and hydration, `store.rs`, `db.rs` | documents, journal, receipts, authorship, ACL, tickets, sites | transactions, `hydrate_document`, `allocate_site` | recomputing the revision; site ids that must not be reused | snapshot plus journal is the acknowledged state |

### Server: authority and the rest

| Part | State | Operations | Hard behaviour | What makes it correct |
| --- | --- | --- | --- | --- |
| Document routes, `routes/documents.rs` | document row, ACL, link grants, create-request ids | create (replayable), duplicate, delete, restore, purge, share, link, room session | control sent after the transaction, so controls arrive in any order; replay of a create request | every authority change invalidates older tickets and reaches the room |
| Identity, `routes/auth.rs`, `identity.rs`, `guard.rs`, crate `marks-auth` | scratch workspaces, devices, sessions, pairings, challenges | bootstrap, pair, approve, finalize, claim, revoke, device-bound refresh | a claim racing anonymous editors; one-use challenges; two devices completing one pairing | a challenge is used once; a claim moves documents exactly once |
| Agent runs, `agent/` | run status, event log, pending tool, receipts in SQLite | start, call tool, submit result, cancel, finalize, sweep, recover | cancel racing completion; late tool results; a full event log; restart | one terminal event; event numbers without gaps; idempotent results |
| Asset store, `assets.rs`, `routes/assets.rs` | content-addressed files, rows, guards | put, remove, reclaim, bundle, sweep | file operations that outlive their timeout | a referenced blob exists |
| Backup, `backup.rs` | partial and published snapshots | prepare, publish, verify, restore, prune | preparation outliving its deadline | a published backup is complete |
| Review, imports, practical lookups | comments, versions; none | CRUD; subprocess and network | bounded work | role checks |
| Process, `lib.rs`, `app.rs` | owners of background tasks | serve, shutdown | rooms stop after the HTTP server, all before one deadline | nothing depends on an orderly end |

### Browser

| Part | State | Operations | Hard behaviour | What makes it correct |
| --- | --- | --- | --- | --- |
| Replica and journal, `collab/esbt-engine.ts`, `journal.ts` | document, pending mutations, acknowledged version, undo stacks | edit, append, send, COMMITTED, checkpoint, prune, undo | awaits between memory, IndexedDB and socket; two tabs, one journal | a saved edit is recoverable, and durable means committed |
| Transport, the same file, `auth/room-access.ts` | admission, socket, timers, grace, final states | connect, deadlines, reconnect, re-admit, stop | events of abandoned sockets; a page that is hidden | a live session has a next step, a final one is quiet |
| Persist lock, tab sync, `browser/` | lanes, Web Lock, poison | run under lock, broadcast | a timed-out holder that is still running | one writer at a time, or none |
| Editor bridge, `syncExtension` | view, replica, pending reconciliation | replay a transaction, patch the view, refuse | refusals and imports inside one task | the view shows the replica |
| Release, `sw.js`, `wasm/esbt-document.ts` | caches, worker generations, manifest | install, activate, navigate, bootstrap | a deployment between two fetches | a page runs modules of one component, a worker serves its own release |
| Presence, `collab/presence*.ts` | entries, leases, activity | announce, heartbeat, expire, retire | half-open sockets, superseded instances | views settle on who is there |
| Identity, `auth/` | caller, scratch credential, device key, pairing | probe, pair, finalize, redeem, log out | tabs that share a cookie and a key; lost answers | one owner per workspace and device |
| Index and opening, `hooks/useDocuments.ts`, `useDocumentMeta.ts`, `useSession.ts` | list, cached list, metadata, session | create, trash, poll, open, navigate | late answers, resent creates | one page per create action; one live session |
| Local workspace, `demo/workspace.ts`, `data/review.ts` | localStorage, IndexedDB | delete, restore, purge, migrate | two tabs, quotas | a document is recoverable while its retention lasts, whatever is refused of another |
| Review, sharing, shell, `components/overlays`, `identity`, `App.tsx` | threads, versions, grants, dialogs, route, view mode | page, refresh, save, grant, redeem, navigate, focus | answers for a page that has moved on | what is shown belongs to the document shown |
| Preview, `markdown/`, `workers/` | blocks, worker, supervisor, diagrams, embeds | render, patch, paint, restart, draw, fill | a worker that hangs; drawings that cannot be interrupted | an idle preview shows the renderings of its source |
| Commands and ribbon, `commands/`, `components/chrome` | runs, approvals, projection, placement, key tips | start, approve, cancel, project, fit | role and mode change between awaits | nothing runs that was not admitted and approved |
| Agent, `agent/`, `AgentPill.tsx` | stored run, cursor, calls | start, stream, resume, stop | reloads between launch and receipt | a call is launched once |
| Inspector and possibility layer, `intelligence/`, `wild/` | analysis, patches, receipts, signals | analyse, restructure, shelve, reverse, scan | places found in an older text | stale places fail closed; a patch restores |
| Surfaces and input, `surface/`, `browser/`, `lib/scroll-sync.ts`, `lib/phone-ghost.ts` | tier, frame clock, microphone, presses, clipboard, panes | tick, soften, dictate, press, cut, paste, scroll, drag | timers, frames and pointers in any order | one clock, one gesture, an edit where it was asked for |

### Delivery

`scripts/ci-impact.mjs` selects the checks of a change from its paths; correct
means that no check a path needs is lost in the merge. `ci.yml`,
`production.yml` and the host's `marks-release-root` take a push to production;
they are workflow files and shell, and are not modelled.

Interactions: the socket loop calls the manager, the manager and the task
exchange bounded messages, HTTP handlers commit a transaction and then send a
*control* through the manager, the task reads and writes SQLite synchronously.
The browser prunes its own history up to versions the server announced, which is
why the server may never take back anything it has said.

## 2. What is modelled

| Module | Contents |
| --- | --- |
| `Room` | one document: its rows, the incarnations of its room task, the map entry, connections, the handlers that change its authority; properties; the inductive invariant |
| `DurableDocument` | the abstract promise: stored operations grow, published operations are stored |
| `RoomProofs` | type correctness of `Room`; no frame of an open connection is forgotten; only unrevoked editors of a live document store |
| `RoomDurable` | for rooms that do not overlap: the inductive invariant `DurableInv` and its two consequences, the refinement of `DurableDocument`, exact attribution, stable receipts |
| `BrowserProofs` | writes never overlap and never meet a freed replica; what is pruned can be sent; a local workspace keeps its documents and counts its versions; commands run in order; the review drawer reaches the oldest thread; an idle preview shows the renderings of its source; no diagram is forgotten, one is drawn at a time and the cache is of the theme |
| `ConnectionProofs` | the transport's soundness; sessions of the right document; no live session of a revoked device; one document per create; remembered links are redeemed and the owner's dialog is current; a retired presence stays gone |
| `ServerProofs` | referenced bytes stay recoverable and a backup finds them; receipt ranges are exact; caches and pages stay with one release; a change gets its checks |
| `RoomManager` | (in the component's module) one owner per document, within the capacity |
| `AgentRun` | (in the component's module) one end per run, no second launch, no false receipt |
| `Replica` | (in the component's module) saved edits stay recoverable; what is said to be durable is committed |
| `RoomManager` | `room/mod.rs` for several documents: the owner map, lookups around an unlocked read, spawning, departures, controls, tasks that end, wedge or refuse, shutdown |
| `ReceiptRanges` | `new_receipt_ranges`: one step per turn of its loops, against set difference |
| `AssetStore` | one content hash: rows, files, safety links, workers that outlive requests, purge, upload, export, backup, crash and sweep |
| `AgentRun` | a hosted run on the server and the pages that start, stream, resume and stop it |
| `Identity` | tabs, cookie, device key, probe, pairing, and the server's scratch, device, session and pairing rows |
| `Presence` | activity controller and store of each page, leases in the room |
| `Replica` | the tabs of one browser with a document open: journal, broadcast channel, sockets |
| `History` | what a replica may forget: compaction and pruning beside saves, receipts and crashes |
| `Connection` | the transport of one session: admissions, sockets, deadlines, grace, final states |
| `PersistLock` | journal writes under the queue, the Web Lock and their budgets |
| `EditorSync` | editor transactions replayed on the replica and back |
| `Release` | deployments, service worker, caches, the engine's bootstrap |
| `Catalog` | creating under a retry identity, the polled and cached list |
| `Opening` | from a route to a session |
| `LocalStore` | the workspace of a build without a service |
| `ReviewPanel` | threads by pages, saved versions |
| `Sharing` | the owner's dialog, the routes, the guest's page |
| `Shell` | page, surfaces, focus mode, dialogs, late answers |
| `Preview` | renderer, worker and supervisor with their messages |
| `Diagrams` | diagrams near the viewport, drawn one batch after the other |
| `Commands` | the guarded command runtime and the agent's plan |
| `Ribbon` | what the ribbons offer and what the runtime admits |
| `Intelligence` | the inspector's analysis and the rewrites at the places it found |
| `Shelf` | reversal patches and the causal ledger |
| `HalfLife` | aging claims and intents shared by tabs |
| `Surface` | tier, quality, frame clock, engines of the canvases |
| `Voice` | dictation |
| `SurfaceInput` | Select All, context menu, long press |
| `Clipboard` | cut, paste and uploads that wait |
| `ScrollSync` | two panes that scroll together |
| `PhoneGhost` | the phone's two-finger gesture, the swipe and the shells |
| `Impact` | which checks a change needs |

Seven `MC...` modules make these into instances that TLC can check. `MCRoom` is
`Room` with values. Each of the other six gathers components that belong
together. It extends those whose properties it checks by name - all components
with proofs are among them, so that a theorem and a run speak of one definition -
and instantiates the others, and second settings, with the values of a small
instance.

| Module | Extends | Instantiates |
| --- | --- | --- |
| `MCServer` | `AssetStore`, `RoomManager`, `ReceiptRanges`, `Release`, `Impact` | |
| `MCBrowser` | `PersistLock`, `Replica`, `History` | `EditorSync` (two settings), two more settings of `Replica` |
| `MCSession` | `Connection`, `Opening`, `Identity`, `Catalog`, `Sharing`, `Presence` | |
| `MCWork` | `AgentRun`, `LocalStore`, `Commands`, `ReviewPanel` | `Clipboard`, a second setting of each extended module |
| `MCPage` | `Shelf`, `Preview`, `Diagrams` | `Intelligence` and `HalfLife` (two settings each) |
| `MCInterface` | `Ribbon` | `Shell`, `Surface`, `SurfaceInput`, `Voice`, `PhoneGhost` (two settings), `ScrollSync` |

The components of one such module share no variable, so their steps commute and
a product of their state spaces would only multiply the same behaviours. A
behaviour therefore picks one component (`part`, from the constant `Parts`),
takes its steps and leaves the others at rest; a run explores the sum of the
state spaces. Where two settings of one component ask two questions, each is a part of its own
(`rooms` and `crowded` differ in the documents that live at the start and in what may befall
them; `Restart` is a replica without a service). `MC...Settings` asserts the
assumptions of the instances, and the extended modules bring theirs, so TLC
evaluates all of them.

The sections on state and actions below are about `Room`, the largest module.

### Room: state

`doc`, `journal`, `commits`, `authors` are the rows of `documents`,
`document_updates`, `document_commits` and the two authorship tables. `acl` is
the role each actor resolves to: owner and editor are one role here, commenter
and viewer another, because the room only asks whether text may be edited.
`revoked` collects everything `require_live_actor` rejects (session, device or
scratch workspace revoked or expired). `room[t]` is a task with its queues and
the locals of `frames` (`batch`, `prepared`, `acks`, `nextRevision`,
`nextSince`, `durable`). `resident` is the map entry, `at` the room each socket
loop belongs to, `open` the connections in a socket table, `ticket` an admission
not yet used, `outgoing` the controls whose transaction is committed and which
their handler has not dispatched yet. `awaiting`, `receipts`, `told` observe
what clients sent and were told; no action reads them.

The engine is external: a replica is the set of operations it received, applying
is union, and `export_compact_snapshot` succeeds exactly on a set without causal
gaps.

### Room: actions

A `db.tx` or `db.read` is one step. `run` is synchronous between its awaits, but
other threads commit transactions between two database calls of one batch, so a
batch is split into collecting (`BeginBatch`, `CollectFrame`, `EndCollect`,
`StartFrames`), one step per frame (`IgnoreFrame`, `RefuseFrame`, `LimitFrame`,
`AckRetry`, `LookupFails`, `StageReceipt`, `StageUpdate`, `StageSnapshot`,
`SnapshotFails`), the transaction (`CommitBatch`, `CommitFails`) and `Publish`.
A batch that is full goes to its frames without another look at the control
lane, as the `while` loop of `run` does. `Leave` and `Exit` include the
compaction that ends them. `Evict` only marks a task as aborted: `AbortEnds`
ends it when it is at an await.

Generalisations, all in the direction of more behaviours: a `Leave` may overtake
controls that share its lane; a `Join` may overtake queued frames; any database
call may fail; `JoinRefused` may spend a ticket at any time (capacity,
timeouts); a slow socket misses everything of a publication or nothing. The
server shuts rooms down after its HTTP server stopped; in the model `Shutdown`
may come at any time and a new room may follow it.

`Overlap` is the one assumption that separates what the room protocol
guarantees from what the manager does: with `Overlap = FALSE` a task is spawned
only when no predecessor can still write. `entry_tx` does not wait for that; the
`overlap` run shows what follows.

### The other modules

The same rules hold in all of them.

* A step is what the code does without giving up control: a synchronous handler
  with everything it calls, the part of an `async` function between two awaits,
  one transaction, one system call of a worker. What happens between two steps is
  what can happen: other handlers, other tabs, timers, answers in any order.
* A request is a record with its place (`at`, `st`, `phase`); its answer is an
  action of its own, and the code's guard against a late answer (a generation, an
  aborted signal, a comparison of ids) is a conjunct of that action.
* A timer or a deadline is present or absent and the environment lets any present
  one go off. No property depends on how long something takes, with one exception:
  `AssetStore` assumes that the retention of 30 days outlasts an export.
* A text is what the properties tell apart: a set of operations (`Room`,
  `Replica`), a sequence of characters, words or lines (`EditorSync`, `Shelf`,
  `Clipboard`, `Intelligence`), versions of blocks (`Preview`).
* Browsers and the engine are external and modelled by their use:
  Web Locks, IndexedDB transactions, service-worker phases, pointer and frame
  events.
* Faults are bounded by a constant (`MaxFaults`, `MaxLost`, `MaxDrops`,
  `MaxRestarts`...) and may strike wherever the code has an error path.

`RoomManager` and `AssetStore` deserve a word. In the first a task is `hydrate`,
`open`, `dead`, `refusing`, `closing`, `returned` or `ended`; `why` says what took
its entry out of the map, and `NoOrphan` is that nothing else ever does. In the
second a removal goes through `Safety`, `Cancelled`, `Unlink`, `Commit` and, when
its deadline won, `Restore`: one step per system call, since an upload of the same
content may come between any two of them once the request has given up its guards.

## 3. Runs

Ten runs pass and two find the violation they are expected to find. Deadlock is
not checked: in every module a finite stock of requests, edits or incarnations
runs out, or a system with nothing to do waits. What must go on happening is
stated as liveness instead.

| Run | Instance | Shows |
| --- | --- | --- |
| `shared` | 2 editors, 1 task, batches of 2, an edit ahead of its predecessors, a reused id, a recovery snapshot, receipt window 1 | `TypeOK`; `AttributionExact`; `NoFrameForgotten`; `ReceiptsStable` across pruning; `KeepsPromise`, the refinement of `DurableDocument` |
| `reopened` | 2 incarnations, an edit sent under two ids, deletion or a role change, revocation | `PublishedIsDurable`; `ReplicaIsDurable`; `StoredByEditors` |
| `progress` | 1 task, one edit sent repeatedly, deletion, restoration, role changes, fairness | `AnsweredOrClosed`; `AbortedEnds` |
| `overlap` | 2 editors, 2 incarnations that may both write | expects `PublishedIsDurable` violated, see below |
| `server_safety` | 2 requests on one content hash with a fault; 2 sockets and 2 tasks for one document and for two with room for one; two sites' versions up to 4 stored sequences; 4 releases whose digests repeat, one page; changes of 2 paths | `ReferencedRecoverable`, `BackupFindsBytes`; `OwnersExact`; `RangesExact`; `ReleaseCoherent`; `ChecksMerged` |
| `server_settles` | the asset store and a room that no longer answers, fairness | `RestoredEventually`; `WedgedRoomLeaves` |
| `browser` | 2 pages with 5 journal writes, one page whose transactions may abort; writer and reader tab with a crash and a storage failure; a local tab with 3 edits and 2 restarts; 2 writer tabs, a lost socket, fairness; 2 edits, a save, a cut and a crash around a compaction that may prune everything; an editor over texts of up to 3 characters, mounted and unmounted, with edits of one range beyond a mutation's limit and of two within it | `WritesSafe`; `SavedEditsRecoverable`, `DurableMeansCommitted`; `EditsArrive`; `PrunedIsSendable`; `EditorShowsReplica` |
| `split` | the same editor, with edits of two ranges that may exceed a mutation's limit | expects `EditorShowsReplica` violated, see below |
| `session` | sockets and admissions of one session; one browser and a phone; navigation with late lookups; repeated creates; an owner's dialog and a guest with two links; three tabs on two sites | `TransportSound`; `RevokedLocked`; `SessionsSound`; `OnePagePerAction`; `SharingInStep`; `RetiredStaysGone` |
| `work` | 2 tool calls with reloads, a remount and a restart; 2 tabs of a local workspace, one tab with two documents and a full quota; threads and versions; 2 command runs and a plan; an upload into a text others edit | `AgentRunExact`; `LocalKept`; `ReviewExact`; `CommandsInOrder`; `UploadsExact` |
| `page` | a preview with a worker that hangs, fails and restarts; diagrams in batches; analyses and outlines; reversal patches; claims scanned again | `ShownIsSource`; `DiagramsExact`; `ChangesAsAsked` |
| `interface` | mode, pane, caret, role; surfaces and dialogs; two canvases; two fingers; the recogniser; the ghost page; two panes in four layouts, two of which look alike to the index | `RibbonHonest`; `GesturesSettle` |

Each property is defined, with a comment that states it, in the component that the
run's module extends; a property of instantiated components is a conjunction of
theirs, written in the run's module. On the parts that leave a component at rest
its property is about the initial state only.

Two statements were corrected when they were to be proved. That the newer
instance of a site always stands held for the presence only by the bounds of the
instance: with one more socket or event a retirement of the newer instance can arrive first.
`RetiredStaysGone` says what the code keeps. And the counter of versions
(`LocalKept`) leaves out documents an older client wrote, whose versions no
counter followed.

Bounds. In `Room`: `MaxEpoch` (authority changes), `Task` (incarnations),
`Mutation` (what clients may send, any number of times), `QueueMax`,
`ControlMax`, `BatchMax`, `CompactEvery`, `ReceiptWindow`. Two incarnations are
enough for a predecessor and a successor, and the proofs remove the bound for
the durability results. A queue of one is full as soon as it is used, so both
sides of every capacity check occur; batches of two let one frame refuse, poison
or repeat the other; `CompactEvery = 2` gives batches with and without
compaction; a window of one revision puts retries on both sides of its edge.
`SYMMETRY` permutes task incarnations, which nothing distinguishes, and only in
runs whose temporal formulas are safety (`StoredByEditors` is an action
property).

Elsewhere two tabs, sockets, requests or canvases are enough for one to overtake
the other, three where a third has to observe; one lost message or fault where
the question is what one costs, two where the second has to hit the recovery;
every limit of the code (queue, cache, shelf, ledger, batch, capacity) is set to
one or two so that it is reached. Texts have two to five units: enough for an
edit above, inside and below a place. A preview has three blocks, two of which
are painted at once, so that idle painting and what overtakes it occur. Pure algorithms (`ReceiptRanges`, the
structure operations of `Intelligence`, `Impact`) are checked for every input up
to their bound.

Every property has a mutant: a definition changed the way a plausible bug would
change it (an unbounded queue, a dropped epoch check, receipts that report the
current revision, poison that does not close sockets, a write that does not wait
for its turn, and so on), under which TLC finds the property violated.

### Fairness

`FairSpec` of `Room` assumes weak fairness of `TaskStep(t)` for each task: tokio
polls a task that has a message, a control, an expired batch deadline or a
pending abort, and a task's own code between awaits runs to its end. Nothing is
assumed of clients, handlers, the dispatch of controls, joins, departures or
idle timers. `AnsweredOrClosed` therefore does not rely on a client reconnecting
or on a `Leave` ever arriving.

`AllFairness` of `MCServer` and `MCBrowser` assumes weak fairness of what a
runtime does by itself: a worker of the blocking pool goes on, a start sweeps
its directory, a room's task and a socket's future are polled, a `leave` that
waits for an answer times out; a tab's events and transactions are run, and the
network comes back. Neither assumes that a user acts, that a fault does not
happen (faults are bounded instead), or that a race has a winner.

### Two disagreements with the documentation

`overlap` (`PublishedIsDurable`, `crates/marks-server/src/room/mod.rs:378`):
`leave` and `control` remove the map entry and abort the task's handle, but a
task inside its synchronous batch finishes it, and meanwhile `entry_tx` spawns a
second one. `room/mod.rs:155` says "There is exactly one live replica per open
document in this process". The run finds an incarnation, hydrated
before the other's last commit, that compacts later: the snapshot it exports from its
own replica replaces the one the other wrote, so an edit the other published and
acknowledged is in no row. (With `CompactEvery = 1` every commit writes a snapshot, so
the journal plays no part in the trace.)

`split` (`EditorShowsReplica`, `client/src/collab/esbt-engine.ts:497`): an editor
transaction goes to the replica as one mutation, with each range shifted by what the
ranges before it have added or removed (`adjust`). If that is too large for one
mutation, `applyChangesInHalves` applies the ranges one by one at their *old*
coordinates, so from the second on they land in the wrong place: replacing all matches of
a word in a long document can do it. Unless a range falls beyond the end, nothing throws and
nothing reconciles. `docs/ESBT-INTEGRATION.md:112` says "Editor-originated edits are
already painted and are not echoed", which holds of a replica that took the same
edit. The run has the text "aa", inserts "a" in front and replaces the last "a" by "b": the
editor shows "aab" and the replica holds "aba". The `browser` run checks
the property for transactions of one range above the limit and of two below it.

Some properties are stated with the condition under which the code keeps them;
each condition marks a place where the code does less without it:

* `WritesSafe` lets an exporter meet a freed replica in a page whose transactions
  abort (`Failing`): `destroy` skips its final checkpoint once `storageFatal` is
  set, although an earlier write may still be queued (`esbt-engine.ts:1835`).
* `TransportSound` asks progress only of a page that was never hidden:
  `handlePageHide` closes the socket and nothing opens the next one if the page is
  shown again (`esbt-engine.ts:1231`).
* `AgentRunExact` asks of a pill that is mounted twice in one page only that the
  run has one end: the unmounted pill writes its old record when its command ends
  (`AgentPill.tsx:114`).
* `SavedEditsRecoverable` of a local document is about one tab: a sibling that
  has not imported the last broadcast overwrites the only copy (`journal.ts:146`).
* `SavedEditsRecoverable` of a document of the service is proved for identities that
  are not repeated. A tab that reopens a stored journal takes up the stored site
  (`esbt-engine.ts:845`) and numbers its edits after what the journal holds; an edit
  that reached the room from memory and was never appended before every tab was
  killed is not there, so unless the snapshot fetch of the start brings it first
  the next edit can carry the same identity, and the engine applies only one of the
  two. TLC finds such a pair with one tab that is killed and reopened.
* `ReleaseCoherent` leaves out, for what the worker of the current release serves, a
  release that brings back the digest of an earlier one with another between: the worker
  of that digest is still active or was installed before, a deployment may have cut
  across its installation, and nothing replaces what it stored (`sw.js:77`).
* `SharingInStep` asks of the dialog nothing that it is not told (`drift`): it reads
  the list once and never asks again, so it does not see who joined by the link, an operation of
  the dialog before it that arrives after its list was read, or its own request whose
  answer was lost; and a grant made before the list has come is overwritten by it
  (`ShareDialog.tsx:45-54`, `:68`).
* `EditorShowsReplica` waits for the plugin's 16 ms interval when the replica changed in
  the task of the mount: the microtask the plugin queues (`esbt-engine.ts:408-410`)
  captures the text with the change in it, and the patch queued for the change is then
  applied on top. The editor is wrong until the interval attaches the plugin
  again (`:425-430`), and what is typed meanwhile goes to other places in the replica.
* `ShownIsSource` asks only for the blocks, not for what is in them, after the
  worker was misled until it is next reset (`spoiled`): a rendering that fails keeps what the worker takes the page to
  hold (`markdown.worker.ts:275-304`) while the page shows only the error, so the next
  answer leaves out the HTML of blocks the page no longer has, and `preview.ts:310`
  makes them empty; it also leaves the definitions of the last success, against which later
  edits are rendered; and an answer that overtakes the idle painting of the one
  before it replaces the blocks that were still to come.
* `DiagramsExact` leaves out, for the theme of the cache, a change of theme while a batch
  is drawn: `setMermaidTheme` empties the cache (`mermaid.ts:54-59`), and the batch then
  stores drawings of the module it started with. A fence without a source is no diagram:
  the batch skips it (`mermaid.ts:122`) and it stays pending and unwatched.
* `ChangesAsAsked` asks of a move down that the next sibling follows at once. Where
  levels jump another section may lie between (H1 a, H3 b, H2 c, H3 d: b's next
  sibling is d), and `moveHeadingSection` writes the two without what is between them
  (`operations.ts:79-81`): moving b down deletes c. An analysed source with an
  unclosed code fence is left out too.
* `GesturesSettle` leaves out two things nobody tells the code. The index of the
  panes is kept while the number of blocks and the height stay the same
  (`scroll-sync.ts:133`), so an edit that only moves lines (`preview.ts:322`) leaves the
  panes apart by what it moved (`LinesMoved`). And no one listens to
  `prefers-reduced-motion` (`runtime.ts:75-79`; `renderer.ts:198-202` observes only
  attributes), so the clock that stopped for it stays stopped when it is lifted, until something else
  wakes it.
* `LocalKept` leaves out the document whose own move met the quota at its second
  write: `deleteLocalDocument` writes the list without it first, so it is in neither list
  (`workspace.ts:432`), although the notice says "It remains recoverable in this browser
  for 30 days" (`App.tsx:696`). The other documents are kept.
* `ReviewExact` lets the drawer's pages part (`gapped`) when a refresh puts back the first
  page under an earlier one that is on its way: the late page is appended and its cursor
  taken (`AppOverlays.tsx:737-744`, `:533-536`), so the threads between are out of
  reach until the next refresh. The oldest stays reachable.
* `CommandsInOrder` says that `approve` was called for the run, not by whom:
  `AgentCommandBridge.tsx:28` gives `window.marksRibbon.approve` to the same page script that may
  propose, whereas `execution.ts:27-28` speaks of "explicit human approval" and
  `webmcp.ts:38-43` of "visible approval".

## 4. Proofs

Each theorem holds for every value of the constants its module's assumption
admits (`ConstantsAssumption`, `PersistLockAssumption`, and their like): types
and lower bounds, which every run evaluates. `RoomDurable` adds one hypothesis,
`~Overlap`, discussed below, and `Replica` two (`Access`, `Distinct`). Every inductive invariant was first checked by TLC
on the instances of section 3.

### Room

`RoomProofs`, for rooms that may overlap:

* `TypeCorrect`: `Spec => []TypeOK`, one lemma per group of actions. The
  capacity part needs the guards of `Send`, `Dispatch` and `CollectFrame` and the
  fact that a batch only shrinks while it is prepared.
* `FramesStayKnown`: `Spec => []NoFrameForgotten`, from `ServingInv`. The
  property alone is not inductive: a socket must be in a room that is live and
  not poisoned (a dead room drops its batch), a ticket must not be held while
  its connection is attached (a join would inherit what the last socket waited
  for), and between batches nothing may hide in the batch that the next
  `BeginBatch` replaces.
* `EditorsOnly`: `Spec => StoredByEditors`, from `AuthorityInv`. A room's roles
  are stale as soon as a share changes; what saves it is the epoch. `AuthorityInv`
  says that a role held under the *current* epoch is the true one, for tickets,
  for sockets and for the senders of a staged batch, and that no control in any
  lane names an epoch that has not begun - otherwise a room could call itself
  current without having read the roles. `CommitBatch` compares epochs in its
  transaction, so a batch staged under old roles is refused. `LinkRedeem`
  changes roles without an epoch, and is harmless because it takes none away.

`RoomDurable`, for rooms that do not overlap (`~Overlap`):

* `DurableInvariant`, and its consequences `PublishedStaysDurable` and
  `ReplicaStaysDurable`;
* `RoomKeepsPromise`: `Spec => KeepsPromise`, the refinement of
  `DurableDocument`: every step stores, publishes or stutters;
* `AttributionStaysExact`: `Spec => []AttributionExact`, from `DurableInv` (what
  a transaction adds to the rows is exactly what the batch accepted) and
  `AuthorityInv` (what it accepted is of its senders' own sites);
* `ReceiptsStayStable`: `Spec => []ReceiptsStable`, from `ReceiptsInv`.

`PublishedIsDurable` is not inductive: a step that publishes what is in
`prepared` keeps it only if that is stored, a retry only if receipts are backed,
and a compaction only if the replica it stores holds at least what the rows
hold. `DurableInv` therefore adds

* `SingleWriter`: at most one task can still write, so a room's picture of the
  rows cannot change behind its back;
* `RowsReplayed`: no journal row hides at or below the snapshot's revision;
* `ReceiptsBacked`: a receipt in `document_commits` is backed by stored
  operations, so answering a retry publishes nothing new;
* per room `InSync` between batches, `Staged` while frames are prepared and
  `Committed` until publication. `Staged` is the heart: the replica is ahead of
  the rows by exactly what is staged, staged revisions are new and the highest
  is `nextRevision`, and a staged version includes everything staged under its
  revision or an earlier one. The last part is what makes storing only the
  *last* snapshot of a batch, and deleting the rows below it, lose nothing.

A poisoned room is exempt from all three, since its replica is wrong; it is safe
because a dead room neither commits, compacts nor admits.

`ReceiptsStable` speaks of receipts that were sent, and a receipt that was sent
may be pruned by any later compaction. `ReceiptsInv` says that a sent receipt is
still in `document_commits`, where the next retry finds it, unless its revision
is more than the window below the *snapshot's* revision; a new receipt has a
revision at or above the room's, which is at or above the snapshot's, so it is
out of the window of every pruned one. While a batch is prepared, what it is
going to answer is consistent with every receipt sent or stored, and a retry
is answered from one of them.

`~Overlap` is what the task's life cycle gives except after an eviction, when the
owner map forgets a task that can still be inside a transaction. The run
`overlap` shows that the durability results fail then: the hypothesis is
needed, and `TypeCorrect`, `FramesStayKnown` and `EditorsOnly` do without it.

### PersistLock, Connection, AssetStore

* `BrowserProofs!WritesStaySafe`: `Spec => []WritesSafe`, for any pages and
  writes, with or without Web Locks. Two writes of one page are kept apart by
  the order of their lane, two pages by the holder of the lock, and an export
  meets a live replica because the final checkpoint is the last of its lane.
* `ConnectionProofs!TransportStaysSound`: `Spec => []TransportSound`. The
  invariant says which of attempt, socket and reconnect timer can exist
  together, which timers follow them, and that an offline transport has no
  socket.
* `ServerProofs!BytesStayRecoverable` and `BackupsFindBytes`. The
  invariant says where each request and its blocking worker can be, that one of
  them at a time holds the content guard, and that bytes of a referenced image
  are in place, in quarantine, or in the hands of a worker that restores them.

### RoomManager

`OwnerInvariant`, and its consequence `OwnersStayExact`: a task that runs is in the
map unless something took it out on purpose, and the map stays within its capacity.

`NoOrphan` alone is not inductive: `Remove` compares only the task of the entry it
finds, so `OwnerInv` adds that an entry is a task of its own document (`Owned`) and
that a task not yet spawned is no entry. All steps but one fall under one lemma,
`Keeps`: they add no entry, start no task, and when they take the entry of a task
that runs on they say why (`why`). The one left spawns a task, and there the second
look at the map after the await matters: the entry it fills is free and the map is
below `MaxResident`. `CapacityKept` is then a fact about cardinalities, for which
`OwnerInv` also says that the resident set is finite.

### AgentRun

`AgentRunStaysExact`: `Spec => []AgentRunExact`, the property of the run `work`.
`OneTerminal` holds with any remounts: the server appends an end only to a run
that has none. The other two parts rest on `PageInv`, claimed while no pill was
mounted anew in its page:

* `Alone`: only the pill on screen is at work, and what it holds is what is stored;
* `Before \/ After`: there is no record and no command until the creation of the
  run is answered, and no pill creates a run afterwards;
* `Recorded`: a launch is on record while there is a record. A reload between the
  launch and its outcome therefore finds it, and answers without a second launch;
* `Outcomes`: what is recorded or submitted as a success was one, and a command that
  still runs has no outcome yet.

`PageInv` is lost with the first remount, since `Alone` is: the unmounted pill
works on, on an old record. The proof attempt showed that two guards of `ReadCall`
overlapped in the model, a new call and a new call with valid arguments; they are
now exclusive, as the branches of the code are.

### Replica

`SavedEditsStayRecoverable`: `Spec /\ []Distinct => []SavedEditsRecoverable`, for a
document of the service (`Access`), any tabs, and any openings, crashes and
storage failures. `ReplicaInvariant` proves the inductive invariant. A local
document has no room to fall back on, and its property is about one tab (section 3);
it stays with TLC.

The property is not inductive: the journal's snapshot can be overwritten by a
sibling that knows less, so an edit that only the snapshot held would be lost with
it. `ReplicaInv` claims more where it matters:

* `ToldKept`: an edit told to be saved is in the journal's *tail* or in the *room*;
  the snapshot is not counted;
* `OneContent` and `Receipted`: one identifier stands for one content among all
  mutations known anywhere, and a receipt in flight names a mutation the room has.
  Together they make `RunAck` safe, which forgets a mutation by its identifier;
* `Carried`: until a tab has a journal to append to, its fallback record carries
  what it sends, so the write that creates the journal leaves nothing told behind;
* `Sited`: an open tab writes under its own site.

Identifiers must be new: `FreshIdFree` shows it by counting, since the known
mutations are finite, so that `FreshId` lies beyond all of them. Every handler is
then one of a few shapes (a tab changes, a tab posts, a frame is consumed, a job
runs), each with a lemma that says what such a step may add to the mutations and
receipts.

`Distinct` says that no identity stands for two operations. It is a hypothesis
because the code does not give it: see the last item of section 3.
`FirstTabsKeepEdits` does without it for the tabs that were open at the start
(`MaxOpens = 0`), each with the site of its own ticket; there the site
of an operation names its tab, and a tab numbers its edits by a replica that only
grows. Edits, lost sockets, crashes, closings and storage failures remain in any
number and order.

`DurableStaysCommitted`: `ReplicaSpec => []DurableMeansCommitted` for a document of
the service, with no hypothesis on identities: that report counts operations,
not names. `DurableInv` says that whatever a tab has from the room - the version it was told,
what it is about to hear, what it is about to store as acknowledged - the room
has (`Sound`), that the welcome names the room's version before it says that the
tab is synced (`Greeted`), and that a synced tab with nothing pending holds
nothing else (`Settled`).

### ReceiptRanges, Release, Impact

* `RangesStayExact`: the invariant describes the walk rather than its result. The
  pushed ranges are sorted with gaps between them; for the sites
  before the current one they cover exactly what is new, and for the current one
  what is new below the place the walk has reached. One lemma, `PushAdds`, says
  what a push adds; there is no induction over the walk, since every step of it
  is a step of the specification.
* `ReleaseStaysCoherent`: `CacheInv` follows the caches. Each digest has one, and what it
  holds was stored since some release of that digest (`Kept`); what an installation has
  nothing left to do for is stored (`InstallKept`); the active worker's cache is
  the oldest and is whole (`ActiveFirst`), so that it answers first and nothing is
  fetched into it. Unless a digest has come back, all that was deployed since a
  release of the current digest has that digest, so the cache of the current release holds
  nothing else.
* `ChecksStayMerged`: while paths are read the checks are those of what was read
  and the profile has forgotten none of the two families (`Gathering`). The table of
  profiles is finite and unfolds; the paths are never enumerated.

### Opening, Identity, Catalog, Sharing, Presence

* `SessionsStaySound`: the opening of the page is the one for its document, and the
  only one with a session (`Attached`). Where a page leaves through home, lookups
  and answers of this navigation are of this route (`Proved`); a direct change of
  the route does without it, and so does the property.
* `RevokedStaysLocked`: a live session is one of an enrolled, unrevoked device
  (`LiveEnrolled`). A pending claim is harmless because it writes a device
  that is *not* enrolled.
* `OnePageEach`: what a page remembers is stored or nothing, every call under way -
  also one of a page that is gone - carries a request of its scope, and the
  server makes one document of a request. Documents of a scope thus map one to one into
  its requests, which are those that were answered and one more; the rest is
  a fact about cardinalities.
* `SharingStaysInStep`: the mark in flight is that of a request this page has out
  (`GuestInv`), so it can only hold back a token that is being redeemed. Unless `drift`, a dialog has one
  request under way (`InHandOf`): a list that was answered has the rows as they are
  (`Listing`), and what an operation has done to the rows is what its answer will do to what
  the dialog shows (`Underway`).
* `RetiredStaysBuried`: nothing that shows an instance follows its retirement in any
  queue (`FinalsLast`), and what a page has buried is retired and no longer on
  its way to that page (`BuriedForGood`).

### History, LocalStore, Commands, ReviewPanel, Preview, Diagrams

* `PrunedStaysSendable`: only what the room has is acknowledged, and until a crash
  the replica holds nothing that is neither in the room nor pending.
* `LocalStaysKept`: a step takes no document out of both lists but the one it purges, or
  the one whose second write it sees refused (`Spared`). A version is numbered by the saves before it, so the next number is
  new and the counter counts.
* `CommandsStayInOrder`: each run is sound on its own (`RunSound`), every step lets
  runs *go on* soundly, the dialog that is up belongs to a run for which `approve` was called, and
  all runs of a plan but the last succeeded.
* `ReviewStaysExact`: a cursor is 0 or a place where a page begins, an answer
  without a next page has the oldest thread, and a save that was sent waited for
  its edits. An answer is an interval that ends where its cursor says, and an earlier page
  ends where it was asked for (`RequestSound`), so it joins a list that still ends there.
* `PreviewShowsSource`: `Settled`, or exactly one request underway - posted, in the worker's hand or
  replied - and what is queued behind it leads to the source (`Leads`). A patch is
  dangerous after a reset: the invariant says that no reset precedes a patch
  and that a patch names the worker's generation only while the worker has the text
  it applies to. A worker that restarts has a new generation, so the
  patch is answered by a request for the whole text. That blocks have
  their rendering is a second invariant (`HtmlInv`): what the worker takes the page to hold is
  painted there or will be when its answer is taken (`Trusted`, `Mending`), or a reset
  makes the worker forget it before it answers again (`ResetAhead`). A failed rendering
  and an overtaken first paint break this, and `spoiled` holds from them to the next reset.
* `DiagramsStayExact`: a missed deadline opens the circuit, and nothing is drawn
  after that, so the count of renders under way follows the phase (`OneAtATime`);
  what is being drawn is not in the cache (`BatchInHand`), so that storing it
  keeps one drawing for a source. While no theme changed under a batch, a batch draws with a
  module of the page's theme (`ThemeKept`), so what it stores is of that theme. That none is forgotten rests on the batches: a set
  of hosts is listed with all its elements (`SetListed`), whatever order it is read in.

### Only model-checked

* Liveness (`AnsweredOrClosed`, `AbortedEnds`, `RestoredEventually`,
  `WedgedRoomLeaves`, `EditsArrive`, and the liveness parts of the
  conjunctions of section 3): fairness and ENABLED are outside the prover.
* `EditorShowsReplica` and `UploadsExact`: positions mapped through folds and
  `SelectSeq` over texts; what they compute for every text needs induction over data.
  The first is moreover false for some constants (`split`), so a theorem would need
  `MaxRanges = 1` or a limit that no transaction reaches.
* `ChangesAsAsked` and `GesturesSettle` are conjunctions over instances of several
  modules; the first rests on operations on texts and outlines (longest common
  prefixes, sections) that are again recursive.
* `RibbonHonest`: `Ribbon` has no constants, so TLC's run of it is exhaustive.
* `SavedEditsRecoverable` of a local document, and of tabs that are reopened without
  `Distinct`: see section 3.

## 5. Not modelled, and the plan

### Not modelled

* `collab/wasm/generated/esbt.js`: generated bindings, and the engine itself:
  external, modelled by how the code uses them.
* Markdown grammar, highlighting, importers, the ZIP encoder, QR codes, forms of
  the practical inspector: functions of a text or a file without state of their own.
* Design system, icons, copy, the benchmark page: presentation.
* The browser suites, budgets and build scripts under `scripts/`: they drive the
  system from outside.
* `routes/review.rs`, `routes/imports.rs`, `routes/practical.rs`: transactions of
  one statement group behind the role checks; parsers and network lookups.
* The delivery lane from a push to the activated or rolled back release: workflow
  files and a shell script; documents embedded in documents; the fit of the ribbon
  into a width and its key tips; the comparison of lines behind a structural
  change; the splitter of the phone workspace.
* In modelled components: byte layouts, logging, metrics, migrations, wording, the
  text transforms of the editing commands, the offline restore of a backup, and
  what a file system loses with the power before a directory is synced.

### Plan

The models are complete in the order of weight they were planned in: the
server's durability and authority (`Room`, `RoomManager`, `AssetStore`), the
browser's durability (`Replica`, `History`, `PersistLock`), identity and agents,
then the interface. The safety properties of these are proved except for those
named above. What is left:

1. `Replica` without the hypothesis `Distinct`: a condition on reopening under which
   the code gives it, or a change of the code that stores the highest number used.
2. The step that folds make in `EditorSync`, as lemmas about one change at a time, once
   `applyChangesInHalves` shifts its ranges.
