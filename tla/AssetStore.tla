----------------------------- MODULE AssetStore -----------------------------
(***************************************************************************)
(* The bytes of one content hash (assets.rs), the rows that refer to them  *)
(* and what works on both: uploads and bundles (routes/assets.rs), purges  *)
(* (routes/documents.rs), backups (backup.rs), the sweep at start-up       *)
(* (app.rs).  Files are changed by blocking workers that outlive a request *)
(* which timed out or was dropped.  A crash is the end of the process; what *)
(* a file system loses with the power is left out.                         *)
(***************************************************************************)
EXTENDS Naturals, FiniteSets

CONSTANTS
    Docs, Requests,
    MaxFaults   \* bound: failed system calls, transactions and crashes

ASSUME AssetStoreAssumption == IsFiniteSet(Requests) /\ MaxFaults \in Nat

VARIABLES
    doc,        \* doc[d]: "live", "trashed", "expired" (its retention is over) or "purged"
    refs,       \* documents with a row for the hash; asset_blobs has one if any has
    canonical,  \* the file with the hash's name exists
    residue,    \* safety links whose worker is gone
    request,    \* request[r]: its kind, document and where it is
    worker,     \* worker[r]: its step, the removal's state, its safety link
    backup,     \* the backup's worker: its step, whether its snapshot names the hash
    bundle,     \* the portable export: its step and document
    up,         \* the server takes requests; FALSE: it sweeps
    faults

files == <<canonical, residue>>
vars == <<doc, refs, files, request, worker, backup, bundle, up, faults>>

NoRequest == [kind |-> "none", doc |-> "none", at |-> "idle"]
NoWorker == [at |-> "none", state |-> "active", safety |-> FALSE]
NoBackup == [at |-> "idle", guard |-> FALSE, named |-> FALSE]
NoBundle == [at |-> "idle", doc |-> "none"]

Init ==
    /\ doc = [d \in Docs |-> "live"] /\ refs = {} /\ canonical = FALSE /\ residue = 0
    /\ request = [r \in Requests |-> NoRequest] /\ worker = [r \in Requests |-> NoWorker]
    /\ backup = NoBackup /\ bundle = NoBundle /\ up = TRUE /\ faults = 0

Fault == faults < MaxFaults /\ faults' = faults + 1
At(r, pc) == request[r].at = pc
Goto(r, pc) == request' = [request EXCEPT ![r].at = pc]
Step(r, pc) == worker' = [worker EXCEPT ![r].at = pc]

\* mutation_guard: uploads, purges and exports share it, a backup has it alone.
Shared(r) == request[r].at \notin {"idle", "begin", "done"}
SharedFree == ~backup.guard
ExclusiveFree == bundle.at = "idle" /\ \A r \in Requests : ~Shared(r)

\* content_guard: one request at a time for the hash.
Content(r) == request[r].at \in {"check", "put", "tx", "recheck", "remove"}
ContentFree == \A r \in Requests : ~Content(r)

----------------------------------------------------------------------------
(* Requests *)

Begin(r, d, kind) ==
    /\ up /\ At(r, "idle")
    /\ request' = [request EXCEPT ![r] = [kind |-> kind, doc |-> d, at |-> "begin"]]
    /\ UNCHANGED <<doc, refs, files, worker, backup, bundle, up, faults>>

\* Mutant: a purge does not take the shared guard.
EnterPurgeFree(r) ==
    /\ up /\ At(r, "begin") /\ (request[r].kind = "purge" \/ SharedFree) /\ Goto(r, "gate")
    /\ UNCHANGED <<doc, refs, files, worker, backup, bundle, up, faults>>

Enter(r) ==
    /\ up /\ At(r, "begin") /\ SharedFree /\ Goto(r, "gate")
    /\ UNCHANGED <<doc, refs, files, worker, backup, bundle, up, faults>>

\* purge: the rows go in one transaction; the last reference leaves bytes to reclaim.
Purge(r) ==
    LET d == request[r].doc
    IN  /\ request[r].kind = "purge" /\ At(r, "gate")
        /\ \/ /\ doc[d] = "expired"
              /\ doc' = [doc EXCEPT ![d] = "purged"] /\ refs' = refs \ {d}
              /\ Goto(r, IF refs = {d} THEN "reclaim" ELSE "done")
           \/ doc[d] # "expired" /\ Goto(r, "done") /\ UNCHANGED <<doc, refs>>
        /\ UNCHANGED <<files, worker, backup, bundle, up, faults>>

Reclaim(r) ==
    /\ At(r, "reclaim") /\ ContentFree /\ Goto(r, "recheck")
    /\ UNCHANGED <<doc, refs, files, worker, backup, bundle, up, faults>>

\* upload, under both guards.
Upload(r) ==
    /\ request[r].kind = "upload" /\ At(r, "gate") /\ ContentFree /\ Goto(r, "check")
    /\ UNCHANGED <<doc, refs, files, worker, backup, bundle, up, faults>>

\* The document is live and has no such asset yet: the bytes are put first.
Check(r) ==
    LET d == request[r].doc
    IN  /\ At(r, "check")
        /\ IF doc[d] = "live" /\ d \notin refs
           THEN Goto(r, "put") /\ worker' = [worker EXCEPT ![r] = [NoWorker EXCEPT !.at = "exists"]]
           ELSE Goto(r, "done") /\ UNCHANGED worker
        /\ UNCHANGED <<doc, refs, files, backup, bundle, up, faults>>

PutEnds(r) ==
    /\ At(r, "put") /\ worker[r].at \in {"ok", "failed"} /\ Step(r, "none")
    /\ Goto(r, IF worker[r].at = "ok" THEN "tx" ELSE "done")
    /\ UNCHANGED <<doc, refs, files, backup, bundle, up, faults>>

\* The transaction looks again, and may fail.
Insert(r) ==
    LET d == request[r].doc
    IN  /\ At(r, "tx")
        /\ \/ /\ doc[d] = "live" /\ refs' = refs \cup {d} /\ Goto(r, "done") /\ UNCHANGED faults
           \/ /\ doc[d] # "live" /\ Goto(r, "recheck") /\ UNCHANGED <<refs, faults>>
           \/ /\ Fault /\ Goto(r, "recheck") /\ UNCHANGED refs
        /\ UNCHANGED <<doc, files, worker, backup, bundle, up>>

\* Under the content guard, no document refers to the bytes.
Recheck(r) ==
    /\ At(r, "recheck")
    /\ IF refs = {} THEN Goto(r, "remove") /\ worker' = [worker EXCEPT ![r] = [NoWorker EXCEPT !.at = "begin"]]
       ELSE Goto(r, "done") /\ UNCHANGED worker
    /\ UNCHANGED <<doc, refs, files, backup, bundle, up, faults>>

RemoveEnds(r) ==
    /\ At(r, "remove") /\ worker[r].at = "ended" /\ Goto(r, "done") /\ Step(r, "none")
    /\ UNCHANGED <<doc, refs, files, backup, bundle, up, faults>>

\* A deadline, or a connection that closed, drops the request and its guards:
\* a removal that is not committed is cancelled, a put goes on.
Drop(r) ==
    /\ request[r].at \notin {"idle", "done"} /\ Goto(r, "done")
    /\ worker' = IF At(r, "remove") /\ worker[r].state = "active"
                 THEN [worker EXCEPT ![r].state = "cancelled"] ELSE worker
    /\ UNCHANGED <<doc, refs, files, backup, bundle, up, faults>>

Trash(d) ==
    /\ doc[d] = "live" /\ doc' = [doc EXCEPT ![d] = "trashed"]
    /\ UNCHANGED <<refs, files, request, worker, backup, bundle, up, faults>>

\* TRASH_RETENTION_MS is longer than an export.
Expire(d) ==
    /\ doc[d] = "trashed" /\ (bundle.at # "idle" => bundle.doc # d)
    /\ doc' = [doc EXCEPT ![d] = "expired"]
    /\ UNCHANGED <<refs, files, request, worker, backup, bundle, up, faults>>

----------------------------------------------------------------------------
(* The workers *)

\* put_blocking: what exists is verified, else staged and linked.
Put(r) ==
    /\ \/ /\ worker[r].at = "exists" /\ Step(r, IF canonical THEN "verify" ELSE "link")
          /\ UNCHANGED <<canonical, faults>>
       \/ /\ worker[r].at = "link" /\ canonical' = TRUE
          /\ Step(r, IF canonical THEN "verify" ELSE "ok") /\ UNCHANGED faults
       \/ /\ worker[r].at = "verify" /\ Step(r, IF canonical THEN "ok" ELSE "failed")
          /\ UNCHANGED <<canonical, faults>>
       \/ /\ worker[r].at = "link" /\ Fault /\ Step(r, "failed") /\ UNCHANGED canonical
    /\ UNCHANGED <<doc, refs, residue, request, backup, bundle, up>>

\* remove_blocking: a private link to the bytes.
Safety(r) ==
    /\ worker[r].at = "begin"
    /\ worker' = [worker EXCEPT ![r] =
           IF @.state = "cancelled" \/ ~canonical THEN [@ EXCEPT !.at = "ended"]
           ELSE [@ EXCEPT !.at = "linked", !.safety = TRUE]]
    /\ UNCHANGED <<doc, refs, files, request, backup, bundle, up, faults>>

\* The second look at the state.
Cancelled(r) ==
    /\ worker[r].at = "linked"
    /\ worker' = [worker EXCEPT ![r] =
           IF @.state = "cancelled" THEN [@ EXCEPT !.at = "ended", !.safety = FALSE]
           ELSE [@ EXCEPT !.at = "unlink"]]
    /\ UNCHANGED <<doc, refs, files, request, backup, bundle, up, faults>>

\* Another removal's name may be gone already; the call may fail.
Unlink(r) ==
    /\ worker[r].at = "unlink" /\ Step(r, "unlinked")
    /\ \/ canonical' = FALSE /\ UNCHANGED faults
       \/ Fault /\ UNCHANGED canonical
    /\ UNCHANGED <<doc, refs, residue, request, backup, bundle, up>>

\* Mutant: the name is gone whatever the deadline did.
CommitAlways(r) ==
    /\ worker[r].at = "unlinked"
    /\ worker' = [worker EXCEPT ![r] = [@ EXCEPT !.at = "committed", !.state = "committed"]]
    /\ UNCHANGED <<doc, refs, files, request, backup, bundle, up, faults>>

\* Mutant: a cancelled removal ends and keeps its private link.
CommitOrKeep(r) ==
    /\ worker[r].at = "unlinked"
    /\ worker' = [worker EXCEPT ![r] =
           IF @.state = "active" THEN [@ EXCEPT !.at = "committed", !.state = "committed"]
           ELSE [@ EXCEPT !.at = "ended"]]
    /\ UNCHANGED <<doc, refs, files, request, backup, bundle, up, faults>>

\* The exchange that decides between the worker and the deadline.
Commit(r) ==
    /\ worker[r].at = "unlinked"
    /\ worker' = [worker EXCEPT ![r] =
           IF @.state = "active" THEN [@ EXCEPT !.at = "committed", !.state = "committed"]
           ELSE [@ EXCEPT !.at = "restore"]]
    /\ UNCHANGED <<doc, refs, files, request, backup, bundle, up, faults>>

Restore(r) ==
    /\ worker[r].at = "restore" /\ canonical' = TRUE /\ Step(r, "committed")
    /\ UNCHANGED <<doc, refs, residue, request, backup, bundle, up, faults>>

\* The link could not be made: the private one stays.
RestoreFails(r) ==
    /\ worker[r].at = "restore" /\ ~canonical /\ Fault
    /\ worker' = [worker EXCEPT ![r] = [@ EXCEPT !.at = "ended", !.safety = FALSE]]
    /\ residue' = residue + 1
    /\ UNCHANGED <<doc, refs, canonical, request, backup, bundle, up>>

Discard(r) ==
    /\ worker[r].at = "committed"
    /\ worker' = [worker EXCEPT ![r] = [@ EXCEPT !.at = "ended", !.safety = FALSE]]
    /\ UNCHANGED <<doc, refs, files, request, backup, bundle, up, faults>>

----------------------------------------------------------------------------
(* Backup and export *)

\* create_once: backup_guard, then the snapshot of the database.
BackupBegins ==
    /\ up /\ backup.at = "idle" /\ ExclusiveFree
    /\ backup' = [at |-> "snapshot", guard |-> TRUE, named |-> FALSE]
    /\ UNCHANGED <<doc, refs, files, request, worker, bundle, up, faults>>

Snapshot ==
    /\ backup.at = "snapshot"
    /\ backup' = [backup EXCEPT !.named = (refs # {}), !.at = IF backup.guard THEN "copy" ELSE "failed"]
    /\ UNCHANGED <<doc, refs, files, request, worker, bundle, up, faults>>

\* The rows of the snapshot are copied and verified; a cancelled worker stops.
Copy ==
    /\ backup.at = "copy"
    /\ backup' = [backup EXCEPT !.at =
           IF backup.guard /\ (backup.named => canonical) THEN "publish" ELSE "failed"]
    /\ UNCHANGED <<doc, refs, files, request, worker, bundle, up, faults>>

\* The deadline: the guard goes and the worker is told.
BackupTimesOut ==
    /\ backup.guard /\ backup' = [backup EXCEPT !.guard = FALSE]
    /\ UNCHANGED <<doc, refs, files, request, worker, bundle, up, faults>>

\* The tree is renamed, or was removed with what prepared it.
BackupEnds ==
    /\ backup.at \in {"publish", "failed"} /\ backup' = NoBackup
    /\ UNCHANGED <<doc, refs, files, request, worker, bundle, up, faults>>

\* export_bundle of a document that refers to the bytes.
BundleBegins(d) ==
    /\ up /\ bundle.at = "idle" /\ SharedFree /\ doc[d] = "live" /\ d \in refs
    /\ bundle' = [at |-> "verify", doc |-> d]
    /\ UNCHANGED <<doc, refs, files, request, worker, backup, up, faults>>

BundleVerified ==
    /\ bundle.at = "verify" /\ bundle' = IF canonical THEN [bundle EXCEPT !.at = "stream"] ELSE NoBundle
    /\ UNCHANGED <<doc, refs, files, request, worker, backup, up, faults>>

\* write_bundle opens the file again, in the midst of the response.
BundleStreams ==
    /\ bundle.at = "stream"
    /\ bundle' = IF canonical THEN NoBundle ELSE [bundle EXCEPT !.at = "broken"]
    /\ UNCHANGED <<doc, refs, files, request, worker, backup, up, faults>>

BundleEnds ==
    /\ bundle.at = "broken" /\ bundle' = NoBundle
    /\ UNCHANGED <<doc, refs, files, request, worker, backup, up, faults>>

----------------------------------------------------------------------------
(* Crash and start *)

Crash ==
    /\ Fault /\ up' = FALSE
    /\ residue' = residue + Cardinality({r \in Requests : worker[r].safety})
    /\ worker' = [r \in Requests |-> NoWorker]
    /\ request' = [r \in Requests |-> IF At(r, "idle") THEN request[r] ELSE [request[r] EXCEPT !.at = "done"]]
    /\ backup' = NoBackup /\ bundle' = NoBundle
    /\ UNCHANGED <<doc, refs, canonical>>

\* sweep_unreferenced, at a safety link.
SweepSafety ==
    /\ ~up /\ residue > 0 /\ residue' = residue - 1
    /\ canonical' = (canonical \/ refs # {})
    /\ UNCHANGED <<doc, refs, request, worker, backup, bundle, up, faults>>

\* sweep_unreferenced, at the file itself; then requests are taken.
SweepEnds ==
    /\ ~up /\ residue = 0 /\ canonical' = (canonical /\ refs # {}) /\ up' = TRUE
    /\ UNCHANGED <<doc, refs, residue, request, worker, backup, bundle, faults>>

Next ==
    \/ \E r \in Requests :
        \/ \E d \in Docs : \E k \in {"upload", "purge"} : Begin(r, d, k)
        \/ Enter(r) \/ Purge(r) \/ Reclaim(r) \/ Upload(r) \/ Check(r) \/ PutEnds(r) \/ Insert(r)
        \/ Recheck(r) \/ RemoveEnds(r) \/ Drop(r)
        \/ Put(r) \/ Safety(r) \/ Cancelled(r) \/ Unlink(r) \/ Commit(r)
        \/ Restore(r) \/ RestoreFails(r) \/ Discard(r)
    \/ \E d \in Docs : Trash(d) \/ Expire(d) \/ BundleBegins(d)
    \/ BackupBegins \/ Snapshot \/ Copy \/ BackupTimesOut \/ BackupEnds
    \/ BundleVerified \/ BundleStreams \/ BundleEnds
    \/ Crash \/ SweepSafety \/ SweepEnds

Spec == Init /\ [][Next]_vars

----------------------------------------------------------------------------
\* Bytes a document refers to are never lost: a removal that raced its deadline
\* and the next upload of the same content has a link to put back.
ReferencedRecoverable == 
    refs # {} => canonical \/ residue > 0 \/ \E r \in Requests : worker[r].safety

\* Referenced bytes that are missing come back, without a restart unless the
\* file system refused.
RestoredEventually ==
    (refs # {} /\ ~canonical) ~> (canonical \/ refs = {} \/ (residue > 0 /\ up))

\* A backup that has the guard finds what its snapshot names, but for a removal
\* that was cancelled and is about to put it back.
BackupFindsBytes ==
    backup.guard /\ backup.at = "copy" /\ backup.named =>
        canonical \/ residue > 0 \/ \E r \in Requests : worker[r].safety /\ worker[r].state = "cancelled"
=============================================================================
