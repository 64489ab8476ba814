----------------------------- MODULE LocalStore -----------------------------
(***************************************************************************)
(* The workspace of a build without a service: documents and trash in      *)
(* localStorage, review threads, saved versions and images in IndexedDB,   *)
(* shared by the tabs of one browser.  A function that only touches        *)
(* localStorage is one step, with a write that may exceed the quota; an    *)
(* IndexedDB transaction is one step; everything else interleaves.         *)
(***************************************************************************)
EXTENDS Integers, FiniteSets

CONSTANTS
  LocalTabs, Docs,
  Seeds,          \* the documents of a new workspace
  Legacy,         \* documents with a thread and a version in the synchronous keys of an older client
  Cleanup,        \* whether those keys can be removed
  Retention, MaxTime, MaxVersions, MaxEdits, MaxSaves,
  MaxFaults,      \* writes that exceed the quota
  MaxReloads

ASSUME LocalStoreAssumption ==
  /\ Seeds \subseteq Docs /\ Legacy \subseteq Seeds /\ Cleanup \in BOOLEAN
  /\ {Retention, MaxTime, MaxVersions, MaxEdits, MaxSaves, MaxFaults, MaxReloads} \subseteq Nat

VARIABLES
  docs, trash,    \* the two lists; the trash maps a document to its purge date
  legacy,         \* the synchronous review keys
  thread,         \* per document how often its review thread was written, 0 for none
  versions, meta, \* per document the saved versions, and the counter kept beside them
  asset,          \* per document whether it has an image
  journal,        \* per document whether its replica is stored
  tab,            \* per tab the trash it shows, a purge under way, its migration
  now, budget,    \* what the bounds count, and the documents whose second write was refused
  ever,           \* history: documents created and not purged
  kept            \* history: per document what its thread was last written to

localVars == <<docs, trash, legacy, thread, versions, meta, asset, journal, tab, now, budget, ever, kept>>

NoPurge == [doc |-> "none", left |-> {}]
NewTab == [shown |-> <<>>, purge |-> NoPurge, migration |-> "none", read |-> {}]

LocalInit ==
  /\ docs = Seeds /\ trash = <<>>
  /\ legacy = Legacy
  /\ thread = [d \in Docs |-> 0]
  /\ versions = [d \in Docs |-> {}] /\ meta = [d \in Docs |-> 0]
  /\ asset = [d \in Docs |-> FALSE]
  /\ journal = [d \in Docs |-> d \in Seeds]
  /\ tab = [t \in LocalTabs |-> NewTab]
  /\ now = 0
  /\ budget = [saves |-> 0, faults |-> 0, reloads |-> 0, refused |-> {}]
  /\ ever = Seeds
  /\ kept = [d \in Docs |-> IF d \in Legacy THEN 1 ELSE 0]

Without(f, d) == [e \in DOMAIN f \ {d} |-> f[e]]
With(f, d, x) == [e \in DOMAIN f \union {d} |-> IF e = d THEN x ELSE f[e]]

------------------------------------------------------------------------------
(* demo/workspace.ts.  Each function writes one list and then the other; the *)
(* second write may throw.                                                   *)

Quota(d) ==
  /\ budget.faults < MaxFaults
  /\ budget' = [budget EXCEPT !.faults = @ + 1, !.refused = @ \union {d}]

CreateDocument(d) ==
  /\ d \notin ever /\ d \notin docs
  /\ docs' = docs \union {d}
  /\ ever' = ever \union {d}
  /\ journal' = [journal EXCEPT ![d] = TRUE]
  /\ UNCHANGED <<trash, legacy, thread, versions, meta, asset, tab, now, budget, kept>>

Trashed(d) == With(trash, d, now + Retention)

DeleteDocument(d) ==
  /\ d \in docs
  /\ docs' = docs \ {d}
  /\ \/ trash' = Trashed(d) /\ UNCHANGED budget
     \/ Quota(d) /\ UNCHANGED trash
  /\ UNCHANGED <<legacy, thread, versions, meta, asset, journal, tab, now, ever, kept>>

\* Mutant: the document is not listed again.
RestoredNot(d) == docs

Restored(d) == docs \union {d}

\* The button of the trash a tab shows.
RestoreDocument(t, d) ==
  /\ d \in DOMAIN tab[t].shown
  /\ IF d \notin DOMAIN trash
     THEN UNCHANGED <<docs, trash, budget, tab>>
     ELSE /\ trash' = Without(trash, d)
          /\ \/ docs' = Restored(d) /\ UNCHANGED budget
                /\ tab' = [tab EXCEPT ![t].shown = trash']
             \/ Quota(d) /\ UNCHANGED <<docs, tab>>
  /\ UNCHANGED <<legacy, thread, versions, meta, asset, journal, now, ever, kept>>

OpenTrash(t) ==
  /\ tab' = [tab EXCEPT ![t].shown = trash]
  /\ UNCHANGED <<docs, trash, legacy, thread, versions, meta, asset, journal, now, budget, ever, kept>>

\* "Delete forever" is enabled by the date the tab shows.
BeginPurge(t, d) ==
  /\ d \in DOMAIN tab[t].shown /\ tab[t].shown[d] <= now
  /\ tab[t].purge = NoPurge
  /\ tab' = [tab EXCEPT ![t].purge = [doc |-> d, left |-> {"review", "assets"}]]
  /\ UNCHANGED <<docs, trash, legacy, thread, versions, meta, asset, journal, now, budget, ever, kept>>

\* purgeLocalReviewMetadata.
PurgeReview(t) ==
  /\ "review" \in tab[t].purge.left /\ tab[t].migration = "done"
  /\ LET d == tab[t].purge.doc IN
       /\ thread' = [thread EXCEPT ![d] = 0]
       /\ versions' = [versions EXCEPT ![d] = {}]
       /\ meta' = [meta EXCEPT ![d] = 0]
  /\ tab' = [tab EXCEPT ![t].purge.left = @ \ {"review"}]
  /\ UNCHANGED <<docs, trash, legacy, asset, journal, now, budget, ever, kept>>

\* purgeLocalDocumentAssets.
PurgeAssets(t) ==
  /\ "assets" \in tab[t].purge.left
  /\ asset' = [asset EXCEPT ![tab[t].purge.doc] = FALSE]
  /\ tab' = [tab EXCEPT ![t].purge.left = @ \ {"assets"}]
  /\ UNCHANGED <<docs, trash, legacy, thread, versions, meta, journal, now, budget, ever, kept>>

\* purgeLocalDocument: absent is done, too early is refused.
PurgeDue(d) == d \in DOMAIN trash /\ trash[d] <= now

PurgeEnds(t) ==
  /\ tab[t].purge # NoPurge /\ tab[t].purge.left = {}
  /\ LET d == tab[t].purge.doc
         due == PurgeDue(d) IN
       /\ trash' = IF due THEN Without(trash, d) ELSE trash
       /\ ever' = IF due THEN ever \ {d} ELSE ever
       /\ kept' = IF due THEN [kept EXCEPT ![d] = 0] ELSE kept
       /\ tab' = [tab EXCEPT ![t].purge = NoPurge,
                             ![t].shown = IF d \in DOMAIN trash /\ ~due THEN @ ELSE trash']
  /\ UNCHANGED <<docs, legacy, thread, versions, meta, asset, journal, now, budget>>

------------------------------------------------------------------------------
(* data/review.ts. *)

\* The version an older client saved.
OldVersion == MaxSaves

\* migrateLegacyReview: the synchronous keys are read first ...
MigrationReads(t) ==
  /\ tab[t].migration = "none"
  /\ tab' = [tab EXCEPT ![t].migration = IF legacy = {} THEN "done" ELSE "read", ![t].read = legacy]
  /\ UNCHANGED <<docs, trash, legacy, thread, versions, meta, asset, journal, now, budget, ever, kept>>

\* ... one transaction writes what was read ...
MigrationWrites(t) ==
  /\ tab[t].migration = "read"
  /\ thread' = [d \in Docs |-> IF d \in tab[t].read THEN 1 ELSE thread[d]]
  /\ versions' = [d \in Docs |-> versions[d] \union (IF d \in tab[t].read THEN {OldVersion} ELSE {})]
  /\ meta' = [d \in Docs |-> IF d \in tab[t].read THEN 1 ELSE meta[d]]
  /\ tab' = [tab EXCEPT ![t].migration = "written"]
  /\ UNCHANGED <<docs, trash, legacy, asset, journal, now, budget, ever, kept>>

\* ... and the keys are removed, unless the browser refuses.
MigrationCleans(t) ==
  /\ tab[t].migration = "written"
  /\ legacy' = IF Cleanup THEN {} ELSE legacy
  /\ tab' = [tab EXCEPT ![t].migration = "done", ![t].read = {}]
  /\ UNCHANGED <<docs, trash, thread, versions, meta, asset, journal, now, budget, ever, kept>>

\* addComment, addReply, updateComment and the rest: one transaction on a thread.
WriteThread(t, d) ==
  /\ tab[t].migration = "done" /\ d \in docs /\ thread[d] < MaxEdits
  /\ thread' = [thread EXCEPT ![d] = @ + 1]
  /\ kept' = [kept EXCEPT ![d] = thread[d] + 1]
  /\ UNCHANGED <<docs, trash, legacy, versions, meta, asset, journal, tab, now, budget, ever>>

CreateVersion(t, d) ==
  /\ tab[t].migration = "done" /\ d \in docs
  /\ budget.saves < MaxSaves /\ meta[d] < MaxVersions
  /\ budget' = [budget EXCEPT !.saves = @ + 1]
  /\ versions' = [versions EXCEPT ![d] = @ \union {budget.saves}]
  /\ meta' = [meta EXCEPT ![d] = @ + 1]
  /\ UNCHANGED <<docs, trash, legacy, thread, asset, journal, tab, now, ever, kept>>

\* The counter after version v is deleted.
Counted(d, v) == IF v \notin versions[d] THEN meta[d] ELSE IF meta[d] > 0 THEN meta[d] - 1 ELSE 0

\* The panel of a tab may show a version that another tab deleted.
DeleteVersion(t, d, v) ==
  /\ tab[t].migration = "done" /\ d \in docs
  /\ meta' = [meta EXCEPT ![d] = Counted(d, v)]
  /\ versions' = [versions EXCEPT ![d] = @ \ {v}]
  /\ UNCHANGED <<docs, trash, legacy, thread, asset, journal, tab, now, budget, ever, kept>>

\* uploadLocalAsset.
UploadAsset(d) ==
  /\ d \in docs
  /\ asset' = [asset EXCEPT ![d] = TRUE]
  /\ UNCHANGED <<docs, trash, legacy, thread, versions, meta, journal, tab, now, budget, ever, kept>>

ReloadTab(t) ==
  /\ budget.reloads < MaxReloads
  /\ budget' = [budget EXCEPT !.reloads = @ + 1]
  /\ tab' = [tab EXCEPT ![t] = NewTab]
  /\ UNCHANGED <<docs, trash, legacy, thread, versions, meta, asset, journal, now, ever, kept>>

Tick ==
  /\ now < MaxTime
  /\ now' = now + 1
  /\ UNCHANGED <<docs, trash, legacy, thread, versions, meta, asset, journal, tab, budget, ever, kept>>

LocalNext ==
  \/ \E d \in Docs : CreateDocument(d) \/ DeleteDocument(d) \/ UploadAsset(d)
  \/ \E t \in LocalTabs :
       \/ OpenTrash(t) \/ PurgeReview(t) \/ PurgeAssets(t) \/ PurgeEnds(t)
       \/ MigrationReads(t) \/ MigrationWrites(t) \/ MigrationCleans(t) \/ ReloadTab(t)
       \/ \E d \in Docs : RestoreDocument(t, d) \/ BeginPurge(t, d) \/ WriteThread(t, d) \/ CreateVersion(t, d)
       \/ \E d \in Docs, v \in 0..MaxSaves : DeleteVersion(t, d, v)
  \/ Tick

LocalSpec == LocalInit /\ [][LocalNext]_localVars

------------------------------------------------------------------------------
(* Properties. *)

\* "It remains recoverable in this browser for 30 days": a document that was not
\* purged is in the list or in the trash.  The code does not keep that promise to the
\* document whose second write the quota refused, it is in neither; to the others it does.
Recoverable == ever \ budget.refused \subseteq docs \union DOMAIN trash

\* The counter that enforces the version limit counts the versions, so their
\* number stays below the limit whatever tabs create, delete and purge (a document
\* an older client wrote may be migrated by two tabs, and counted by the second).
VersionsCounted ==
  \A d \in Docs \ Legacy : meta[d] = Cardinality(versions[d]) /\ Cardinality(versions[d]) <= MaxVersions

\* A local document that was not purged is in the list or in the trash, whatever two
\* tabs do to it and to others and whatever writes the quota refuses of others, and the
\* counter of its versions counts them (demo/workspace.ts, data/review.ts).
LocalKept == Recoverable /\ VersionsCounted
=============================================================================
