------------------------------ MODULE Release ------------------------------
(***************************************************************************)
(* How a release reaches open pages: the server's current release, the     *)
(* service worker (sw.js) with its caches, navigations, and the bootstrap  *)
(* of the engine in a page (EsbtRuntime.load).  The component's manifest   *)
(* and core modules have stable URLs; the wrapper that drives them is part *)
(* of the page's own bundle.                                               *)
(***************************************************************************)
EXTENDS Naturals, Sequences, FiniteSetsExt

CONSTANTS
  Tabs,
  Shell, Component,  \* what each release ships: functions from releases
  Releases,          \* releases 1..Releases are deployed in order
  MaxFailures        \* failed installations

ASSUME ReleaseAssumption ==
  /\ Releases \in Nat \ {0} /\ MaxFailures \in Nat
  /\ DOMAIN Shell = 1..Releases /\ DOMAIN Component = 1..Releases

VARIABLES
  deployed,      \* the release the server serves
  caches,    \* the origin's caches in order of creation: namespace and content
  active,    \* namespace of the active worker, NoNamespace before the first
  install,   \* the installing worker: its namespace and what it still fetches
  tabs,      \* per page: its bundle's release, the bootstrap and its results
  failures

releaseVars == <<deployed, caches, active, install, tabs, failures>>

NoNamespace == <<>>
Paths == {"shell", "manifest", "core"}
NoInstall == [ns |-> NoNamespace, todo |-> {}]
NoPage == [page |-> 0, rt |-> "none", manifest |-> 0, core |-> 0]

ReleaseInit ==
  /\ deployed = 1 /\ caches = <<>> /\ active = NoNamespace /\ install = NoInstall
  /\ tabs = [t \in Tabs |-> NoPage] /\ failures = 0

------------------------------------------------------------------------------
\* stampServiceWorker: the digest of entry documents and component manifest.
Version(r) == <<Shell[r], Component[r]>>

Deploy ==
  /\ deployed < Releases
  /\ deployed' = deployed + 1
  /\ UNCHANGED <<caches, active, install, tabs, failures>>

\* caches.match looks through every cache, oldest first.
Lookup(path) ==
  LET hits == {i \in DOMAIN caches : caches[i].holds[path] # 0}
  IN IF hits = {} THEN 0 ELSE caches[Min(hits)].holds[path]

Stored(ns, path, r) ==
  IF \E i \in DOMAIN caches : caches[i].ns = ns
  THEN [i \in DOMAIN caches |->
          IF caches[i].ns = ns THEN [caches[i] EXCEPT !.holds[path] = r] ELSE caches[i]]
  ELSE Append(caches, [ns |-> ns, holds |-> [p \in Paths |-> IF p = path THEN r ELSE 0]])

\* The browser compares sw.js byte by byte: on a navigation, on visibility, on
\* regained network, hourly.
CheckForUpdate ==
  /\ install = NoInstall /\ active # Version(deployed)
  /\ install' = [ns |-> Version(deployed), todo |-> Paths]
  /\ UNCHANGED <<deployed, caches, active, tabs, failures>>

\* precacheCoherentShell: the manifest, then the rest in any order.
Precache(path) ==
  /\ path \in install.todo /\ ("manifest" \in install.todo => path = "manifest")
  /\ install' = [install EXCEPT !.todo = @ \ {path}]
  /\ caches' = Stored(install.ns, path, deployed)
  /\ UNCHANGED <<deployed, active, tabs, failures>>

\* A request of the installation fails; what was stored stays stored.
InstallFails ==
  /\ install # NoInstall /\ install.todo # {} /\ failures < MaxFailures
  /\ install' = NoInstall /\ failures' = failures + 1
  /\ UNCHANGED <<deployed, caches, active, tabs>>

\* Mutant: the caches of the worker before stay.
ActivateKeeps ==
  /\ install # NoInstall /\ install.todo = {}
  /\ active' = install.ns /\ install' = NoInstall
  /\ UNCHANGED <<deployed, caches, tabs, failures>>

\* skipWaiting, activate: every other namespace is dropped, pages are claimed.
Activate ==
  /\ install # NoInstall /\ install.todo = {}
  /\ active' = install.ns /\ install' = NoInstall
  /\ \E i \in DOMAIN caches : caches[i].ns = install.ns /\ caches' = <<caches[i]>>
  /\ UNCHANGED <<deployed, tabs, failures>>

------------------------------------------------------------------------------
\* networkFirst for navigations: the response refreshes the active worker's
\* shell; without the network the cached shell is shown.
Navigate(t, online) ==
  /\ IF online
     THEN /\ tabs' = [tabs EXCEPT ![t] = [NoPage EXCEPT !.page = deployed]]
          /\ caches' = IF active = NoNamespace THEN caches ELSE Stored(active, "shell", deployed)
     ELSE /\ active # NoNamespace /\ Lookup("shell") # 0
          /\ tabs' = [tabs EXCEPT ![t] = [NoPage EXCEPT !.page = Lookup("shell")]]
          /\ UNCHANGED caches
  /\ tabs[t].page # deployed
  /\ UNCHANGED <<deployed, active, install, failures>>

\* cacheFirst for the stable component URLs.
Fetched(path) == IF active # NoNamespace /\ Lookup(path) # 0 THEN Lookup(path) ELSE deployed
Refilled(path) ==
  IF active # NoNamespace /\ Lookup(path) = 0 THEN Stored(active, path, deployed) ELSE caches

\* EsbtRuntime.load: the manifest is fetched and validated ...
LoadManifest(t) ==
  /\ tabs[t].page # 0 /\ tabs[t].rt = "none"
  /\ tabs' = [tabs EXCEPT ![t].rt = "manifest", ![t].manifest = Fetched("manifest")]
  /\ caches' = Refilled("manifest")
  /\ UNCHANGED <<deployed, active, install, failures>>

\* ... and every core module must have the digest it names.  A failure resets
\* the shared promise, so the next caller starts over (loadSharedEsbtRuntime).
LoadCore(t) ==
  /\ tabs[t].rt = "manifest"
  /\ LET core == Fetched("core") IN
     tabs' = [tabs EXCEPT ![t] =
                IF Component[core] = Component[@.manifest] THEN [@ EXCEPT !.core = core, !.rt = "loaded"]
                ELSE [@ EXCEPT !.manifest = 0, !.rt = "none"]]
  /\ caches' = Refilled("core")
  /\ UNCHANGED <<deployed, active, install, failures>>

\* The bootstrap's deadline.
LoadTimesOut(t) ==
  /\ tabs[t].rt = "manifest" /\ failures < MaxFailures
  /\ tabs' = [tabs EXCEPT ![t].rt = "none", ![t].manifest = 0]
  /\ failures' = failures + 1
  /\ UNCHANGED <<deployed, caches, active, install>>

ReleaseNext ==
  \/ Deploy \/ CheckForUpdate \/ (\E p \in Paths : Precache(p)) \/ InstallFails \/ Activate
  \/ \E t \in Tabs : \/ LoadManifest(t) \/ LoadCore(t) \/ LoadTimesOut(t)
                     \/ \E online \in BOOLEAN : Navigate(t, online)

ReleaseSpec == ReleaseInit /\ [][ReleaseNext]_releaseVars

------------------------------------------------------------------------------
\* Every path of the application is in the caches once a worker is active.
OfflineReady == active # NoNamespace => \A p \in Paths : Lookup(p) # 0

\* The current release has the digest of an earlier one, with another between.
RolledBack ==
  \E r \in 1..deployed : \E m \in r..deployed :
    Version(r) = Version(deployed) /\ Version(m) # Version(deployed)

\* The worker of the current release serves no other release's bytes.
StableUrlsCurrent ==
  active = Version(deployed) /\ ~RolledBack =>
    \A p \in Paths : Version(Lookup(p)) = Version(deployed)

\* What a page runs is what its manifest describes.
ModulesMatchManifest ==
  \A t \in Tabs : tabs[t].rt = "loaded" => Component[tabs[t].core] = Component[tabs[t].manifest]

\* Whatever deployment lands between the requests of an installation, however
\* often one fails half-way and whatever navigations and bootstraps store in
\* between: an active worker can start the application without the network; once
\* it is the worker of the current release, the cache-first stable URLs serve
\* nothing of a prior one (sw.js); and a page runs the modules its manifest names
\* (verifyComponentArtifact).  The condition: a release that brings back the
\* digest of an earlier one makes current a worker whose installation a
\* deployment may have cut across, and nothing replaces what it stored.
ReleaseCoherent == OfflineReady /\ StableUrlsCurrent /\ ModulesMatchManifest
=============================================================================
