------------------------------- MODULE Impact -------------------------------
(***************************************************************************)
(* Which checks a change needs (scripts/ci-impact.mjs).  A path is the     *)
(* directory a rule names and what its name matches; only combinations a   *)
(* tree can have are listed.  classifyPaths takes the paths of a change    *)
(* one by one and merges the profile and its checks.                       *)
(***************************************************************************)
EXTENDS Naturals, Sequences

\* core: auth, browser, collab, editor, styles, workers; pure: what needs no
\* browser; proofs: scripts that prove a release.
ClientDirs == {"public", "core", "components", "pure", "web"}
Dirs == ClientDirs \cup {"welcome", "crates", "harness", "proofs", "scripts", "deploy", "docs", "fixtures"}

RepoPaths ==
    (Dirs \X {"plain", "test", "css"}) \cup (ClientDirs \X {"dts"}) \cup
    ({"workflows", "scripts", "harness"} \X {"selector"}) \cup
    ({"workflows", "scripts", "harness"} \X {"deployer"}) \cup
    ({"root", "client", "crates"} \X {"manifest"}) \cup
    ({"root"} \X {"plain", "unsafe", "readme", "gitignore"}) \cup
    ({"workflows", "cursor", "chromiumProofs", "motionProof"} \X {"plain"}) \cup
    {<<"deploy", "service">>, <<"public", "engine">>, <<"scripts", "tokens">>}

In(dirs) == {p \in RepoPaths : p[1] \in dirs}
Named(names) == {p \in RepoPaths : p[2] \in names}

\* What selects the checks, and its tests.
Selectors == Named({"selector"})

\* isTestOnly, of what earlier rules leave.
Tests == Named({"test", "tokens"}) \cup (Named({"selector"}) \cap In({"harness"}))

\* Rules are tried in order: the paths, their profile, and whether they are
\* part of what runs.
TestRules == <<
    <<In({"public", "core"}), "full", FALSE>>,
    <<In({"crates"}), "serverChromium", FALSE>>,
    <<In({"harness"}), "infra", FALSE>>,
    <<In({"components"}) \cup Named({"tokens"}), "webUnit", FALSE>>,
    <<In({"pure", "web"}), "webUnit", FALSE>>,
    <<RepoPaths, "full", FALSE>> >>

\* The rule that decides a path is the first that names it.
Decides(rules, p, i) == p \in rules[i][1] /\ \A j \in 1 .. i - 1 : p \notin rules[j][1]
FirstOf(rules, p) == rules[CHOOSE i \in DOMAIN rules : Decides(rules, p, i)]

Rules == <<
    <<Named({"unsafe"}), "full", TRUE>>,
    <<Selectors, "full", FALSE>>,
    <<Named({"service"}), "full", TRUE>>,
    <<Named({"deployer"}) \cup In({"deploy"}), "infra", FALSE>>,
    <<Named({"readme"}) \cup In({"docs"}), "docs", FALSE>>,
    <<In({"cursor"}), "infra", FALSE>>,
    <<In({"workflows"}), "full", FALSE>>,
    <<Named({"dts"}), "webUnit", FALSE>>,
    <<Tests, "tests", FALSE>>,
    <<In({"harness"}), "infra", FALSE>>,
    <<Named({"manifest"}), "full", TRUE>>,
    <<In({"core", "components"}) \cup Named({"engine", "css"}), "full", TRUE>>,
    <<In({"chromiumProofs"}), "webChromium", FALSE>>,
    <<In({"motionProof"}), "webUnit", FALSE>>,
    <<In({"proofs"}), "full", FALSE>>,
    <<In({"crates"}), "serverChromium", TRUE>>,
    <<In({"pure"}), "webUnit", TRUE>>,
    <<In({"web"}), "webChromium", TRUE>>,
    <<In({"public", "welcome", "scripts"}), "full", TRUE>>,
    <<In({"fixtures"}), "full", FALSE>>,
    <<Named({"gitignore"}), "infra", FALSE>>,
    <<RepoPaths, "full", TRUE>> >>

ClassifyPath(p) ==
    LET rule == FirstOf(Rules, p)
    IN  IF rule[2] = "tests" THEN FirstOf(TestRules, p) ELSE rule

Profile(p) == ClassifyPath(p)[2]
Runtime(p) == ClassifyPath(p)[3]

\* PROFILE_CONFIG: the checks of a profile and its browsers.
ProfileConfig == [
    none |-> {"chromium"}, docs |-> {"chromium"}, infra |-> {"harness", "chromium"},
    webUnit |-> {"web", "chromium"}, webChromium |-> {"web", "service", "chromium"},
    serverChromium |-> {"rust", "service", "chromium"},
    full |-> {"rust", "web", "harness", "service", "chromium", "firefox", "webkit"}]

ProfileOrder == [none |-> 0, docs |-> 1, infra |-> 2, webUnit |-> 3, webChromium |-> 4,
                 serverChromium |-> 4, full |-> 5]

Family(profile) ==
    CASE profile \in {"webUnit", "webChromium"} -> "web"
      [] profile = "serverChromium" -> "server"
      [] OTHER -> profile

MergeProfile(current, next) ==
    IF {Family(current), Family(next)} = {"web", "server"} THEN "full"
    ELSE IF ProfileOrder[next] > ProfileOrder[current] THEN next ELSE current

\* What a set of paths is to be classified as: the checks of all of them, and
\* all checks if server and web both changed.
Needed(paths) ==
    LET profiles == {Profile(p) : p \in paths}
    IN  IF {"web", "server"} \subseteq {Family(f) : f \in profiles}
        THEN ProfileConfig.full
        ELSE ProfileConfig.none \cup UNION {ProfileConfig[f] : f \in profiles}

-----------------------------------------------------------------------------
CONSTANT MaxPaths   \* bound: paths of a change

ASSUME ImpactAssumption == MaxPaths \in Nat

VARIABLES changed, untaken, profile, runtimeChanged, requirements, merged

impactVars == <<changed, untaken, profile, runtimeChanged, requirements, merged>>

ImpactInit ==
    /\ \/ changed = {}
       \/ \E f \in [1 .. MaxPaths -> RepoPaths] : changed = {f[i] : i \in 1 .. MaxPaths}
    /\ untaken = changed /\ merged = FALSE
    /\ profile = IF changed = {} THEN "none" ELSE "docs"
    /\ runtimeChanged = FALSE /\ requirements = {"chromium"}

\* Mutant: the merged profile alone says what is needed.
TakeProfileOnly(p) ==
    /\ p \in untaken /\ untaken' = untaken \ {p}
    /\ profile' = MergeProfile(profile, Profile(p))
    /\ runtimeChanged' = (runtimeChanged \/ Runtime(p))
    /\ UNCHANGED <<changed, requirements, merged>>

Take(p) ==
    /\ p \in untaken /\ untaken' = untaken \ {p}
    /\ profile' = MergeProfile(profile, Profile(p))
    /\ runtimeChanged' = (runtimeChanged \/ Runtime(p))
    /\ requirements' = requirements \cup ProfileConfig[Profile(p)]
    /\ UNCHANGED <<changed, merged>>

\* The end of the loop; a full run may be asked for.
Finish(forceFull) ==
    /\ untaken = {} /\ ~merged /\ merged' = TRUE
    /\ profile' = IF forceFull /\ profile # "none" THEN "full" ELSE profile
    /\ requirements' = requirements \cup ProfileConfig[profile']
    /\ UNCHANGED <<changed, untaken, runtimeChanged>>

ImpactNext ==
    \/ \E p \in untaken : Take(p)
    \/ \E forceFull \in BOOLEAN : Finish(forceFull)

ImpactSpec == ImpactInit /\ [][ImpactNext]_impactVars

----------------------------------------------------------------------------
\* No check that a path of the change needs is lost in the merge, in whatever
\* order the paths are listed; without a request for more nothing else runs.
NoCheckLost ==
    merged => /\ Needed(changed) \subseteq requirements
              /\ requirements \in {Needed(changed), ProfileConfig.full}

\* A change of what selects the checks, or of its tests, is proved by all of the
\* checks there are.
SelectorsProved ==
    merged /\ changed \cap Named({"selector"}) # {} => requirements = ProfileConfig.full

\* A change of tests alone, wherever they are, deploys nothing.
TestsNeverDeploy ==
    merged /\ changed \subseteq Named({"test", "tokens", "selector"}) => ~runtimeChanged

\* The three of them (classifyPaths).
ChecksMerged == NoCheckLost /\ SelectorsProved /\ TestsNeverDeploy
=============================================================================
