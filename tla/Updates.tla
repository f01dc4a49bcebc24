-------------------------------- MODULE Updates --------------------------------
(***************************************************************************)
(* How the program updates itself.                                         *)
(*                                                                         *)
(* Its own code, in a git checkout (src/self-update.ts): a check fetches   *)
(* and counts the commits HEAD is behind; an update pulls, installs and    *)
(* builds, then restarts the process.  The version it claims towards the   *)
(* backend (src/update-checker.ts): a check reads the appcast, applies the *)
(* version at once and starts the full-update pipeline as a child.  The    *)
(* admin route (src/routes/admin/update.ts) runs both checks in turn.      *)
(*                                                                         *)
(* Commits and published versions are numbered in order.  Left out: the    *)
(* text of logs, changelogs and progress; the release check of the docker  *)
(* and electron modes, which offers and applies nothing; what a command    *)
(* that ran out of time leaves running behind its shell.  Bounds: the last *)
(* commit and version, MaxRestarts, one check by each caller.              *)
(***************************************************************************)
EXTENDS Integers, FiniteSets

CONSTANTS MaxCommit, MaxVersion, MaxRestarts,
          AutoUpdate     \* config update.auto_update

ASSUME UpdatesAssumption ==
    MaxCommit \in Nat /\ MaxVersion \in Nat /\ MaxRestarts \in Nat /\ AutoUpdate \in BOOLEAN

VARIABLES
    origin,        \* head of master at the remote
    fetched,       \* origin/master here
    head,          \* HEAD of the checkout
    installed,     \* commit node_modules was installed for
    built,         \* commit dist was built from
    running,       \* commit whose build the process runs
    behind,        \* _cachedResult: TRUE if it offers an update
    inProgress,    \* _proxyUpdateInProgress
    updater,       \* stage of each applyProxySelfUpdate, by caller
    restart,       \* hardRestart
    listening,     \* the server accepts connections
    published,     \* version in the appcast
    baseline,      \* client version of config/default.yaml
    override,      \* version-state.json
    clientVersion, \* getConfig().client, what requests claim
    reportedVersion, \* current_version of _currentState
    pipelineBusy,  \* _updateInProgress
    pipelines,     \* full-update children alive
    checker,       \* the checks under way, by caller
    restartsDone,
    survivors      \* children that outlived the process that started them

codeVars == <<origin, fetched, head, installed, built, running, behind, inProgress,
              updater, restart, listening>>
versionVars == <<published, baseline, override, clientVersion, reportedVersion,
                 pipelineBusy, pipelines>>
updateVars == <<codeVars, versionVars, checker, restartsDone, survivors>>

\* runCheck on its timer, checkForUpdate on its own, POST /admin/check-update.
Checker == {"selfTimer", "poll", "admin"}

Commit == 0 .. MaxCommit
Version == 0 .. MaxVersion
NoVersion == -1

NoCheck == [at |-> "idle", saw |-> NoVersion, since |-> 0]

At(stage) == [NoCheck EXCEPT !.at = stage]

Command == {"pull", "install", "build"}

-----------------------------------------------------------------------------
(* The outside *)

Push ==
    /\ origin < MaxCommit
    /\ origin' = origin + 1
    /\ UNCHANGED <<fetched, head, installed, built, running, behind, inProgress, updater,
                   restart, listening, versionVars, checker, restartsDone, survivors>>

Publish ==
    /\ published < MaxVersion
    /\ published' = published + 1
    /\ UNCHANGED <<codeVars, baseline, override, clientVersion, reportedVersion, pipelineBusy,
                   pipelines, checker, restartsDone, survivors>>

-----------------------------------------------------------------------------
(* The check of the version *)

\* loadCurrentConfig: the override if there is one.
Current == IF override # NoVersion THEN override ELSE baseline

Appcast == [at |-> "appcast", saw |-> Current, since |-> published]

PollStarts ==
    /\ listening /\ checker["poll"] = NoCheck
    /\ checker' = [checker EXCEPT !["poll"] = Appcast]
    /\ UNCHANGED <<codeVars, versionVars, restartsDone, survivors>>

\* The answer is the appcast as it was at some moment of the call, or a failure.
AppcastFails(c) ==
    /\ checker[c].at = "appcast"
    /\ checker' = [checker EXCEPT ![c] = NoCheck]
    /\ UNCHANGED <<codeVars, versionVars, restartsDone, survivors>>

AppcastAnswers(c, v) ==
    /\ checker[c].at = "appcast"
    /\ v \in checker[c].since .. published
    /\ checker' = [checker EXCEPT ![c] = NoCheck]
    /\ reportedVersion' = v
    /\ IF v = checker[c].saw
       THEN UNCHANGED <<override, clientVersion, pipelineBusy, pipelines>>
       ELSE /\ clientVersion' = v
            /\ override' \in {v, override}     \* the write may fail
            /\ pipelineBusy' = TRUE
            /\ pipelines' = IF pipelineBusy THEN pipelines ELSE pipelines + 1
    /\ UNCHANGED <<codeVars, published, baseline, restartsDone, survivors>>

\* The child exits (killed or not) or cannot be started.  It may have changed
\* default.yaml; if it ends well the whole configuration is loaded again.
PipelineEnds(changed, ok) ==
    /\ pipelines > 0
    /\ pipelines' = pipelines - 1
    /\ pipelineBusy' = FALSE
    /\ baseline' = IF changed THEN published ELSE baseline
    /\ clientVersion' = IF ok THEN baseline' ELSE clientVersion
    /\ UNCHANGED <<codeVars, published, override, reportedVersion, checker, restartsDone, survivors>>

-----------------------------------------------------------------------------
(* The check of the code *)

CheckStarts(c) ==
    /\ listening /\ c \in {"selfTimer", "admin"} /\ checker[c] = NoCheck
    /\ checker' = [checker EXCEPT ![c] = At("fetch")]
    /\ UNCHANGED <<codeVars, versionVars, restartsDone, survivors>>

\* The admin route goes on with the appcast; runCheck is done.
Continued(c) == IF c = "admin" THEN Appcast ELSE NoCheck

Fetch(c) ==
    /\ checker[c].at = "fetch"
    /\ fetched' = origin
    /\ checker' = [checker EXCEPT ![c] = At("count")]
    /\ UNCHANGED <<origin, head, installed, built, running, behind, inProgress, updater,
                   restart, listening, versionVars, restartsDone, survivors>>

\* git fetch or rev-list fails: nothing is offered.
CheckFails(c) ==
    /\ checker[c].at \in {"fetch", "count"}
    /\ behind' = FALSE
    /\ checker' = [checker EXCEPT ![c] = Continued(c)]
    /\ UNCHANGED <<origin, fetched, head, installed, built, running, inProgress, updater,
                   restart, listening, versionVars, restartsDone, survivors>>

Count(c) ==
    /\ checker[c].at = "count"
    /\ behind' = (head < fetched)
    /\ IF c = "selfTimer" /\ behind' /\ ~inProgress /\ AutoUpdate
       THEN /\ inProgress' = TRUE
            /\ updater' = [updater EXCEPT ![c] = "pull"]
            /\ checker' = [checker EXCEPT ![c] = At("apply")]
       ELSE /\ checker' = [checker EXCEPT ![c] = Continued(c)]
            /\ UNCHANGED <<inProgress, updater>>
    /\ UNCHANGED <<origin, fetched, head, installed, built, running, restart, listening,
                   versionVars, restartsDone, survivors>>

-----------------------------------------------------------------------------
(* The update of the code *)

\* Mutant: a second update is not refused.
ApplyUpdateAnyway ==
    /\ listening /\ updater["admin"] = "idle"
    /\ inProgress' = TRUE
    /\ updater' = [updater EXCEPT !["admin"] = "pull"]
    /\ UNCHANGED <<origin, fetched, head, installed, built, running, behind, restart,
                   listening, versionVars, checker, restartsDone, survivors>>

\* POST /admin/apply-update
ApplyUpdate ==
    /\ listening /\ ~inProgress
    /\ inProgress' = TRUE
    /\ updater' = [updater EXCEPT !["admin"] = "pull"]
    /\ UNCHANGED <<origin, fetched, head, installed, built, running, behind, restart,
                   listening, versionVars, checker, restartsDone, survivors>>

UpdateOver(u) ==
    /\ inProgress' = FALSE
    /\ updater' = [updater EXCEPT ![u] = "idle"]
    /\ checker' = IF u = "selfTimer" THEN [checker EXCEPT ![u] = NoCheck] ELSE checker

UpdateFails(u) ==
    /\ updater[u] # "idle"
    /\ UpdateOver(u)
    /\ UNCHANGED <<origin, fetched, head, installed, built, running, behind, restart,
                   listening, versionVars, restartsDone, survivors>>

Pull(u) ==
    /\ updater[u] = "pull"
    /\ fetched' = origin /\ head' = origin
    /\ updater' = [updater EXCEPT ![u] = "install"]
    /\ UNCHANGED <<origin, installed, built, running, behind, inProgress, restart, listening,
                   versionVars, checker, restartsDone, survivors>>

InstallModules(u) ==
    /\ updater[u] = "install"
    /\ installed' = head
    /\ updater' = [updater EXCEPT ![u] = "build"]
    /\ UNCHANGED <<origin, fetched, head, built, running, behind, inProgress, restart,
                   listening, versionVars, checker, restartsDone, survivors>>

\* The update counts as over half a second before the restart begins.
Build(u) ==
    /\ updater[u] = "build"
    /\ built' = head
    /\ restart' = IF restart = "none" THEN "delayed" ELSE restart
    /\ UpdateOver(u)
    /\ UNCHANGED <<origin, fetched, head, installed, running, behind, listening, versionVars,
                   restartsDone, survivors>>

RestartBegins ==
    /\ restart = "delayed"
    /\ restart' = "closing" /\ listening' = FALSE
    /\ UNCHANGED <<origin, fetched, head, installed, built, running, behind, inProgress,
                   updater, versionVars, checker, restartsDone, survivors>>

\* Closed, or three seconds later: without the node executable nothing is spawned.
RestartAborted ==
    /\ restart = "closing"
    /\ restart' = "none"
    /\ UNCHANGED <<origin, fetched, head, installed, built, running, behind, inProgress,
                   updater, listening, versionVars, checker, restartsDone, survivors>>

\* The children of the process: the git or npm command its updates run, its full update.
Children ==
    {[start |-> restartsDone, does |-> updater[u]] : u \in {v \in DOMAIN updater : updater[v] # "idle"}}
    \cup IF pipelines > 0 THEN {[start |-> restartsDone, does |-> "pipeline"]} ELSE {}

\* The new process, after hardRestart or after a crash: it reads default.yaml only.
\* Nobody ends the children of the old one, and some of them live on.
NewProcess ==
    /\ restartsDone < MaxRestarts
    /\ running' = built
    /\ behind' = FALSE /\ inProgress' = FALSE /\ restart' = "none" /\ listening' = TRUE
    /\ updater' = [u \in DOMAIN updater |-> "idle"]
    /\ clientVersion' = baseline
    /\ reportedVersion' = NoVersion /\ pipelineBusy' = FALSE /\ pipelines' = 0
    /\ checker' = [c \in Checker |-> NoCheck]
    /\ restartsDone' = restartsDone + 1
    /\ \E alive \in SUBSET Children : survivors' = survivors \cup alive
    /\ UNCHANGED <<origin, fetched, head, installed, built, published, baseline, override>>

\* A child without its process ends, with its work done or not, and no one takes notice.
SurvivorEnds(s, done) ==
    /\ survivors' = survivors \ {s}
    /\ fetched' = IF done /\ s.does = "pull" THEN origin ELSE fetched
    /\ head' = IF done /\ s.does = "pull" THEN origin ELSE head
    /\ installed' = IF done /\ s.does = "install" THEN head ELSE installed
    /\ built' = IF done /\ s.does = "build" THEN head ELSE built
    /\ baseline' = IF done /\ s.does = "pipeline" THEN published ELSE baseline
    /\ UNCHANGED <<origin, running, behind, inProgress, updater, restart, listening, published,
                   override, clientVersion, reportedVersion, pipelineBusy, pipelines, checker,
                   restartsDone>>

UpdateInit ==
    /\ origin = 0 /\ fetched = 0 /\ head = 0 /\ installed = 0 /\ built = 0 /\ running = 0
    /\ behind = FALSE /\ inProgress = FALSE /\ restart = "none" /\ listening = TRUE
    /\ updater = [u \in {"selfTimer", "admin"} |-> "idle"]
    /\ published = 0 /\ baseline = 0 /\ clientVersion = 0
    /\ override = NoVersion /\ reportedVersion = NoVersion
    /\ pipelineBusy = FALSE /\ pipelines = 0
    /\ checker = [c \in Checker |-> NoCheck]
    /\ restartsDone = 0 /\ survivors = {}

UpdateStep(u) == UpdateFails(u) \/ Pull(u) \/ InstallModules(u) \/ Build(u)

UpdateNext ==
    \/ Push \/ Publish \/ PollStarts \/ ApplyUpdate
    \/ \E c \in Checker :
          \/ CheckStarts(c) \/ Fetch(c) \/ CheckFails(c) \/ Count(c) \/ AppcastFails(c)
          \/ \E v \in Version : AppcastAnswers(c, v)
    \/ \E u \in DOMAIN updater : UpdateStep(u)
    \/ \E changed, ok \in BOOLEAN : PipelineEnds(changed, ok)
    \/ RestartBegins \/ RestartAborted \/ NewProcess
    \/ \E s \in survivors, done \in BOOLEAN : SurvivorEnds(s, done)

UpdateSpec == UpdateInit /\ [][UpdateNext]_updateVars

-----------------------------------------------------------------------------
(* Properties *)

\* Every variable keeps its type.
UpdateTypeOK ==
    /\ {origin, fetched, head, installed, built, running} \subseteq Commit
    /\ behind \in BOOLEAN /\ inProgress \in BOOLEAN /\ listening \in BOOLEAN
    /\ updater \in [{"selfTimer", "admin"} -> {"idle", "pull", "install", "build"}]
    /\ restart \in {"none", "delayed", "closing"}
    /\ {published, baseline, clientVersion} \subseteq Version
    /\ {override, reportedVersion} \subseteq Version \cup {NoVersion}
    /\ pipelineBusy \in BOOLEAN /\ pipelines \in 0 .. 1
    /\ checker \in [Checker -> [at : {"idle", "fetch", "count", "apply", "appcast"},
                                saw : Version \cup {NoVersion}, since : Version]]
    /\ restartsDone \in 0 .. MaxRestarts
    /\ \A s \in survivors : s.start \in 0 .. restartsDone - 1 /\ s.does \in Command \cup {"pipeline"}

\* However the timer, its own check and the dashboard interleave, a process has one update
\* at work on the checkout at a time (self-update.ts:354), and so leaves no more than one
\* command of an update behind when it ends.
OneUpdateAtATime ==
    /\ Cardinality({u \in DOMAIN updater : updater[u] # "idle"}) <= (IF inProgress THEN 1 ELSE 0)
    /\ \A s, t \in survivors :
          s.start = t.start /\ s.does # "pipeline" /\ t.does # "pipeline" => s = t

\* A process has at most one full-update child, and the flag is up just as long as it has
\* it, also when the child cannot be started or is killed.
OnePipelineAtATime == pipelines = IF pipelineBusy THEN 1 ELSE 0

\* "Protected by a lock to prevent concurrent runs" (update-checker.ts:111): the lock is
\* the process's own, and its child may outlive it.
OneFullUpdate == Cardinality({s \in survivors : s.does = "pipeline"}) + pipelines <= 1

\* "Update already in progress" (self-update.ts:354): as much of the commands git and npm.
OneUpdateOnCheckout ==
    Cardinality({s \in survivors : s.does # "pipeline"})
    + Cardinality({u \in DOMAIN updater : updater[u] # "idle"}) <= 1

\* The version file and the running configuration agree after an update of the version,
\* until the configuration is loaded anew: what survives is what was claimed.
\* A restart or a reload reads default.yaml, so what README.md:145 calls an automatic
\* synchronisation is undone, and no later check repairs it: it compares the override.
ClaimsTheReportedVersion == reportedVersion # NoVersion => clientVersion = reportedVersion

\* "pull -> install -> build -> restart after an update is detected" (CHANGELOG.md:33):
\* when nothing is under way, code that is not the fetched one's is offered as an
\* update.  After an install or a build that failed HEAD has moved, and nothing is.
OutdatedIsOffered ==
    (\A u \in DOMAIN updater : updater[u] = "idle") /\ (\A c \in Checker : checker[c] = NoCheck)
    /\ restart = "none" /\ restartsDone = 0 /\ running < fetched => behind

\* "the existence check of node prevents a silent death" (CHANGELOG.md:254): a process
\* that is not about to be replaced serves.  The check comes after the server closed.
NoSilentDeath == restart = "none" => listening

\* A restart does not come while an update works on the checkout.  The flag is given
\* free half a second and a graceful close before the process ends.
NoRestartDuringUpdate ==
    [][restartsDone' # restartsDone /\ restart = "closing" =>
          \A u \in DOMAIN updater : updater[u] = "idle"]_updateVars
=============================================================================
