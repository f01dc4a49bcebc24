----------------------------- MODULE DesktopUpdater -----------------------------
(***************************************************************************)
(* The updates of the desktop application                                  *)
(* (src/packages/electron/electron/auto-updater.ts, and the tray of        *)
(* main.ts): checks every few hours and from the tray, dialogs that ask    *)
(* the user, downloads, and the menu that is built from the state.         *)
(*                                                                         *)
(* electron-updater and the dialogs are external: a check, a download and  *)
(* a question are answered some time later, or never, and any number of    *)
(* them may be open.  Bounds: MaxRelease, MaxOpen questions at once.       *)
(***************************************************************************)
EXTENDS Integers, FiniteSets

CONSTANTS MaxRelease, MaxOpen

ASSUME DesktopAssumption == MaxRelease \in Nat /\ MaxOpen \in Nat

VARIABLES
    isMac, autoDownload,   \* IS_MAC, isAutoDownload
    release,               \* newest release on GitHub; 0 is the version that runs
    upd,                   \* state
    dismissedVersion,
    questions,             \* dialogs open, by kind and the version they name
    checks,                \* a check is under way
    downloads,             \* versions being downloaded
    onDisk,                \* the version quitAndInstall would install
    trayMenu,              \* the tray menu's last entry, as it was last built
    answered,              \* versions the user said Later to
    installing              \* the version that was being installed as the application ended

desktopVars == <<isMac, autoDownload, release, upd, dismissedVersion, questions, checks,
                 downloads, onDisk, trayMenu, answered, installing>>

NoRelease == 0
Releases == 1 .. MaxRelease

-----------------------------------------------------------------------------
(* The tray *)

\* Mutant: the order of the branches is another.
BuildTrayMenuNewest(s) ==
    CASE s.updateAvailable -> [entry |-> "download", version |-> s.version]
      [] s.downloaded -> [entry |-> "install", version |-> s.version]
      [] s.downloading -> [entry |-> "progress", version |-> NoRelease]
      [] OTHER -> [entry |-> "check", version |-> NoRelease]

BuildTrayMenu(s) ==
    CASE s.downloaded -> [entry |-> "install", version |-> s.version]
      [] ~s.downloaded /\ s.downloading -> [entry |-> "progress", version |-> NoRelease]
      [] ~s.downloaded /\ ~s.downloading /\ s.updateAvailable ->
            [entry |-> "download", version |-> s.version]
      [] OTHER -> [entry |-> "check", version |-> NoRelease]

Rebuild(s) == upd' = s /\ trayMenu' = BuildTrayMenu(s)

-----------------------------------------------------------------------------
(* Checks *)

\* A release is published, or the newest one withdrawn.
ReleaseChanges ==
    /\ release' \in {release - 1, release + 1} \cap (Releases \cup {NoRelease})
    /\ UNCHANGED <<isMac, autoDownload, upd, dismissedVersion, questions, checks, downloads,
                   onDisk, trayMenu, answered, installing>>

\* The timers', or the tray's entry: checkForUpdates shares a check that is under way.
CheckForUpdates ==
    /\ ~checks
    /\ checks' = TRUE /\ upd' = [upd EXCEPT !.checking = TRUE]
    /\ UNCHANGED <<isMac, autoDownload, release, dismissedVersion, questions, downloads, onDisk,
                   trayMenu, answered, installing>>

\* electron-updater starts the download itself if autoDownload is set.
UpdateAvailable ==
    LET asks == ~autoDownload /\ release # dismissedVersion IN
    /\ checks /\ release # NoRelease
    /\ asks => Cardinality(questions) < MaxOpen
    /\ checks' = FALSE
    /\ Rebuild([upd EXCEPT !.checking = FALSE, !.updateAvailable = TRUE, !.version = release])
    /\ questions' = questions \cup IF asks THEN {[kind |-> "available", version |-> release]} ELSE {}
    /\ downloads' = downloads \cup IF autoDownload THEN {release} ELSE {}
    /\ UNCHANGED <<isMac, autoDownload, release, dismissedVersion, onDisk, answered, installing>>

\* The menu stays as it is.
UpdateNotAvailable ==
    /\ checks /\ release = NoRelease
    /\ checks' = FALSE
    /\ upd' = [upd EXCEPT !.checking = FALSE, !.updateAvailable = FALSE]
    /\ UNCHANGED <<isMac, autoDownload, release, dismissedVersion, questions, downloads, onDisk,
                   trayMenu, answered, installing>>

\* A check or a download fails.
UpdaterError ==
    /\ \/ checks /\ checks' = FALSE /\ UNCHANGED downloads
       \/ \E v \in downloads : downloads' = downloads \ {v} /\ UNCHANGED checks
    /\ Rebuild([upd EXCEPT !.checking = FALSE, !.downloading = FALSE])
    /\ UNCHANGED <<isMac, autoDownload, release, dismissedVersion, questions, onDisk, answered, installing>>

-----------------------------------------------------------------------------
(* Downloads *)

\* Mutant: macOS downloads like the others.
DownloadAnywhere(v) == downloads' = downloads \cup {v}

\* macOS opens the page of the release in the browser.
Download(v) == downloads' = IF isMac THEN downloads ELSE downloads \cup {v}

\* The updater fetches what the last check found, whatever a dialog or the menu names.
ClickDownload ==
    /\ trayMenu.entry = "download"
    /\ Download(upd.version)
    /\ UNCHANGED <<isMac, autoDownload, release, upd, dismissedVersion, questions, checks, onDisk,
                   trayMenu, answered, installing>>

DownloadProgress ==
    /\ downloads # {}
    /\ Rebuild([upd EXCEPT !.downloading = TRUE])
    /\ UNCHANGED <<isMac, autoDownload, release, dismissedVersion, questions, checks, downloads,
                   onDisk, answered, installing>>

UpdateDownloaded(v) ==
    /\ v \in downloads /\ Cardinality(questions) < MaxOpen
    /\ downloads' = downloads \ {v} /\ onDisk' = v
    /\ Rebuild([upd EXCEPT !.downloading = FALSE, !.downloaded = TRUE])
    /\ questions' = questions \cup {[kind |-> "ready", version |-> v]}
    /\ UNCHANGED <<isMac, autoDownload, release, dismissedVersion, checks, answered, installing>>

-----------------------------------------------------------------------------
(* Answers *)

AnswerDownload(q) ==
    /\ q \in questions /\ q.kind = "available"
    /\ questions' = questions \ {q}
    /\ Download(upd.version)
    /\ UNCHANGED <<isMac, autoDownload, release, upd, dismissedVersion, checks, onDisk, trayMenu,
                   answered, installing>>

\* "Later".
AnswerLater(q) ==
    /\ q \in questions
    /\ questions' = questions \ {q}
    /\ IF q.kind = "available"
       THEN dismissedVersion' = q.version /\ answered' = answered \cup {q.version}
       ELSE UNCHANGED <<dismissedVersion, answered>>
    /\ UNCHANGED <<isMac, autoDownload, release, upd, checks, downloads, onDisk, trayMenu, installing>>

\* Restart Now, the tray's entry, or a quit of the application, which installs too.
InstallUpdate ==
    /\ onDisk # NoRelease
    /\ installing' = onDisk
    /\ UNCHANGED <<isMac, autoDownload, release, upd, dismissedVersion, questions, checks,
                   downloads, onDisk, trayMenu, answered>>

DesktopInit ==
    /\ isMac \in BOOLEAN
    /\ autoDownload \in IF isMac THEN {FALSE} ELSE BOOLEAN
    /\ release = NoRelease
    /\ upd = [checking |-> FALSE, updateAvailable |-> FALSE, downloading |-> FALSE,
              downloaded |-> FALSE, version |-> NoRelease]
    /\ trayMenu = BuildTrayMenu(upd)
    /\ dismissedVersion = NoRelease /\ questions = {} /\ checks = FALSE
    /\ downloads = {} /\ onDisk = NoRelease /\ answered = {}
    /\ installing = NoRelease

DesktopNext ==
    /\ installing = NoRelease
    /\ \/ ReleaseChanges \/ CheckForUpdates \/ UpdateAvailable \/ UpdateNotAvailable
       \/ UpdaterError \/ ClickDownload \/ DownloadProgress \/ InstallUpdate
       \/ \E v \in Releases : UpdateDownloaded(v)
       \/ \E q \in questions : AnswerDownload(q) \/ AnswerLater(q)

DesktopSpec == DesktopInit /\ [][DesktopNext]_desktopVars

-----------------------------------------------------------------------------
(* Properties *)

\* Questions, versions and the menu's entry are of their kinds.
DesktopTypeOK ==
    /\ {release, upd.version, dismissedVersion, onDisk, installing} \subseteq Releases \cup {NoRelease}
    /\ questions \subseteq [kind : {"available", "ready"}, version : Releases]
    /\ Cardinality(questions) <= MaxOpen
    /\ downloads \subseteq Releases /\ (upd.checking => checks)
    /\ trayMenu.entry \in {"check", "download", "progress", "install"}

\* A version that was downloaded can be installed from the tray whatever comes after --
\* newer releases, checks that find or fail, other downloads -- and macOS, where nothing
\* can be installed, never gets there by the menu, a dialog or the configuration.
DownloadedStaysOffered ==
    /\ onDisk # NoRelease => trayMenu.entry = "install"
    /\ isMac => downloads = {} /\ trayMenu.entry \notin {"install", "progress"}

\* "Don't re-prompt if user already dismissed this version" (auto-updater.ts:78).  With
\* two questions open, the answer to the older one forgets that the newer was dismissed.
NoAskingAgain ==
    [][\A q \in questions' \ questions : q.kind = "available" => q.version \notin answered]_desktopVars

\* "Install Update (v...)": the entry names what it installs.  A check that finds a newer
\* release changes the name, and what is on disk is still the older one.
InstallNamesIt == trayMenu.entry = "install" => trayMenu.version = onDisk

\* The menu is the one of the state: after a check that finds nothing any more it is not.
MenuIsCurrent == trayMenu = BuildTrayMenu(upd)
=============================================================================
