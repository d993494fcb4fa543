---------------------------- MODULE AppUpdater -----------------------------
(***************************************************************************)
(* The desktop's updater (app-updater.ts): checks by timer and by the      *)
(* user, download, install.  electron-updater answers with events and with *)
(* the promise of the call; calls that overlap share one check and one     *)
(* download.  Nothing but `operation` keeps a check apart from a download  *)
(* that begins while the check is under way.                               *)
(***************************************************************************)
EXTENDS Naturals

CONSTANTS
  MaxChecks,          \* bound: checks begun
  MaxDownloads,       \* bound: downloads begun
  MaxUpdateFaults     \* bound: checks, downloads and installs that fail

ASSUME UpdaterAssumption ==
  MaxChecks \in Nat /\ MaxDownloads \in Nat /\ MaxUpdateFaults \in Nat

VARIABLES
  updateStatus,       \* state.status
  operation,
  installAfterDownload, installationStarted,
  checking,           \* calls of checkForUpdates() that wait for the library
  downloading,        \* the library is downloading
  quitting,           \* setTimeouts of beginInstall that are set
  downloaded,         \* history: a download has completed
  consent,            \* history: what the user asked for last was to install
  checks, downloads, updateFaults   \* bounds used up

updaterVars == <<updateStatus, operation, installAfterDownload, installationStarted, checking,
                 downloading, quitting, downloaded, consent, checks, downloads, updateFaults>>
flagVars == <<installAfterDownload, installationStarted>>
historyVars == <<downloaded, consent>>
updaterBounds == <<checks, downloads, updateFaults>>

UpdaterStatus == {"idle", "checking", "available", "downloading", "ready", "installing",
                  "uptodate", "error"}
Operation == {"idle", "background-check", "manual-check", "download", "install"}

UpdaterTypeOK ==
  /\ updateStatus \in UpdaterStatus /\ operation \in Operation
  /\ installAfterDownload \in BOOLEAN /\ installationStarted \in BOOLEAN
  /\ checking \subseteq {"manual-check", "background-check"} /\ downloading \in BOOLEAN
  /\ quitting \in 0..MaxDownloads + 1
  /\ downloaded \in BOOLEAN /\ consent \in BOOLEAN
  /\ checks \in 0..MaxChecks /\ downloads \in 0..MaxDownloads /\ updateFaults \in 0..MaxUpdateFaults

(* initAppUpdater, of a build that is not a development build.             *)
UpdaterInit ==
  /\ updateStatus = "idle" /\ operation = "idle"
  /\ installAfterDownload = FALSE /\ installationStarted = FALSE
  /\ checking = {} /\ downloading = FALSE /\ quitting = 0
  /\ downloaded = FALSE /\ consent = FALSE
  /\ checks = 0 /\ downloads = 0 /\ updateFaults = 0

UpdateFault == updateFaults < MaxUpdateFaults /\ updateFaults' = updateFaults + 1

-----------------------------------------------------------------------------
(* runCheck, by the user ("manual-check") or by a timer.                   *)
RunCheck(kind) ==
  /\ operation \notin {"download", "install"} /\ kind \notin checking /\ checks < MaxChecks
  /\ checks' = checks + 1
  /\ operation' = kind /\ checking' = checking \cup {kind}
  /\ updateStatus' = IF kind = "manual-check" THEN "checking" ELSE updateStatus
  /\ UNCHANGED <<flagVars, downloading, quitting, historyVars, downloads, updateFaults>>

(* 'update-available' answers every call that waits.                       *)
UpdateAvailable ==
  /\ checking # {} /\ checking' = {}
  /\ updateStatus' = "available" /\ operation' = "idle"
  /\ installAfterDownload' = FALSE /\ installationStarted' = FALSE
  /\ UNCHANGED <<downloading, quitting, historyVars, updaterBounds>>

UpdateNotAvailable ==
  /\ checking # {} /\ checking' = {}
  /\ updateStatus' = "uptodate" /\ operation' = "idle"
  /\ UNCHANGED <<flagVars, downloading, quitting, historyVars, updaterBounds>>

(* Mutant: the listener leaves the status to the callers.                  *)
StatusIsLeft(failed) == updateStatus

(* The 'error' listener: a check in the background fails in silence.       *)
StatusAfterError(failed) == IF failed = "background-check" THEN "idle" ELSE "error"

OnUpdaterError ==
  /\ operation' = "idle" /\ installAfterDownload' = FALSE /\ installationStarted' = FALSE
  /\ UpdateFault

(* A check fails: the listener runs first, then the catch of every caller, *)
(* of which a manual one tells the user.                                   *)
CheckFails ==
  /\ checking # {} /\ checking' = {}
  /\ OnUpdaterError
  /\ updateStatus' = IF "manual-check" \in checking THEN "error" ELSE StatusAfterError(operation)
  /\ UNCHANGED <<downloading, quitting, historyVars, checks, downloads>>

-----------------------------------------------------------------------------
(* downloadUpdate and updateAndInstall.                                    *)
StartDownload(installWhenReady) ==
  /\ updateStatus = "available" /\ downloads < MaxDownloads
  /\ downloads' = downloads + 1
  /\ installAfterDownload' = installWhenReady /\ consent' = installWhenReady
  /\ operation' = "download" /\ updateStatus' = "downloading" /\ downloading' = TRUE
  /\ UNCHANGED <<installationStarted, checking, quitting, downloaded, checks, updateFaults>>

DownloadProgress ==
  /\ downloading
  /\ operation' = "download" /\ updateStatus' = "downloading"
  /\ UNCHANGED <<flagVars, checking, downloading, quitting, historyVars, updaterBounds>>

(* beginInstall                                                            *)
BeginInstall(asked) ==
  IF installationStarted
  THEN operation' = asked /\ updateStatus' = "ready" /\ UNCHANGED <<installationStarted, quitting>>
  ELSE /\ installationStarted' = TRUE /\ operation' = "install" /\ updateStatus' = "installing"
       /\ quitting' = quitting + 1

(* Mutant: the flag of an earlier download is still believed.              *)
InstallsAtOnce == TRUE

InstallsWhenReady == installAfterDownload

UpdateDownloaded ==
  /\ downloading /\ downloading' = FALSE /\ downloaded' = TRUE
  /\ IF InstallsWhenReady
     THEN BeginInstall("idle")
     ELSE operation' = "idle" /\ updateStatus' = "ready" /\ UNCHANGED <<installationStarted, quitting>>
  /\ UNCHANGED <<installAfterDownload, checking, consent, updaterBounds>>

(* The listener and the catch of startDownload come to the same.           *)
DownloadFails ==
  /\ downloading /\ downloading' = FALSE
  /\ OnUpdaterError /\ updateStatus' = StatusAfterError("download")
  /\ UNCHANGED <<checking, quitting, historyVars, checks, downloads>>

(* installUpdate                                                           *)
InstallUpdate ==
  /\ updateStatus = "ready" /\ consent' = TRUE
  /\ BeginInstall(operation)
  /\ UNCHANGED <<installAfterDownload, checking, downloading, downloaded, updaterBounds>>

(* After 800 ms quitAndInstall ends the process, or throws.  The process   *)
(* that starts next begins anew.                                           *)
QuitAndInstall ==
  /\ quitting > 0
  /\ updateStatus' = "idle" /\ operation' = "idle"
  /\ installAfterDownload' = FALSE /\ installationStarted' = FALSE
  /\ checking' = {} /\ downloading' = FALSE /\ quitting' = 0
  /\ downloaded' = FALSE /\ consent' = FALSE
  /\ UNCHANGED updaterBounds

InstallFails ==
  /\ quitting > 0 /\ quitting' = quitting - 1
  /\ UpdateFault
  /\ installationStarted' = FALSE /\ operation' = "idle" /\ updateStatus' = "error"
  /\ UNCHANGED <<installAfterDownload, checking, downloading, historyVars, checks, downloads>>

UpdaterNext ==
  \/ RunCheck("manual-check") \/ RunCheck("background-check")
  \/ UpdateAvailable \/ UpdateNotAvailable \/ CheckFails
  \/ \E installWhenReady \in BOOLEAN : StartDownload(installWhenReady)
  \/ DownloadProgress \/ UpdateDownloaded \/ DownloadFails
  \/ InstallUpdate \/ QuitAndInstall \/ InstallFails

UpdaterSpec == UpdaterInit /\ [][UpdaterNext]_updaterVars

-----------------------------------------------------------------------------
(* Properties.                                                             *)

(* An installation, which ends the application, begins only when the last  *)
(* thing the user asked for was to install, however checks and failures    *)
(* interleave with the download (app-updater.ts:131, 171, 177, 261).       *)
InstallIsAskedFor == [][quitting' > quitting => consent' /\ downloaded']_updaterVars

(* What the interface shows as under way is under way, so that it cannot   *)
(* hang: a check by the user, a download, an installation                  *)
(* (app-updater.ts:96-102, 174-212, 259-282).                              *)
BusyStatusIsReal ==
  /\ updateStatus = "checking" => "manual-check" \in checking
  /\ updateStatus = "downloading" => downloading
  /\ updateStatus = "installing" => quitting > 0
=============================================================================
