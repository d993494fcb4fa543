---------------------------- MODULE DesktopProofs -----------------------------
(***************************************************************************)
(* Proofs about the desktop application, for every value of the            *)
(* constants: its updater (AppUpdater), settings file (SettingsFile),      *)
(* sessions and streams (DesktopSessions), pages (ClusterPage,             *)
(* DeployPage, CicdPage), alert rules (AlertRules), readings               *)
(* (MonitorReadings) and monitors (DesktopMonitors, over the proofs about  *)
(* its connections); and the properties of the whole application that its  *)
(* run checks.                                                             *)
(***************************************************************************)
EXTENDS MCDesktop, SshConnectionProofs, FiniteSetTheorems, WellFoundedInduction, TLAPS

-----------------------------------------------------------------------------
(* The updater. What was downloaded is behind every status that says so,   *)
(* and the user's wish behind the flag that installs after a download.     *)

\* A download that has completed is behind every "ready", and the user's wish behind
\* the flag the listener of 'update-downloaded' reads.
Justified ==
  /\ updateStatus = "ready" => downloaded
  /\ installAfterDownload => consent
  /\ quitting \in Nat

LEMMA InitJustified == UpdaterInit => Justified /\ BusyStatusIsReal
BY DEF UpdaterInit, Justified, BusyStatusIsReal

\* A check, however it is answered, changes neither what was downloaded nor what was
\* asked for, but to forget it.
LEMMA ChecksKeep ==
  ASSUME Justified, BusyStatusIsReal,
         \/ RunCheck("manual-check") \/ RunCheck("background-check")
         \/ UpdateAvailable \/ UpdateNotAvailable \/ CheckFails
  PROVE  Justified' /\ BusyStatusIsReal' /\ quitting' = quitting
<1>1. CASE RunCheck("manual-check")
  BY <1>1 DEF RunCheck, flagVars, historyVars, Justified, BusyStatusIsReal
<1>2. CASE RunCheck("background-check")
  BY <1>2 DEF RunCheck, flagVars, historyVars, Justified, BusyStatusIsReal
<1>3. CASE UpdateAvailable
  BY <1>3 DEF UpdateAvailable, historyVars, updaterBounds, Justified, BusyStatusIsReal
<1>4. CASE UpdateNotAvailable
  BY <1>4 DEF UpdateNotAvailable, flagVars, historyVars, updaterBounds, Justified, BusyStatusIsReal
<1>5. CASE CheckFails
  <2>1. updateStatus' \in {"idle", "error"}
    BY <1>5 DEF CheckFails, StatusAfterError
  <2> QED BY <1>5, <2>1 DEF CheckFails, OnUpdaterError, historyVars, Justified, BusyStatusIsReal
<1> QED BY <1>1, <1>2, <1>3, <1>4, <1>5

LEMMA DownloadsKeep ==
  ASSUME Justified, BusyStatusIsReal,
         \/ \E installWhenReady \in BOOLEAN : StartDownload(installWhenReady)
         \/ DownloadProgress \/ UpdateDownloaded \/ DownloadFails
  PROVE  Justified' /\ BusyStatusIsReal' /\ (quitting' > quitting => consent' /\ downloaded')
<1>1. ASSUME NEW w \in BOOLEAN, StartDownload(w)
      PROVE  Justified' /\ BusyStatusIsReal' /\ quitting' = quitting
  BY <1>1 DEF StartDownload, Justified, BusyStatusIsReal
<1>2. CASE DownloadProgress
  BY <1>2 DEF DownloadProgress, flagVars, historyVars, updaterBounds, Justified, BusyStatusIsReal
<1>3. CASE UpdateDownloaded
  <2>1. downloaded' /\ consent' = consent /\ installAfterDownload' = installAfterDownload
    BY <1>3 DEF UpdateDownloaded
  <2>2. CASE installAfterDownload /\ ~installationStarted
    <3>1. updateStatus' = "installing" /\ quitting' = quitting + 1
      BY <1>3, <2>2 DEF UpdateDownloaded, InstallsWhenReady, BeginInstall
    <3> QED BY <2>1, <2>2, <3>1 DEF Justified, BusyStatusIsReal
  <2>3. CASE ~(installAfterDownload /\ ~installationStarted)
    <3>1. updateStatus' = "ready" /\ quitting' = quitting
      BY <1>3, <2>3 DEF UpdateDownloaded, InstallsWhenReady, BeginInstall
    <3> QED BY <2>1, <3>1 DEF Justified, BusyStatusIsReal
  <2> QED BY <2>2, <2>3
<1>4. CASE DownloadFails
  <2>1. updateStatus' = "error"
    BY <1>4 DEF DownloadFails, StatusAfterError
  <2> QED BY <1>4, <2>1 DEF DownloadFails, OnUpdaterError, historyVars, Justified, BusyStatusIsReal
<1> QED BY <1>1, <1>2, <1>3, <1>4 DEF Justified

LEMMA InstallsKeep ==
  ASSUME Justified, BusyStatusIsReal, InstallUpdate \/ QuitAndInstall \/ InstallFails
  PROVE  Justified' /\ BusyStatusIsReal' /\ (quitting' > quitting => consent' /\ downloaded')
<1>1. CASE InstallUpdate
  <2>1. consent' /\ downloaded' = downloaded /\ downloaded
    BY <1>1 DEF InstallUpdate, Justified
  <2>2. \/ updateStatus' = "ready" /\ quitting' = quitting
        \/ updateStatus' = "installing" /\ quitting' = quitting + 1
    BY <1>1 DEF InstallUpdate, BeginInstall
  <2> QED BY <2>1, <2>2 DEF Justified, BusyStatusIsReal
<1>2. CASE QuitAndInstall
  BY <1>2 DEF QuitAndInstall, Justified, BusyStatusIsReal
<1>3. CASE InstallFails
  BY <1>3 DEF InstallFails, historyVars, Justified, BusyStatusIsReal
<1> QED BY <1>1, <1>2, <1>3

LEMMA NextJustified ==
  ASSUME Justified, BusyStatusIsReal, [UpdaterNext]_updaterVars
  PROVE  Justified' /\ BusyStatusIsReal' /\ (quitting' > quitting => consent' /\ downloaded')
<1>1. CASE UNCHANGED updaterVars
  BY <1>1 DEF updaterVars, Justified, BusyStatusIsReal
<1>2. CASE UpdaterNext
  <2>1. quitting' = quitting => ~(quitting' > quitting)
    BY DEF Justified
  <2> QED BY <1>2, <2>1, ChecksKeep, DownloadsKeep, InstallsKeep DEF UpdaterNext
<1> QED BY <1>1, <1>2

\* However checks by the timers and the user interleave with a download and with
\* failures, the application ends to install only when the last thing the user asked
\* for was to install what has been downloaded (app-updater.ts:131, 171, 177, 261).
THEOREM InstallationsAreAskedFor == UpdaterSpec => InstallIsAskedFor
<1>1. Justified /\ BusyStatusIsReal /\ [UpdaterNext]_updaterVars
        => Justified' /\ BusyStatusIsReal' /\ [quitting' > quitting => consent' /\ downloaded']_updaterVars
  BY NextJustified
<1> QED BY <1>1, InitJustified, PTL DEF UpdaterSpec, InstallIsAskedFor

\* A status that says a check, a download or an installation is under way never
\* outlives it, so that the interface cannot hang (app-updater.ts:96-102, 174-212).
THEOREM BusyStatusStaysReal == UpdaterSpec => []BusyStatusIsReal
<1>1. Justified /\ BusyStatusIsReal /\ [UpdaterNext]_updaterVars => Justified' /\ BusyStatusIsReal'
  BY NextJustified
<1> QED BY <1>1, InitJustified, PTL DEF UpdaterSpec

\* An installation that is to come was begun by a download that has completed: one
\* that is under way, or that is ready and not begun, has still to begin its own.
ToBegin == (IF downloading THEN 1 ELSE 0) + (IF updateStatus = "ready" /\ ~installationStarted THEN 1 ELSE 0)

UpdaterShaped ==
  /\ updateStatus \in UpdaterStatus /\ operation \in Operation
  /\ installAfterDownload \in BOOLEAN /\ installationStarted \in BOOLEAN
  /\ checking \subseteq {"manual-check", "background-check"} /\ downloading \in BOOLEAN
  /\ downloaded \in BOOLEAN /\ consent \in BOOLEAN

InstallsAreCounted ==
  /\ quitting \in Nat /\ quitting + ToBegin <= downloads
  /\ checks \in 0..MaxChecks /\ downloads \in 0..MaxDownloads /\ updateFaults \in 0..MaxUpdateFaults

LEMMA NextUpdaterShaped == UpdaterShaped /\ [UpdaterNext]_updaterVars => UpdaterShaped'
<1> SUFFICES ASSUME UpdaterShaped, [UpdaterNext]_updaterVars PROVE UpdaterShaped'
  OBVIOUS
<1> USE DEF UpdaterShaped, UpdaterStatus, Operation
<1>1. CASE RunCheck("manual-check") \/ RunCheck("background-check")
  BY <1>1 DEF RunCheck, flagVars, historyVars
<1>2. CASE UpdateAvailable \/ UpdateNotAvailable \/ CheckFails
  BY <1>2 DEF UpdateAvailable, UpdateNotAvailable, CheckFails, OnUpdaterError, StatusAfterError, flagVars, historyVars
<1>3. CASE \E installWhenReady \in BOOLEAN : StartDownload(installWhenReady)
  BY <1>3 DEF StartDownload
<1>4. CASE DownloadProgress \/ UpdateDownloaded \/ DownloadFails
  BY <1>4 DEF DownloadProgress, UpdateDownloaded, DownloadFails, BeginInstall, OnUpdaterError, StatusAfterError,
              flagVars, historyVars
<1>5. CASE InstallUpdate \/ QuitAndInstall \/ InstallFails
  BY <1>5 DEF InstallUpdate, QuitAndInstall, InstallFails, BeginInstall, historyVars
<1>6. CASE UNCHANGED updaterVars
  BY <1>6 DEF updaterVars
<1> QED BY <1>1, <1>2, <1>3, <1>4, <1>5, <1>6 DEF UpdaterNext

\* Nothing more is to begin.
LEMMA CountedFrom ==
  ASSUME InstallsAreCounted,
         quitting' \in Nat, quitting' <= quitting, ToBegin' \in Nat, ToBegin' <= ToBegin,
         downloads' = downloads, checks' \in 0..MaxChecks, updateFaults' \in 0..MaxUpdateFaults
  PROVE  InstallsAreCounted'
<1>1. quitting \in Nat /\ ToBegin \in Nat /\ downloads \in Nat /\ quitting + ToBegin <= downloads
  BY UpdaterAssumption DEF InstallsAreCounted, ToBegin
<1>2. PICK q, t, d \in Nat : q = quitting /\ t = ToBegin /\ d = downloads
  BY <1>1
<1>3. PICK p, u \in Nat : p = quitting' /\ u = ToBegin'
  OBVIOUS
<1>4. q + t <= d /\ p <= q /\ u <= t
  BY <1>1, <1>2, <1>3
<1>5. p + u <= d
  BY <1>4
<1>6. quitting' + ToBegin' <= downloads'
  BY <1>2, <1>3, <1>5
<1> QED BY <1>6 DEF InstallsAreCounted

LEMMA NextInstallsCounted ==
  UpdaterShaped /\ InstallsAreCounted /\ [UpdaterNext]_updaterVars => InstallsAreCounted'
<1> SUFFICES ASSUME UpdaterShaped, InstallsAreCounted, [UpdaterNext]_updaterVars PROVE InstallsAreCounted'
  OBVIOUS
<1>0. /\ ToBegin \in Nat /\ quitting \in Nat /\ downloads \in Nat /\ quitting + ToBegin <= downloads
      /\ checks \in 0..MaxChecks /\ downloads \in 0..MaxDownloads /\ updateFaults \in 0..MaxUpdateFaults
  BY UpdaterAssumption DEF ToBegin, InstallsAreCounted
<1>1. CASE RunCheck("manual-check") \/ RunCheck("background-check")
  <2>1. /\ checks' \in 0..MaxChecks /\ UNCHANGED <<quitting, downloads, updateFaults, downloading, installationStarted>>
        /\ updateStatus' \in {"checking", updateStatus}
    BY <1>0, UpdaterAssumption, <1>1 DEF RunCheck, flagVars
  <2>2. ToBegin' <= ToBegin /\ ToBegin' \in Nat
    BY <2>1 DEF ToBegin
  <2>3. quitting' \in Nat /\ quitting' <= quitting /\ checks' \in 0..MaxChecks /\ updateFaults' \in 0..MaxUpdateFaults
    BY <1>0, <2>1
  <2> QED BY <2>1, <2>2, <2>3, CountedFrom
<1>2. CASE UpdateAvailable \/ UpdateNotAvailable \/ CheckFails
  <2>1. /\ updateFaults' \in 0..MaxUpdateFaults /\ UNCHANGED <<quitting, downloads, checks, downloading>>
        /\ updateStatus' # "ready"
    BY <1>0, UpdaterAssumption, <1>2 DEF UpdateAvailable, UpdateNotAvailable, CheckFails, OnUpdaterError, UpdateFault, StatusAfterError, updaterBounds
  <2>2. ToBegin' <= ToBegin /\ ToBegin' \in Nat
    BY <2>1 DEF ToBegin
  <2>3. quitting' \in Nat /\ quitting' <= quitting /\ checks' \in 0..MaxChecks /\ updateFaults' \in 0..MaxUpdateFaults
    BY <1>0, <2>1
  <2> QED BY <2>1, <2>2, <2>3, CountedFrom
<1>3. ASSUME NEW w \in BOOLEAN, StartDownload(w) PROVE InstallsAreCounted'
  <2>1. /\ downloads' = downloads + 1 /\ downloads' \in 0..MaxDownloads /\ UNCHANGED <<quitting, checks, updateFaults>>
        /\ updateStatus' # "ready"
    BY <1>0, UpdaterAssumption, <1>3 DEF StartDownload
  <2>2. ToBegin' <= 1 /\ ToBegin' \in Nat /\ ToBegin >= 0
    BY <2>1 DEF ToBegin
  <2>3. quitting <= downloads /\ quitting' \in Nat
    BY <1>0, <2>1
  <2>4. PICK q, d, u \in Nat : q = quitting /\ d = downloads /\ u = ToBegin'
    BY <1>0, <2>2
  <2>5. q <= d /\ u <= 1
    BY <2>2, <2>3, <2>4
  <2>6. q + u <= d + 1
    BY <2>5
  <2>7. quitting' + ToBegin' <= downloads'
    BY <2>1, <2>4, <2>6
  <2>8. checks' \in 0..MaxChecks /\ updateFaults' \in 0..MaxUpdateFaults
    BY <1>0, <2>1
  <2> QED BY <2>1, <2>3, <2>7, <2>8 DEF InstallsAreCounted
<1>4. CASE DownloadProgress \/ DownloadFails
  <2>1. /\ updateFaults' \in 0..MaxUpdateFaults /\ UNCHANGED <<quitting, downloads, checks>>
        /\ updateStatus' # "ready" /\ downloading
    BY <1>0, UpdaterAssumption, <1>4 DEF DownloadProgress, DownloadFails, OnUpdaterError, UpdateFault, StatusAfterError, updaterBounds
  <2>2. ToBegin' <= ToBegin /\ ToBegin' \in Nat
    BY <2>1 DEF ToBegin
  <2>3. quitting' \in Nat /\ quitting' <= quitting /\ checks' \in 0..MaxChecks /\ updateFaults' \in 0..MaxUpdateFaults
    BY <1>0, <2>1
  <2> QED BY <2>1, <2>2, <2>3, CountedFrom
<1>5. CASE UpdateDownloaded
  <2>1. /\ UNCHANGED <<downloads, checks, updateFaults>> /\ downloading /\ ~downloading'
        /\ \/ updateStatus' = "ready" /\ quitting' = quitting
           \/ updateStatus' = "installing" /\ quitting' = quitting + 1
    BY <1>5 DEF UpdateDownloaded, BeginInstall, updaterBounds
  <2>2. ToBegin >= 1 /\ ToBegin' \in 0..1 /\ (updateStatus' = "installing" => ToBegin' = 0)
    BY <2>1 DEF ToBegin
  <2> QED BY <1>0, <2>1, <2>2 DEF InstallsAreCounted
<1>6. CASE InstallUpdate
  <2>1. /\ UNCHANGED <<downloads, checks, updateFaults, downloading>> /\ updateStatus = "ready"
        /\ \/ installationStarted /\ UNCHANGED <<updateStatus, installationStarted, quitting>>
           \/ ~installationStarted /\ updateStatus' = "installing" /\ quitting' = quitting + 1
    BY <1>6 DEF InstallUpdate, BeginInstall, updaterBounds
  <2>2. \/ ToBegin' = ToBegin /\ quitting' = quitting
        \/ ToBegin' = ToBegin - 1 /\ quitting' = quitting + 1
    BY <1>0, <2>1 DEF ToBegin
  <2> QED BY <1>0, <2>1, <2>2 DEF InstallsAreCounted
<1>7. CASE QuitAndInstall \/ InstallFails
  <2>1. /\ updateFaults' \in 0..MaxUpdateFaults /\ UNCHANGED <<downloads, checks>> /\ updateStatus' # "ready"
        /\ quitting' \in Nat /\ quitting' <= quitting /\ (downloading' => downloading)
    BY <1>0, UpdaterAssumption, <1>7 DEF QuitAndInstall, InstallFails, UpdateFault, updaterBounds
  <2>2. ToBegin' <= ToBegin /\ ToBegin' \in Nat
    BY <2>1 DEF ToBegin
  <2>3. quitting' \in Nat /\ quitting' <= quitting /\ checks' \in 0..MaxChecks /\ updateFaults' \in 0..MaxUpdateFaults
    BY <1>0, <2>1
  <2> QED BY <2>1, <2>2, <2>3, CountedFrom
<1>8. CASE UNCHANGED updaterVars
  <2>1. ToBegin' = ToBegin
    BY <1>8 DEF updaterVars, ToBegin
  <2>2. UNCHANGED <<quitting, downloads, checks, updateFaults>>
    BY <1>8 DEF updaterVars
  <2> QED BY <1>0, <2>1, <2>2 DEF InstallsAreCounted
<1> QED BY <1>1, <1>2, <1>3, <1>4, <1>5, <1>6, <1>7, <1>8 DEF UpdaterNext

\* The updater keeps its types; in particular no more installations are begun than
\* there were downloads, however failures and checks interleave with them.
THEOREM UpdaterTypeCorrect == UpdaterSpec => []UpdaterTypeOK
<1>1. UpdaterInit => UpdaterShaped /\ InstallsAreCounted
  <2> SUFFICES ASSUME UpdaterInit PROVE UpdaterShaped /\ InstallsAreCounted
    OBVIOUS
  <2>1. ToBegin = 0
    BY DEF UpdaterInit, ToBegin
  <2>2. InstallsAreCounted
    BY <2>1, UpdaterAssumption DEF UpdaterInit, InstallsAreCounted
  <2> QED BY <2>2 DEF UpdaterInit, UpdaterShaped, UpdaterStatus, Operation
<1>2. UpdaterShaped /\ InstallsAreCounted => UpdaterTypeOK
  <2> SUFFICES ASSUME UpdaterShaped, InstallsAreCounted PROVE UpdaterTypeOK
    OBVIOUS
  <2>1. ToBegin \in 0..2 /\ quitting \in Nat /\ downloads \in Nat /\ downloads <= MaxDownloads
    BY UpdaterAssumption DEF ToBegin, InstallsAreCounted
  <2>2. quitting \in 0..MaxDownloads + 1
    BY <2>1, UpdaterAssumption DEF InstallsAreCounted
  <2> QED BY <2>2 DEF UpdaterShaped, InstallsAreCounted, UpdaterTypeOK
<1> QED BY <1>1, <1>2, NextUpdaterShaped, NextInstallsCounted, PTL DEF UpdaterSpec

-----------------------------------------------------------------------------
(* The settings file. Unless a load failed, what the file has of the       *)
(* settings is in memory while the application runs.                       *)

Stored == Credential \cup {"none"}

\* What the proofs need of the types: file and memory are records of their kind.
Shaped ==
    /\ settingsFile \in Settings /\ settings \in Settings /\ changes \in 0..MaxSettings
    /\ registered \in [Account -> Stored]
    /\ clients \in [Account -> [Service -> Stored]]
    /\ running \in BOOLEAN /\ misread \in BOOLEAN

-----------------------------------------------------------------------------
(* Types.                                                                  *)

LEMMA DefaultsAreSettings == DefaultData \in Settings /\ DefaultData.own = {}
BY DEF DefaultData, Settings

\* A record of settings whose one field is replaced is one again.
LEMMA ChangedSettings ==
  ASSUME NEW d \in Settings
  PROVE  /\ \A n \in 1..MaxSettings : /\ [d EXCEPT !.own = @ \cup {n}] \in Settings
                                      /\ [d EXCEPT !.own = @ \cup {n}].own = d.own \cup {n}
         /\ \A L \in SUBSET ProjectLink : [d EXCEPT !.links = L] \in Settings /\ [d EXCEPT !.links = L].own = d.own
         /\ \A a \in Account, c \in Stored :
               [d EXCEPT !.accounts[a] = c] \in Settings /\ [d EXCEPT !.accounts[a] = c].own = d.own
BY DEF Settings, Stored

\* The clients after a call are those there were or made with what is registered.
LEMMA WithClientsShaped ==
  ASSUME clients \in [Account -> [Service -> Stored]], registered' \in [Account -> Stored],
         NEW a \in Account, NEW services
  PROVE  /\ WithClients(a, services) \in [Account -> [Service -> Stored]]
         /\ \A b \in Account \ {a}, s \in Service : WithClients(a, services)[b][s] = clients[b][s]
         /\ \A s \in Service : WithClients(a, services)[a][s] \in {clients[a][s], registered'[a]}
         /\ \A s \in Service : WithClients(a, services)[a][s] = "none" \/ clients[a][s] # "none"
                \/ WithClients(a, services)[a][s] = registered'[a]
<1> DEFINE made == [s \in Service |-> IF s \in services /\ clients[a][s] = "none"
                                      THEN registered'[a] ELSE clients[a][s]]
<1>1. made \in [Service -> Stored]
  OBVIOUS
<1>2. WithClients(a, services) = [clients EXCEPT ![a] = made]
  BY DEF WithClients
<1>3. \A s \in Service : made[s] \in {clients[a][s], registered'[a]}
  OBVIOUS
<1> HIDE DEF made
<1>4. WithClients(a, services)[a] = made
  BY <1>2
<1> QED BY <1>1, <1>2, <1>3, <1>4

LEMMA InitShaped == SettingsInit => Shaped
<1> SUFFICES ASSUME SettingsInit PROVE Shaped
  OBVIOUS
<1>1. settingsFile \in Settings /\ settings \in Settings
  BY DefaultsAreSettings DEF SettingsInit
<1>2. changes \in 0..MaxSettings
  BY SettingsAssumption DEF SettingsInit
<1>3. /\ registered \in [Account -> Stored] /\ clients \in [Account -> [Service -> Stored]]
      /\ running \in BOOLEAN /\ misread \in BOOLEAN
  BY DEF SettingsInit, NoneRegistered, NoClients, Stored
<1> QED BY <1>1, <1>2, <1>3 DEF Shaped

LEMMA NextShaped == Shaped /\ [SettingsNext]_settingsVars => Shaped'
<1> SUFFICES ASSUME Shaped, [SettingsNext]_settingsVars PROVE Shaped'
  OBVIOUS
<1> USE DEF Shaped
<1>1. CASE ChangeSettings
  <2>1. changes' \in 1..MaxSettings /\ changes' \in 0..MaxSettings
    BY <1>1, SettingsAssumption DEF ChangeSettings
  <2>2. settings' \in Settings
    BY <1>1, <2>1, ChangedSettings DEF ChangeSettings
  <2>3. settingsFile' \in Settings
    BY <1>1, <2>2 DEF ChangeSettings, Saved
  <2> QED BY <1>1, <2>1, <2>2, <2>3 DEF ChangeSettings, awsVars
<1>2. CASE ResetSettings
  BY <1>2, DefaultsAreSettings DEF ResetSettings, Saved, awsVars
<1>3. CASE StopApplication
  <2>1. registered' \in [Account -> Stored] /\ clients' \in [Account -> [Service -> Stored]]
    BY <1>3 DEF StopApplication, NoneRegistered, NoClients, Stored
  <2> QED BY <1>3, <2>1, DefaultsAreSettings DEF StopApplication
<1>4. CASE StartApplication
  BY <1>4, DefaultsAreSettings DEF StartApplication, Loaded, LoadFailed, awsVars
<1>5. ASSUME NEW l \in ProjectLink, AddProject(l) \/ RemoveProject(l) PROVE Shaped'
  <2>1. PICK data \in Loaded : /\ \/ Saved([data EXCEPT !.links = @ \cup {l}])
                                 \/ Saved([data EXCEPT !.links = @ \ {l}])
                              /\ Taken(data)
    BY <1>5 DEF AddProject, RemoveProject
  <2>2. data \in Settings
    BY <2>1, DefaultsAreSettings DEF Loaded
  <2>3. data.links \cup {l} \in SUBSET ProjectLink /\ data.links \ {l} \in SUBSET ProjectLink
    BY <2>2 DEF Settings
  <2>4. /\ [data EXCEPT !.links = data.links \cup {l}] \in Settings
        /\ [data EXCEPT !.links = data.links \ {l}] \in Settings
    BY <2>2, <2>3, ChangedSettings
  <2>5. settingsFile' \in Settings
    BY <2>1, <2>4 DEF Saved
  <2>6. misread' \in BOOLEAN
    BY <2>1 DEF Taken, LoadFailed
  <2> QED BY <1>5, <2>5, <2>6 DEF AddProject, RemoveProject, awsVars
<1>6. ASSUME NEW a \in Account, NEW c \in Credential, AddAccount(a, c) \/ UpdateAccount(a, c) PROVE Shaped'
  <2>1. c \in Stored
    BY DEF Stored
  <2>2. /\ settingsFile' \in Settings
        /\ misread' \in BOOLEAN
    <3>1. CASE UNCHANGED <<settingsFile, misread>>
      BY <3>1
    <3>2. ASSUME NEW data \in Loaded, Saved([data EXCEPT !.accounts[a] = c]), Taken(data)
          PROVE  settingsFile' \in Settings /\ misread' \in BOOLEAN
      <4>1. data \in Settings
        BY DefaultsAreSettings DEF Loaded
      <4>2. settingsFile' \in Settings
        BY <2>1, <3>2, <4>1, ChangedSettings DEF Saved
      <4> QED BY <3>2, <4>2 DEF Taken, LoadFailed
    <3> QED BY <1>6, <3>1, <3>2 DEF AddAccount, UpdateAccount
  <2>4. registered' \in [Account -> Stored]
    BY <1>6, <2>1 DEF AddAccount, UpdateAccount
  <2>5. NoClients \in [Service -> Stored]
    BY DEF NoClients, Stored
  <2>6. clients' \in [Account -> [Service -> Stored]]
    BY <1>6, <2>5 DEF AddAccount, UpdateAccount, DestroyedClients
  <2> QED BY <1>6, <2>2, <2>4, <2>6 DEF AddAccount, UpdateAccount
<1>7. ASSUME NEW a \in Account, RemoveAccount(a) PROVE Shaped'
  <2>1. "none" \in Stored
    BY DEF Stored
  <2>2. settingsFile' \in Settings /\ misread' \in BOOLEAN
    <3>1. PICK data \in Loaded : Saved([data EXCEPT !.accounts[a] = "none"]) /\ Taken(data)
      BY <1>7 DEF RemoveAccount
    <3>2. data \in Settings
      BY <3>1, DefaultsAreSettings DEF Loaded
    <3>3. settingsFile' \in Settings
      BY <2>1, <3>1, <3>2, ChangedSettings DEF Saved
    <3> QED BY <3>1, <3>3 DEF Taken, LoadFailed
  <2>3. NoClients \in [Service -> Stored]
    BY DEF NoClients, Stored
  <2>4. clients' \in [Account -> [Service -> Stored]] /\ registered' \in [Account -> Stored]
    BY <1>7, <2>1, <2>3 DEF RemoveAccount
  <2> QED BY <1>7, <2>2, <2>4 DEF RemoveAccount
<1>8. ASSUME NEW a \in Account, NEW s \in Service, CallAws(a, s) PROVE Shaped'
  <2>1. registered' \in [Account -> Stored]
    BY <1>8 DEF CallAws, Stored
  <2>2. clients' \in [Account -> [Service -> Stored]]
    BY <1>8, <2>1, WithClientsShaped DEF CallAws
  <2> QED BY <1>8, <2>1, <2>2 DEF CallAws
<1>9. ASSUME NEW a \in Account, GenerateKubeconfig(a) PROVE Shaped'
  <2>1. registered' \in [Account -> Stored]
    BY <1>9 DEF GenerateKubeconfig
  <2>2. clients' \in [Account -> [Service -> Stored]]
    BY <1>9, <2>1, WithClientsShaped DEF GenerateKubeconfig
  <2> QED BY <1>9, <2>1, <2>2 DEF GenerateKubeconfig
<1>10. CASE UNCHANGED settingsVars
  BY <1>10 DEF settingsVars, awsVars
<1> QED BY <1>1, <1>2, <1>3, <1>4, <1>5, <1>6, <1>7, <1>8, <1>9, <1>10 DEF SettingsNext

\* Every reachable state of file, memory and manager is type correct
\* (SettingsTypeOK), for every number of accounts, services and changes.
THEOREM SettingsTypeCorrect == SettingsSpec => []SettingsTypeOK
<1>1. Shaped => SettingsTypeOK
  BY DEF Shaped, SettingsTypeOK, Stored
<1> QED BY <1>1, InitShaped, NextShaped, PTL DEF SettingsSpec

-----------------------------------------------------------------------------
(* Clients.                                                                *)

LEMMA CurrentAfterStep ==
  ASSUME Shaped, ClientsAreCurrent, [SettingsNext]_settingsVars
  PROVE  ClientsAreCurrent'
<1> USE DEF Shaped
<1>1. SUFFICES ASSUME NEW b \in Account, NEW s \in Service
               PROVE  clients'[b][s] \in {"none", registered'[b]}
  BY DEF ClientsAreCurrent
<1>2. clients[b][s] \in {"none", registered[b]}
  BY DEF ClientsAreCurrent
<1>3. CASE UNCHANGED awsVars
  BY <1>2, <1>3 DEF awsVars
<1>4. CASE StopApplication
  BY <1>4 DEF StopApplication, NoClients
<1>5. ASSUME NEW a \in Account, NEW c \in Credential, AddAccount(a, c)
      PROVE  clients'[b][s] \in {"none", registered'[b]}
  BY <1>2, <1>5 DEF AddAccount
<1>6. ASSUME NEW a \in Account, NEW c \in Credential, UpdateAccount(a, c)
      PROVE  clients'[b][s] \in {"none", registered'[b]}
  BY <1>2, <1>6 DEF UpdateAccount, DestroyedClients, NoClients
<1>7. ASSUME NEW a \in Account, RemoveAccount(a)
      PROVE  clients'[b][s] \in {"none", registered'[b]}
  BY <1>2, <1>7 DEF RemoveAccount, NoClients
<1>8. ASSUME NEW a \in Account, NEW services, clients' = WithClients(a, services),
             registered' \in [Account -> Stored],
             registered' = registered \/ (registered[a] = "none" /\ \E c \in Stored : registered' = [registered EXCEPT ![a] = c])
      PROVE  clients'[b][s] \in {"none", registered'[b]}
  <2>1. CASE b # a
    <3>1. clients'[b][s] = clients[b][s]
      BY <1>8, <2>1, WithClientsShaped
    <3>2. registered'[b] = registered[b]
      BY <1>8, <2>1
    <3> QED BY <1>2, <3>1, <3>2
  <2>2. CASE b = a
    <3>1. clients'[a][s] \in {clients[a][s], registered'[a]}
      BY <1>8, WithClientsShaped
    <3>2. clients[a][s] \in {"none", registered'[a]}
      BY <1>2, <1>8, <2>2
    <3> QED BY <2>2, <3>1, <3>2
  <2> QED BY <2>1, <2>2
<1>9. ASSUME NEW a \in Account, NEW t \in Service, CallAws(a, t)
      PROVE  clients'[b][s] \in {"none", registered'[b]}
  <2>1. registered' \in [Account -> Stored]
    BY <1>9 DEF CallAws, Stored
  <2>2. registered' = registered \/ (registered[a] = "none" /\ \E c \in Stored : registered' = [registered EXCEPT ![a] = c])
    BY <1>9 DEF CallAws, Stored
  <2>3. \E services \in SUBSET Service : clients' = WithClients(a, services)
    <3>1. {"ec2", t} \in SUBSET Service /\ {t} \in SUBSET Service
      BY SettingsAssumption
    <3> QED BY <1>9, <3>1 DEF CallAws
  <2> QED BY <1>8, <2>1, <2>2, <2>3
<1>10. ASSUME NEW a \in Account, GenerateKubeconfig(a)
       PROVE  clients'[b][s] \in {"none", registered'[b]}
  <2>1. clients' = WithClients(a, {"eks"}) /\ registered' = registered
    BY <1>10 DEF GenerateKubeconfig
  <2> QED BY <1>8, <2>1
<1>11. CASE ChangeSettings \/ ResetSettings \/ StartApplication
            \/ (\E l \in ProjectLink : AddProject(l) \/ RemoveProject(l))
  BY <1>3, <1>11 DEF ChangeSettings, ResetSettings, StartApplication, AddProject, RemoveProject
<1>12. CASE UNCHANGED settingsVars
  BY <1>3, <1>12 DEF settingsVars
<1> QED BY <1>4, <1>5, <1>6, <1>7, <1>9, <1>10, <1>11, <1>12 DEF SettingsNext

\* However accounts are added, changed and removed around the calls that use them, a
\* cached client never has credentials its account is not registered with
\* (aws-manager.ts, aws-ipc.ts).
THEOREM ClientsStayCurrent == SettingsSpec => []ClientsAreCurrent
<1>1. SettingsInit => ClientsAreCurrent
  BY DEF SettingsInit, ClientsAreCurrent, NoClients
<1>2. Shaped /\ ClientsAreCurrent /\ [SettingsNext]_settingsVars => ClientsAreCurrent'
  BY CurrentAfterStep
<1> QED BY <1>1, <1>2, InitShaped, NextShaped, PTL DEF SettingsSpec

-----------------------------------------------------------------------------
(* Settings.                                                               *)

\* What the file has of the settings is in memory, unless a load failed.
FileIsHeld == running /\ ~misread => settingsFile.own \subseteq settings.own

\* What a handler saves of the data it loaded: the settings in them, and those are
\* the file's or the load failed.
LEMMA LoadedKeepsOwn ==
  ASSUME Shaped, NEW data \in Loaded, Taken(data), settingsFile'.own = data.own
  PROVE  misread' \/ (settingsFile'.own = settingsFile.own /\ misread' = misread)
<1>1. CASE LoadFailed(data)
  BY <1>1 DEF Taken
<1>2. CASE ~LoadFailed(data)
  BY <1>2 DEF Taken, LoadFailed, Loaded, Shaped
<1> QED BY <1>1, <1>2

LEMMA FileStaysHeld ==
  ASSUME Shaped, FileIsHeld, [SettingsNext]_settingsVars
  PROVE  /\ FileIsHeld'
         /\ \/ settingsFile.own \subseteq settingsFile'.own
            \/ settingsFile' = DefaultData /\ settings' = DefaultData /\ running
            \/ misread'
<1> DEFINE Goal == /\ FileIsHeld'
                   /\ \/ settingsFile.own \subseteq settingsFile'.own
                      \/ settingsFile' = DefaultData /\ settings' = DefaultData /\ running
                      \/ misread'
<1>0. settingsFile \in Settings /\ settings \in Settings
  BY DEF Shaped
<1>1. ASSUME UNCHANGED <<settings, running>>,
             misread' \/ (settingsFile'.own = settingsFile.own /\ misread' = misread)
      PROVE  Goal
  BY <1>1 DEF FileIsHeld
<1>2. CASE ChangeSettings
  <2>1. changes' \in 1..MaxSettings
    BY <1>2, SettingsAssumption DEF ChangeSettings, Shaped
  <2>2. settings'.own = settings.own \cup {changes'}
    BY <1>0, <1>2, <2>1, ChangedSettings DEF ChangeSettings
  <2>3. settingsFile' = settings' \/ settingsFile' = settingsFile
    BY <1>2 DEF ChangeSettings, Saved
  <2>4. running /\ misread' = misread /\ misread \in BOOLEAN
    BY <1>2 DEF ChangeSettings, Shaped
  <2> QED BY <2>2, <2>3, <2>4 DEF FileIsHeld
<1>3. CASE ResetSettings
  BY <1>3 DEF ResetSettings, Saved, FileIsHeld
<1>4. CASE StopApplication
  BY <1>4 DEF StopApplication, FileIsHeld
<1>5. CASE StartApplication
  <2>1. PICK data \in Loaded : settings' = data /\ misread' = LoadFailed(data)
    BY <1>5 DEF StartApplication
  <2> QED BY <1>5, <2>1 DEF StartApplication, Loaded, LoadFailed, FileIsHeld
<1>6. ASSUME NEW l \in ProjectLink, AddProject(l) \/ RemoveProject(l)
      PROVE  Goal
  <2>1. PICK data \in Loaded : /\ \/ Saved([data EXCEPT !.links = @ \cup {l}])
                                 \/ Saved([data EXCEPT !.links = @ \ {l}])
                              /\ Taken(data)
    BY <1>6 DEF AddProject, RemoveProject
  <2>2. data \in Settings
    BY <1>0, <2>1, DefaultsAreSettings DEF Loaded
  <2>3. data.links \cup {l} \in SUBSET ProjectLink /\ data.links \ {l} \in SUBSET ProjectLink
    BY <2>2 DEF Settings
  <2>4. settingsFile'.own = data.own
    BY <2>1, <2>2, <2>3, ChangedSettings DEF Saved
  <2> QED BY <1>1, <1>6, <2>1, <2>4, LoadedKeepsOwn DEF AddProject, RemoveProject
<1>7. ASSUME NEW a \in Account, NEW c \in Stored, NEW data \in Loaded,
             Saved([data EXCEPT !.accounts[a] = c]), Taken(data), UNCHANGED <<settings, running>>
      PROVE  Goal
  <2>1. data \in Settings
    BY <1>0, DefaultsAreSettings DEF Loaded
  <2>2. settingsFile'.own = data.own
    BY <1>7, <2>1, ChangedSettings DEF Saved
  <2> QED BY <1>1, <1>7, <2>2, LoadedKeepsOwn
<1>8. ASSUME NEW a \in Account, NEW c \in Credential, AddAccount(a, c) \/ UpdateAccount(a, c)
      PROVE  Goal
  <2>1. c \in Stored /\ UNCHANGED <<settings, running>>
    BY <1>8 DEF Stored, AddAccount, UpdateAccount
  <2>2. CASE UNCHANGED <<settingsFile, misread>>
    BY <1>1, <2>1, <2>2
  <2>3. CASE \E data \in Loaded : Saved([data EXCEPT !.accounts[a] = c]) /\ Taken(data)
    BY <1>7, <2>1, <2>3
  <2> QED BY <1>8, <2>2, <2>3 DEF AddAccount, UpdateAccount
<1>9. ASSUME NEW a \in Account, RemoveAccount(a)
      PROVE  Goal
  <2>1. "none" \in Stored
    BY DEF Stored
  <2> QED BY <1>7, <1>9, <2>1 DEF RemoveAccount
<1>10. ASSUME NEW a \in Account, NEW s \in Service, CallAws(a, s)
       PROVE  Goal
  BY <1>1, <1>10 DEF CallAws
<1>11. ASSUME NEW a \in Account, GenerateKubeconfig(a)
       PROVE  Goal
  BY <1>1, <1>11 DEF GenerateKubeconfig
<1>12. CASE UNCHANGED settingsVars
  BY <1>1, <1>12 DEF settingsVars
<1> HIDE DEF Goal
<1>13. Goal
  BY <1>2, <1>3, <1>4, <1>5, <1>6, <1>8, <1>9, <1>10, <1>11, <1>12 DEF SettingsNext, Goal
<1> QED BY <1>13 DEF Goal

\* A change of the settings that was saved leaves the file only when all of it is
\* reset, whoever writes the file, whichever save fails and however often the
\* application stops, unless the defaults of a load that failed were saved or kept
\* in memory (ipc-handlers.ts, aws-ipc.ts, store.ts:41-72).
THEOREM SettingsNeverGoBack == SettingsSpec => SavedSettingsStand
<1>1. SettingsInit => FileIsHeld
  BY DEF SettingsInit, FileIsHeld
<1>2. Shaped /\ FileIsHeld /\ [SettingsNext]_settingsVars
        => [\/ settingsFile.own \subseteq settingsFile'.own
            \/ settingsFile' = DefaultData /\ settings' = DefaultData /\ running
            \/ misread']_settingsVars
  BY FileStaysHeld
<1>3. Shaped /\ FileIsHeld /\ [SettingsNext]_settingsVars => FileIsHeld'
  BY FileStaysHeld
<1> QED BY <1>1, <1>2, <1>3, InitShaped, NextShaped, PTL DEF SettingsSpec, SavedSettingsStand

-----------------------------------------------------------------------------
(* Sessions. A session that runs or is still to run is shown, or was       *)
(* forgotten by the page that opened it; the dashboard has one at most;    *)
(* and a stream is the one of its name or was told to end.                 *)

SessionRow == [place : Place, step : {"none", "connecting", "open", "closed"}]
StreamRow == [source : Logged, step : {"none", "starting", "running", "closed"}]

SessionTypes == session \in [Session -> SessionRow] /\ owner \in [Session -> {"tab", "quick", "nobody"}]
StreamTypes == stream \in [Stream -> StreamRow] /\ streams \in [Logged -> Stream \cup {NoStream}]
OtherTypes ==
    /\ page \in [name : {"dashboard", "terminal", "other"}, server : Server]
    /\ servers \subseteq Server
    /\ forgotten \subseteq Session /\ switched \subseteq Session /\ late \subseteq Session \cup Stream

\* A session that runs, or is still to run, is shown or forgotten, and is of a server
\* that is there or was told to end.
SessionsAreShown ==
    \A s \in Session : session[s].step \in {"connecting", "open"} =>
        /\ owner[s] # "nobody" \/ s \in forgotten
        /\ session[s].place \in servers \cup {Local} \/ s \in late

UnopenedAreNobodys == \A s \in Session : session[s].step = "none" => owner[s] = "nobody"

\* The dashboard has one session at most, which runs or is to run.
QuickIsOne ==
    /\ \A s, t \in Owned("quick") : s = t
    /\ \A s \in Owned("quick") :
         page.name = "dashboard" /\ session[s].step \in {"connecting", "open"}

\* A stream that runs, or is still to run, is the one of its name or was told to end.
StreamsAreNamed ==
    \A i \in Stream : stream[i].step \in {"starting", "running"} => streams[stream[i].source] = i \/ i \in late

SessionsInv ==
    /\ SessionTypes /\ StreamTypes /\ OtherTypes
    /\ SessionsAreShown /\ UnopenedAreNobodys /\ QuickIsOne /\ QuickTerminalIsHere /\ StreamsAreNamed

LEMMA InitSessions == SessionsInit => SessionsInv
<1> SUFFICES ASSUME SessionsInit PROVE SessionsInv
  OBVIOUS
<1>1. \A s \in Session : session[s] = [place |-> Local, step |-> "none"]
  BY DEF SessionsInit
<1>2. SessionTypes /\ SessionsAreShown /\ UnopenedAreNobodys
  BY <1>1 DEF SessionsInit, SessionTypes, SessionRow, Place, SessionsAreShown, UnopenedAreNobodys
<1>3. Owned("quick") = {}
  BY DEF SessionsInit, Owned
<1>4. (CHOOSE p \in Logged : TRUE) \in Logged /\ (CHOOSE p \in Server : TRUE) \in Server
  BY SessionAssumption
<1>5. StreamTypes /\ StreamsAreNamed
  BY <1>4 DEF SessionsInit, StreamTypes, StreamRow, StreamsAreNamed
<1>6. OtherTypes
  BY <1>4 DEF SessionsInit, OtherTypes
<1> QED BY <1>2, <1>3, <1>5, <1>6 DEF SessionsInv, QuickIsOne, QuickTerminalIsHere

\* The streams are left alone, and what excuses them stays.
LEMMA TerminalsOnly ==
  ASSUME SessionsInv, UNCHANGED <<streamPart, servers, late>>, SessionTypes', OtherTypes',
         SessionsAreShown', UnopenedAreNobodys', QuickIsOne', QuickTerminalIsHere'
  PROVE  SessionsInv'
BY DEF SessionsInv, StreamTypes, StreamsAreNamed, streamPart

LEMMA OpenKeeps ==
  ASSUME SessionsInv, NEW s \in Session, NEW p \in Place, NEW by \in {"tab", "quick"}, Open(s, p, by),
         UNCHANGED <<page, streamPart, servers, forgotten, switched, late>>,
         by = "quick" => page.name = "dashboard" /\ p = page.server /\ Owned("quick") = {}
  PROVE  SessionsInv'
<1> DEFINE row == [place |-> p, step |-> IF p = Local THEN "open" ELSE "connecting"]
<1>1. session' = [session EXCEPT ![s] = row] /\ p \in servers \cup {Local}
      /\ owner' = [t \in Session |-> IF t = s THEN by ELSE owner[t]]
  BY DEF Open, Owners
<1>2. row \in SessionRow /\ row.place = p /\ row.step \in {"connecting", "open"} /\ row.step # "none"
  BY DEF SessionRow
<1> HIDE DEF row
<1>3. SessionTypes' /\ OtherTypes'
  BY <1>1, <1>2 DEF SessionsInv, SessionTypes, OtherTypes
<1>4. SessionsAreShown' /\ UnopenedAreNobodys'
  BY <1>1, <1>2 DEF SessionsInv, SessionTypes, SessionsAreShown, UnopenedAreNobodys
<1>5. QuickIsOne' /\ QuickTerminalIsHere'
  BY <1>1, <1>2 DEF SessionsInv, SessionTypes, QuickIsOne, QuickTerminalIsHere, Owned
<1> QED BY <1>3, <1>4, <1>5, TerminalsOnly

LEMMA ReconnectSteps ==
  ASSUME SessionsInv, NEW s \in Session, NEW t \in Session, ReconnectTab(s, t)
  PROVE  SessionsInv'
<1> DEFINE row == [place |-> session[t].place, step |-> IF session[t].place = Local THEN "open" ELSE "connecting"]
<1>1. /\ session[s].step = "none" /\ owner[t] = "tab" /\ session[t].place \in servers \cup {Local}
      /\ session' = [session EXCEPT ![t].step = "closed", ![s] = row]
      /\ owner' = [owner EXCEPT ![t] = "nobody", ![s] = "tab"]
      /\ UNCHANGED <<page, streamPart, servers, forgotten, switched, late>>
  BY DEF ReconnectTab, Owned
<1>2. /\ row \in SessionRow /\ row.place \in servers \cup {Local} /\ row.step \in {"connecting", "open"}
      /\ row.step # "none"
  BY <1>1 DEF SessionsInv, SessionTypes, SessionRow
<1>3. s # t
  BY <1>1 DEF SessionsInv, UnopenedAreNobodys
<1> HIDE DEF row
<1>4. /\ session'[s] = row /\ session'[t] = [session[t] EXCEPT !.step = "closed"]
      /\ \A u \in Session : u # s /\ u # t => session'[u] = session[u] /\ owner'[u] = owner[u]
      /\ owner'[s] = "tab" /\ owner'[t] = "nobody"
  BY <1>1, <1>3 DEF SessionsInv, SessionTypes
<1>5. session'[t] \in SessionRow /\ session'[t].step = "closed"
  BY <1>4 DEF SessionsInv, SessionTypes, SessionRow
<1>6. SessionTypes' /\ OtherTypes'
  BY <1>1, <1>2, <1>4, <1>5 DEF SessionsInv, SessionTypes, OtherTypes
<1>7. SessionsAreShown' /\ UnopenedAreNobodys'
  BY <1>1, <1>2, <1>4, <1>5 DEF SessionsInv, SessionsAreShown, UnopenedAreNobodys
<1>8. QuickIsOne' /\ QuickTerminalIsHere'
  <2>1. \A u \in Owned("quick")' : u \in Owned("quick") /\ session'[u] = session[u]
    BY <1>4 DEF Owned
  <2> QED BY <1>1, <2>1 DEF SessionsInv, QuickIsOne, QuickTerminalIsHere
<1> QED BY <1>1, <1>6, <1>7, <1>8, TerminalsOnly

LEMMA StepRows ==
  ASSUME SessionsInv, NEW S \in SUBSET Session, NEW step \in {"connecting", "open", "closed"}, Steps(S, step)
  PROVE  /\ session' \in [Session -> SessionRow]
         /\ \A s \in Session : session'[s].place = session[s].place
                               /\ session'[s].step = IF s \in S THEN step ELSE session[s].step
BY DEF Steps, SessionsInv, SessionTypes, SessionRow

LEMMA ShellSteps ==
  ASSUME SessionsInv, NEW s \in Session, ShellReady(s) \/ SessionEnds(s)
  PROVE  SessionsInv'
<1>1. UNCHANGED <<page, streamPart, servers, forgotten, switched, late>>
  BY DEF ShellReady, SessionEnds
<1>2. CASE ShellReady(s)
  <2>1. session[s].step = "connecting" /\ Steps({s}, "open") /\ owner' = owner
    BY <1>2 DEF ShellReady
  <2>2. /\ session' \in [Session -> SessionRow]
        /\ \A t \in Session : session'[t].place = session[t].place
                              /\ session'[t].step = IF t \in {s} THEN "open" ELSE session[t].step
    BY <2>1, StepRows
  <2>3. SessionTypes' /\ OtherTypes' /\ SessionsAreShown' /\ UnopenedAreNobodys'
    BY <1>1, <2>1, <2>2 DEF SessionsInv, SessionTypes, OtherTypes, SessionsAreShown, UnopenedAreNobodys
  <2>4. QuickIsOne' /\ QuickTerminalIsHere'
    BY <1>1, <2>1, <2>2 DEF SessionsInv, QuickIsOne, QuickTerminalIsHere, Owned
  <2> QED BY <1>1, <2>3, <2>4, TerminalsOnly
<1>3. CASE SessionEnds(s)
  <2>1. /\ Steps({s}, "closed") /\ owner' \in [Session -> {"tab", "quick", "nobody"}]
        /\ \A t \in Session : owner'[t] = owner[t] \/ (t = s /\ owner'[t] = "nobody")
        /\ owner'[s] # "quick"
    BY <1>3 DEF SessionEnds, Owners, SessionsInv, SessionTypes
  <2>2. /\ session' \in [Session -> SessionRow]
        /\ \A t \in Session : session'[t].place = session[t].place
                              /\ session'[t].step = IF t \in {s} THEN "closed" ELSE session[t].step
    BY <2>1, StepRows
  <2>3. SessionTypes' /\ OtherTypes' /\ SessionsAreShown' /\ UnopenedAreNobodys'
    BY <1>1, <2>1, <2>2 DEF SessionsInv, SessionTypes, OtherTypes, SessionsAreShown, UnopenedAreNobodys
  <2>4. QuickIsOne' /\ QuickTerminalIsHere'
    BY <1>1, <2>1, <2>2 DEF SessionsInv, QuickIsOne, QuickTerminalIsHere, Owned
  <2> QED BY <1>1, <2>3, <2>4, TerminalsOnly
<1> QED BY <1>2, <1>3

\* Sessions are let go: those that are closed or forgotten, and what stays as it was.
LEMMA LetGoKeeps ==
  ASSUME SessionsInv, UNCHANGED <<streamPart, servers, late>>, OtherTypes',
         forgotten \subseteq forgotten', switched \subseteq switched',
         session' \in [Session -> SessionRow], owner' \in [Session -> {"tab", "quick", "nobody"}],
         \A s \in Session : session'[s].place = session[s].place,
         \A s \in Session : session'[s].step \in {session[s].step, "closed"},
         \A s \in Session : owner'[s] \in {owner[s], "nobody"},
         \A s \in Session : owner'[s] # owner[s] => session'[s].step \in {"none", "closed"} \/ s \in forgotten',
         \A s \in Owned("quick") : owner'[s] = "quick" =>
            /\ session'[s].step = session[s].step /\ page'.name = page.name
            /\ page'.server = page.server \/ s \in switched'
  PROVE  SessionsInv'
<1>1. SessionsAreShown' /\ UnopenedAreNobodys'
  BY DEF SessionsInv, SessionsAreShown, UnopenedAreNobodys
<1>2. QuickIsOne' /\ QuickTerminalIsHere'
  BY DEF SessionsInv, QuickIsOne, QuickTerminalIsHere, Owned
<1>3. SessionTypes'
  BY DEF SessionTypes
<1> QED BY <1>1, <1>2, <1>3, TerminalsOnly

LEMMA SameSteps ==
  ASSUME SessionsInv, UNCHANGED session
  PROVE  /\ session' \in [Session -> SessionRow]
         /\ \A s \in Session : session'[s].place = session[s].place /\ session'[s].step = session[s].step
BY DEF SessionsInv, SessionTypes

LEMMA OwnerRows ==
  ASSUME SessionsInv, NEW S \in SUBSET Session, Owners(S, "nobody")
  PROVE  /\ owner' \in [Session -> {"tab", "quick", "nobody"}]
         /\ \A s \in Session : owner'[s] = IF s \in S THEN "nobody" ELSE owner[s]
BY DEF Owners, SessionsInv, SessionTypes

LEMMA CloseTabSteps ==
  ASSUME SessionsInv, NEW s \in Session, CloseTab(s)
  PROVE  SessionsInv'
<1>1. /\ Owners({s}, "nobody") /\ owner[s] = "tab" /\ page.name = "terminal"
      /\ UNCHANGED <<page, streamPart, servers, switched, late>>
  BY DEF CloseTab, Owned
<1>2. /\ owner' \in [Session -> {"tab", "quick", "nobody"}]
      /\ \A t \in Session : owner'[t] = IF t \in {s} THEN "nobody" ELSE owner[t]
  BY <1>1, OwnerRows
<1>3. Owned("quick") = {}
  BY <1>1 DEF SessionsInv, QuickIsOne
<1>4. CASE session[s].step = "connecting"
  <2>1. forgotten' = forgotten \cup {s} /\ UNCHANGED session
    BY <1>4 DEF CloseTab
  <2>2. OtherTypes'
    BY <1>1, <2>1 DEF SessionsInv, OtherTypes
  <2> QED BY <1>1, <1>2, <1>3, <2>1, <2>2, SameSteps, LetGoKeeps
<1>5. CASE session[s].step # "connecting"
  <2>1. Steps({s}, "closed") /\ UNCHANGED forgotten
    BY <1>5 DEF CloseTab
  <2>2. OtherTypes'
    BY <1>1, <2>1 DEF SessionsInv, OtherTypes
  <2>3. /\ session' \in [Session -> SessionRow]
        /\ \A t \in Session : session'[t].place = session[t].place
                              /\ session'[t].step = IF t \in {s} THEN "closed" ELSE session[t].step
    BY <2>1, StepRows
  <2> QED BY <1>1, <1>2, <1>3, <2>1, <2>2, <2>3, LetGoKeeps
<1> QED BY <1>4, <1>5

LEMMA SelectSteps ==
  ASSUME SessionsInv, NEW p \in Server, SelectServer(p)
  PROVE  SessionsInv'
<1> DEFINE closing == QuickSessions
<1>1. /\ page' = [page EXCEPT !.server = p] /\ Steps(closing, "closed") /\ Owners(closing, "nobody")
      /\ switched' = switched \cup (Owned("quick") \cap Sessions("connecting"))
      /\ UNCHANGED <<streamPart, servers, forgotten, late>>
  BY DEF SelectServer
<1>2. closing \in SUBSET Session /\ closing = {s \in Owned("quick") : session[s].step = "open"}
  BY DEF QuickSessions, Owned, Sessions
<1>3. /\ owner' \in [Session -> {"tab", "quick", "nobody"}]
      /\ \A t \in Session : owner'[t] = IF t \in closing THEN "nobody" ELSE owner[t]
  BY <1>1, <1>2, OwnerRows
<1>4. /\ session' \in [Session -> SessionRow]
      /\ \A t \in Session : session'[t].place = session[t].place
                            /\ session'[t].step = IF t \in closing THEN "closed" ELSE session[t].step
  BY <1>1, <1>2, StepRows
<1>5. page' \in [name : {"dashboard", "terminal", "other"}, server : Server] /\ page'.name = page.name
  BY <1>1 DEF SessionsInv, OtherTypes
<1>6. OtherTypes'
  BY <1>1, <1>5 DEF SessionsInv, OtherTypes, Owned
<1>7. ASSUME NEW s \in Owned("quick"), owner'[s] = "quick"
      PROVE  session'[s].step = session[s].step /\ s \in switched'
  <2>1. s \in Session /\ s \notin closing
    BY <1>3, <1>7 DEF Owned
  <2>2. session[s].step = "connecting"
    BY <1>2, <1>7, <2>1 DEF SessionsInv, QuickIsOne
  <2> QED BY <1>1, <1>4, <1>7, <2>1, <2>2 DEF Sessions
<1> HIDE DEF closing
<1> QED BY <1>1, <1>3, <1>4, <1>5, <1>6, <1>7, LetGoKeeps

LEMMA GoSteps ==
  ASSUME SessionsInv, NEW name \in {"dashboard", "terminal", "other"}, GoTo(name)
  PROVE  SessionsInv'
<1> DEFINE quick == Owned("quick")
           tabs == Owned("tab")
<1>1. /\ page' = [page EXCEPT !.name = name] /\ UNCHANGED <<streamPart, servers, switched, late>>
      /\ page \in [name : {"dashboard", "terminal", "other"}, server : Server] /\ page.name # name
  BY DEF GoTo, SessionsInv, OtherTypes
<1>2. page' \in [name : {"dashboard", "terminal", "other"}, server : Server] /\ page'.server = page.server
  BY <1>1
<1>3. quick \in SUBSET Session /\ tabs \in SUBSET Session
  BY DEF Owned
<1>4. CASE page.name = "dashboard"
  <2> DEFINE open == quick \cap Sessions("open")
  <2>1. Owners(quick, "nobody") /\ Steps(open, "closed")
        /\ forgotten' = forgotten \cup (quick \cap Sessions("connecting"))
    BY <1>4 DEF GoTo, LeaveDashboard
  <2>2. open \in SUBSET Session
    BY <1>3
  <2>3. /\ owner' \in [Session -> {"tab", "quick", "nobody"}]
        /\ \A t \in Session : owner'[t] = IF t \in quick THEN "nobody" ELSE owner[t]
    BY <1>3, <2>1, OwnerRows
  <2>4. /\ session' \in [Session -> SessionRow]
        /\ \A t \in Session : session'[t].place = session[t].place
                              /\ session'[t].step = IF t \in open THEN "closed" ELSE session[t].step
    BY <2>1, <2>2, StepRows
  <2>5. OtherTypes'
    BY <1>1, <1>2, <1>3, <2>1 DEF SessionsInv, OtherTypes
  <2>6. \A s \in Session : owner'[s] # owner[s] => session'[s].step = "closed" \/ s \in forgotten'
    <3>1. \A s \in quick : s \in open \/ s \in Sessions("connecting")
      BY DEF SessionsInv, QuickIsOne, Sessions, Owned
    <3> QED BY <2>1, <2>3, <2>4, <3>1
  <2>7. \A s \in quick : owner'[s] # "quick"
    BY <1>3, <2>3
  <2> HIDE DEF open
  <2> QED BY <1>1, <2>1, <2>3, <2>4, <2>5, <2>6, <2>7, LetGoKeeps
<1>5. CASE page.name = "terminal"
  <2>1. Owners(tabs, "nobody") /\ forgotten' = forgotten \cup tabs /\ UNCHANGED session
    BY <1>5 DEF GoTo, LeaveTerminals
  <2>2. /\ owner' \in [Session -> {"tab", "quick", "nobody"}]
        /\ \A t \in Session : owner'[t] = IF t \in tabs THEN "nobody" ELSE owner[t]
    BY <1>3, <2>1, OwnerRows
  <2>3. OtherTypes'
    BY <1>1, <1>2, <1>3, <2>1 DEF SessionsInv, OtherTypes
  <2>4. Owned("quick") = {}
    BY <1>5 DEF SessionsInv, QuickIsOne
  <2>5. \A s \in Session : owner'[s] # owner[s] => s \in forgotten'
    BY <2>1, <2>2
  <2> QED BY <1>1, <2>1, <2>2, <2>3, <2>4, <2>5, SameSteps, LetGoKeeps
<1>6. CASE page.name = "other"
  <2>1. UNCHANGED <<session, owner, forgotten>>
    BY <1>6 DEF GoTo
  <2>2. OtherTypes'
    BY <1>1, <1>2, <2>1 DEF SessionsInv, OtherTypes
  <2>3. Owned("quick") = {}
    BY <1>6 DEF SessionsInv, QuickIsOne
  <2>4. owner' \in [Session -> {"tab", "quick", "nobody"}] /\ \A s \in Session : owner'[s] = owner[s]
    BY <2>1 DEF SessionsInv, SessionTypes
  <2> QED BY <1>1, <2>1, <2>2, <2>3, <2>4, SameSteps, LetGoKeeps
<1> QED BY <1>1, <1>4, <1>5, <1>6

LEMMA MoveQuickSteps ==
  ASSUME SessionsInv, NEW s \in Session, MoveQuick(s)
  PROVE  SessionsInv'
<1>1. /\ s \in Owned("quick") /\ session[s].step = "open" /\ page' = [page EXCEPT !.name = "terminal"]
      /\ owner' = [t \in Session |-> IF t = s THEN "tab" ELSE owner[t]]
      /\ UNCHANGED <<session, streamPart, servers, forgotten, switched, late>>
  BY DEF MoveQuick, Owners, Sessions
<1>2. Owned("quick")' = {}
  BY <1>1 DEF SessionsInv, QuickIsOne, Owned
<1>3. OtherTypes' /\ SessionTypes'
  BY <1>1 DEF SessionsInv, OtherTypes, SessionTypes
<1>4. SessionsAreShown' /\ UnopenedAreNobodys'
  BY <1>1 DEF SessionsInv, SessionsAreShown, UnopenedAreNobodys
<1> QED BY <1>1, <1>2, <1>3, <1>4, TerminalsOnly DEF QuickIsOne, QuickTerminalIsHere

\* The terminals are left alone.
LEMMA StreamsOnly ==
  ASSUME SessionsInv, UNCHANGED <<page, terminalPart, servers>>, late' \in SUBSET (Session \cup Stream),
         late \subseteq late', StreamTypes', StreamsAreNamed'
  PROVE  SessionsInv'
BY DEF SessionsInv, terminalPart, SessionTypes, OtherTypes, SessionsAreShown, UnopenedAreNobodys, QuickIsOne,
       QuickTerminalIsHere, Owned

LEMMA ClosingRows ==
  ASSUME SessionsInv, NEW S
  PROVE  /\ Closing(S) \in [Stream -> StreamRow]
         /\ \A i \in Stream : Closing(S)[i].source = stream[i].source
         /\ \A i \in Stream : Closing(S)[i].step =
                IF i \in S /\ stream[i].step = "running" THEN "closed" ELSE stream[i].step
BY DEF Closing, SessionsInv, StreamTypes, StreamRow

LEMMA EntryIsAStream ==
  ASSUME SessionsInv, NEW p \in Logged
  PROVE  /\ Entry(p) \subseteq Stream /\ TooEarly(Entry(p)) \subseteq Stream
         /\ \A i \in Stream : i \in Entry(p) <=> streams[p] = i
BY SessionAssumption DEF Entry, TooEarly, SessionsInv, StreamTypes, NoStream

LEMMA LogSteps ==
  ASSUME SessionsInv, NEW p \in Logged, StopLog(p) \/ \E i \in Stream : StartLog(i, p)
  PROVE  SessionsInv'
<1>1. UNCHANGED <<page, terminalPart, servers>> /\ late' = late \cup TooEarly(Entry(p))
  BY DEF StopLog, StartLog
<1>2. late' \in SUBSET (Session \cup Stream) /\ late \subseteq late'
  BY <1>1, EntryIsAStream DEF SessionsInv, OtherTypes
<1>3. \A i \in Entry(p) : stream[i].step = "starting" => i \in late'
  BY <1>1 DEF TooEarly
<1>4. CASE StopLog(p)
  <2>1. stream' = Closing(Entry(p)) /\ streams' = [streams EXCEPT ![p] = NoStream]
    BY <1>4 DEF StopLog
  <2>2. StreamTypes'
    BY <2>1, ClosingRows DEF StreamTypes, SessionsInv
  <2>3. StreamsAreNamed'
    BY <1>2, <1>3, <2>1, ClosingRows, EntryIsAStream DEF StreamsAreNamed, SessionsInv, StreamTypes, StreamRow
  <2> QED BY <1>1, <1>2, <2>2, <2>3, StreamsOnly
<1>5. ASSUME NEW i \in Stream, StartLog(i, p) PROVE SessionsInv'
  <2>1. stream' = [Closing(Entry(p)) EXCEPT ![i] = [source |-> p, step |-> "starting"]]
        /\ streams' = [streams EXCEPT ![p] = i]
    BY <1>5 DEF StartLog, Stopped
  <2>2. [source |-> p, step |-> "starting"] \in StreamRow /\ [source |-> p, step |-> "starting"].source = p
    BY DEF StreamRow
  <2>3. StreamTypes'
    BY <2>1, <2>2, ClosingRows DEF StreamTypes, SessionsInv
  <2>4. stream'[i].source = p /\ streams'[p] = i
    BY <2>1, <2>2, ClosingRows DEF SessionsInv, StreamTypes
  <2>5. \A j \in Stream : j # i => stream'[j] = Closing(Entry(p))[j]
    BY <2>1, ClosingRows
  <2>6. StreamsAreNamed'
    BY <1>2, <1>3, <2>1, <2>4, <2>5, ClosingRows, EntryIsAStream
       DEF StreamsAreNamed, SessionsInv, StreamTypes, StreamRow
  <2> QED BY <1>1, <1>2, <2>3, <2>6, StreamsOnly
<1> QED BY <1>4, <1>5

LEMMA StreamSteps ==
  ASSUME SessionsInv, NEW i \in Stream, StreamOpens(i) \/ StreamEnds(i)
  PROVE  SessionsInv'
<1>1. /\ \E step \in {"running", "closed"} : stream' = [stream EXCEPT ![i].step = step]
      /\ stream[i].step \in {"starting", "running"} /\ UNCHANGED <<page, terminalPart, streams, servers, late>>
  BY DEF StreamOpens, StreamEnds
<1>2. PICK step \in {"running", "closed"} : stream' = [stream EXCEPT ![i].step = step]
  BY <1>1
<1>3. /\ stream' \in [Stream -> StreamRow]
      /\ \A j \in Stream : stream'[j].source = stream[j].source
      /\ \A j \in Stream : stream'[j].step \in {"starting", "running"} => stream[j].step \in {"starting", "running"}
  BY <1>1, <1>2 DEF SessionsInv, StreamTypes, StreamRow
<1>4. StreamTypes' /\ StreamsAreNamed'
  BY <1>1, <1>3 DEF SessionsInv, StreamTypes, StreamsAreNamed
<1> QED BY <1>1, <1>4, StreamsOnly DEF SessionsInv, OtherTypes

LEMMA RemoveSteps ==
  ASSUME SessionsInv, NEW p \in Server, RemoveServerSessions(p)
  PROVE  SessionsInv'
<1> DEFINE here == {s \in Session : session[s].place = p}
           log == IF p \in Logged THEN Entry(p) ELSE {}
           closing == here \cap Sessions("open")
<1>1. /\ page.name = "other" /\ servers' = servers \ {p}
      /\ page' \in [name : {"other"}, server : IF page.server = p THEN servers' ELSE {page.server}]
      /\ stream' = Closing(log)
      /\ streams' = [q \in Logged |-> IF q = p THEN NoStream ELSE streams[q]]
      /\ Steps(closing, "closed")
      /\ late' = late \cup TooEarly(log) \cup (here \cap Sessions("connecting"))
      /\ UNCHANGED <<owner, forgotten, switched>>
  BY DEF RemoveServerSessions
<1>2. log \subseteq Stream /\ TooEarly(log) \subseteq Stream /\ \A i \in Stream : p \in Logged /\ streams[p] = i => i \in log
  BY EntryIsAStream DEF TooEarly
<1>3. /\ session' \in [Session -> SessionRow]
      /\ \A t \in Session : session'[t].place = session[t].place
                            /\ session'[t].step = IF t \in closing THEN "closed" ELSE session[t].step
  BY <1>1, StepRows
<1>4. page' \in [name : {"dashboard", "terminal", "other"}, server : Server]
  BY <1>1 DEF SessionsInv, OtherTypes
<1>5. OtherTypes' /\ SessionTypes' /\ late \subseteq late'
  BY <1>1, <1>2, <1>3, <1>4 DEF SessionsInv, OtherTypes, SessionTypes
<1>6. \A s \in Session : session[s].step = "connecting" /\ session[s].place = p => s \in late'
  BY <1>1 DEF Sessions
<1>7. \A s \in Session : session[s].step = "open" /\ session[s].place = p => session'[s].step = "closed"
  BY <1>3 DEF Sessions
<1>8. SessionsAreShown' /\ UnopenedAreNobodys'
  BY <1>1, <1>3, <1>5, <1>6, <1>7 DEF SessionsInv, SessionsAreShown, UnopenedAreNobodys
<1>9. Owned("quick") = {} /\ Owned("quick")' = {}
  BY <1>1 DEF SessionsInv, QuickIsOne, Owned
<1>10. QuickIsOne' /\ QuickTerminalIsHere'
  BY <1>9 DEF QuickIsOne, QuickTerminalIsHere
<1>11. StreamTypes'
  BY <1>1, ClosingRows DEF SessionsInv, StreamTypes
<1>12. \A i \in log : stream[i].step = "starting" => i \in late'
  BY <1>1 DEF TooEarly
<1>13. /\ \A i \in Stream : stream'[i].source = stream[i].source
       /\ \A i \in Stream : stream'[i].step = IF i \in log /\ stream[i].step = "running" THEN "closed" ELSE stream[i].step
  BY <1>1, ClosingRows
<1> HIDE DEF log, closing
<1>14. StreamsAreNamed'
  BY <1>1, <1>2, <1>5, <1>12, <1>13 DEF StreamsAreNamed, SessionsInv, StreamTypes, StreamRow
<1> QED BY <1>5, <1>8, <1>10, <1>11, <1>14 DEF SessionsInv

LEMMA NextSessions == SessionsInv /\ [SessionsNext]_sessionVars => SessionsInv'
<1> SUFFICES ASSUME SessionsInv, [SessionsNext]_sessionVars PROVE SessionsInv'
  OBVIOUS
<1>1. CASE UNCHANGED sessionVars
  BY <1>1 DEF sessionVars, terminalPart, streamPart, SessionsInv, SessionTypes, StreamTypes, OtherTypes,
              SessionsAreShown, UnopenedAreNobodys, QuickIsOne, QuickTerminalIsHere, StreamsAreNamed, Owned
<1>2. ASSUME NEW s \in Session, NEW p \in Place, OpenTab(s, p) PROVE SessionsInv'
  BY <1>2, OpenKeeps DEF OpenTab
<1>3. ASSUME NEW s \in Session, OpenQuick(s) PROVE SessionsInv'
  <2>1. page.server \in Place
    BY DEF SessionsInv, OtherTypes, Place
  <2> QED BY <1>3, <2>1, OpenKeeps DEF OpenQuick
<1> QED
  BY <1>1, <1>2, <1>3, ReconnectSteps, ShellSteps, CloseTabSteps, SelectSteps, GoSteps, MoveQuickSteps, LogSteps,
     StreamSteps, RemoveSteps DEF SessionsNext

LEMMA SessionsImply == SessionsInv => SessionsTypeOK /\ NothingRunsUnheld /\ QuickTerminalIsHere
<1> SUFFICES ASSUME SessionsInv PROVE SessionsTypeOK /\ NothingRunsUnheld /\ QuickTerminalIsHere
  OBVIOUS
<1>1. SessionsTypeOK
  BY DEF SessionsInv, SessionTypes, StreamTypes, OtherTypes, SessionRow, StreamRow, SessionsTypeOK
<1>2. NothingRunsUnheld
  BY DEF SessionsInv, SessionsAreShown, StreamsAreNamed, NothingRunsUnheld, Sessions
<1> QED BY <1>1, <1>2 DEF SessionsInv

\* A terminal or a log stream that runs can be ended by somebody, and the dashboard's
\* terminal runs on the server it shows, within the limits the properties state, in
\* whatever order sessions are opened, answered and closed (TerminalPage.tsx,
\* Dashboard.tsx, LogViewer.tsx and their handlers).
THEOREM SessionsStayHeld == SessionsSpec => [](SessionsTypeOK /\ NothingRunsUnheld /\ QuickTerminalIsHere)
<1>1. SessionsSpec => []SessionsInv
  BY InitSessions, NextSessions, PTL DEF SessionsSpec
<1> QED BY <1>1, SessionsImply, PTL

-----------------------------------------------------------------------------
(* The cluster page. While no choice was made in a hurry, every call       *)
(* under way is of what is chosen, and the list of the tab is unread or    *)
(* was read from there.                                                    *)

ClusterRow == [cluster : Cluster, tab : List \cup {"kubeconfig"}, ns : Namespace, loading : BOOLEAN]
AskedRow == [n : Numbers, kind : {"load", "read", "create", "delete"}, list : List \cup {"kubeconfig"}, from : ReadFrom]

\* What is under way is of what is chosen.
CallsAreOf(p, calls) ==
    \A a \in calls :
        /\ a.list \in List => a.from = Source(p, a.list)
        /\ a.kind # "read" => a.list = p.tab
        /\ a.kind = "read" => a.list \in List

ListIsOf(p, ls) ==
    p.tab \in List /\ ~p.loading => ls[p.tab] \in {Unread, Source(p, p.tab)}

LoadIsUnderWay(p, calls) == p.loading => \E a \in calls : a.kind = "load"

ClusterInv ==
    /\ ClusterTypeOK /\ IsFiniteSet(asked)
    /\ LoadIsUnderWay(clusterPage, asked)
    /\ ~hurried => CallsAreOf(clusterPage, asked) /\ ListIsOf(clusterPage, lists)

LEMMA ClusterBounds == MaxAsked \in Nat /\ MaxAsked >= 2 /\ MaxMoves \in Nat
BY ClusterAssumption

\* A number is free while fewer calls are under way than there are numbers.
LEMMA FreeNumber ==
  ASSUME NEW calls \in SUBSET AskedRow, IsFiniteSet(calls), NEW numbers \in SUBSET Numbers, IsFiniteSet(numbers),
         Cardinality(calls) < Cardinality(numbers)
  PROVE  \E n \in numbers : \A a \in calls : a.n # n
<1> DEFINE taken == {a.n : a \in calls}
<1>1. IsFiniteSet(taken) /\ Cardinality(taken) <= Cardinality(calls)
  <2> DEFINE f == [a \in calls |-> a.n]
  <2>1. f \in Surjection(calls, taken)
    BY DEF Surjection
  <2> QED BY <2>1, FS_Surjection
<1>2. ~(numbers \subseteq taken)
  <2> SUFFICES ASSUME numbers \subseteq taken PROVE FALSE
    OBVIOUS
  <2>1. Cardinality(numbers) <= Cardinality(taken)
    BY <1>1, FS_Subset
  <2>2. Cardinality(numbers) \in Nat /\ Cardinality(taken) \in Nat /\ Cardinality(calls) \in Nat
    BY <1>1, FS_CardinalityType
  <2> QED BY <1>1, <2>1, <2>2
<1> QED BY <1>2

LEMMA NumbersAreFinite ==
  /\ IsFiniteSet(Numbers) /\ Cardinality(Numbers) = MaxAsked
  /\ \A n \in Numbers : IsFiniteSet(Numbers \ {n}) /\ Cardinality(Numbers \ {n}) = MaxAsked - 1
<1>1. IsFiniteSet(Numbers) /\ Cardinality(Numbers) = MaxAsked
  <2>1. 1 \in Int /\ MaxAsked \in Int /\ ~(1 > MaxAsked)
    BY ClusterBounds
  <2>2. IsFiniteSet(1..MaxAsked) /\ Cardinality(1..MaxAsked) = MaxAsked - 1 + 1
    BY <2>1, FS_Interval
  <2> QED BY <2>1, <2>2 DEF Numbers
<1> QED BY <1>1, FS_RemoveElement

LEMMA ClusterTypes ==
  ASSUME ClusterInv
  PROVE  /\ clusterPage \in ClusterRow /\ asked \in SUBSET AskedRow /\ IsFiniteSet(asked)
         /\ lists \in [List -> ReadFrom \cup {Unread}] /\ kubeconfig \in Cluster \cup {""}
         /\ moves \in 0..MaxMoves /\ hurried \in BOOLEAN
BY DEF ClusterInv, ClusterTypeOK, ClusterRow, AskedRow

LEMMA ClusterInvFrom ==
  ASSUME clusterPage' \in ClusterRow, asked' \in SUBSET AskedRow, IsFiniteSet(asked'),
         lists' \in [List -> ReadFrom \cup {Unread}], kubeconfig' \in Cluster \cup {""},
         moves' \in 0..MaxMoves, hurried' \in BOOLEAN,
         LoadIsUnderWay(clusterPage', asked'),
         ~hurried' => CallsAreOf(clusterPage', asked') /\ ListIsOf(clusterPage', lists')
  PROVE  ClusterInv'
BY DEF ClusterInv, ClusterTypeOK, ClusterRow, AskedRow

LEMMA NewNumberIsFree ==
  ASSUME ClusterInv, Cardinality(asked) < MaxAsked
  PROVE  NewNumber \in Numbers
<1>1. \E n \in Numbers : \A a \in asked : a.n # n
  BY ClusterTypes, NumbersAreFinite, FreeNumber
<1> QED BY <1>1 DEF NewNumber

LEMMA LoadIsARow ==
  ASSUME NEW kind \in {"load", "read", "create", "delete"}, NEW p \in ClusterRow, NEW list \in List, NEW n \in Numbers
  PROVE  /\ Load(kind, p, list, n) \in AskedRow
         /\ Load(kind, p, list, n).kind = kind /\ Load(kind, p, list, n).list = list
         /\ Load(kind, p, list, n).from = Source(p, list)
BY DEF Load, AskedRow, ClusterRow, Source, ReadFrom

LEMMA InitCluster == ClusterInit => ClusterInv
<1> SUFFICES ASSUME ClusterInit PROVE ClusterInv
  OBVIOUS
<1>1. clusterPage \in ClusterRow /\ clusterPage.tab = "namespaces" /\ clusterPage.loading
  BY ClusterAssumption DEF ClusterInit, ClusterRow, List
<1>2. 1 \in Numbers /\ 2 \in Numbers /\ "namespaces" \in List
  BY ClusterBounds DEF Numbers, List
<1> DEFINE first  == Load("read", clusterPage, "namespaces", 1)
           second == Load("load", clusterPage, "namespaces", 2)
<1>3. /\ first \in AskedRow /\ first.kind = "read" /\ first.list = "namespaces" /\ first.from = Source(clusterPage, "namespaces")
      /\ second \in AskedRow /\ second.kind = "load" /\ second.list = "namespaces" /\ second.from = Source(clusterPage, "namespaces")
  BY <1>1, <1>2, LoadIsARow
<1>4. asked = {first, second}
  BY DEF ClusterInit
<1> HIDE DEF first, second
<1>5. IsFiniteSet(asked)
  <2>1. asked = ({} \cup {first}) \cup {second}
    BY <1>4
  <2> QED BY <2>1, FS_EmptySet, FS_AddElement
<1>6. LoadIsUnderWay(clusterPage, asked) /\ CallsAreOf(clusterPage, asked) /\ ListIsOf(clusterPage, lists)
  BY <1>1, <1>2, <1>3, <1>4 DEF LoadIsUnderWay, CallsAreOf, ListIsOf
<1>7. /\ lists \in [List -> ReadFrom \cup {Unread}] /\ kubeconfig \in Cluster \cup {""} /\ hurried \in BOOLEAN
  BY DEF ClusterInit
<1>10. moves \in 0..MaxMoves
  <2>1. moves = 0
    BY DEF ClusterInit
  <2> QED BY <2>1, ClusterBounds
<1>8. asked \in SUBSET AskedRow
  BY <1>3, <1>4
<1>9. ClusterTypeOK
  BY <1>1, <1>7, <1>8, <1>10 DEF ClusterTypeOK, ClusterRow, AskedRow
<1> QED BY <1>5, <1>6, <1>9 DEF ClusterInv

LEMMA FlaggedRow ==
  ASSUME NEW p \in ClusterRow
  PROVE  /\ Flagged(p) \in ClusterRow /\ Flagged(p).loading /\ Flagged(p).tab = p.tab
         /\ Flagged(p).cluster = p.cluster /\ Flagged(p).ns = p.ns
         /\ \A list \in List : Source(Flagged(p), list) = Source(p, list)
BY DEF Flagged, ClusterRow, Source

\* Something else is chosen, or the same anew: the calls made before are of the page
\* chosen now unless the history says otherwise.
LEMMA ReloadKeeps ==
  ASSUME ClusterInv, NEW p \in ClusterRow, NEW calls \in SUBSET AskedRow, IsFiniteSet(calls), NEW n \in Numbers,
         NewNumber = n, asked \subseteq calls, Reloaded(p, calls),
         p.loading => clusterPage.loading,
         UNCHANGED <<lists, kubeconfig>>, moves' \in 0..MaxMoves, hurried' \in BOOLEAN,
         ~hurried' => CallsAreOf(p, calls)
  PROVE  ClusterInv'
<1>1. CASE p.tab \in List
  <2> DEFINE l == Load("load", p, p.tab, n)
  <2>1. clusterPage' = Flagged(p) /\ asked' = calls \cup {l}
    BY <1>1 DEF Reloaded
  <2>2. l \in AskedRow /\ l.kind = "load" /\ l.list = p.tab /\ l.from = Source(p, p.tab)
    BY <1>1, LoadIsARow
  <2> HIDE DEF l
  <2>3. clusterPage' \in ClusterRow /\ clusterPage'.loading /\ clusterPage'.tab = p.tab
        /\ \A list \in List : Source(clusterPage', list) = Source(p, list)
    BY <2>1, FlaggedRow
  <2>4. IsFiniteSet(asked') /\ asked' \in SUBSET AskedRow
    BY <2>1, <2>2, FS_AddElement
  <2>5. LoadIsUnderWay(clusterPage', asked')
    BY <2>1, <2>2 DEF LoadIsUnderWay
  <2>6. ~hurried' => CallsAreOf(clusterPage', asked')
    BY <1>1, <2>1, <2>2, <2>3 DEF CallsAreOf
  <2>7. ListIsOf(clusterPage', lists')
    BY <2>3 DEF ListIsOf
  <2> QED BY <2>3, <2>4, <2>5, <2>6, <2>7, ClusterTypes, ClusterInvFrom
<1>2. CASE p.tab \notin List
  <2>1. clusterPage' = p /\ asked' = calls
    BY <1>2 DEF Reloaded
  <2>2. LoadIsUnderWay(clusterPage', asked')
    BY <2>1 DEF LoadIsUnderWay, ClusterInv
  <2>3. ListIsOf(clusterPage', lists')
    BY <1>2, <2>1 DEF ListIsOf
  <2> QED BY <2>1, <2>2, <2>3, ClusterTypes, ClusterInvFrom
<1> QED BY <1>1, <1>2

\* Nothing was under way when the history does not tell of a hurry.
LEMMA Unhurried == Hurry /\ ~hurried' => asked = {}
BY DEF Hurry

LEMMA MoveTypes ==
  ASSUME ClusterInv, Move
  PROVE  moves' \in 0..MaxMoves /\ NewNumber \in Numbers
<1>1. moves' \in 0..MaxMoves
  <2>1. moves \in 0..MaxMoves
    BY ClusterTypes
  <2> QED BY <2>1, ClusterBounds DEF Move
<1> QED BY <1>1, NewNumberIsFree DEF Move

LEMMA HurryTypes == ClusterInv /\ Hurry => hurried' \in BOOLEAN
BY DEF Hurry, ClusterInv, ClusterTypeOK

LEMMA ChooseClusterSteps ==
  ASSUME ClusterInv, NEW c \in Cluster, ChooseCluster(c)
  PROVE  ClusterInv'
<1> DEFINE p == [clusterPage EXCEPT !.cluster = c]
           spare == CHOOSE n \in Numbers \ {NewNumber} : \A a \in asked : a.n # n
           l == Load("read", p, "namespaces", spare)
<1>1. /\ Move /\ Cardinality(asked) < MaxAsked - 1 /\ Hurry /\ UNCHANGED <<lists, kubeconfig>>
      /\ Reloaded(p, asked \cup {l})
  BY DEF ChooseCluster
<1>2. p \in ClusterRow /\ p.loading = clusterPage.loading
  BY ClusterTypes DEF ClusterRow
<1>3. moves' \in 0..MaxMoves /\ NewNumber \in Numbers /\ hurried' \in BOOLEAN
  BY <1>1, MoveTypes, HurryTypes
<1>4. spare \in Numbers
  <2>1. \E n \in Numbers \ {NewNumber} : \A a \in asked : a.n # n
    BY <1>1, <1>3, ClusterTypes, NumbersAreFinite, FreeNumber
  <2> QED BY <2>1
<1> HIDE DEF p, spare
<1>5. l \in AskedRow /\ l.kind = "read" /\ l.list = "namespaces" /\ l.from = Source(p, "namespaces")
  BY <1>2, <1>4, LoadIsARow DEF List
<1> HIDE DEF l
<1>6. asked \cup {l} \in SUBSET AskedRow /\ IsFiniteSet(asked \cup {l})
  BY <1>5, ClusterTypes, FS_AddElement
<1>7. ~hurried' => CallsAreOf(p, asked \cup {l})
  BY <1>1, <1>5, Unhurried DEF CallsAreOf, List
<1> QED BY <1>1, <1>2, <1>3, <1>6, <1>7, ReloadKeeps

LEMMA ChooseSteps ==
  ASSUME ClusterInv,
         \/ \E t \in List \cup {"kubeconfig"} : ChooseTab(t)
         \/ \E ns \in Namespace : ChooseNamespace(ns)
  PROVE  ClusterInv'
<1>1. PICK p \in ClusterRow : /\ Move /\ Reloaded(p, asked) /\ Hurry /\ UNCHANGED <<lists, kubeconfig>>
                             /\ p.loading = clusterPage.loading
  <2>1. ASSUME NEW t \in List \cup {"kubeconfig"}, ChooseTab(t)
        PROVE  /\ Move /\ Reloaded([clusterPage EXCEPT !.tab = t], asked) /\ Hurry /\ UNCHANGED <<lists, kubeconfig>>
               /\ [clusterPage EXCEPT !.tab = t] \in ClusterRow
               /\ [clusterPage EXCEPT !.tab = t].loading = clusterPage.loading
    BY <2>1, ClusterTypes DEF ChooseTab, ClusterRow
  <2>2. ASSUME NEW ns \in Namespace, ChooseNamespace(ns)
        PROVE  /\ Move /\ Reloaded([clusterPage EXCEPT !.ns = ns], asked) /\ Hurry /\ UNCHANGED <<lists, kubeconfig>>
               /\ [clusterPage EXCEPT !.ns = ns] \in ClusterRow
               /\ [clusterPage EXCEPT !.ns = ns].loading = clusterPage.loading
    BY <2>2, ClusterTypes DEF ChooseNamespace, ClusterRow
  <2> QED BY <2>1, <2>2
<1>2. moves' \in 0..MaxMoves /\ NewNumber \in Numbers /\ hurried' \in BOOLEAN
  BY <1>1, MoveTypes, HurryTypes
<1>3. ~hurried' => CallsAreOf(p, asked)
  BY <1>1, Unhurried DEF CallsAreOf
<1> QED BY <1>1, <1>2, <1>3, ClusterTypes, ReloadKeeps

LEMMA RefreshSteps ==
  ASSUME ClusterInv, Refresh
  PROVE  ClusterInv'
<1>1. Move /\ Reloaded(clusterPage, asked) /\ UNCHANGED <<lists, kubeconfig, hurried>>
  BY DEF Refresh
<1>2. moves' \in 0..MaxMoves /\ NewNumber \in Numbers /\ hurried' \in BOOLEAN
  BY <1>1, MoveTypes, ClusterTypes
<1>3. ~hurried' => CallsAreOf(clusterPage, asked)
  BY <1>1 DEF ClusterInv
<1> QED BY <1>1, <1>2, <1>3, ClusterTypes, ReloadKeeps

\* One more call for what is chosen.
LEMMA AskedMoreKeeps ==
  ASSUME ClusterInv, NEW l \in AskedRow, asked' = asked \cup {l}, clusterPage' \in ClusterRow,
         clusterPage'.tab = clusterPage.tab,
         \A list \in List : Source(clusterPage', list) = Source(clusterPage, list),
         clusterPage'.loading => clusterPage.loading \/ l.kind = "load",
         clusterPage.loading => clusterPage'.loading,
         ~hurried => CallsAreOf(clusterPage, {l}),
         moves' \in 0..MaxMoves, UNCHANGED <<lists, kubeconfig, hurried>>
  PROVE  ClusterInv'
<1>1. IsFiniteSet(asked') /\ asked' \in SUBSET AskedRow
  BY ClusterTypes, FS_AddElement
<1>2. LoadIsUnderWay(clusterPage', asked')
  BY DEF ClusterInv, LoadIsUnderWay
<1>3. ~hurried => CallsAreOf(clusterPage', asked')
  BY DEF ClusterInv, CallsAreOf
<1>4. ~hurried => ListIsOf(clusterPage', lists')
  BY DEF ClusterInv, ListIsOf
<1> QED BY <1>1, <1>2, <1>3, <1>4, ClusterTypes, ClusterInvFrom

LEMMA ClusterOperationSteps ==
  ASSUME ClusterInv, Create \/ Delete
  PROVE  ClusterInv'
<1>1. PICK kind \in {"create", "delete"} :
        /\ Move /\ clusterPage.tab \in List
        /\ asked' = asked \cup {Load(kind, clusterPage, clusterPage.tab, NewNumber)}
        /\ UNCHANGED <<clusterPage, lists, kubeconfig, hurried>>
  BY DEF Create, Delete, Shown, List
<1>2. moves' \in 0..MaxMoves /\ NewNumber \in Numbers
  BY <1>1, MoveTypes
<1> DEFINE l == Load(kind, clusterPage, clusterPage.tab, NewNumber)
<1>3. l \in AskedRow /\ l.kind = kind /\ l.list = clusterPage.tab /\ l.from = Source(clusterPage, clusterPage.tab)
  <2>1. clusterPage \in ClusterRow /\ kind \in {"load", "read", "create", "delete"}
    BY ClusterTypes
  <2> QED BY <1>1, <1>2, <2>1, LoadIsARow
<1>4. asked' = asked \cup {l}
  BY <1>1
<1> HIDE DEF l
<1>5. CallsAreOf(clusterPage, {l})
  BY <1>3 DEF CallsAreOf
<1> QED BY <1>1, <1>2, <1>3, <1>4, <1>5, ClusterTypes, AskedMoreKeeps

LEMMA KubeconfigSteps ==
  ASSUME ClusterInv, LoadKubeconfig
  PROVE  ClusterInv'
<1> DEFINE l == [n |-> NewNumber, kind |-> "load", list |-> "kubeconfig",
                 from |-> [cluster |-> clusterPage.cluster, ns |-> ""]]
<1>1. /\ Move /\ clusterPage.tab = "kubeconfig" /\ clusterPage' = Flagged(clusterPage) /\ asked' = asked \cup {l}
      /\ UNCHANGED <<lists, kubeconfig, hurried>>
  BY DEF LoadKubeconfig
<1>2. moves' \in 0..MaxMoves /\ NewNumber \in Numbers
  BY <1>1, MoveTypes
<1>3. l \in AskedRow /\ l.kind = "load" /\ l.list = "kubeconfig" /\ l.list \notin List
  BY <1>2, ClusterTypes DEF AskedRow, ClusterRow, ReadFrom, List
<1> HIDE DEF l
<1>4. CallsAreOf(clusterPage, {l})
  BY <1>1, <1>3 DEF CallsAreOf
<1> QED BY <1>1, <1>2, <1>3, <1>4, ClusterTypes, FlaggedRow, AskedMoreKeeps

LEMMA OpenClusterSteps ==
  ASSUME ClusterInv, NEW c \in Cluster, OpenClusterPage(c)
  PROVE  ClusterInv'
<1> DEFINE p == [cluster |-> c, tab |-> "namespaces", ns |-> "default", loading |-> TRUE]
<1>1. p \in ClusterRow /\ p.tab = "namespaces" /\ p.loading
  BY ClusterAssumption DEF ClusterRow, List
<1>2. 1 \in Numbers /\ 2 \in Numbers /\ "namespaces" \in List
  BY ClusterBounds DEF Numbers, List
<1>3. clusterPage' = p /\ asked' = {Load("read", p, "namespaces", 1), Load("load", p, "namespaces", 2)}
  BY DEF OpenClusterPage
<1> HIDE DEF p
<1> DEFINE first  == Load("read", p, "namespaces", 1)
           second == Load("load", p, "namespaces", 2)
<1>4. /\ first \in AskedRow /\ first.kind = "read" /\ first.list = "namespaces" /\ first.from = Source(p, "namespaces")
      /\ second \in AskedRow /\ second.kind = "load" /\ second.list = "namespaces" /\ second.from = Source(p, "namespaces")
  BY <1>1, <1>2, LoadIsARow
<1>5. asked' = {first, second}
  BY <1>3
<1> HIDE DEF first, second
<1>6. IsFiniteSet(asked')
  <2>1. asked' = ({} \cup {first}) \cup {second}
    BY <1>5
  <2> QED BY <2>1, FS_EmptySet, FS_AddElement
<1>7. LoadIsUnderWay(clusterPage', asked') /\ CallsAreOf(clusterPage', asked') /\ ListIsOf(clusterPage', lists')
  BY <1>1, <1>2, <1>3, <1>4, <1>5 DEF LoadIsUnderWay, CallsAreOf, ListIsOf
<1>8. /\ lists' \in [List -> ReadFrom \cup {Unread}] /\ kubeconfig' \in Cluster \cup {""} /\ hurried' \in BOOLEAN
  BY DEF OpenClusterPage
<1>10. moves' \in 0..MaxMoves
  <2>1. moves' = 0
    BY DEF OpenClusterPage
  <2> QED BY <2>1, ClusterBounds
<1>9. asked' \in SUBSET AskedRow
  BY <1>4, <1>5
<1> QED BY <1>1, <1>3, <1>6, <1>7, <1>8, <1>9, <1>10, ClusterInvFrom

LEMMA ClusterListSteps ==
  ASSUME ClusterInv, NEW a \in asked, ListAnswered(a)
  PROVE  ClusterInv'
<1>1. /\ a.kind \in {"load", "read"} /\ a.list \in List /\ asked' = asked \ {a}
      /\ lists' = [lists EXCEPT ![a.list] = a.from]
      /\ clusterPage' = [clusterPage EXCEPT !.loading = a.kind = "read" /\ @]
      /\ UNCHANGED <<kubeconfig, moves, hurried>>
  BY DEF ListAnswered
<1>2. a \in AskedRow /\ a.from \in ReadFrom
  BY ClusterTypes DEF AskedRow
<1>3. /\ clusterPage' \in ClusterRow /\ clusterPage'.tab = clusterPage.tab
      /\ clusterPage'.cluster = clusterPage.cluster /\ clusterPage'.ns = clusterPage.ns
      /\ clusterPage'.loading <=> a.kind = "read" /\ clusterPage.loading
  BY <1>1, ClusterTypes DEF ClusterRow
<1>4. \A list \in List : Source(clusterPage', list) = Source(clusterPage, list)
  BY <1>3 DEF Source
<1>5. IsFiniteSet(asked') /\ asked' \in SUBSET AskedRow /\ lists' \in [List -> ReadFrom \cup {Unread}]
  BY <1>1, <1>2, ClusterTypes, FS_RemoveElement
<1>6. LoadIsUnderWay(clusterPage', asked')
  BY <1>1, <1>3 DEF ClusterInv, LoadIsUnderWay
<1>7. ~hurried => CallsAreOf(clusterPage', asked')
  BY <1>1, <1>3, <1>4 DEF ClusterInv, CallsAreOf
<1>8. ASSUME ~hurried PROVE ListIsOf(clusterPage', lists')
  <2>1. CallsAreOf(clusterPage, asked) /\ ListIsOf(clusterPage, lists)
    BY <1>8 DEF ClusterInv
  <2>2. lists'[a.list] = Source(clusterPage, a.list) /\ \A list \in List : list # a.list => lists'[list] = lists[list]
    BY <1>1, <2>1, ClusterTypes DEF CallsAreOf
  <2>3. a.kind = "load" => a.list = clusterPage.tab
    BY <2>1 DEF CallsAreOf
  <2> QED BY <1>1, <1>3, <1>4, <2>1, <2>2, <2>3 DEF ListIsOf
<1> QED BY <1>1, <1>3, <1>5, <1>6, <1>7, <1>8, ClusterTypes, ClusterInvFrom

LEMMA KubeconfigAnswers ==
  ASSUME ClusterInv, NEW a \in asked, NEW found \in BOOLEAN, KubeconfigAnswered(a, found)
  PROVE  ClusterInv'
<1>1. /\ a.list = "kubeconfig" /\ asked' = asked \ {a} /\ kubeconfig' = (IF found THEN a.from.cluster ELSE "")
      /\ clusterPage' = [clusterPage EXCEPT !.loading = FALSE] /\ UNCHANGED <<lists, moves, hurried>>
  BY DEF KubeconfigAnswered
<1>2. a \in AskedRow /\ a.from.cluster \in Cluster
  BY ClusterTypes DEF AskedRow, ReadFrom
<1>3. /\ clusterPage' \in ClusterRow /\ clusterPage'.tab = clusterPage.tab
      /\ clusterPage'.cluster = clusterPage.cluster /\ clusterPage'.ns = clusterPage.ns /\ ~clusterPage'.loading
  BY <1>1, ClusterTypes DEF ClusterRow
<1>4. \A list \in List : Source(clusterPage', list) = Source(clusterPage, list)
  BY <1>3 DEF Source
<1>5. IsFiniteSet(asked') /\ asked' \in SUBSET AskedRow /\ kubeconfig' \in Cluster \cup {""}
  BY <1>1, <1>2, ClusterTypes, FS_RemoveElement
<1>6. LoadIsUnderWay(clusterPage', asked')
  BY <1>3 DEF LoadIsUnderWay
<1>7. ~hurried => CallsAreOf(clusterPage', asked')
  BY <1>1, <1>3, <1>4 DEF ClusterInv, CallsAreOf
<1>8. ASSUME ~hurried PROVE ListIsOf(clusterPage', lists')
  \* A kubeconfig is loaded by the tab that no list belongs to.
  <2>1. CASE a.kind = "read"
    BY <1>1, <1>8, <2>1 DEF ClusterInv, CallsAreOf, List
  <2>2. CASE a.kind # "read"
    <3>1. clusterPage.tab = "kubeconfig"
      BY <1>1, <1>8, <2>2 DEF ClusterInv, CallsAreOf
    <3> QED BY <1>3, <3>1 DEF ListIsOf, List
  <2> QED BY <2>1, <2>2
<1> QED BY <1>1, <1>3, <1>5, <1>6, <1>7, <1>8, ClusterTypes, ClusterInvFrom

LEMMA OperationAnswers ==
  ASSUME ClusterInv, NEW a \in asked, NEW success \in BOOLEAN, OperationAnswered(a, success)
  PROVE  ClusterInv'
<1> DEFINE l == [a EXCEPT !.kind = "load"]
<1>1. /\ a.kind \in {"create", "delete"}
      /\ asked' = (asked \ {a}) \cup IF success THEN {l} ELSE {}
      /\ clusterPage' = IF success THEN Flagged(clusterPage) ELSE clusterPage
      /\ UNCHANGED <<lists, kubeconfig, moves, hurried>>
  BY DEF OperationAnswered
<1>2. l \in AskedRow /\ l.kind = "load" /\ l.list = a.list /\ l.from = a.from
  BY ClusterTypes DEF AskedRow
<1> HIDE DEF l
<1>3. /\ clusterPage' \in ClusterRow /\ clusterPage'.tab = clusterPage.tab
      /\ \A list \in List : Source(clusterPage', list) = Source(clusterPage, list)
      /\ clusterPage'.loading = (success \/ clusterPage.loading)
  <2>1. clusterPage.loading \in BOOLEAN
    BY ClusterTypes DEF ClusterRow
  <2> QED BY <1>1, <2>1, ClusterTypes, FlaggedRow
<1>4. IsFiniteSet(asked') /\ asked' \in SUBSET AskedRow
  <2>1. IsFiniteSet(asked \ {a}) /\ asked \ {a} \in SUBSET AskedRow
    BY ClusterTypes, FS_RemoveElement
  <2>2. asked' = (asked \ {a}) \cup {l} \/ asked' = asked \ {a}
    BY <1>1
  <2>3. IsFiniteSet((asked \ {a}) \cup {l})
    BY <2>1, FS_AddElement
  <2> QED BY <1>2, <2>1, <2>2, <2>3
<1>5. LoadIsUnderWay(clusterPage', asked')
  BY <1>1, <1>2, <1>3 DEF ClusterInv, LoadIsUnderWay
<1>6. ~hurried => CallsAreOf(clusterPage', asked')
  BY <1>1, <1>2, <1>3 DEF ClusterInv, CallsAreOf
<1>7. ~hurried => ListIsOf(clusterPage', lists')
  BY <1>1, <1>3 DEF ClusterInv, ListIsOf
<1> QED BY <1>1, <1>3, <1>4, <1>5, <1>6, <1>7, ClusterTypes, ClusterInvFrom

LEMMA NextCluster == ClusterInv /\ [ClusterNext]_clusterVars => ClusterInv'
<1> SUFFICES ASSUME ClusterInv, [ClusterNext]_clusterVars PROVE ClusterInv'
  OBVIOUS
<1>1. CASE UNCHANGED clusterVars
  BY <1>1 DEF clusterVars, ClusterInv, ClusterTypeOK, LoadIsUnderWay, CallsAreOf, ListIsOf
<1> QED
  BY <1>1, ChooseClusterSteps, ChooseSteps, RefreshSteps, ClusterOperationSteps, KubeconfigSteps, OpenClusterSteps,
     ClusterListSteps, KubeconfigAnswers, OperationAnswers DEF ClusterNext

LEMMA ClusterImplies == ClusterInv => ClusterTypeOK /\ ListIsOfItsCluster /\ LoadingIsReal
BY DEF ClusterInv, ListIsOfItsCluster, LoadingIsReal, LoadIsUnderWay, ListIsOf, Shown

\* The cluster page shows the list of the cluster and namespace chosen, unless
\* something was chosen while a call was under way, and hides it only while a load is,
\* for any clusters, namespaces, lists and calls (K8sManagePage.tsx).
THEOREM ClusterPageStaysReal == ClusterSpec => [](ClusterTypeOK /\ ListIsOfItsCluster /\ LoadingIsReal)
<1>1. ClusterSpec => []ClusterInv
  BY InitCluster, NextCluster, PTL DEF ClusterSpec
<1> QED BY <1>1, ClusterImplies, PTL

-----------------------------------------------------------------------------
(* The deploy page. One operation runs, and the wizard waits for one       *)
(* answer, which their flags say; what is shown, and what is on its way,   *)
(* is of the project selected unless the user was quicker.                 *)

DeployRow == [listed : SUBSET Project, selected : Project \cup {""}, git : Project \cup {""},
              rollout : Project \cup {""}, result : Project \cup {""}, busy : BOOLEAN]
WizardRow == [open : BOOLEAN, step : 1..4, provider : GitHost, repo : BOOLEAN, loading : BOOLEAN]
WaitRow == [what : {"list", "git", "rollout", "remove", "remove selected", "operation",
                    "provider", "repo", "add", "added"}, project : Project \cup {""}]

\* One operation runs, which the flag says.
OneOperation(d, ws) ==
    /\ d.busy <=> \E w \in ws : w.what = "operation"
    /\ \A w, x \in ws : w.what = "operation" /\ x.what = "operation" => w = x

\* The wizard waits for one answer, which its flag says.
OneLoad(z, ws) ==
    /\ z.loading <=> \E w \in ws : w.what \in {"provider", "repo"}
    /\ \A w, x \in ws : w.what \in {"provider", "repo"} /\ x.what \in {"provider", "repo"} => w = x

\* What is shown, and what is to be shown, is of the project selected.
OfTheSelected(d, ws) ==
    d.selected # "" =>
        /\ {d.git, d.rollout, d.result} \subseteq {"", d.selected}
        /\ \A w \in ws : w.what \in {"git", "rollout", "operation"} => w.project = d.selected

DeployInv ==
    /\ DeployTypeOK
    /\ OneOperation(deployPage, waits) /\ OneLoad(wizard, waits)
    /\ ~rushed => OfTheSelected(deployPage, waits)

LEMMA DeployTypes ==
  ASSUME DeployInv
  PROVE  /\ projects \in SUBSET Project /\ deployPage \in DeployRow /\ wizard \in WizardRow
         /\ waits \in SUBSET WaitRow /\ presses \in 0..MaxPresses /\ rushed \in BOOLEAN
BY DEF DeployInv, DeployTypeOK, DeployRow, WizardRow, WaitRow

LEMMA DeployInvFrom ==
  ASSUME projects' \in SUBSET Project, deployPage' \in DeployRow, wizard' \in WizardRow,
         waits' \in SUBSET WaitRow, presses' \in 0..MaxPresses, rushed' \in BOOLEAN,
         OneOperation(deployPage', waits'), OneLoad(wizard', waits'),
         ~rushed' => OfTheSelected(deployPage', waits')
  PROVE  DeployInv'
BY DEF DeployInv, DeployTypeOK, DeployRow, WizardRow, WaitRow

LEMMA PressTypes == DeployInv /\ Press => presses' \in 0..MaxPresses
<1> SUFFICES ASSUME DeployInv, Press PROVE presses' \in 0..MaxPresses
  OBVIOUS
<1>1. MaxPresses \in Nat /\ presses \in 0..MaxPresses
  BY DeployTypes, DeployAssumption
<1> QED BY <1>1 DEF Press

LEMMA WaitRows ==
  /\ \A what \in {"list", "git", "rollout", "remove", "remove selected", "operation", "provider", "repo", "add", "added"},
        p \in Project \cup {""} : Wait(what, p) \in WaitRow
  /\ \A what, p : Wait(what, p).what = what /\ Wait(what, p).project = p
  /\ Listing \in WaitRow /\ Listing.what = "list"
BY DEF Wait, WaitRow, Listing

\* What the page opens with.
LEMMA OpenedDeploys ==
  /\ EmptyPage \in DeployRow /\ NewWizard \in WizardRow /\ {Listing} \in SUBSET WaitRow
  /\ OneOperation(EmptyPage, {Listing}) /\ OneLoad(NewWizard, {Listing}) /\ OfTheSelected(EmptyPage, {Listing})
  /\ 0 \in 0..MaxPresses
<1>1. EmptyPage \in DeployRow /\ EmptyPage.selected = "" /\ ~EmptyPage.busy
  BY DEF EmptyPage, DeployRow
<1>2. NewWizard \in WizardRow /\ ~NewWizard.loading
  BY DEF NewWizard, WizardRow, GitHost
<1>3. 0 \in 0..MaxPresses
  <2>1. MaxPresses \in Nat
    BY DeployAssumption
  <2> QED BY <2>1
<1> QED BY <1>1, <1>2, <1>3, WaitRows DEF OneOperation, OneLoad, OfTheSelected

LEMMA InitDeploy == DeployInit => DeployInv
BY OpenedDeploys DEF DeployInit, DeployInv, DeployTypeOK, DeployRow, WizardRow, WaitRow

LEMMA ReopenSteps ==
  ASSUME DeployInv, OpenDeployPage
  PROVE  DeployInv'
BY OpenedDeploys, DeployTypes, DeployInvFrom DEF OpenDeployPage

\* The page changes what it shows or waits for; no operation starts or ends.
LEMMA PageKeepsFlags ==
  ASSUME DeployInv, projects' \in SUBSET Project, deployPage' \in DeployRow, wizard' = wizard,
         deployPage'.busy = deployPage.busy, presses' \in 0..MaxPresses, rushed' \in BOOLEAN,
         waits' \in SUBSET WaitRow,
         \A w \in waits' : w \in waits \/ w.what \notin {"operation", "provider", "repo"},
         \A w \in waits : w \in waits' \/ w.what \notin {"operation", "provider", "repo"},
         ~rushed' => OfTheSelected(deployPage', waits')
  PROVE  DeployInv'
<1>1. OneOperation(deployPage', waits')
  BY DEF DeployInv, OneOperation
<1>2. OneLoad(wizard', waits')
  BY DEF DeployInv, OneLoad
<1> QED BY <1>1, <1>2, DeployTypes, DeployInvFrom

LEMMA SelectProjectSteps ==
  ASSUME DeployInv, NEW p \in Project, SelectProject(p)
  PROVE  DeployInv'
<1>1. /\ Press /\ deployPage' = ClearedShown(p) /\ waits' = waits \cup {Wait("git", p)}
      /\ rushed' = (rushed \/ \E w \in waits : AboutShown(w)) /\ UNCHANGED <<projects, wizard>>
  BY DEF SelectProject, Rush
<1>2. /\ deployPage' \in DeployRow /\ deployPage'.selected = p /\ deployPage'.git = "" /\ deployPage'.rollout = ""
      /\ deployPage'.result = "" /\ deployPage'.busy = deployPage.busy
  BY <1>1, DeployTypes DEF ClearedShown, DeployRow
<1>3. waits' \in SUBSET WaitRow /\ \A w \in waits' : w \in waits \/ (w.what = "git" /\ w.project = p)
  BY <1>1, DeployTypes, WaitRows
<1>4. ~rushed' => OfTheSelected(deployPage', waits')
  BY <1>1, <1>2, <1>3 DEF AboutShown, OfTheSelected
<1>5. rushed' \in BOOLEAN /\ presses' \in 0..MaxPresses
  BY <1>1, DeployTypes, PressTypes
<1> QED BY <1>1, <1>2, <1>3, <1>4, <1>5, DeployTypes, PageKeepsFlags

LEMMA RemoveLinkSteps ==
  ASSUME DeployInv, NEW p \in Project, RemoveLink(p)
  PROVE  DeployInv'
<1> DEFINE l == Wait(IF deployPage.selected = p THEN "remove selected" ELSE "remove", p)
<1>1. /\ Press /\ waits' = waits \cup {l}
      /\ rushed' = (rushed \/ \E w \in waits : AboutShown(w)) /\ UNCHANGED <<projects, deployPage, wizard>>
  BY DEF RemoveLink, Rush
<1>2. l \in WaitRow /\ l.what \in {"remove", "remove selected"}
  BY WaitRows
<1> HIDE DEF l
<1>3. waits' \in SUBSET WaitRow /\ \A w \in waits' : w \in waits \/ w.what \in {"remove", "remove selected"}
  BY <1>1, <1>2, DeployTypes
<1>4. ~rushed' => OfTheSelected(deployPage', waits')
  BY <1>1, <1>3 DEF DeployInv, OfTheSelected
<1>5. rushed' \in BOOLEAN /\ presses' \in 0..MaxPresses
  BY <1>1, DeployTypes, PressTypes
<1> QED BY <1>1, <1>3, <1>4, <1>5, DeployTypes, PageKeepsFlags

\* Answers about projects.
LEMMA AnsweredSteps ==
  ASSUME DeployInv,
         \/ ProjectsListed
         \/ \E p \in Project : RolloutAnswered(p) \/ ProjectAdded(p) \/ \E found \in BOOLEAN : GitAnswered(p, found)
         \/ \E w \in waits : LinkRemoved(w) \/ SaveFails(w)
  PROVE  DeployInv'
<1>1. CASE ProjectsListed
  <2>1. deployPage' = [deployPage EXCEPT !.listed = projects] /\ waits' = waits \ {Listing}
        /\ UNCHANGED <<projects, wizard, presses, rushed>>
    BY <1>1 DEF ProjectsListed
  <2>2. /\ deployPage' \in DeployRow /\ deployPage'.selected = deployPage.selected /\ deployPage'.git = deployPage.git
        /\ deployPage'.rollout = deployPage.rollout /\ deployPage'.result = deployPage.result
        /\ deployPage'.busy = deployPage.busy
    BY <2>1, DeployTypes DEF DeployRow
  <2>3. ~rushed' => OfTheSelected(deployPage', waits')
    BY <2>1, <2>2 DEF DeployInv, OfTheSelected
  <2> QED BY <2>1, <2>2, <2>3, WaitRows, DeployTypes, PageKeepsFlags
<1>2. ASSUME NEW p \in Project, RolloutAnswered(p) PROVE DeployInv'
  <2> DEFINE l == Wait("rollout", p)
  <2>1. /\ deployPage' = [deployPage EXCEPT !.rollout = p] /\ waits' = waits \ {l}
        /\ l \in waits /\ UNCHANGED <<projects, wizard, presses, rushed>>
    BY <1>2 DEF RolloutAnswered
  <2>4. l.what = "rollout" /\ l.project = p
    BY WaitRows
  <2> HIDE DEF l
  <2>2. /\ deployPage' \in DeployRow /\ deployPage'.selected = deployPage.selected /\ deployPage'.git = deployPage.git
        /\ deployPage'.rollout = p /\ deployPage'.result = deployPage.result
        /\ deployPage'.busy = deployPage.busy
    BY <2>1, DeployTypes DEF DeployRow
  <2>3. ~rushed' => OfTheSelected(deployPage', waits')
    BY <2>1, <2>2, <2>4 DEF DeployInv, OfTheSelected
  <2> QED BY <2>1, <2>2, <2>3, <2>4, DeployTypes, PageKeepsFlags
<1>3. ASSUME NEW p \in Project, ProjectAdded(p) PROVE DeployInv'
  <2>1. projects' = projects \cup {p} /\ waits' = (waits \ {Wait("add", p)}) \cup {Wait("added", "")}
        /\ UNCHANGED <<deployPage, wizard, presses, rushed>>
    BY <1>3 DEF ProjectAdded
  <2>2. projects' \in SUBSET Project
    BY <2>1, DeployTypes
  <2>3. waits' \in SUBSET WaitRow /\ \A w \in waits' : w \in waits \/ w.what = "added"
    BY <2>1, DeployTypes, WaitRows
  <2>4. ~rushed' => OfTheSelected(deployPage', waits')
    BY <2>1, <2>3 DEF DeployInv, OfTheSelected
  <2>5. \A w \in waits : w \in waits' \/ w.what = "add"
    BY <2>1, WaitRows
  <2> QED BY <2>1, <2>2, <2>3, <2>4, <2>5, DeployTypes, PageKeepsFlags
<1>4. ASSUME NEW p \in Project, NEW found \in BOOLEAN, GitAnswered(p, found) PROVE DeployInv'
  <2> DEFINE l == Wait("git", p)
             r == Wait("rollout", p)
  <2>1. /\ deployPage' = (IF found THEN [deployPage EXCEPT !.git = p] ELSE deployPage) /\ l \in waits
        /\ waits' = waits \ {l} \/ waits' = (waits \ {l}) \cup {r}
        /\ UNCHANGED <<projects, wizard, presses, rushed>>
    <3>1. waits' = (waits \ {l}) \cup IF p \in Deployed THEN {r} ELSE {}
      BY <1>4 DEF GitAnswered
    <3>2. waits' = waits \ {l} \/ waits' = (waits \ {l}) \cup {r}
      BY <3>1
    <3> QED BY <1>4, <3>2 DEF GitAnswered
  <2>5. l.what = "git" /\ l.project = p /\ r.what = "rollout" /\ r.project = p /\ r \in WaitRow
    BY WaitRows
  <2> HIDE DEF l, r
  <2>2. /\ deployPage' \in DeployRow /\ deployPage'.selected = deployPage.selected /\ deployPage'.git \in {p, deployPage.git}
        /\ deployPage'.rollout = deployPage.rollout /\ deployPage'.result = deployPage.result
        /\ deployPage'.busy = deployPage.busy
    BY <2>1, DeployTypes DEF DeployRow
  <2>3. /\ waits' \in SUBSET WaitRow /\ \A w \in waits' : w \in waits \/ (w.what = "rollout" /\ w.project = p)
        /\ \A w \in waits : w \in waits' \/ w.what = "git"
    BY <2>1, <2>5, DeployTypes
  <2>4. ~rushed' => OfTheSelected(deployPage', waits')
    BY <2>1, <2>2, <2>3, <2>5 DEF DeployInv, OfTheSelected
  <2> QED BY <2>1, <2>2, <2>3, <2>4, DeployTypes, PageKeepsFlags
<1>5. ASSUME NEW w \in waits, LinkRemoved(w) PROVE DeployInv'
  <2>1. /\ w.what \in {"remove", "remove selected"} /\ projects' = projects \ {w.project}
        /\ waits' = (waits \ {w}) \cup {Listing} /\ UNCHANGED <<wizard, presses, rushed>>
        /\ deployPage' \in {deployPage, [deployPage EXCEPT !.selected = ""]}
    BY <1>5 DEF LinkRemoved
  <2>2. /\ deployPage' \in DeployRow /\ deployPage'.selected \in {"", deployPage.selected} /\ deployPage'.git = deployPage.git
        /\ deployPage'.rollout = deployPage.rollout /\ deployPage'.result = deployPage.result
        /\ deployPage'.busy = deployPage.busy
    BY <2>1, DeployTypes DEF DeployRow
  <2>3. waits' \in SUBSET WaitRow /\ \A x \in waits' : x \in waits \/ x.what = "list"
    BY <2>1, DeployTypes, WaitRows
  <2>4. ~rushed' => OfTheSelected(deployPage', waits')
    BY <2>1, <2>2, <2>3 DEF DeployInv, OfTheSelected
  <2>5. projects' \in SUBSET Project
    BY <2>1, DeployTypes
  <2> QED BY <2>1, <2>2, <2>3, <2>4, <2>5, DeployTypes, PageKeepsFlags
<1>6. ASSUME NEW w \in waits, SaveFails(w) PROVE DeployInv'
  <2>1. w.what \in {"add", "remove", "remove selected"} /\ waits' = waits \ {w}
        /\ UNCHANGED <<projects, deployPage, wizard, presses, rushed>>
    BY <1>6 DEF SaveFails
  <2>2. ~rushed' => OfTheSelected(deployPage', waits')
    BY <2>1 DEF DeployInv, OfTheSelected
  <2> QED BY <2>1, <2>2, DeployTypes, PageKeepsFlags
<1> QED BY <1>1, <1>2, <1>3, <1>4, <1>5, <1>6

LEMMA DeployOperationSteps ==
  ASSUME DeployInv, StartOperation \/ \E p \in Project : OperationEnds(p)
  PROVE  DeployInv'
<1>1. CASE StartOperation
  <2> DEFINE l == Wait("operation", deployPage.selected)
  <2>1. /\ Press /\ deployPage.selected # "" /\ ~deployPage.busy
        /\ deployPage' = [deployPage EXCEPT !.busy = TRUE, !.result = ""] /\ waits' = waits \cup {l}
        /\ UNCHANGED <<projects, wizard, rushed>>
    BY <1>1 DEF StartOperation
  <2>2. l \in WaitRow /\ l.what = "operation" /\ l.project = deployPage.selected
    <3>1. deployPage.selected \in Project \cup {""}
      BY DeployTypes DEF DeployRow
    <3> QED BY <3>1, WaitRows
  <2> HIDE DEF l
  <2>3. /\ deployPage' \in DeployRow /\ deployPage'.selected = deployPage.selected /\ deployPage'.git = deployPage.git
        /\ deployPage'.rollout = deployPage.rollout /\ deployPage'.result = "" /\ deployPage'.busy
    BY <2>1, DeployTypes DEF DeployRow
  <2>4. OneOperation(deployPage', waits')
    BY <2>1, <2>2, <2>3 DEF DeployInv, OneOperation
  <2>5. OneLoad(wizard', waits')
    BY <2>1, <2>2 DEF DeployInv, OneLoad
  <2>6. ~rushed' => OfTheSelected(deployPage', waits')
    BY <2>1, <2>2, <2>3 DEF DeployInv, OfTheSelected
  <2>7. waits' \in SUBSET WaitRow
    BY <2>1, <2>2, DeployTypes
  <2> QED BY <2>1, <2>3, <2>4, <2>5, <2>6, <2>7, DeployTypes, PressTypes, DeployInvFrom
<1>2. ASSUME NEW p \in Project, OperationEnds(p) PROVE DeployInv'
  <2> DEFINE l == Wait("operation", p)
  <2>1. l \in waits /\ waits' = waits \ {l} /\ deployPage' = Settled(p) /\ UNCHANGED <<projects, wizard, presses, rushed>>
    BY <1>2 DEF OperationEnds
  <2>2. l.what = "operation" /\ l.project = p
    BY WaitRows
  <2> HIDE DEF l
  <2>3. /\ deployPage' \in DeployRow /\ deployPage'.selected = deployPage.selected /\ deployPage'.git = deployPage.git
        /\ deployPage'.rollout = deployPage.rollout /\ deployPage'.result = p /\ ~deployPage'.busy
    BY <2>1, DeployTypes DEF DeployRow, Settled
  <2>4. OneOperation(deployPage', waits')
    BY <2>1, <2>2, <2>3 DEF DeployInv, OneOperation
  <2>5. OneLoad(wizard', waits')
    BY <2>1, <2>2 DEF DeployInv, OneLoad
  <2>6. ~rushed' => OfTheSelected(deployPage', waits')
    BY <2>1, <2>2, <2>3 DEF DeployInv, OfTheSelected
  <2> QED BY <2>1, <2>3, <2>4, <2>5, <2>6, DeployTypes, DeployInvFrom
<1> QED BY <1>1, <1>2

LEMMA NotConfiguredSteps ==
  ASSUME DeployInv, NotConfigured
  PROVE  DeployInv'
<1>1. Press /\ deployPage' = [deployPage EXCEPT !.result = deployPage.selected]
      /\ UNCHANGED <<projects, wizard, waits, rushed>>
  BY DEF NotConfigured
<1>2. /\ deployPage' \in DeployRow /\ deployPage'.selected = deployPage.selected /\ deployPage'.git = deployPage.git
      /\ deployPage'.rollout = deployPage.rollout /\ deployPage'.result = deployPage.selected
      /\ deployPage'.busy = deployPage.busy
  BY <1>1, DeployTypes DEF DeployRow
<1>3. ~rushed' => OfTheSelected(deployPage', waits')
  BY <1>1, <1>2 DEF DeployInv, OfTheSelected
<1> QED BY <1>1, <1>2, <1>3, DeployTypes, PressTypes, PageKeepsFlags

\* The wizard moves without waiting for anything, or a project is to be saved.
LEMMA WizardKeeps ==
  ASSUME DeployInv, wizard' \in WizardRow, wizard'.loading = wizard.loading, presses' \in 0..MaxPresses,
         waits' \in SUBSET WaitRow, waits \subseteq waits', \A w \in waits' : w \in waits \/ w.what = "add",
         UNCHANGED <<projects, deployPage, rushed>>
  PROVE  DeployInv'
<1>1. OneOperation(deployPage', waits')
  BY DEF DeployInv, OneOperation
<1>2. OneLoad(wizard', waits')
  BY DEF DeployInv, OneLoad
<1>3. ~rushed' => OfTheSelected(deployPage', waits')
  BY DEF DeployInv, OfTheSelected
<1> QED BY <1>1, <1>2, <1>3, DeployTypes, DeployInvFrom

LEMMA WizardSteps ==
  ASSUME DeployInv,
         \/ StartWizard \/ ChooseRepo
         \/ \E cross \in BOOLEAN : WizardBack(cross)
         \/ \E v \in GitHost : ChooseGitHost(v)
         \/ \E step \in {"provider", "repo", "server"} : NextStep(step)
         \/ \E p \in Project : NextSaves(p)
  PROVE  DeployInv'
<1>1. presses' \in 0..MaxPresses /\ wizard \in WizardRow /\ waits \in SUBSET WaitRow
      /\ UNCHANGED <<projects, deployPage, rushed>>
  BY PressTypes, DeployTypes DEF StartWizard, ChooseRepo, WizardBack, ChooseGitHost, NextStep, NextSaves
<1>2. CASE StartWizard \/ ChooseRepo \/ \E v \in GitHost : ChooseGitHost(v)
  <2>1. /\ waits' = waits
        /\ \/ wizard' = [wizard EXCEPT !.open = TRUE, !.step = 1]
           \/ wizard' = [wizard EXCEPT !.repo = TRUE]
           \/ \E v \in GitHost : wizard' = [wizard EXCEPT !.provider = v]
    BY <1>2 DEF StartWizard, ChooseRepo, ChooseGitHost
  <2>2. wizard' \in WizardRow /\ wizard'.loading = wizard.loading
    <3>1. CASE wizard' = [wizard EXCEPT !.open = TRUE, !.step = 1]
      <4>1. 1 \in 1..4
        OBVIOUS
      <4> QED BY <1>1, <3>1, <4>1 DEF WizardRow
    <3>2. CASE wizard' = [wizard EXCEPT !.repo = TRUE]
      BY <1>1, <3>2 DEF WizardRow
    <3>3. ASSUME NEW v \in GitHost, wizard' = [wizard EXCEPT !.provider = v]
          PROVE  wizard' \in WizardRow /\ wizard'.loading = wizard.loading
      BY <1>1, <3>3 DEF WizardRow
    <3> QED BY <2>1, <3>1, <3>2, <3>3
  <2> QED BY <1>1, <2>1, <2>2, WizardKeeps
<1>3. ASSUME NEW cross \in BOOLEAN, WizardBack(cross) PROVE DeployInv'
  <2>1. \/ wizard' = [wizard EXCEPT !.open = FALSE]
        \/ wizard.step # 1 /\ wizard' = [wizard EXCEPT !.step = @ - 1]
    BY <1>3 DEF WizardBack
  <2>2. wizard.step \in 1..4
    BY <1>1 DEF WizardRow
  <2>3. wizard.step # 1 => wizard.step - 1 \in 1..4
    BY <2>2
  <2>4. wizard' \in WizardRow /\ wizard'.loading = wizard.loading /\ waits' = waits
    BY <1>1, <1>3, <2>1, <2>3 DEF WizardRow, WizardBack
  <2> QED BY <1>1, <2>4, WizardKeeps
<1>4. ASSUME NEW step \in {"provider", "repo", "server"}, NextStep(step) PROVE DeployInv'
  <2>1. wizard' = [wizard EXCEPT !.step = @ + 1] /\ waits' = waits /\ Step[wizard.step] = step
    BY <1>4 DEF NextStep, NextPressed
  <2>2. wizard.step \in 1..4
    BY <1>1 DEF WizardRow
  <2>3. Step[4] = "details"
    BY DEF Step
  <2>4. wizard.step # 4
    BY <2>1, <2>3
  <2>5. wizard.step + 1 \in 1..4
    BY <2>2, <2>4
  <2>6. wizard' \in WizardRow /\ wizard'.loading = wizard.loading
    BY <1>1, <2>1, <2>5 DEF WizardRow
  <2> QED BY <1>1, <2>1, <2>6, WizardKeeps
<1>5. ASSUME NEW p \in Project, NextSaves(p) PROVE DeployInv'
  <2>1. waits' = waits \cup {Wait("add", p)} /\ wizard' = wizard
    BY <1>5 DEF NextSaves
  <2>2. waits' \in SUBSET WaitRow /\ \A w \in waits' : w \in waits \/ w.what = "add"
    BY <1>1, <2>1, WaitRows
  <2> QED BY <1>1, <2>1, <2>2, WizardKeeps
<1> QED BY <1>2, <1>3, <1>4, <1>5

LEMMA WizardLoads ==
  ASSUME DeployInv,
         \/ \E step \in {"provider", "repo", "server"} : NextLoads(step)
         \/ \E w \in waits : WizardAnswered(w)
         \/ WizardDone
  PROVE  DeployInv'
<1>1. ASSUME NEW step \in {"provider", "repo", "server"}, NextLoads(step) PROVE DeployInv'
  <2> DEFINE l == Wait(step, "")
  <2>1. /\ Press /\ ~wizard.loading /\ step \in {"provider", "repo"} /\ wizard' = [wizard EXCEPT !.loading = TRUE]
        /\ waits' = waits \cup {l} /\ UNCHANGED <<projects, deployPage, rushed>>
    BY <1>1 DEF NextLoads, NextPressed
  <2>2. l \in WaitRow /\ l.what \in {"provider", "repo"}
    BY <2>1, WaitRows
  <2> HIDE DEF l
  <2>3. wizard' \in WizardRow /\ wizard'.loading
    BY <2>1, DeployTypes DEF WizardRow
  <2>4. OneOperation(deployPage', waits')
    BY <2>1, <2>2 DEF DeployInv, OneOperation
  <2>5. OneLoad(wizard', waits')
    BY <2>1, <2>2, <2>3 DEF DeployInv, OneLoad
  <2>6. ~rushed' => OfTheSelected(deployPage', waits')
    BY <2>1, <2>2 DEF DeployInv, OfTheSelected
  <2>7. waits' \in SUBSET WaitRow
    BY <2>1, <2>2, DeployTypes
  <2> QED BY <2>1, <2>3, <2>4, <2>5, <2>6, <2>7, DeployTypes, PressTypes, DeployInvFrom
<1>2. ASSUME NEW w \in waits, WizardAnswered(w) PROVE DeployInv'
  <2>1. /\ w.what \in {"provider", "repo"} /\ waits' = waits \ {w}
        /\ wizard' = [wizard EXCEPT !.loading = FALSE, !.step = IF w.what = "provider" THEN 2 ELSE 3]
        /\ UNCHANGED <<projects, deployPage, presses, rushed>>
    BY <1>2 DEF WizardAnswered
  <2> DEFINE to == IF w.what = "provider" THEN 2 ELSE 3
  <2>6. to \in 1..4
    OBVIOUS
  <2>7. wizard' = [wizard EXCEPT !.loading = FALSE, !.step = to]
    BY <2>1
  <2> HIDE DEF to
  <2>2. wizard' \in WizardRow /\ ~wizard'.loading
    BY <2>6, <2>7, DeployTypes DEF WizardRow
  <2>3. OneOperation(deployPage', waits')
    BY <2>1 DEF DeployInv, OneOperation
  <2>4. OneLoad(wizard', waits')
    BY <2>1, <2>2 DEF DeployInv, OneLoad
  <2>5. ~rushed' => OfTheSelected(deployPage', waits')
    BY <2>1 DEF DeployInv, OfTheSelected
  <2> QED BY <2>1, <2>2, <2>3, <2>4, <2>5, DeployTypes, DeployInvFrom
<1>3. CASE WizardDone
  <2>1. /\ waits' = waits \ {Wait("added", "")} /\ deployPage' = [deployPage EXCEPT !.listed = projects]
        /\ wizard' = [wizard EXCEPT !.open = FALSE, !.step = 1] /\ UNCHANGED <<projects, presses, rushed>>
    BY <1>3 DEF WizardDone
  <2>8. 1 \in 1..4
    OBVIOUS
  <2>2. wizard' \in WizardRow /\ wizard'.loading = wizard.loading
    BY <2>1, <2>8, DeployTypes DEF WizardRow
  <2>3. /\ deployPage' \in DeployRow /\ deployPage'.selected = deployPage.selected /\ deployPage'.git = deployPage.git
        /\ deployPage'.rollout = deployPage.rollout /\ deployPage'.result = deployPage.result
        /\ deployPage'.busy = deployPage.busy
    BY <2>1, DeployTypes DEF DeployRow
  <2>4. waits' \subseteq waits /\ \A w \in waits : w \in waits' \/ w.what = "added"
    BY <2>1, WaitRows
  <2>5. OneOperation(deployPage', waits')
    BY <2>3, <2>4 DEF DeployInv, OneOperation
  <2>6. OneLoad(wizard', waits')
    BY <2>2, <2>4 DEF DeployInv, OneLoad
  <2>7. ~rushed' => OfTheSelected(deployPage', waits')
    BY <2>1, <2>3, <2>4 DEF DeployInv, OfTheSelected
  <2> QED BY <2>1, <2>2, <2>3, <2>4, <2>5, <2>6, <2>7, DeployTypes, DeployInvFrom
<1> QED BY <1>1, <1>2, <1>3

LEMMA NextDeploy == DeployInv /\ [DeployNext]_deployVars => DeployInv'
<1> SUFFICES ASSUME DeployInv, [DeployNext]_deployVars PROVE DeployInv'
  OBVIOUS
<1>1. CASE UNCHANGED deployVars
  BY <1>1 DEF deployVars, DeployInv, DeployTypeOK, OneOperation, OneLoad, OfTheSelected
<1> QED
  BY <1>1, SelectProjectSteps, RemoveLinkSteps, AnsweredSteps, DeployOperationSteps, NotConfiguredSteps, WizardSteps,
     WizardLoads, ReopenSteps DEF DeployNext

LEMMA DeployImplies == DeployInv => DeployTypeOK /\ ShownIsOfTheSelected /\ ButtonsComeBack
BY DEF DeployInv, ShownIsOfTheSelected, ButtonsComeBack, OfTheSelected, OneOperation, OneLoad

\* What the deploy page shows is of the project selected, unless another was selected
\* while it waited, and its buttons are disabled exactly while an operation, or the
\* answer its wizard waits for, is under way, for any projects (DeployPage.tsx).
THEOREM DeployPageStaysReal == DeploySpec => [](DeployTypeOK /\ ShownIsOfTheSelected /\ ButtonsComeBack)
<1>1. DeploySpec => []DeployInv
  BY InitDeploy, NextDeploy, PTL DEF DeploySpec
<1> QED BY <1>1, DeployImplies, PTL

-----------------------------------------------------------------------------
(* The CI page. Of each provider one trigger is under way at most, and of  *)
(* its lists one while none crossed; runs and jobs are those selected or   *)
(* on their way.                                                           *)

JobsRow == [repo : Repo \cup {""}, run : Run \cup {0}]
HalfRow == [repo : Repo \cup {""}, workflow : BOOLEAN, run : Run \cup {0}, runsOf : Repo \cup {""},
            triggering : BOOLEAN, jobsOf : JobsRow]
FetchRow == [what : {"repos", "runs", "jobs", "trigger"}, provider : Provider, repo : Repo \cup {""}, run : Run \cup {0}]
HalvesRow == [Provider -> HalfRow]
CicdRow == [provider : Provider, loading : BOOLEAN, halves : HalvesRow]

AList(f) == f.what \in {"repos", "runs"}
JobsOf(h) == [repo |-> h.repo, run |-> h.run]

\* A list is under way while the flag is up.
ListsCome(loading, fs) == loading => \E f \in fs : AList(f)

\* One trigger of a provider is under way, of a repository, which its flag says.
TriggerIsOne(h, v, fs) ==
    /\ h.triggering <=> \E f \in fs : f.what = "trigger" /\ f.provider = v
    /\ \A f, g \in fs : f.what = "trigger" /\ g.what = "trigger" /\ f.provider = v /\ g.provider = v => f = g
    /\ \A f \in fs : f.what = "trigger" => f.repo # ""

\* One list is under way, and the flag is up.
OneList(loading, fs) ==
    \A f \in fs : AList(f) => loading /\ \A g \in fs : AList(g) => f = g

\* Runs are those of the repository, or are to be; and those to come are of it.
RunsCome(h, v, fs) ==
    h.repo = "" \/ h.runsOf = h.repo \/ \E f \in fs : f.what = "runs" /\ f.provider = v /\ f.repo = h.repo
RunsFit(h, v, fs) == \A f \in fs : f.what = "runs" /\ f.provider = v => f.repo = h.repo

\* Jobs are those of the run, or are to be; and those to come are of it.
JobsCome(h, v, fs) ==
    h.run = 0 \/ h.jobsOf = JobsOf(h) \/ \E f \in fs : f.what = "jobs" /\ f.provider = v /\ JobsOf(f) = JobsOf(h)
JobsFit(h, v, fs) == \A f \in fs : f.what = "jobs" /\ f.provider = v => h.run = 0 \/ JobsOf(f) = JobsOf(h)

Follows(h, v, fs) == RunsCome(h, v, fs) /\ RunsFit(h, v, fs) /\ JobsCome(h, v, fs) /\ JobsFit(h, v, fs)

CicdInv ==
    /\ CicdTypeOK
    /\ ListsCome(cicdPage.loading, fetches)
    /\ \A v \in Provider : TriggerIsOne(cicdPage.halves[v], v, fetches)
    /\ ~crossed => /\ OneList(cicdPage.loading, fetches)
                   /\ \A v \in Provider : Follows(cicdPage.halves[v], v, fetches)

LEMMA CicdTypes ==
  ASSUME CicdInv
  PROVE  /\ cicdPage \in CicdRow /\ cicdPage.provider \in Provider /\ cicdPage.loading \in BOOLEAN
         /\ cicdPage.halves \in HalvesRow /\ fetches \in SUBSET FetchRow
         /\ reselects \in SUBSET [provider : Provider, repo : Repo]
         /\ clicks \in 0..MaxClicks /\ crossed \in BOOLEAN
BY DEF CicdInv, CicdTypeOK, CicdRow, HalvesRow, HalfRow, JobsRow, FetchRow

LEMMA HalfIsARow == ASSUME CicdInv, NEW v \in Provider PROVE Half(v) \in HalfRow
BY CicdTypes DEF HalvesRow, Half

LEMMA CicdInvFrom ==
  ASSUME cicdPage' \in CicdRow, fetches' \in SUBSET FetchRow, reselects' \in SUBSET [provider : Provider, repo : Repo],
         clicks' \in 0..MaxClicks, crossed' \in BOOLEAN,
         ListsCome(cicdPage'.loading, fetches'),
         \A v \in Provider : TriggerIsOne(cicdPage'.halves[v], v, fetches'),
         ~crossed' => OneList(cicdPage'.loading, fetches'),
         ~crossed' => \A v \in Provider : Follows(cicdPage'.halves[v], v, fetches')
  PROVE  CicdInv'
BY DEF CicdInv, CicdTypeOK, CicdRow, HalvesRow, HalfRow, JobsRow, FetchRow

\* What is said of a half is said of one like it.
LEMMA AlikeFollows ==
  ASSUME NEW h, NEW k, NEW v, NEW fs, k.repo = h.repo, k.run = h.run, k.runsOf = h.runsOf, k.jobsOf = h.jobsOf,
         NEW gs, \A f \in gs : f \in fs \/ f.what \notin {"runs", "jobs"},
         \A f \in fs : f \in gs \/ f.what \notin {"runs", "jobs"},
         Follows(h, v, fs)
  PROVE  Follows(k, v, gs)
<1>1. RunsCome(k, v, gs) /\ RunsFit(k, v, gs)
  BY DEF Follows, RunsCome, RunsFit
<1>2. JobsOf(k) = JobsOf(h)
  BY DEF JobsOf
<1>3. JobsCome(k, v, gs) /\ JobsFit(k, v, gs)
  BY <1>2 DEF Follows, JobsCome, JobsFit
<1> QED BY <1>1, <1>3 DEF Follows

LEMMA AlikeTriggers ==
  ASSUME NEW h, NEW k, NEW v, NEW fs, k.triggering = h.triggering,
         NEW gs, \A f \in gs : f \in fs \/ f.what # "trigger",
         \A f \in fs : f \in gs \/ f.what # "trigger",
         TriggerIsOne(h, v, fs)
  PROVE  TriggerIsOne(k, v, gs)
BY DEF TriggerIsOne

LEMMA ClickTypes == CicdInv /\ Click => clicks' \in 0..MaxClicks
<1> SUFFICES ASSUME CicdInv, Click PROVE clicks' \in 0..MaxClicks
  OBVIOUS
<1>1. MaxClicks \in Nat /\ clicks \in 0..MaxClicks
  BY CicdTypes, CicdAssumption
<1> QED BY <1>1 DEF Click

\* One half of the page is changed.
LEMMA ChangedHalf ==
  ASSUME CicdInv, NEW v \in Provider, NEW h \in HalfRow
  PROVE  /\ Changed(v, h) \in CicdRow
         /\ Changed(v, h).provider = cicdPage.provider /\ Changed(v, h).loading = cicdPage.loading
         /\ Changed(v, h).halves \in HalvesRow /\ Changed(v, h).halves[v] = h
         /\ \A w \in Provider : w # v => Changed(v, h).halves[w] = cicdPage.halves[w]
BY CicdTypes DEF CicdRow, HalvesRow, Changed

LEMMA NoClicks == 0 \in 0..MaxClicks
<1>1. MaxClicks \in Nat
  BY CicdAssumption
<1> QED BY <1>1

LEMMA OpenedCicd ==
  ASSUME NEW fs, fs = {Fetch("repos", "github", "", 0)}
  PROVE  /\ Opened \in CicdRow /\ fs \in SUBSET FetchRow /\ 0 \in 0..MaxClicks
         /\ ListsCome(Opened.loading, fs) /\ OneList(Opened.loading, fs)
         /\ \A v \in Provider : TriggerIsOne(Opened.halves[v], v, fs)
         /\ \A v \in Provider : Follows(Opened.halves[v], v, fs)
<1>1. fs \in SUBSET FetchRow /\ \A f \in fs : f.what = "repos"
  <2>1. Fetch("repos", "github", "", 0) \in FetchRow
    BY DEF Fetch, FetchRow, Provider
  <2>2. Fetch("repos", "github", "", 0).what = "repos"
    BY DEF Fetch
  <2> QED BY <2>1, <2>2
<1>9. \A f, g \in fs : f = g
  OBVIOUS
<1>10. \E f \in fs : AList(f)
  BY DEF Fetch, AList
<1>2. EmptyHalf \in HalfRow /\ EmptyHalf.repo = "" /\ EmptyHalf.run = 0 /\ ~EmptyHalf.triggering
  BY DEF EmptyHalf, NoJobs, HalfRow, JobsRow
<1>3. /\ Opened \in CicdRow /\ Opened.loading /\ \A v \in Provider : Opened.halves[v] = EmptyHalf
  BY <1>2 DEF Opened, CicdRow, HalvesRow, Provider
<1>4. 0 \in 0..MaxClicks
  BY NoClicks
<1>5. ListsCome(Opened.loading, fs) /\ OneList(Opened.loading, fs)
  BY <1>9, <1>10, <1>3 DEF ListsCome, OneList
<1>6. \A v \in Provider : TriggerIsOne(EmptyHalf, v, fs)
  BY <1>1, <1>2 DEF TriggerIsOne
<1>7. \A v \in Provider : Follows(EmptyHalf, v, fs)
  BY <1>1, <1>2 DEF Follows, RunsCome, RunsFit, JobsCome, JobsFit
<1> QED BY <1>1, <1>3, <1>4, <1>5, <1>6, <1>7

LEMMA InitCicd == CicdInit => CicdInv
BY OpenedCicd DEF CicdInit, CicdInv, CicdTypeOK, CicdRow, HalvesRow, HalfRow, JobsRow, FetchRow

LEMMA ReopenCicd == ASSUME CicdInv, OpenCicdPage PROVE CicdInv'
BY OpenedCicd, CicdInvFrom DEF OpenCicdPage

\* A list is asked for: of repositories, or of the runs of the one selected.
LEMMA ListKeeps ==
  ASSUME CicdInv, NEW v \in Provider, NEW h \in HalfRow, NEW l \in FetchRow,
         cicdPage' \in CicdRow, cicdPage'.loading, cicdPage'.halves[v] = h,
         \A w \in Provider : w # v => cicdPage'.halves[w] = cicdPage.halves[w],
         h.triggering = Half(v).triggering, AList(l), l.provider = v,
         l.what = "runs" => l.repo = h.repo,
         \/ h = Half(v)
         \/ h.run = 0 /\ (h.repo = "" \/ l.what = "runs"),
         fetches' = fetches \cup {l}, Cross,
         reselects' \in SUBSET [provider : Provider, repo : Repo], clicks' \in 0..MaxClicks
  PROVE  CicdInv'
<1>1. fetches' \in SUBSET FetchRow /\ crossed' \in BOOLEAN
  BY CicdTypes DEF Cross
<1>2. ListsCome(cicdPage'.loading, fetches')
  BY DEF ListsCome
<1>3. \A w \in Provider : cicdPage'.halves[w].triggering = cicdPage.halves[w].triggering
  BY DEF Half
<1>4. ASSUME NEW w \in Provider PROVE TriggerIsOne(cicdPage'.halves[w], w, fetches')
  <2>1. l.what # "trigger"
    BY DEF AList
  <2>2. TriggerIsOne(cicdPage.halves[w], w, fetches)
    BY DEF CicdInv
  <2>3. (\A f \in fetches' : f \in fetches \/ f.what # "trigger") /\ \A f \in fetches : f \in fetches'
    BY <2>1
  <2>4. cicdPage'.halves[w].triggering = cicdPage.halves[w].triggering
    BY <1>3
  <2> DEFINE k == cicdPage'.halves[w]
             g == cicdPage.halves[w]
             fs == fetches'
  <2>5. TriggerIsOne(g, w, fetches) /\ k.triggering = g.triggering
        /\ (\A f \in fs : f \in fetches \/ f.what # "trigger") /\ \A f \in fetches : f \in fs
    BY <2>2, <2>3, <2>4
  <2> HIDE DEF k, g, fs
  <2>6. TriggerIsOne(k, w, fs)
    BY <2>5, AlikeTriggers
  <2> QED BY <2>6 DEF k, fs
<1>5. ~crossed' => ~crossed /\ \A f \in fetches : ~AList(f)
  BY DEF Cross, Lists, AList
<1>6. ~crossed' => OneList(cicdPage'.loading, fetches')
  BY <1>5 DEF OneList
<1>7. ASSUME ~crossed', NEW w \in Provider PROVE Follows(cicdPage'.halves[w], w, fetches')
  <2>1. \A f \in fetches' : (f.what = "runs" => f = l) /\ (f.what = "jobs" => f \in fetches)
    BY <1>5, <1>7 DEF AList
  <2>2. Follows(cicdPage.halves[w], w, fetches)
    BY <1>5, <1>7 DEF CicdInv
  <2>3. CASE w # v
    <3>1. cicdPage'.halves[w] = cicdPage.halves[w]
      BY <2>3
    <3>2. \A f \in fetches' : f.provider = w => f \in fetches
      BY <2>3
    <3>3. \A f \in fetches : f \in fetches'
      OBVIOUS
    <3> DEFINE k == cicdPage.halves[w]
    <3> HIDE DEF k
    <3>4. Follows(k, w, fetches)
      BY <2>2 DEF k
    <3>5. Follows(k, w, fetches')
      BY <3>2, <3>3, <3>4 DEF Follows, RunsCome, RunsFit, JobsCome, JobsFit
    <3> QED BY <3>1, <3>5 DEF k
  <2>4. CASE w = v /\ h = Half(v)
    <3>1. cicdPage'.halves[w] = h /\ Follows(h, v, fetches)
      BY <2>2, <2>4 DEF Half
    <3>2. Follows(h, v, fetches')
      BY <2>1, <3>1 DEF Follows, RunsCome, RunsFit, JobsCome, JobsFit
    <3> QED BY <2>4, <3>1, <3>2
  <2>5. CASE w = v /\ h.run = 0 /\ (h.repo = "" \/ l.what = "runs")
    <3>1. RunsCome(h, v, fetches')
      BY <2>5 DEF RunsCome
    <3>2. JobsCome(h, v, fetches') /\ JobsFit(h, v, fetches')
      BY <2>5 DEF JobsCome, JobsFit
    <3>4. RunsFit(h, v, fetches')
      BY <2>1 DEF RunsFit
    <3> QED BY <2>5, <3>1, <3>2, <3>4 DEF Follows
  <2> QED BY <2>3, <2>4, <2>5
<1> QED BY <1>1, <1>2, <1>4, <1>6, <1>7, CicdInvFrom

LEMMA CicdListSteps ==
  ASSUME CicdInv,
         \/ \E v \in Provider : ListRepos(v) \/ ChooseProvider(v) \/ \E r \in Repo : SelectRepo(v, r)
         \/ \E t \in reselects : TimerFires(t)
  PROVE  CicdInv'
<1>1. reselects \in SUBSET [provider : Provider, repo : Repo] /\ clicks \in 0..MaxClicks
  BY CicdTypes
<1>2. ASSUME NEW v \in Provider, ListRepos(v) PROVE CicdInv'
  <2> DEFINE l == Fetch("repos", v, "", 0)
  <2>1. /\ cicdPage' = [cicdPage EXCEPT !.loading = TRUE] /\ fetches' = fetches \cup {l} /\ Cross
        /\ reselects' = reselects /\ clicks' \in 0..MaxClicks
    BY <1>2, ClickTypes DEF ListRepos
  <2>2. l \in FetchRow /\ l.what = "repos" /\ l.provider = v
    BY CicdTypes DEF Fetch, FetchRow, Provider
  <2> HIDE DEF l
  <2>3. cicdPage' \in CicdRow /\ cicdPage'.loading /\ cicdPage'.halves = cicdPage.halves
    BY <2>1, CicdTypes DEF CicdRow
  <2>4. Half(v) \in HalfRow /\ cicdPage'.halves[v] = Half(v)
    BY <2>3, HalfIsARow DEF Half
  <2> QED BY <1>1, <2>1, <2>2, <2>3, <2>4, ListKeeps DEF AList
<1>3. ASSUME NEW v \in Provider, ChooseProvider(v) PROVE CicdInv'
  <2> DEFINE l == Fetch("repos", v, "", 0)
             h == [Half(v) EXCEPT !.repo = "", !.run = 0]
             c == Changed(v, h)
  <2>1. /\ cicdPage' = [c EXCEPT !.provider = v, !.loading = TRUE] /\ fetches' = fetches \cup {l} /\ Cross
        /\ reselects' = reselects /\ clicks' \in 0..MaxClicks
    BY <1>3, ClickTypes DEF ChooseProvider
  <2>2. l \in FetchRow /\ l.what = "repos" /\ l.provider = v
    BY CicdTypes DEF Fetch, FetchRow, Provider
  <2>3. h \in HalfRow /\ h.repo = "" /\ h.run = 0 /\ h.triggering = Half(v).triggering
    BY HalfIsARow DEF HalfRow
  <2> HIDE DEF l, h
  <2>4. c \in CicdRow /\ c.halves[v] = h /\ \A w \in Provider : w # v => c.halves[w] = cicdPage.halves[w]
    BY <2>3, ChangedHalf
  <2> HIDE DEF c
  <2>5. cicdPage' \in CicdRow /\ cicdPage'.loading /\ cicdPage'.halves = c.halves
    BY <2>1, <2>4 DEF CicdRow
  <2> QED BY <1>1, <2>1, <2>2, <2>3, <2>4, <2>5, ListKeeps DEF AList
<1>4. ASSUME NEW v \in Provider, NEW r \in Repo, Select(v, r), reselects' \in SUBSET reselects,
             clicks' \in 0..MaxClicks
      PROVE  CicdInv'
  <2> DEFINE l == Fetch("runs", v, r, 0)
             h == [Half(v) EXCEPT !.repo = r, !.run = 0, !.jobsOf = NoJobs]
             c == Changed(v, h)
  <2>1. /\ cicdPage' = [c EXCEPT !.loading = TRUE] /\ fetches' = fetches \cup {l} /\ Cross
    BY <1>4 DEF Select, Selected
  <2>2. l \in FetchRow /\ l.what = "runs" /\ l.provider = v /\ l.repo = r
    BY CicdTypes DEF Fetch, FetchRow, Provider
  <2>6. NoJobs \in JobsRow
    BY DEF NoJobs, JobsRow
  <2>3. h \in HalfRow /\ h.repo = r /\ h.run = 0 /\ h.triggering = Half(v).triggering
    BY <2>6, HalfIsARow DEF HalfRow
  <2> HIDE DEF l, h
  <2>4. c \in CicdRow /\ c.halves[v] = h /\ \A w \in Provider : w # v => c.halves[w] = cicdPage.halves[w]
    BY <2>3, ChangedHalf
  <2> HIDE DEF c
  <2>5. cicdPage' \in CicdRow /\ cicdPage'.loading /\ cicdPage'.halves = c.halves
    BY <2>1, <2>4 DEF CicdRow
  <2> QED BY <1>1, <1>4, <2>1, <2>2, <2>3, <2>4, <2>5, ListKeeps DEF AList
<1>5. ASSUME NEW v \in Provider, NEW r \in Repo, SelectRepo(v, r) PROVE CicdInv'
  <2>1. Select(v, r) /\ reselects' = reselects /\ clicks' \in 0..MaxClicks
    BY <1>5, ClickTypes DEF SelectRepo
  <2> QED BY <1>4, <2>1
<1>6. ASSUME NEW t \in reselects, TimerFires(t) PROVE CicdInv'
  <2>1. t.provider \in Provider /\ t.repo \in Repo
    BY <1>1
  <2>2. Select(t.provider, t.repo) /\ reselects' \in SUBSET reselects /\ clicks' = clicks
    BY <1>6 DEF TimerFires
  <2> QED BY <1>1, <1>4, <2>1, <2>2
<1> QED BY <1>2, <1>3, <1>5, <1>6

LEMMA SelectRunSteps ==
  ASSUME CicdInv, NEW v \in Provider, NEW run \in Run, SelectRun(v, run)
  PROVE  CicdInv'
<1> DEFINE h == [Half(v) EXCEPT !.run = run]
           l == Fetch("jobs", v, Half(v).repo, run)
<1>1. /\ cicdPage' = Changed(v, h) /\ fetches' = fetches \cup {l} /\ reselects' = reselects
      /\ crossed' = (crossed \/ \E f \in fetches : f.what = "jobs") /\ clicks' \in 0..MaxClicks
  BY ClickTypes DEF SelectRun
<1>2. Half(v) \in HalfRow
  BY HalfIsARow
<1>3. /\ h \in HalfRow /\ h.repo = Half(v).repo /\ h.run = run /\ h.runsOf = Half(v).runsOf
      /\ h.triggering = Half(v).triggering
  BY <1>2 DEF HalfRow
<1>4. l \in FetchRow /\ l.what = "jobs" /\ l.provider = v /\ l.repo = h.repo /\ l.run = h.run
  <2>1. Half(v).repo \in Repo \cup {""}
    BY <1>2 DEF HalfRow
  <2> HIDE DEF h
  <2> QED BY <1>3, <2>1 DEF Fetch, FetchRow
<1> HIDE DEF h, l
<1>5. /\ cicdPage' \in CicdRow /\ cicdPage'.loading = cicdPage.loading /\ cicdPage'.halves[v] = h
      /\ \A w \in Provider : w # v => cicdPage'.halves[w] = cicdPage.halves[w]
  BY <1>1, <1>3, ChangedHalf
<1>6. fetches' \in SUBSET FetchRow /\ crossed' \in BOOLEAN
  BY <1>1, <1>4, CicdTypes
<1>7. /\ ListsCome(cicdPage'.loading, fetches')
      /\ OneList(cicdPage.loading, fetches) => OneList(cicdPage'.loading, fetches')
  BY <1>1, <1>4, <1>5 DEF CicdInv, ListsCome, OneList, AList
<1>8. \A w \in Provider : /\ cicdPage'.halves[w].triggering = cicdPage.halves[w].triggering
                          /\ cicdPage'.halves[w].repo = cicdPage.halves[w].repo
                          /\ cicdPage'.halves[w].runsOf = cicdPage.halves[w].runsOf
  BY <1>3, <1>5 DEF Half
<1>9. ASSUME NEW w \in Provider PROVE TriggerIsOne(cicdPage'.halves[w], w, fetches')
  BY <1>1, <1>4, <1>8, AlikeTriggers DEF CicdInv
<1>10. ASSUME ~crossed', NEW w \in Provider PROVE Follows(cicdPage'.halves[w], w, fetches')
  <2>1. Follows(cicdPage.halves[w], w, fetches)
    BY <1>1, <1>10 DEF CicdInv
  <2>2. \A f \in fetches' : f.what = "jobs" => f = l
    BY <1>1, <1>10
  <2>3. CASE w # v
    <3>1. cicdPage'.halves[w] = cicdPage.halves[w]
      BY <1>5, <2>3
    <3>2. \A f \in fetches : f.what # "jobs"
      BY <1>1, <1>10
    <3> QED BY <1>1, <1>4, <2>1, <2>3, <3>1, <3>2 DEF Follows, RunsCome, RunsFit, JobsCome, JobsFit
  <2>4. CASE w = v
    <3>1. JobsOf(l) = JobsOf(h)
      BY <1>4 DEF JobsOf
    <3>2. JobsCome(h, v, fetches') /\ JobsFit(h, v, fetches')
      BY <1>1, <1>4, <2>2, <3>1 DEF JobsCome, JobsFit
    <3>3. RunsCome(Half(v), v, fetches) /\ RunsFit(Half(v), v, fetches)
      BY <2>1, <2>4 DEF Follows, Half
    <3>4. RunsCome(h, v, fetches') /\ RunsFit(h, v, fetches')
      BY <1>1, <1>3, <1>4, <3>3 DEF RunsCome, RunsFit
    <3> QED BY <1>5, <2>4, <3>2, <3>4 DEF Follows
  <2> QED BY <2>3, <2>4
<1> QED BY <1>1, <1>5, <1>6, <1>7, <1>9, <1>10, CicdTypes, CicdInvFrom DEF CicdInv

\* What is shown stays, and no list or job is asked for or answered.
LEMMA ShownStays ==
  ASSUME CicdInv, cicdPage' \in CicdRow, cicdPage'.loading = cicdPage.loading,
         \A w \in Provider : /\ cicdPage'.halves[w].repo = cicdPage.halves[w].repo
                             /\ cicdPage'.halves[w].run = cicdPage.halves[w].run
                             /\ cicdPage'.halves[w].runsOf = cicdPage.halves[w].runsOf
                             /\ cicdPage'.halves[w].jobsOf = cicdPage.halves[w].jobsOf,
         fetches' \in SUBSET FetchRow,
         \A f \in fetches' : f \in fetches \/ f.what = "trigger",
         \A f \in fetches : f \in fetches' \/ f.what = "trigger",
         \A w \in Provider : TriggerIsOne(cicdPage'.halves[w], w, fetches'), crossed' = crossed,
         reselects' \in SUBSET [provider : Provider, repo : Repo], clicks' \in 0..MaxClicks
  PROVE  CicdInv'
<1>1. ListsCome(cicdPage'.loading, fetches')
  BY DEF CicdInv, ListsCome, AList
<1>2. OneList(cicdPage.loading, fetches) => OneList(cicdPage'.loading, fetches')
  BY DEF OneList, AList
<1>3. ASSUME ~crossed, NEW w \in Provider PROVE Follows(cicdPage'.halves[w], w, fetches')
  <2>1. Follows(cicdPage.halves[w], w, fetches)
    BY <1>3 DEF CicdInv
  <2> QED BY <2>1, AlikeFollows
<1> QED BY <1>1, <1>2, <1>3, CicdTypes, CicdInvFrom DEF CicdInv

LEMMA TriggerSteps ==
  ASSUME CicdInv,
         \/ ChooseWorkflow
         \/ \E v \in Provider : Trigger(v)
         \/ \E f \in fetches, success \in BOOLEAN : TriggerAnswered(f, success)
  PROVE  CicdInv'
<1>1. CASE ChooseWorkflow
  <2> DEFINE h == [Half("github") EXCEPT !.workflow = TRUE]
  <2>1. cicdPage' = Changed("github", h) /\ UNCHANGED <<fetches, reselects, crossed>> /\ clicks' \in 0..MaxClicks
    BY <1>1, ClickTypes DEF ChooseWorkflow
  <2>2. "github" \in Provider
    BY DEF Provider
  <2>3. /\ h \in HalfRow /\ h.repo = Half("github").repo /\ h.run = Half("github").run
        /\ h.runsOf = Half("github").runsOf /\ h.jobsOf = Half("github").jobsOf
        /\ h.triggering = Half("github").triggering
    BY <2>2, HalfIsARow DEF HalfRow
  <2> HIDE DEF h
  <2>4. /\ cicdPage' \in CicdRow /\ cicdPage'.loading = cicdPage.loading /\ cicdPage'.halves["github"] = h
        /\ \A w \in Provider : w # "github" => cicdPage'.halves[w] = cicdPage.halves[w]
    BY <2>1, <2>2, <2>3, ChangedHalf
  <2>5. \A w \in Provider : /\ cicdPage'.halves[w].repo = cicdPage.halves[w].repo
                            /\ cicdPage'.halves[w].run = cicdPage.halves[w].run
                            /\ cicdPage'.halves[w].runsOf = cicdPage.halves[w].runsOf
                            /\ cicdPage'.halves[w].jobsOf = cicdPage.halves[w].jobsOf
                            /\ cicdPage'.halves[w].triggering = cicdPage.halves[w].triggering
    BY <2>3, <2>4 DEF Half
  <2>6. ASSUME NEW w \in Provider PROVE TriggerIsOne(cicdPage'.halves[w], w, fetches')
    BY <2>1, <2>5, AlikeTriggers DEF CicdInv
  <2> QED BY <2>1, <2>4, <2>5, <2>6, CicdTypes, ShownStays
<1>2. ASSUME NEW v \in Provider, Trigger(v) PROVE CicdInv'
  <2> DEFINE h == [Half(v) EXCEPT !.triggering = TRUE]
             l == Fetch("trigger", v, Half(v).repo, 0)
  <2>1. /\ cicdPage' = Changed(v, h) /\ fetches' = fetches \cup {l} /\ UNCHANGED <<reselects, crossed>>
        /\ ~Half(v).triggering /\ clicks' \in 0..MaxClicks
    BY <1>2, ClickTypes DEF Trigger
  <2>2. Half(v) \in HalfRow /\ Half(v).repo \in Repo \cup {""} /\ Half(v).repo # ""
    BY <1>2, HalfIsARow DEF HalfRow, Trigger
  <2>3. /\ h \in HalfRow /\ h.repo = Half(v).repo /\ h.run = Half(v).run /\ h.runsOf = Half(v).runsOf
        /\ h.jobsOf = Half(v).jobsOf /\ h.triggering
    BY <2>2 DEF HalfRow
  <2>4. l \in FetchRow /\ l.what = "trigger" /\ l.provider = v /\ l.repo # ""
    BY <2>2 DEF Fetch, FetchRow
  <2> HIDE DEF h, l
  <2>5. /\ cicdPage' \in CicdRow /\ cicdPage'.loading = cicdPage.loading /\ cicdPage'.halves[v] = h
        /\ \A w \in Provider : w # v => cicdPage'.halves[w] = cicdPage.halves[w]
    BY <2>1, <2>3, ChangedHalf
  <2>6. \A w \in Provider : /\ cicdPage'.halves[w].repo = cicdPage.halves[w].repo
                            /\ cicdPage'.halves[w].run = cicdPage.halves[w].run
                            /\ cicdPage'.halves[w].runsOf = cicdPage.halves[w].runsOf
                            /\ cicdPage'.halves[w].jobsOf = cicdPage.halves[w].jobsOf
    BY <2>3, <2>5 DEF Half
  <2>7. ASSUME NEW w \in Provider PROVE TriggerIsOne(cicdPage'.halves[w], w, fetches')
    <3>1. TriggerIsOne(cicdPage.halves[w], w, fetches)
      BY DEF CicdInv
    <3>2. CASE w # v
      <4>1. cicdPage'.halves[w] = cicdPage.halves[w]
        BY <2>5, <3>2
      <4> QED BY <2>1, <2>4, <3>1, <3>2, <4>1 DEF TriggerIsOne
    <3>3. CASE w = v
      <4>1. \A f \in fetches : ~(f.what = "trigger" /\ f.provider = v)
        BY <2>1, <3>1, <3>3 DEF TriggerIsOne, Half
      <4>2. TriggerIsOne(h, v, fetches')
        BY <2>1, <2>3, <2>4, <3>1, <4>1 DEF TriggerIsOne
      <4> QED BY <2>5, <3>3, <4>2
    <3> QED BY <3>2, <3>3
  <2>8. fetches' \in SUBSET FetchRow
    BY <2>1, <2>4, CicdTypes
  <2> QED BY <2>1, <2>4, <2>5, <2>6, <2>7, <2>8, CicdTypes, ShownStays
<1>3. ASSUME NEW f \in fetches, NEW success \in BOOLEAN, TriggerAnswered(f, success) PROVE CicdInv'
  <2> DEFINE v == f.provider
             h == [Half(v) EXCEPT !.triggering = FALSE]
             t == [provider |-> f.provider, repo |-> f.repo]
  <2>1. /\ cicdPage' = Changed(v, h) /\ fetches' = fetches \ {f} /\ f.what = "trigger"
        /\ UNCHANGED <<clicks, crossed>>
        /\ reselects' = reselects \cup IF success THEN {t} ELSE {}
    BY <1>3 DEF TriggerAnswered
  <2>2. f \in FetchRow
    BY CicdTypes
  <2>3. v \in Provider
    BY <2>2 DEF FetchRow
  <2>4. Half(v) \in HalfRow
    BY <2>3, HalfIsARow
  <2>5. /\ h \in HalfRow /\ h.repo = Half(v).repo /\ h.run = Half(v).run /\ h.runsOf = Half(v).runsOf
        /\ h.jobsOf = Half(v).jobsOf /\ ~h.triggering
    BY <2>4 DEF HalfRow
  <2> HIDE DEF h
  <2>6. /\ cicdPage' \in CicdRow /\ cicdPage'.loading = cicdPage.loading /\ cicdPage'.halves[v] = h
        /\ \A w \in Provider : w # v => cicdPage'.halves[w] = cicdPage.halves[w]
    BY <2>1, <2>3, <2>5, ChangedHalf
  <2>7. \A w \in Provider : /\ cicdPage'.halves[w].repo = cicdPage.halves[w].repo
                            /\ cicdPage'.halves[w].run = cicdPage.halves[w].run
                            /\ cicdPage'.halves[w].runsOf = cicdPage.halves[w].runsOf
                            /\ cicdPage'.halves[w].jobsOf = cicdPage.halves[w].jobsOf
    BY <2>5, <2>6 DEF Half
  <2>8. ASSUME NEW w \in Provider PROVE TriggerIsOne(cicdPage'.halves[w], w, fetches')
    <3>1. TriggerIsOne(cicdPage.halves[w], w, fetches)
      BY DEF CicdInv
    <3>2. CASE w # v
      <4>1. cicdPage'.halves[w] = cicdPage.halves[w]
        BY <2>6, <3>2
      <4> QED BY <2>1, <3>1, <3>2, <4>1 DEF TriggerIsOne
    <3>3. CASE w = v
      <4>1. TriggerIsOne(h, v, fetches')
        BY <2>1, <2>5, <3>1, <3>3 DEF TriggerIsOne
      <4> QED BY <2>6, <3>3, <4>1
    <3> QED BY <3>2, <3>3
  <2>9. reselects' \in SUBSET [provider : Provider, repo : Repo]
    <3>1. reselects' = reselects \cup {t} \/ reselects' = reselects
      BY <2>1
    <3>2. f.repo \in Repo
      BY <2>1, <2>2, <2>3 DEF FetchRow, CicdInv, TriggerIsOne
    <3> QED BY <2>3, <3>1, <3>2, CicdTypes
  <2> QED BY <2>1, <2>6, <2>7, <2>8, <2>9, CicdTypes, ShownStays
<1> QED BY <1>1, <1>2, <1>3

LEMMA ListAnswers ==
  ASSUME CicdInv, NEW f \in fetches, ReposAnswered(f) \/ RunsAnswered(f)
  PROVE  CicdInv'
<1>1. /\ f.what \in {"repos", "runs"} /\ fetches' = fetches \ {f} /\ UNCHANGED <<reselects, clicks, crossed>>
  BY DEF ReposAnswered, RunsAnswered
<1>2. f \in FetchRow /\ f.provider \in Provider /\ f.repo \in Repo \cup {""}
  BY CicdTypes DEF FetchRow
<1>3. /\ cicdPage' \in CicdRow /\ ~cicdPage'.loading
      /\ \A w \in Provider : /\ cicdPage'.halves[w].repo = cicdPage.halves[w].repo
                             /\ cicdPage'.halves[w].run = cicdPage.halves[w].run
                             /\ cicdPage'.halves[w].jobsOf = cicdPage.halves[w].jobsOf
                             /\ cicdPage'.halves[w].triggering = cicdPage.halves[w].triggering
      /\ \A w \in Provider : \/ f.what = "runs" /\ w = f.provider /\ cicdPage'.halves[w].runsOf = f.repo
                             \/ ~(f.what = "runs" /\ w = f.provider)
                                    /\ cicdPage'.halves[w].runsOf = cicdPage.halves[w].runsOf
  <2>1. CASE ReposAnswered(f)
    <3>1. cicdPage' = [cicdPage EXCEPT !.loading = FALSE] /\ f.what = "repos"
      BY <2>1 DEF ReposAnswered
    <3> QED BY <3>1, CicdTypes DEF CicdRow
  <2>2. CASE RunsAnswered(f)
    <3> DEFINE v == f.provider
               h == [Half(v) EXCEPT !.runsOf = f.repo]
               c == Changed(v, h)
    <3>1. cicdPage' = [c EXCEPT !.loading = FALSE] /\ f.what = "runs"
      BY <2>2 DEF RunsAnswered
    <3>5. Half(v) \in HalfRow
      BY <1>2, HalfIsARow
    <3>2. /\ h \in HalfRow /\ h.repo = Half(v).repo /\ h.run = Half(v).run /\ h.runsOf = f.repo
          /\ h.jobsOf = Half(v).jobsOf /\ h.triggering = Half(v).triggering
      BY <1>2, <3>5 DEF HalfRow
    <3> HIDE DEF h
    <3>3. c \in CicdRow /\ c.halves[v] = h /\ \A w \in Provider : w # v => c.halves[w] = cicdPage.halves[w]
      BY <1>2, <3>2, ChangedHalf
    <3> HIDE DEF c
    <3>4. cicdPage' \in CicdRow /\ ~cicdPage'.loading /\ cicdPage'.halves = c.halves
      BY <3>1, <3>3 DEF CicdRow
    <3> QED BY <3>1, <3>2, <3>3, <3>4 DEF Half
  <2> QED BY <2>1, <2>2
<1>4. ListsCome(cicdPage'.loading, fetches')
  BY <1>3 DEF ListsCome
<1>5. ASSUME NEW w \in Provider PROVE TriggerIsOne(cicdPage'.halves[w], w, fetches')
  BY <1>1, <1>3, AlikeTriggers DEF CicdInv
<1>6. ~crossed => \A g \in fetches' : ~AList(g)
  BY <1>1 DEF CicdInv, OneList, AList
<1>7. ~crossed => OneList(cicdPage'.loading, fetches')
  BY <1>6 DEF OneList
<1>8. ASSUME ~crossed, NEW w \in Provider PROVE Follows(cicdPage'.halves[w], w, fetches')
  <2> DEFINE h == cicdPage.halves[w]
             k == cicdPage'.halves[w]
  <2>1. Follows(h, w, fetches)
    BY <1>8 DEF CicdInv
  <2>2. k.repo = h.repo /\ k.run = h.run /\ k.jobsOf = h.jobsOf
    BY <1>3
  <2>3. k.runsOf = IF f.what = "runs" /\ w = f.provider THEN f.repo ELSE h.runsOf
    BY <1>3
  <2> HIDE DEF h, k
  <2>4. \A g \in fetches' : g \in fetches /\ g.what # "runs"
    BY <1>1, <1>6, <1>8 DEF AList
  <2>5. JobsOf(k) = JobsOf(h)
    BY <2>2 DEF JobsOf
  <2>6. JobsCome(k, w, fetches') /\ JobsFit(k, w, fetches')
    BY <1>1, <2>1, <2>2, <2>4, <2>5 DEF Follows, JobsCome, JobsFit
  <2>7. RunsFit(k, w, fetches')
    BY <2>4 DEF RunsFit
  <2>8. RunsCome(k, w, fetches')
    <3>1. \A g \in fetches : g.what = "runs" => g = f
      BY <1>1, <2>4
    <3>2. CASE f.what = "runs" /\ w = f.provider
      <4>1. f.repo = h.repo
        BY <2>1, <3>2 DEF Follows, RunsFit
      <4> QED BY <2>2, <2>3, <3>2, <4>1 DEF RunsCome
    <3>3. CASE ~(f.what = "runs" /\ w = f.provider)
      <4>1. h.repo = "" \/ h.runsOf = h.repo
        BY <2>1, <3>1, <3>3 DEF Follows, RunsCome
      <4> QED BY <2>2, <2>3, <3>3, <4>1 DEF RunsCome
    <3> QED BY <3>2, <3>3
  <2> QED BY <2>6, <2>7, <2>8 DEF Follows, k
<1>9. fetches' \in SUBSET FetchRow
  BY <1>1, CicdTypes
<1> QED BY <1>1, <1>3, <1>4, <1>5, <1>7, <1>8, <1>9, CicdTypes, CicdInvFrom

LEMMA JobsAnswers ==
  ASSUME CicdInv, NEW f \in fetches, JobsAnswered(f)
  PROVE  CicdInv'
<1> DEFINE v == f.provider
           j == [repo |-> f.repo, run |-> f.run]
           h == [Half(v) EXCEPT !.jobsOf = j]
<1>1. /\ f.what = "jobs" /\ fetches' = fetches \ {f} /\ cicdPage' = Changed(v, h)
      /\ UNCHANGED <<reselects, clicks, crossed>>
  BY DEF JobsAnswered
<1>2. f \in FetchRow
  BY CicdTypes
<1>3. v \in Provider /\ j \in JobsRow /\ j = JobsOf(f)
  BY <1>2 DEF FetchRow, JobsRow, JobsOf
<1> HIDE DEF j
<1>4. /\ h \in HalfRow /\ h.repo = Half(v).repo /\ h.run = Half(v).run /\ h.runsOf = Half(v).runsOf
      /\ h.jobsOf = j /\ h.triggering = Half(v).triggering
  BY <1>3, HalfIsARow DEF HalfRow
<1> HIDE DEF h
<1>5. /\ cicdPage' \in CicdRow /\ cicdPage'.loading = cicdPage.loading /\ cicdPage'.halves[v] = h
      /\ \A w \in Provider : w # v => cicdPage'.halves[w] = cicdPage.halves[w]
  BY <1>1, <1>3, <1>4, ChangedHalf
<1>6. \A w \in Provider : /\ cicdPage'.halves[w].repo = cicdPage.halves[w].repo
                          /\ cicdPage'.halves[w].run = cicdPage.halves[w].run
                          /\ cicdPage'.halves[w].runsOf = cicdPage.halves[w].runsOf
                          /\ cicdPage'.halves[w].triggering = cicdPage.halves[w].triggering
  BY <1>4, <1>5 DEF Half
<1>7. /\ ListsCome(cicdPage'.loading, fetches')
      /\ OneList(cicdPage.loading, fetches) => OneList(cicdPage'.loading, fetches')
  BY <1>1, <1>5 DEF CicdInv, ListsCome, OneList, AList
<1>8. ASSUME NEW w \in Provider PROVE TriggerIsOne(cicdPage'.halves[w], w, fetches')
  BY <1>1, <1>6, AlikeTriggers DEF CicdInv
<1>9. ASSUME ~crossed, NEW w \in Provider PROVE Follows(cicdPage'.halves[w], w, fetches')
  <2>1. Follows(cicdPage.halves[w], w, fetches)
    BY <1>9 DEF CicdInv
  <2>2. CASE w # v
    <3>1. cicdPage'.halves[w] = cicdPage.halves[w]
      BY <1>5, <2>2
    <3> QED BY <1>1, <2>1, <2>2, <3>1 DEF Follows, RunsCome, RunsFit, JobsCome, JobsFit
  <2>3. CASE w = v
    <3>1. Follows(Half(v), v, fetches)
      BY <2>1, <2>3 DEF Half
    <3>2. RunsCome(h, v, fetches') /\ RunsFit(h, v, fetches')
      BY <1>1, <1>4, <3>1 DEF Follows, RunsCome, RunsFit
    <3>3. JobsOf(h) = JobsOf(Half(v))
      BY <1>4 DEF JobsOf
    <3>4. h.run = 0 \/ j = JobsOf(h)
      BY <1>1, <1>3, <1>4, <3>1, <3>3 DEF Follows, JobsFit
    <3>5. JobsCome(h, v, fetches') /\ JobsFit(h, v, fetches')
      BY <1>1, <1>4, <3>1, <3>3, <3>4 DEF Follows, JobsCome, JobsFit
    <3> QED BY <1>5, <2>3, <3>2, <3>5 DEF Follows
  <2> QED BY <2>2, <2>3
<1>13. fetches' \in SUBSET FetchRow
  BY <1>1, CicdTypes
<1> QED BY <1>1, <1>5, <1>7, <1>8, <1>9, <1>13, CicdTypes, CicdInvFrom DEF CicdInv

LEMMA NextCicd == CicdInv /\ [CicdNext]_cicdVars => CicdInv'
<1> SUFFICES ASSUME CicdInv, [CicdNext]_cicdVars PROVE CicdInv'
  OBVIOUS
<1>1. CASE UNCHANGED cicdVars
  <2>1. UNCHANGED <<cicdPage, fetches, reselects, clicks, crossed>>
    BY <1>1 DEF cicdVars
  <2>2. ASSUME NEW w \in Provider PROVE TriggerIsOne(cicdPage'.halves[w], w, fetches')
    BY <2>1 DEF CicdInv
  <2> QED BY <2>1, <2>2, CicdTypes, ShownStays
<1> QED
  BY <1>1, CicdListSteps, SelectRunSteps, TriggerSteps, ListAnswers, JobsAnswers, ReopenCicd DEF CicdNext

LEMMA CicdImplies == CicdInv => CicdTypeOK /\ RunsAreOfTheRepo /\ TriggersComeBack
<1> SUFFICES ASSUME CicdInv PROVE CicdTypeOK /\ RunsAreOfTheRepo /\ TriggersComeBack
  OBVIOUS
<1>1. TriggersComeBack
  BY DEF CicdInv, TriggersComeBack, ListsCome, AList, Lists, TriggerIsOne, Half
<1>2. RunsAreOfTheRepo
  <2> DEFINE h == Half(cicdPage.provider)
  <2> SUFFICES ASSUME h.repo # "", ~crossed
               PROVE  /\ cicdPage.loading \/ h.runsOf = h.repo
                      /\ h.run # 0 /\ (\A f \in fetches : f.what # "jobs") => h.jobsOf = [repo |-> h.repo, run |-> h.run]
    BY DEF RunsAreOfTheRepo
  <2>1. cicdPage.provider \in Provider /\ h = cicdPage.halves[cicdPage.provider]
    BY CicdTypes DEF Half
  <2> HIDE DEF h
  <2>2. h.repo = h.runsOf \/ \E f \in fetches : f.what = "runs"
    BY <2>1 DEF CicdInv, Follows, RunsCome
  <2>3. \A f \in fetches : f.what = "runs" => cicdPage.loading
    BY DEF CicdInv, OneList, AList
  <2>4. h.run = 0 \/ h.jobsOf = JobsOf(h) \/ \E f \in fetches : f.what = "jobs"
    BY <2>1 DEF CicdInv, Follows, JobsCome
  <2> QED BY <2>2, <2>3, <2>4 DEF JobsOf
<1> QED BY <1>1, <1>2 DEF CicdInv

\* The CI page shows the runs of the repository and the jobs of the run that are
\* selected, unless its lists crossed, and its flags are up only while what lowers them
\* is under way, for any providers, repositories and runs (CICDPage.tsx).
THEOREM CicdPageStaysReal == CicdSpec => [](CicdTypeOK /\ RunsAreOfTheRepo /\ TriggersComeBack)
<1>1. CicdSpec => []CicdInv
  BY InitCicd, NextCicd, PTL DEF CicdSpec
<1> QED BY <1>1, CicdImplies, PTL

-----------------------------------------------------------------------------
(* Rules and settings. One evaluation is under way, and it works on the    *)
(* application's own object, so that what it saves is what the user has    *)
(* set; unless evaluations overlap.                                        *)

EvaluationRow == [next : 1..(RuleCount + 1), live : BOOLEAN, data : Contents,
                  held : [RuleId -> 0..MaxVersions], breached : SUBSET RuleId]
IntendedRow == [rules : [RuleId -> 0..MaxVersions], settings : 0..MaxEdits, links : 0..MaxLinks, reset : BOOLEAN]
RuleObject == RuleId \X (1..MaxVersions)

\* Counters and cooldowns of the rules.
CounterTypes ==
    /\ versions \in [RuleId -> 0..MaxVersions] /\ breaches \in [RuleObject -> 0..RequiredBreaches]
    /\ recent \subseteq RuleObject /\ samples \in 0..MaxSamples

DataTypes ==
    /\ appData \in Contents /\ file \in Contents /\ intended \in IntendedRow
    /\ evaluating \in [Evaluation -> EvaluationRow \cup {Idle}]
    /\ exposed \subseteq RuleId
    /\ overlapped \in BOOLEAN /\ overwritten \in BOOLEAN /\ dataEdits \in 0..MaxEdits

\* Settings are as new as the edits, so that they stay within their bound.
SettingsAreEdits ==
    /\ appData.settings <= dataEdits /\ intended.settings <= dataEdits
    /\ \A v \in Evaluation : evaluating[v] # Idle => evaluating[v].data.settings <= dataEdits

FileIsTheData == file.rules = appData.rules /\ file.settings = appData.settings

LinksAreKept == ~overwritten => file.links = intended.links

\* One evaluation is under way, and holds the application's own object.
EditsAreKept ==
    ~overlapped =>
        /\ Present(appData) = Present(intended) /\ appData.settings = intended.settings
        /\ \A v, w \in Evaluation : evaluating[v] # Idle /\ evaluating[w] # Idle => v = w
        /\ \A v \in Evaluation : evaluating[v] # Idle => evaluating[v].live

\* What an evaluation holds of a rule is what the user last left of it, unless that was
\* edited meanwhile.
Unchanged(h) == \A r \in RuleId \ exposed : h[r] # 0 /\ appData.rules[r] # 0 => h[r] = appData.rules[r]
VersionsAreKept ==
    ~overlapped =>
        /\ \A r \in RuleId \ exposed : appData.rules[r] = intended.rules[r]
        /\ \A v \in Evaluation : evaluating[v] # Idle => Unchanged(evaluating[v].held)

DataInv == VersionsAreKept /\ DataTypes /\ SettingsAreEdits /\ FileIsTheData /\ LinksAreKept /\ EditsAreKept
AlertInv == CounterTypes /\ DataInv

LEMMA AlertBounds ==
  /\ RuleCount \in Nat /\ RequiredBreaches \in Nat /\ RequiredBreaches # 0 /\ MaxVersions \in Nat /\ MaxVersions # 0
  /\ MaxEdits \in Nat /\ MaxSamples \in Nat /\ MaxLinks \in Nat /\ ConnectionRules \subseteq RuleId
BY AlertAssumption DEF RuleId

LEMMA ZeroIsWithin ==
  /\ 0 \in 0..MaxVersions /\ 1 \in 0..MaxVersions /\ 0 \in 0..MaxEdits /\ 0 \in 0..MaxLinks /\ 0 \in 0..MaxSamples
  /\ 0 \in 0..RequiredBreaches /\ 1 \in 0..RequiredBreaches /\ 1 \in 1..(RuleCount + 1) /\ 1 \in 1..MaxVersions
  /\ RuleCount + 1 \in 1..(RuleCount + 1)
BY AlertBounds

LEMMA RowsAreBusy == ASSUME NEW e \in EvaluationRow PROVE e # Idle
<1>1. e.next \in 1..(RuleCount + 1)
  BY DEF EvaluationRow
<1>2. e.next # 0
  BY <1>1, AlertBounds
<1>3. Idle.next = 0
  BY DEF Idle
<1> QED BY <1>2, <1>3

\* A version that is there is not 0.
LEMMA VersionsAreThere ==
  ASSUME NEW n \in 0..MaxVersions, n # 0
  PROVE  n \in 1..MaxVersions
BY AlertBounds

LEMMA EmptyIsData == Empty \in Contents /\ Present(Empty) = {} /\ Empty.settings = 0 /\ Empty.links = 0
<1>1. Empty.rules = [r \in RuleId |-> 0] /\ Empty.settings = 0 /\ Empty.links = 0
  BY DEF Empty
<1>2. Empty \in Contents
  BY ZeroIsWithin DEF Empty, Contents
<1> QED BY <1>1, <1>2 DEF Present

\* The smallest of some rules is one of them.
LEMMA MinIsOne ==
  ASSUME NEW S \in SUBSET RuleId, S # {}
  PROVE  Min(S) \in S
<1>1. S \subseteq Nat
  BY AlertBounds DEF RuleId
<1>2. PICK m \in S : \A n \in S : ~(<<n, m>> \in OpToRel(<, Nat))
  BY <1>1, WFMin, NatLessThanWellFounded
<1>3. ASSUME NEW n \in S PROVE m =< n
  <2>1. n \in Nat /\ m \in Nat
    BY <1>1
  <2>2. ~(n < m)
    BY <1>2, <2>1 DEF OpToRel
  <2> QED BY <2>1, <2>2
<1> QED BY <1>3 DEF Min

LEMMA MinOfTwo ==
  ASSUME NEW i \in Nat, NEW j \in Nat
  PROVE  Min({i, j}) \in 0..j
<1>1. \E x \in {i, j} : \A y \in {i, j} : x =< y
  OBVIOUS
<1>2. Min({i, j}) \in {i, j} /\ \A y \in {i, j} : Min({i, j}) =< y
  BY <1>1 DEF Min
<1> DEFINE m == Min({i, j})
<1>3. m \in {i, j} /\ m =< j
  BY <1>2
<1> HIDE DEF m
<1>4. m \in 0..j
  BY <1>3
<1> QED BY <1>4 DEF m

\* Data is saved, and the file is it.
LEMMA SaveKeeps ==
  ASSUME DataInv, NEW d \in Contents, Save(d)
  PROVE  /\ appData' = d /\ appData' \in Contents /\ file' \in Contents /\ overwritten' \in BOOLEAN
         /\ FileIsTheData' /\ file' = d
         /\ ~overwritten' => file'.links = file.links /\ ~overwritten
BY DEF Save, FileIsTheData, DataInv, DataTypes

\* Another object takes the place of the application's own.
LEMMA FreezeKeeps ==
  ASSUME DataInv, NEW v \in Evaluation
  PROVE  /\ Freeze(v) \in EvaluationRow \cup {Idle} /\ (Freeze(v) # Idle <=> evaluating[v] # Idle)
         /\ Freeze(v) # Idle => Freeze(v).data.settings <= dataEdits
<1>1. evaluating[v] \in EvaluationRow \cup {Idle} /\ appData \in Contents
  BY DEF DataInv, DataTypes
<1>2. CASE evaluating[v] # Idle /\ evaluating[v].live
  <2> DEFINE f == [evaluating[v] EXCEPT !.live = FALSE, !.data = appData]
  <2>1. Freeze(v) = f
    BY <1>2 DEF Freeze
  <2>2. evaluating[v] \in EvaluationRow
    BY <1>1, <1>2
  <2>3. f \in EvaluationRow /\ f.data = appData
    BY <1>1, <2>2 DEF EvaluationRow
  <2> HIDE DEF f
  <2>4. f # Idle /\ f.data.settings <= dataEdits
    BY <2>3, RowsAreBusy DEF DataInv, SettingsAreEdits
  <2> QED BY <1>2, <2>1, <2>3, <2>4
<1>3. CASE ~(evaluating[v] # Idle /\ evaluating[v].live)
  <2>1. Freeze(v) = evaluating[v]
    BY <1>3 DEF Freeze
  <2> QED BY <1>1, <2>1 DEF DataInv, SettingsAreEdits
<1> QED BY <1>2, <1>3

\* Rules are persisted: those of the object held, of which an evaluation alone holds
\* the application's own.
LEMMA PersistKeeps ==
  ASSUME DataInv, NEW v \in Evaluation, NEW e \in EvaluationRow, e.data.settings <= dataEdits, Persist(v, e),
         UNCHANGED <<intended, exposed, dataEdits>>, overlapped' \in BOOLEAN,
         ~overlapped' => ~overlapped /\ e.live /\ Unchanged(e.held) /\ \A w \in Evaluation : w # v => evaluating[w] = Idle
  PROVE  DataInv'
<1> DEFINE d == Held(e)
           rules == [r \in RuleId |-> IF d.rules[r] # 0 /\ e.held[r] # 0 THEN e.held[r] ELSE d.rules[r]]
           n == [d EXCEPT !.rules = rules]
<1>1. Save(n) /\ evaluating' = [w \in Evaluation |-> IF w = v THEN Idle ELSE Freeze(w)]
  BY DEF Persist
<1>2. d \in Contents /\ d.settings <= dataEdits /\ (e.live => d = appData)
  BY DEF Held, EvaluationRow, DataInv, DataTypes, SettingsAreEdits
<1>3. e.held \in [RuleId -> 0..MaxVersions]
  BY DEF EvaluationRow
<1> HIDE DEF d
<1>4. d.rules \in [RuleId -> 0..MaxVersions]
  BY <1>2 DEF Contents
<1>5. rules \in [RuleId -> 0..MaxVersions] /\ \A r \in RuleId : rules[r] = 0 <=> d.rules[r] = 0
  BY <1>3, <1>4
<1> HIDE DEF rules
<1>6. n \in Contents /\ n.rules = rules /\ n.settings = d.settings /\ n.links = d.links
  BY <1>2, <1>5 DEF Contents
<1> HIDE DEF n
<1>7. Present(n) = Present(d)
  BY <1>5, <1>6 DEF Present
<1>8. /\ appData' = n /\ appData' \in Contents /\ file' \in Contents /\ overwritten' \in BOOLEAN
      /\ FileIsTheData' /\ (~overwritten' => file'.links = file.links /\ ~overwritten)
  BY <1>1, <1>6, SaveKeeps
<1>9. evaluating' \in [Evaluation -> EvaluationRow \cup {Idle}]
  BY <1>1, FreezeKeeps
<1>10. DataTypes'
  BY <1>8, <1>9 DEF DataTypes, DataInv, Contents, IntendedRow, EvaluationRow, Idle
<1>11. \A w \in Evaluation : evaluating'[w] # Idle => evaluating'[w].data.settings <= dataEdits
  <2> SUFFICES ASSUME NEW w \in Evaluation, evaluating'[w] # Idle PROVE evaluating'[w].data.settings <= dataEdits
    OBVIOUS
  <2>1. evaluating'[w] = Freeze(w)
    BY <1>1
  <2> QED BY <2>1, FreezeKeeps
<1>12. SettingsAreEdits'
  BY <1>2, <1>6, <1>8, <1>11 DEF SettingsAreEdits, DataInv, Idle
<1>13. LinksAreKept'
  BY <1>8 DEF LinksAreKept, DataInv
<1>14. ~overlapped' => \A w \in Evaluation : evaluating'[w] = Idle
  <2> SUFFICES ASSUME ~overlapped', NEW w \in Evaluation PROVE evaluating'[w] = Idle
    OBVIOUS
  <2>1. w # v => Freeze(w) = Idle
    BY FreezeKeeps
  <2> QED BY <1>1, <2>1
<1>15. ~overlapped' => Present(appData') = Present(intended) /\ appData'.settings = intended.settings
  BY <1>2, <1>6, <1>7, <1>8 DEF DataInv, EditsAreKept
<1>16. EditsAreKept'
  BY <1>14, <1>15 DEF EditsAreKept, Idle, Present, RuleId
<1>17. VersionsAreKept'
  <2> SUFFICES ASSUME ~overlapped', NEW r \in RuleId \ exposed PROVE appData'.rules[r] = intended.rules[r]
    BY <1>14 DEF VersionsAreKept, Idle, RuleId
  <2>1. d = appData /\ appData'.rules = rules /\ Unchanged(e.held) /\ appData.rules[r] = intended.rules[r]
    BY <1>2, <1>6, <1>8 DEF DataInv, VersionsAreKept
  <2>2. rules[r] = IF appData.rules[r] # 0 /\ e.held[r] # 0 THEN e.held[r] ELSE appData.rules[r]
    BY <2>1 DEF rules
  <2> QED BY <2>1, <2>2 DEF Unchanged
<1> QED BY <1>8, <1>10, <1>12, <1>13, <1>16, <1>17 DEF DataInv

\* An evaluation waits for messages to be sent.
LEMMA WaitKeeps ==
  ASSUME DataInv, NEW v \in Evaluation, NEW e \in EvaluationRow, e.data.settings <= dataEdits,
         evaluating' = [evaluating EXCEPT ![v] = e],
         UNCHANGED <<appData, file, overwritten, intended, exposed, dataEdits>>, overlapped' \in BOOLEAN,
         ~overlapped' => ~overlapped /\ e.live /\ Unchanged(e.held) /\ \A w \in Evaluation : w # v => evaluating[w] = Idle
  PROVE  DataInv'
<1>1. /\ evaluating' \in [Evaluation -> EvaluationRow \cup {Idle}]
      /\ \A w \in Evaluation : evaluating'[w] = IF w = v THEN e ELSE evaluating[w]
  BY DEF DataInv, DataTypes
<1>2. DataTypes'
  BY <1>1 DEF DataTypes, DataInv, Contents, IntendedRow, EvaluationRow, Idle
<1>3. \A w \in Evaluation : evaluating'[w] # Idle => evaluating'[w].data.settings <= dataEdits
  BY <1>1 DEF DataInv, SettingsAreEdits
<1>4. SettingsAreEdits'
  BY <1>3 DEF SettingsAreEdits, DataInv, Idle
<1>5. FileIsTheData' /\ LinksAreKept'
  BY DEF DataInv, FileIsTheData, LinksAreKept
<1>6. ~overlapped' => \A w \in Evaluation : evaluating'[w] # Idle => w = v /\ evaluating'[w].live
  BY <1>1
<1>7. Present(appData)' = Present(appData)
  BY DEF Present, RuleId
<1>8. EditsAreKept'
  BY <1>6, <1>7 DEF EditsAreKept, DataInv, Idle, Present, RuleId
<1>9. VersionsAreKept'
  <2> SUFFICES ASSUME ~overlapped' PROVE VersionsAreKept'
    BY DEF VersionsAreKept
  <2>1. \A w \in Evaluation : evaluating'[w] # Idle => Unchanged(evaluating'[w].held)
    BY <1>1
  <2> QED BY <2>1 DEF VersionsAreKept, DataInv, Unchanged, Idle, RuleId
<1> QED BY <1>2, <1>4, <1>5, <1>8, <1>9 DEF DataInv

\* A round of the loop.
LEMMA LoopKeeps ==
  ASSUME AlertInv, NEW v \in Evaluation, NEW e \in EvaluationRow, e.data.settings <= dataEdits, Loop(v, e),
         UNCHANGED <<versions, intended, exposed, dataEdits>>, samples' \in 0..MaxSamples, overlapped' \in BOOLEAN,
         ~overlapped' => ~overlapped /\ e.live /\ Unchanged(e.held) /\ \A w \in Evaluation : w # v => evaluating[w] = Idle
  PROVE  AlertInv'
<1> DEFINE Object(r) == <<r, e.held[r]>>
           todo == {r \in RuleId : r >= e.next /\ e.held[r] # 0}
           Fires(r) == r \in e.breached /\ breaches[Object(r)] + 1 >= RequiredBreaches
                       /\ Object(r) \notin recent
           firing == {r \in todo : Fires(r)}
           last == IF firing = {} THEN RuleCount ELSE Min(firing)
           done == {r \in todo : r <= last}
           more == [e EXCEPT !.next = last + 1]
<1>1. /\ breaches' = [o \in DOMAIN breaches |->
            IF o \notin {Object(r) : r \in done} THEN breaches[o]
            ELSE IF o[1] \in e.breached THEN Min({breaches[o] + 1, RequiredBreaches}) ELSE 0]
      /\ \/ firing = {} /\ Persist(v, e) /\ UNCHANGED recent
         \/ /\ firing # {} /\ recent' = recent \cup {Object(last)} /\ evaluating' = [evaluating EXCEPT ![v] = more]
            /\ UNCHANGED <<appData, file, overwritten>>
  BY DEF Loop
<1>2. CounterTypes /\ DataInv
  BY DEF AlertInv
<1>3. breaches' \in [RuleObject -> 0..RequiredBreaches]
  <2>1. \A o \in RuleObject : breaches[o] \in 0..RequiredBreaches /\ DOMAIN breaches = RuleObject
    BY <1>2 DEF CounterTypes
  <2>2. \A o \in RuleObject : Min({breaches[o] + 1, RequiredBreaches}) \in 0..RequiredBreaches
    BY <2>1, AlertBounds, MinOfTwo
  <2>3. DOMAIN breaches = RuleObject
    BY <1>2 DEF CounterTypes
  <2> HIDE DEF done, todo, firing
  <2> QED BY <1>1, <2>1, <2>2, <2>3, ZeroIsWithin
<1>4. CASE firing = {} /\ Persist(v, e) /\ UNCHANGED recent
  <2>1. CounterTypes'
    BY <1>2, <1>3, <1>4 DEF CounterTypes, RuleObject, RuleId
  <2>2. DataInv'
    BY <1>2, <1>4, PersistKeeps
  <2> QED BY <2>1, <2>2 DEF AlertInv
<1>5. CASE /\ firing # {} /\ recent' = recent \cup {Object(last)} /\ evaluating' = [evaluating EXCEPT ![v] = more]
           /\ UNCHANGED <<appData, file, overwritten>>
  <2>1. firing \subseteq RuleId /\ firing # {} /\ firing \subseteq todo
    BY <1>5
  <2>2. last \in todo
    BY <1>5, <2>1, MinIsOne
  <2>3. last \in RuleId /\ e.held[last] # 0
    BY <2>2
  <2>4. e.held[last] \in 1..MaxVersions
    BY <2>3, VersionsAreThere DEF EvaluationRow
  <2>5. Object(last) \in RuleObject
    BY <2>3, <2>4 DEF RuleObject
  <2> HIDE DEF last
  <2>6. CounterTypes'
    BY <1>2, <1>3, <1>5, <2>5 DEF CounterTypes, RuleObject, RuleId
  <2>7. last + 1 \in 1..(RuleCount + 1)
    BY <2>3, AlertBounds DEF RuleId
  <2>8. more \in EvaluationRow /\ more.data = e.data /\ more.live = e.live /\ more.held = e.held
    BY <2>7 DEF EvaluationRow
  <2> HIDE DEF more, firing
  <2>9. DataInv'
    BY <1>2, <1>5, <2>8, WaitKeeps
  <2> QED BY <2>6, <2>9 DEF AlertInv
<1> QED BY <1>1, <1>4, <1>5

LEMMA BeginIsARow ==
  ASSUME AlertInv, NEW seen \in [RuleId -> 0..MaxVersions], NEW breached \in SUBSET RuleId, NEW v
  PROVE  /\ Begin(v, seen, breached) \in EvaluationRow /\ Begin(v, seen, breached).data = appData
         /\ Begin(v, seen, breached).live /\ Begin(v, seen, breached).held = seen
BY ZeroIsWithin DEF Begin, EvaluationRow, AlertInv, DataInv, DataTypes

\* An evaluation that meets no other one begins alone.
LEMMA BeginsAlone ==
  ASSUME AlertInv, overlapped' = (overlapped \/ Busy # {})
  PROVE  /\ overlapped' \in BOOLEAN
         /\ ~overlapped' => ~overlapped /\ \A w \in Evaluation : evaluating[w] = Idle
BY DEF AlertInv, DataInv, DataTypes, Busy

LEMMA EvaluationSteps ==
  ASSUME AlertInv, NEW v \in Evaluation,
         \/ \E breached \in SUBSET (RuleId \ ConnectionRules) : Evaluate(v, breached)
         \/ Dispatched(v) \/ ResetConnectionRules(v)
         \/ \E r \in RuleId : ConnectionAlert(v, r)
  PROVE  AlertInv'
<1>1. /\ appData \in Contents /\ appData.rules \in [RuleId -> 0..MaxVersions] /\ appData.settings <= dataEdits
      /\ samples \in 0..MaxSamples /\ CounterTypes /\ DataInv
  BY DEF AlertInv, DataInv, DataTypes, CounterTypes, SettingsAreEdits, Contents
<1>2. ASSUME NEW breached \in SUBSET (RuleId \ ConnectionRules), Evaluate(v, breached) PROVE AlertInv'
  <2> DEFINE seen == [r \in RuleId |-> IF r \in ConnectionRules THEN 0 ELSE appData.rules[r]]
             e == Begin(v, seen, breached)
  <2>1. /\ samples < MaxSamples /\ Loop(v, e) /\ samples' = samples + 1
        /\ overlapped' = (overlapped \/ Busy # {}) /\ UNCHANGED <<versions, intended, exposed, dataEdits>>
    BY <1>2 DEF Evaluate
  <2>2. seen \in [RuleId -> 0..MaxVersions] /\ Unchanged(seen)
    BY <1>1, ZeroIsWithin DEF Unchanged
  <2> HIDE DEF seen
  <2>3. e \in EvaluationRow /\ e.data = appData /\ e.live /\ Unchanged(e.held)
    BY <2>2, BeginIsARow
  <2> HIDE DEF e
  <2>4. samples' \in 0..MaxSamples
    BY <1>1, <2>1, AlertBounds
  <2>5. overlapped' \in BOOLEAN /\ (~overlapped' => ~overlapped /\ \A w \in Evaluation : evaluating[w] = Idle)
    BY <2>1, BeginsAlone
  <2> QED BY <1>1, <2>1, <2>3, <2>4, <2>5, LoopKeeps
<1>3. CASE Dispatched(v)
  <2> DEFINE e == evaluating[v]
  <2>1. e # Idle /\ Loop(v, e) /\ UNCHANGED <<versions, intended, exposed, overlapped, dataEdits, samples>>
    BY <1>3 DEF Dispatched
  <2>2. e \in EvaluationRow /\ e.data.settings <= dataEdits /\ overlapped \in BOOLEAN
    BY <1>1, <2>1 DEF DataInv, DataTypes, SettingsAreEdits
  <2>3. ~overlapped => e.live /\ Unchanged(e.held) /\ \A w \in Evaluation : w # v => evaluating[w] = Idle
    BY <1>1, <2>1 DEF DataInv, EditsAreKept, VersionsAreKept
  <2> HIDE DEF e
  <2> QED BY <1>1, <2>1, <2>2, <2>3, LoopKeeps
<1>4. ASSUME NEW r \in RuleId, ConnectionAlert(v, r) PROVE AlertInv'
  <2> DEFINE object == <<r, appData.rules[r]>>
             seen == [q \in RuleId |-> IF q = r THEN object[2] ELSE 0]
             b == Begin(v, seen, {})
             e == [b EXCEPT !.next = RuleCount + 1]
  <2>1. /\ samples < MaxSamples /\ r \in Present(appData)
        /\ recent' = recent \cup {object} /\ breaches' = [breaches EXCEPT ![object] = 1]
        /\ evaluating' = [evaluating EXCEPT ![v] = e] /\ samples' = samples + 1
        /\ overlapped' = (overlapped \/ Busy # {})
        /\ UNCHANGED <<appData, file, overwritten, versions, intended, exposed, dataEdits>>
    BY <1>4 DEF ConnectionAlert
  <2>2. appData.rules[r] \in 0..MaxVersions /\ appData.rules[r] # 0 /\ object[2] = appData.rules[r]
    BY <1>1, <2>1 DEF Present
  <2>3. object \in RuleObject
    BY <2>2, VersionsAreThere DEF RuleObject
  <2>4. seen \in [RuleId -> 0..MaxVersions] /\ Unchanged(seen)
    BY <2>2, ZeroIsWithin DEF Unchanged
  <2> HIDE DEF seen, object
  <2>5. b \in EvaluationRow /\ b.data = appData /\ b.live /\ b.held = seen
    BY <2>4, BeginIsARow
  <2> HIDE DEF b
  <2>6. e \in EvaluationRow /\ e.data = appData /\ e.live /\ Unchanged(e.held)
    BY <2>4, <2>5, ZeroIsWithin DEF EvaluationRow
  <2> HIDE DEF e
  <2>7. samples' \in 0..MaxSamples
    BY <1>1, <2>1, AlertBounds
  <2>8. overlapped' \in BOOLEAN /\ (~overlapped' => ~overlapped /\ \A w \in Evaluation : evaluating[w] = Idle)
    BY <2>1, BeginsAlone
  <2>9. DataInv'
    BY <1>1, <2>1, <2>6, <2>8, WaitKeeps
  <2>10. breaches' \in [RuleObject -> 0..RequiredBreaches]
    BY <1>1, <2>1, ZeroIsWithin DEF CounterTypes
  <2>11. CounterTypes'
    BY <1>1, <2>1, <2>3, <2>7, <2>10 DEF CounterTypes, RuleObject, RuleId
  <2> QED BY <2>9, <2>11 DEF AlertInv
<1>5. CASE ResetConnectionRules(v)
  <2> DEFINE there == ConnectionRules \cap Present(appData)
             changed == {r \in there : breaches[<<r, appData.rules[r]>>] # 0}
             seen == [r \in RuleId |-> IF r \in there THEN appData.rules[r] ELSE 0]
             e == Begin(v, seen, {})
  <2>1. /\ breaches' = [o \in DOMAIN breaches |->
              IF o \in {<<r, appData.rules[r]>> : r \in changed} THEN 0 ELSE breaches[o]]
        /\ Persist(v, e) /\ overlapped' = (overlapped \/ Busy # {})
        /\ UNCHANGED <<versions, recent, intended, exposed, dataEdits, samples>>
    BY <1>5 DEF ResetConnectionRules
  <2>2. seen \in [RuleId -> 0..MaxVersions] /\ Unchanged(seen)
    BY <1>1, ZeroIsWithin DEF Unchanged
  <2> HIDE DEF seen, changed
  <2>3. e \in EvaluationRow /\ e.data = appData /\ e.live /\ Unchanged(e.held)
    BY <2>2, BeginIsARow
  <2> HIDE DEF e
  <2>4. overlapped' \in BOOLEAN /\ (~overlapped' => ~overlapped /\ \A w \in Evaluation : evaluating[w] = Idle)
    BY <2>1, BeginsAlone
  <2>5. DataInv'
    BY <1>1, <2>1, <2>3, <2>4, PersistKeeps
  <2>6. breaches' \in [RuleObject -> 0..RequiredBreaches]
    BY <1>1, <2>1, ZeroIsWithin DEF CounterTypes
  <2>7. CounterTypes'
    BY <1>1, <2>1, <2>6 DEF CounterTypes, RuleObject, RuleId
  <2> QED BY <2>5, <2>7 DEF AlertInv
<1> QED BY <1>2, <1>3, <1>4, <1>5

\* An edit saves the application's data, in which only it has changed something.
LEMMA EditKeeps ==
  ASSUME DataInv, NEW d \in Contents, NEW rules \in [RuleId -> 0..MaxVersions], Edit(d, rules), evaluating' = evaluating,
         d.links = appData.links, d.settings = appData.settings \/ d.settings = appData.settings + 1,
         \A r \in RuleId : d.rules[r] = rules[r] \/ (d.rules[r] = appData.rules[r] /\ rules[r] = intended.rules[r]),
         d.settings # appData.settings \/ appData.settings = intended.settings \/ overlapped
  PROVE  DataInv'
<1>1. /\ dataEdits < MaxEdits /\ dataEdits' = dataEdits + 1 /\ Save(d) /\ UNCHANGED overlapped
      /\ intended' = [intended EXCEPT !.rules = rules, !.settings = d.settings,
                                      !.reset = intended.reset /\ \A r \in RuleId : rules[r] = 0]
      /\ exposed' = {r \in RuleId : r \in IF rules[r] = intended.rules[r] THEN exposed ELSE HeldRules}
  BY DEF Edit
<1>2. /\ dataEdits \in 0..MaxEdits /\ intended \in IntendedRow /\ d.settings \in 0..MaxEdits
      /\ appData.settings <= dataEdits /\ appData.settings \in 0..MaxEdits
  BY DEF DataInv, DataTypes, Contents, SettingsAreEdits
<1>3. dataEdits' \in 0..MaxEdits /\ dataEdits <= dataEdits' /\ d.settings <= dataEdits'
  BY <1>1, <1>2, AlertBounds
<1>4. intended' \in IntendedRow /\ intended'.rules = rules /\ intended'.settings = d.settings
      /\ intended'.links = intended.links
  <2> DEFINE none == intended.reset /\ \A r \in RuleId : rules[r] = 0
  <2>1. none \in BOOLEAN
    BY <1>2 DEF IntendedRow
  <2>2. intended' = [intended EXCEPT !.rules = rules, !.settings = d.settings, !.reset = none]
    BY <1>1
  <2> HIDE DEF none
  <2> QED BY <1>2, <2>1, <2>2 DEF IntendedRow
<1>5. /\ appData' = d /\ appData' \in Contents /\ file' \in Contents /\ overwritten' \in BOOLEAN
      /\ FileIsTheData' /\ (~overwritten' => file'.links = file.links /\ ~overwritten)
  BY <1>1, SaveKeeps
<1>15. exposed' \subseteq RuleId /\ overlapped' = overlapped
  BY <1>1
<1>6. DataTypes'
  BY <1>3, <1>4, <1>5, <1>15 DEF DataTypes, DataInv, Contents, IntendedRow, EvaluationRow, Idle
<1>7. \A v \in Evaluation : evaluating[v] # Idle => evaluating[v].data.settings \in 0..MaxEdits
                                                     /\ evaluating[v].data.settings <= dataEdits
  BY DEF DataInv, DataTypes, SettingsAreEdits, EvaluationRow, Contents
<1>8. \A v \in Evaluation : evaluating[v] # Idle => evaluating[v].data.settings <= dataEdits'
  <2> SUFFICES ASSUME NEW v \in Evaluation, evaluating[v] # Idle PROVE evaluating[v].data.settings <= dataEdits'
    OBVIOUS
  <2> DEFINE n == evaluating[v].data.settings
  <2>1. n \in 0..MaxEdits /\ n <= dataEdits
    BY <1>7
  <2> HIDE DEF n
  <2>2. n <= dataEdits'
    BY <1>1, <1>2, <2>1, AlertBounds
  <2> QED BY <2>2 DEF n
<1>9. SettingsAreEdits'
  BY <1>3, <1>4, <1>5, <1>8 DEF SettingsAreEdits, Idle
<1>10. LinksAreKept'
  BY <1>4, <1>5 DEF LinksAreKept, DataInv
<1>11. intended'.rules = rules /\ appData'.rules = d.rules /\ UNCHANGED <<evaluating, overlapped>>
  BY <1>1, <1>4, <1>5
<1>12. ~overlapped => Present(d) = {r \in RuleId : rules[r] # 0}
  BY DEF DataInv, EditsAreKept, Present
<1>13. EditsAreKept'
  <2>1. Present(appData)' = Present(d) /\ Present(intended)' = {r \in RuleId : rules[r] # 0}
    BY <1>5, <1>11 DEF Present, RuleId
  <2>2. ~overlapped => Present(appData)' = Present(intended)'
    BY <1>12, <2>1
  <2>3. ~overlapped => appData'.settings = intended'.settings
    BY <1>4, <1>5
  <2> QED BY <1>15, <2>2, <2>3 DEF EditsAreKept, DataInv, Idle
<1>14. VersionsAreKept'
  <2> SUFFICES ASSUME ~overlapped, NEW r \in RuleId, r \notin exposed'
               PROVE  /\ d.rules[r] = rules[r]
                      /\ \A v \in Evaluation : evaluating[v] # Idle /\ evaluating[v].held[r] # 0 /\ d.rules[r] # 0
                                                 => evaluating[v].held[r] = d.rules[r]
    BY <1>11 DEF VersionsAreKept, Unchanged, Idle, RuleId
  <2>1. CASE rules[r] = intended.rules[r]
    <3>1. r \notin exposed
      BY <1>1, <2>1
    <3>2. d.rules[r] = appData.rules[r]
      BY <2>1, <3>1 DEF DataInv, VersionsAreKept
    <3> QED BY <2>1, <3>1, <3>2 DEF DataInv, VersionsAreKept, Unchanged
  <2>2. CASE rules[r] # intended.rules[r]
    <3>1. r \notin HeldRules
      BY <1>1, <2>2
    <3>2. d.rules[r] = rules[r]
      BY <2>2
    <3> QED BY <3>1, <3>2 DEF HeldRules, Busy
  <2> QED BY <2>1, <2>2
<1> QED BY <1>5, <1>6, <1>9, <1>10, <1>13, <1>14 DEF DataInv

LEMMA NewVersionIsThere ==
  ASSUME AlertInv, NEW r \in RuleId, NewVersion(r)
  PROVE  /\ versions' \in [RuleId -> 0..MaxVersions] /\ versions'[r] \in 1..MaxVersions
         /\ versions'[r] \in 0..MaxVersions /\ versions'[r] # 0
<1>1. versions \in [RuleId -> 0..MaxVersions] /\ versions[r] < MaxVersions
      /\ versions' = [versions EXCEPT ![r] = versions[r] + 1]
  BY DEF NewVersion, AlertInv, CounterTypes
<1>2. versions[r] \in 0..MaxVersions
  BY <1>1
<1>3. versions[r] + 1 \in 1..MaxVersions /\ versions[r] + 1 \in 0..MaxVersions /\ versions[r] + 1 # 0
  BY <1>1, <1>2, AlertBounds
<1> QED BY <1>1, <1>3

\* A rule of the data is changed.
LEMMA ChangedRule ==
  ASSUME DataInv, NEW r \in RuleId, NEW n \in 0..MaxVersions,
         NEW d, d = [appData EXCEPT !.rules[r] = n]
  PROVE  /\ d \in Contents /\ d.links = appData.links /\ d.settings = appData.settings
         /\ \A q \in RuleId : d.rules[q] = IF q = r THEN n ELSE appData.rules[q]
<1>1. appData \in Contents
  BY DEF DataInv, DataTypes
<1>2. appData.rules \in [RuleId -> 0..MaxVersions]
  BY <1>1 DEF Contents
<1>3. d.rules = [appData.rules EXCEPT ![r] = n] /\ d.links = appData.links /\ d.settings = appData.settings
  BY <1>1 DEF Contents
<1>4. d \in Contents
  BY <1>1, <1>2 DEF Contents
<1>5. \A q \in RuleId : d.rules[q] = IF q = r THEN n ELSE appData.rules[q]
  BY <1>2, <1>3
<1> QED BY <1>3, <1>4, <1>5

LEMMA RuleEdits ==
  ASSUME AlertInv, NEW r \in RuleId, AddRule(r) \/ RemoveRule(r) \/ \E cools \in BOOLEAN : UpdateRule(r, cools)
  PROVE  AlertInv'
<1>1. /\ CounterTypes /\ DataInv /\ intended.rules \in [RuleId -> 0..MaxVersions]
      /\ appData.settings = intended.settings \/ overlapped
      /\ appData.settings # appData.settings + 1
  <2>1. appData.settings \in 0..MaxEdits
    BY DEF AlertInv, DataInv, DataTypes, Contents
  <2>2. appData.settings # appData.settings + 1
    BY <2>1, AlertBounds
  <2> QED BY <2>2 DEF AlertInv, DataInv, DataTypes, IntendedRow, EditsAreKept
<1>2. CASE AddRule(r)
  <2> DEFINE n == versions'[r]
             d == [appData EXCEPT !.rules[r] = n]
             rules == [intended.rules EXCEPT ![r] = n]
  <2>1. /\ NewVersion(r) /\ Edit(d, rules) /\ UNCHANGED <<breaches, recent, evaluating>>
    BY <1>2 DEF AddRule
  <2>2. versions' \in [RuleId -> 0..MaxVersions] /\ n \in 0..MaxVersions /\ n # 0
    BY <2>1, NewVersionIsThere
  <2>10. ASSUME NEW m \in 0..MaxVersions, m = n
        PROVE  /\ d \in Contents /\ d.links = appData.links /\ d.settings = appData.settings
               /\ \A q \in RuleId : d.rules[q] = IF q = r THEN m ELSE appData.rules[q]
    <3> DEFINE c == [appData EXCEPT !.rules[r] = m]
    <3>1. appData \in Contents /\ appData.rules \in [RuleId -> 0..MaxVersions]
      BY <1>1 DEF DataInv, DataTypes, Contents
    <3>2. c.rules = [appData.rules EXCEPT ![r] = m] /\ c.links = appData.links /\ c.settings = appData.settings
      BY <3>1 DEF Contents
    <3>3. c \in Contents
      BY <3>1 DEF Contents
    <3>4. c = d
      BY <2>10
    <3> HIDE DEF c, d
    <3> QED BY <3>1, <3>2, <3>3, <3>4
  <2> HIDE DEF d, n
  <2>3. /\ d \in Contents /\ d.links = appData.links /\ d.settings = appData.settings
        /\ \A q \in RuleId : d.rules[q] = IF q = r THEN n ELSE appData.rules[q]
    BY <2>2, <2>10
  <2>4. rules \in [RuleId -> 0..MaxVersions]
    BY <1>1, <2>2
  <2>5. \A q \in RuleId : d.rules[q] = rules[q] \/ (d.rules[q] = appData.rules[q] /\ rules[q] = intended.rules[q])
    BY <1>1, <2>3
  <2>6. UNCHANGED samples
    BY <2>1 DEF Edit
  <2>7. CounterTypes'
    BY <1>1, <2>1, <2>2, <2>6 DEF CounterTypes, RuleObject, RuleId
  <2> HIDE DEF d, rules
  <2>8. DataInv'
    BY <1>1, <2>1, <2>3, <2>4, <2>5, EditKeeps
  <2> QED BY <2>7, <2>8 DEF AlertInv
<1>3. CASE RemoveRule(r)
  <2> DEFINE d == [appData EXCEPT !.rules[r] = 0]
             rules == [intended.rules EXCEPT ![r] = 0]
  <2>1. /\ Edit(d, rules) /\ UNCHANGED <<versions, breaches, recent, evaluating>>
    BY <1>3 DEF RemoveRule, ruleVars
  <2>3. /\ d \in Contents /\ d.links = appData.links /\ d.settings = appData.settings
        /\ \A q \in RuleId : d.rules[q] = IF q = r THEN 0 ELSE appData.rules[q]
    BY <1>1, ZeroIsWithin, ChangedRule
  <2>4. rules \in [RuleId -> 0..MaxVersions]
    BY <1>1, ZeroIsWithin
  <2>5. \A q \in RuleId : d.rules[q] = rules[q] \/ (d.rules[q] = appData.rules[q] /\ rules[q] = intended.rules[q])
    BY <1>1, <2>3
  <2>6. UNCHANGED samples
    BY <2>1 DEF Edit
  <2>7. CounterTypes'
    BY <1>1, <2>1, <2>6 DEF CounterTypes, RuleObject, RuleId
  <2> HIDE DEF d, rules
  <2>8. DataInv'
    BY <1>1, <2>1, <2>3, <2>4, <2>5, EditKeeps
  <2> QED BY <2>7, <2>8 DEF AlertInv
<1>4. ASSUME NEW cools \in BOOLEAN, UpdateRule(r, cools) PROVE AlertInv'
  <2> DEFINE n == versions'[r]
             d == [appData EXCEPT !.rules[r] = n]
             rules == [intended.rules EXCEPT ![r] = n]
             object == <<r, n>>
             old == <<r, appData.rules[r]>>
             count == IF cools THEN breaches[old] ELSE 0
  <2>1. /\ r \in Present(appData) /\ NewVersion(r) /\ Edit(d, rules) /\ UNCHANGED evaluating
        /\ recent' = (IF cools THEN recent \cup {object} ELSE recent)
        /\ breaches' = [breaches EXCEPT ![object] = count]
    BY <1>4 DEF UpdateRule
  <2>2. versions' \in [RuleId -> 0..MaxVersions] /\ n \in 0..MaxVersions /\ n # 0 /\ n \in 1..MaxVersions
    BY <2>1, NewVersionIsThere
  <2>15. ASSUME NEW m \in 0..MaxVersions, m = n
        PROVE  /\ d \in Contents /\ d.links = appData.links /\ d.settings = appData.settings
               /\ \A q \in RuleId : d.rules[q] = IF q = r THEN m ELSE appData.rules[q]
    <3> DEFINE c == [appData EXCEPT !.rules[r] = m]
    <3>1. appData \in Contents /\ appData.rules \in [RuleId -> 0..MaxVersions]
      BY <1>1 DEF DataInv, DataTypes, Contents
    <3>2. c.rules = [appData.rules EXCEPT ![r] = m] /\ c.links = appData.links /\ c.settings = appData.settings
      BY <3>1 DEF Contents
    <3>3. c \in Contents
      BY <3>1 DEF Contents
    <3>4. c = d
      BY <2>15
    <3> HIDE DEF c, d
    <3> QED BY <3>1, <3>2, <3>3, <3>4
  <2> HIDE DEF d, n
  <2>3. /\ d \in Contents /\ d.links = appData.links /\ d.settings = appData.settings
        /\ \A q \in RuleId : d.rules[q] = IF q = r THEN n ELSE appData.rules[q]
    BY <2>2, <2>15
  <2>4. rules \in [RuleId -> 0..MaxVersions]
    BY <1>1, <2>2
  <2>5. \A q \in RuleId : d.rules[q] = rules[q] \/ (d.rules[q] = appData.rules[q] /\ rules[q] = intended.rules[q])
    BY <1>1, <2>3
  <2>6. UNCHANGED samples
    BY <2>1 DEF Edit
  <2>9. object \in RuleObject
    BY <2>2 DEF RuleObject
  <2>10. appData.rules[r] \in 0..MaxVersions /\ appData.rules[r] # 0
    BY <1>1, <2>1 DEF DataInv, DataTypes, Contents, Present
  <2>11. old \in RuleObject
    BY <2>10, VersionsAreThere DEF RuleObject
  <2>12. count \in 0..RequiredBreaches
    BY <1>1, <2>11, ZeroIsWithin DEF CounterTypes
  <2> HIDE DEF d, rules, object, old, count
  <2>13. breaches' \in [RuleObject -> 0..RequiredBreaches]
    BY <1>1, <2>1, <2>12 DEF CounterTypes
  <2>14. recent' \subseteq RuleObject
    BY <1>1, <2>1, <2>9 DEF CounterTypes
  <2>7. CounterTypes'
    BY <1>1, <2>2, <2>6, <2>13, <2>14 DEF CounterTypes, RuleObject, RuleId
  <2>8. DataInv'
    BY <1>1, <2>1, <2>3, <2>4, <2>5, EditKeeps
  <2> QED BY <2>7, <2>8 DEF AlertInv
<1> QED BY <1>2, <1>3, <1>4

LEMMA SettingsSteps ==
  ASSUME AlertInv, SaveSettings
  PROVE  AlertInv'
<1> DEFINE d == [appData EXCEPT !.settings = appData.settings + 1]
<1>1. Edit(d, intended.rules) /\ UNCHANGED <<versions, breaches, recent, evaluating>> /\ UNCHANGED samples
  BY DEF SaveSettings, Edit, ruleVars
<1>2. /\ CounterTypes /\ DataInv /\ intended.rules \in [RuleId -> 0..MaxVersions] /\ appData \in Contents
      /\ appData.settings <= dataEdits /\ dataEdits \in 0..MaxEdits
  BY DEF AlertInv, DataInv, DataTypes, IntendedRow, SettingsAreEdits
<1>3. appData.settings \in 0..MaxEdits
  BY <1>2 DEF Contents
<1>4. appData.settings + 1 \in 0..MaxEdits /\ appData.settings + 1 # appData.settings
  BY <1>1, <1>2, <1>3, AlertBounds DEF Edit
<1>5. d \in Contents /\ d.rules = appData.rules /\ d.links = appData.links /\ d.settings = appData.settings + 1
  BY <1>2, <1>4 DEF Contents
<1> HIDE DEF d
<1>6. \A r \in RuleId : d.rules[r] = appData.rules[r]
  BY <1>5
<1>7. DataInv'
  BY <1>1, <1>2, <1>4, <1>5, <1>6, EditKeeps
<1>8. CounterTypes'
  BY <1>1, <1>2 DEF CounterTypes, RuleObject, RuleId
<1> QED BY <1>7, <1>8 DEF AlertInv

LEMMA LinkSteps ==
  ASSUME AlertInv, SaveLinks
  PROVE  AlertInv'
<1>1. /\ intended.links < MaxLinks /\ file' = [file EXCEPT !.links = intended.links + 1]
      /\ intended' = [intended EXCEPT !.links = intended.links + 1]
      /\ UNCHANGED <<appData, versions, breaches, recent, evaluating, exposed, overlapped, overwritten, dataEdits, samples>>
  BY DEF SaveLinks, ruleVars
<1>2. /\ CounterTypes /\ DataInv /\ intended \in IntendedRow /\ file \in Contents
  BY DEF AlertInv, DataInv, DataTypes
<1>3. intended.links \in 0..MaxLinks
  BY <1>2 DEF IntendedRow
<1>4. intended.links + 1 \in 0..MaxLinks
  BY <1>1, <1>3, AlertBounds
<1>5. /\ file' \in Contents /\ file'.rules = file.rules /\ file'.settings = file.settings
      /\ file'.links = intended.links + 1
  BY <1>1, <1>2, <1>4 DEF Contents
<1>6. /\ intended' \in IntendedRow /\ intended'.rules = intended.rules /\ intended'.settings = intended.settings
      /\ intended'.links = intended.links + 1
  BY <1>1, <1>2, <1>4 DEF IntendedRow
<1>7. DataTypes'
  BY <1>1, <1>2, <1>5, <1>6 DEF DataTypes, DataInv, Contents, IntendedRow, EvaluationRow, Idle
<1>8. SettingsAreEdits' /\ FileIsTheData' /\ LinksAreKept'
  BY <1>1, <1>2, <1>5, <1>6 DEF DataInv, SettingsAreEdits, FileIsTheData, LinksAreKept, Idle
<1>9. Present(appData)' = Present(appData)
  BY <1>1 DEF Present, RuleId
<1>10. EditsAreKept' /\ VersionsAreKept'
  BY <1>1, <1>2, <1>6, <1>9 DEF DataInv, EditsAreKept, VersionsAreKept, Unchanged, Idle, Present, RuleId
<1>11. CounterTypes'
  BY <1>1, <1>2 DEF CounterTypes, RuleObject, RuleId
<1> QED BY <1>7, <1>8, <1>10, <1>11 DEF AlertInv, DataInv

LEMMA ResetSteps ==
  ASSUME AlertInv, ResetData
  PROVE  AlertInv'
<1>1. /\ dataEdits < MaxEdits /\ dataEdits' = dataEdits + 1 /\ Save(Empty)
      /\ intended' = [rules |-> Empty.rules, settings |-> 0, links |-> 0, reset |-> TRUE] /\ exposed' = {}
      /\ evaluating' = [v \in Evaluation |-> Freeze(v)] /\ overlapped' = (overlapped \/ Busy # {})
      /\ UNCHANGED <<versions, breaches, recent, samples>>
  BY DEF ResetData, ruleVars
<1>2. CounterTypes /\ DataInv /\ dataEdits \in 0..MaxEdits
  BY DEF AlertInv, DataInv, DataTypes
<1>3. /\ appData' = Empty /\ file' = Empty /\ appData' \in Contents /\ file' \in Contents /\ overwritten' \in BOOLEAN
      /\ FileIsTheData'
  BY <1>1, <1>2, EmptyIsData, SaveKeeps
<1>4. dataEdits' \in 0..MaxEdits /\ 0 <= dataEdits'
  BY <1>1, <1>2, AlertBounds
<1>5. intended' \in IntendedRow /\ intended'.settings = 0 /\ intended'.links = 0 /\ intended'.rules = Empty.rules
  BY <1>1, ZeroIsWithin, EmptyIsData DEF IntendedRow, Contents
<1>6. overlapped' \in BOOLEAN /\ (~overlapped' => ~overlapped /\ \A w \in Evaluation : evaluating[w] = Idle)
  BY <1>1, BeginsAlone
<1>7. ASSUME NEW v \in Evaluation
      PROVE  /\ evaluating'[v] \in EvaluationRow \cup {Idle} /\ (evaluating'[v] # Idle <=> evaluating[v] # Idle)
             /\ evaluating'[v] # Idle => evaluating'[v].data.settings <= dataEdits'
  <2> DEFINE f == Freeze(v)
             n == f.data.settings
  <2>1. evaluating'[v] = f
    BY <1>1
  <2>2. /\ f \in EvaluationRow \cup {Idle} /\ (f # Idle <=> evaluating[v] # Idle)
        /\ f # Idle => n <= dataEdits
    BY <1>2, FreezeKeeps
  <2> HIDE DEF f
  <2>3. f # Idle => n \in 0..MaxEdits
    BY <2>2 DEF EvaluationRow, Contents
  <2> HIDE DEF n
  <2>4. f # Idle => n <= dataEdits'
    BY <1>1, <1>2, <2>2, <2>3, AlertBounds
  <2> QED BY <2>1, <2>2, <2>4 DEF n
<1>8. evaluating' \in [Evaluation -> EvaluationRow \cup {Idle}]
  BY <1>1, <1>7
<1>9. DataTypes'
  BY <1>1, <1>3, <1>4, <1>5, <1>6, <1>8 DEF DataTypes, Contents, IntendedRow, EvaluationRow, Idle
<1>10. SettingsAreEdits'
  BY <1>3, <1>4, <1>5, <1>7, EmptyIsData DEF SettingsAreEdits, Idle
<1>11. LinksAreKept'
  BY <1>3, <1>5, EmptyIsData DEF LinksAreKept
<1>12. Present(appData)' = Present(intended)'
  BY <1>3, <1>5 DEF Present, RuleId
<1>13. EditsAreKept' /\ VersionsAreKept'
  BY <1>3, <1>5, <1>6, <1>7, <1>12, EmptyIsData DEF EditsAreKept, VersionsAreKept, Idle
<1>14. CounterTypes'
  BY <1>1, <1>2 DEF CounterTypes, RuleObject, RuleId
<1> QED BY <1>3, <1>9, <1>10, <1>11, <1>13, <1>14 DEF AlertInv, DataInv

LEMMA RestartSteps ==
  ASSUME AlertInv, Restart
  PROVE  AlertInv'
<1>1. /\ appData' = file /\ evaluating' = [v \in Evaluation |-> Idle] /\ recent' \subseteq recent
      /\ UNCHANGED <<file, overwritten, versions, breaches, intended, exposed, overlapped, dataEdits, samples>>
  BY DEF Restart
<1>2. CounterTypes /\ DataInv
  BY DEF AlertInv
<1>3. DataTypes'
  BY <1>1, <1>2 DEF DataTypes, DataInv, Contents, IntendedRow, EvaluationRow, Idle
<1>4. SettingsAreEdits' /\ FileIsTheData' /\ LinksAreKept'
  BY <1>1, <1>2 DEF DataInv, SettingsAreEdits, FileIsTheData, LinksAreKept, Idle
<1>5. Present(appData)' = Present(appData) /\ Present(intended)' = Present(intended)
  BY <1>1, <1>2 DEF Present, RuleId, DataInv, FileIsTheData
<1>6. EditsAreKept' /\ VersionsAreKept'
  BY <1>1, <1>2, <1>5 DEF DataInv, EditsAreKept, VersionsAreKept, FileIsTheData, Idle, RuleId
<1>7. CounterTypes'
  BY <1>1, <1>2 DEF CounterTypes, RuleObject, RuleId
<1> QED BY <1>3, <1>4, <1>6, <1>7 DEF AlertInv, DataInv

LEMMA CooldownSteps ==
  ASSUME AlertInv, NEW o \in recent, CooldownEnds(o)
  PROVE  AlertInv'
<1>1. /\ samples < MaxSamples /\ recent' = recent \ {o} /\ samples' = samples + 1
      /\ UNCHANGED <<appData, file, overwritten, versions, breaches, evaluating, intended, exposed, overlapped, dataEdits>>
  BY DEF CooldownEnds
<1>2. CounterTypes /\ DataInv /\ samples \in 0..MaxSamples
  BY DEF AlertInv, CounterTypes
<1>3. samples' \in 0..MaxSamples
  BY <1>1, <1>2, AlertBounds
<1>4. CounterTypes'
  BY <1>1, <1>2, <1>3 DEF CounterTypes, RuleObject, RuleId
<1>5. DataInv'
  BY <1>1, <1>2 DEF DataInv, DataTypes, SettingsAreEdits, FileIsTheData, LinksAreKept, EditsAreKept,
                    VersionsAreKept, Unchanged, Present,
                    Contents, IntendedRow, EvaluationRow, Idle, RuleId
<1> QED BY <1>4, <1>5 DEF AlertInv

LEMMA InitAlerts == AlertRulesInit => AlertInv
<1> SUFFICES ASSUME AlertRulesInit PROVE AlertInv
  OBVIOUS
<1>1. /\ appData = [rules |-> [r \in RuleId |-> 1], settings |-> 0, links |-> 0] /\ file = appData
      /\ versions = [r \in RuleId |-> 1] /\ breaches = [o \in RuleObject |-> 0] /\ recent = {}
      /\ evaluating = [v \in Evaluation |-> Idle]
      /\ exposed = {} /\ intended = [rules |-> appData.rules, settings |-> 0, links |-> 0, reset |-> FALSE]
      /\ overlapped = FALSE /\ overwritten = FALSE /\ dataEdits = 0 /\ samples = 0
  BY DEF AlertRulesInit, RuleObject
<1>2. CounterTypes
  BY <1>1, ZeroIsWithin DEF CounterTypes
<1>3. appData \in Contents
  BY <1>1, ZeroIsWithin DEF Contents
<1>4. intended \in IntendedRow
  BY <1>1, <1>3, ZeroIsWithin DEF IntendedRow, Contents
<1>5. DataTypes
  BY <1>1, <1>3, <1>4, ZeroIsWithin DEF DataTypes
<1>6. SettingsAreEdits /\ FileIsTheData /\ LinksAreKept
  BY <1>1 DEF SettingsAreEdits, FileIsTheData, LinksAreKept
<1>7. Present(appData) = Present(intended)
  BY <1>1 DEF Present
<1>8. EditsAreKept /\ VersionsAreKept
  BY <1>1, <1>7 DEF EditsAreKept, VersionsAreKept
<1> QED BY <1>2, <1>5, <1>6, <1>8 DEF AlertInv, DataInv

LEMMA NextAlerts == AlertInv /\ [AlertRulesNext]_alertRuleVars => AlertInv'
<1> SUFFICES ASSUME AlertInv, [AlertRulesNext]_alertRuleVars PROVE AlertInv'
  OBVIOUS
<1>1. CASE UNCHANGED alertRuleVars
  <2>1. UNCHANGED <<appData, file, overwritten, versions, breaches, recent, evaluating, intended, exposed, overlapped,
                    dataEdits, samples>>
    BY <1>1 DEF alertRuleVars, ruleVars
  <2>2. CounterTypes'
    BY <2>1 DEF AlertInv, CounterTypes, RuleObject, RuleId
  <2>3. DataInv'
    BY <2>1 DEF AlertInv, DataInv, DataTypes, SettingsAreEdits, FileIsTheData, LinksAreKept, EditsAreKept,
                    VersionsAreKept, Unchanged, Present,
                Contents, IntendedRow, EvaluationRow, Idle, RuleId
  <2> QED BY <2>2, <2>3 DEF AlertInv
<1> QED
  BY <1>1, EvaluationSteps, CooldownSteps, RuleEdits, SettingsSteps, LinkSteps, ResetSteps, RestartSteps DEF AlertRulesNext

LEMMA AlertsImply == AlertInv => AlertRulesTypeOK /\ EditsSurviveDispatch
<1> SUFFICES ASSUME AlertInv PROVE AlertRulesTypeOK /\ EditsSurviveDispatch
  OBVIOUS
<1>1. \A v \in Busy : evaluating[v].data \in Contents /\ evaluating[v].held \in [RuleId -> 0..MaxVersions]
  <2> SUFFICES ASSUME NEW v \in Busy
               PROVE  evaluating[v].data \in Contents /\ evaluating[v].held \in [RuleId -> 0..MaxVersions]
    OBVIOUS
  <2>1. evaluating[v] \in EvaluationRow
    BY DEF Busy, AlertInv, DataInv, DataTypes
  <2> QED BY <2>1 DEF EvaluationRow
<1>2. AlertRulesTypeOK
  BY <1>1 DEF AlertRulesTypeOK, AlertInv, CounterTypes, DataInv, DataTypes, RuleObject
<1>3. EditsSurviveDispatch
  BY DEF EditsSurviveDispatch, AlertInv, DataInv, FileIsTheData, LinksAreKept, EditsAreKept,
         VersionsAreKept, DataTypes, Present
<1> QED BY <1>2, <1>3

\* Unless an evaluation met another one or a reset: an evaluation that waits for its
\* messages to be sent loses no setting, brings back no rule and drops none, and undoes
\* the edit of no rule but one that it held when it was edited; and the file holds what
\* the application does. For any rules, samples and edits (alert-engine.ts:86-91, 155-
\* 156, 190-196, store.ts:66-72).
THEOREM EditsStay == AlertRulesSpec => [](AlertRulesTypeOK /\ EditsSurviveDispatch)
<1>1. AlertRulesSpec => []AlertInv
  BY InitAlerts, NextAlerts, PTL DEF AlertRulesSpec
<1> QED BY <1>1, AlertsImply, PTL

-----------------------------------------------------------------------------
(* Readings. Of two readings in play, the one made later has a counter     *)
(* that started no earlier, so what was told is bounded by the traffic     *)
(* there was.                                                              *)

PollRow == [pods : {"asked", "listed", "gone"}, network : {"asked", "read", "none"}, reading : Reading]

\* A reading that was made, and the traffic there had been when its counter started.
Made == [counter : 0..MaxTraffic, traffic : 0..MaxTraffic, outages : 0..MaxOutages]
StartOf(r) == r.traffic - r.counter
InPlay == {r \in Made : r = newest \/ \E p \in polls : p.network = "read" /\ r = p.reading}

\* r was made no later than some time.
MadeBy(r, start, times, moved) ==
    /\ r.outages <= times /\ r.traffic <= moved
    /\ r.outages = times => StartOf(r) = start
    /\ StartOf(r) <= start

\* Of two readings, one started no later than the other.
InOrder(r, q) ==
    /\ r.outages = q.outages => StartOf(r) = StartOf(q)
    /\ r.outages < q.outages => StartOf(r) <= StartOf(q)

ReadingsAreMade ==
    /\ \A p \in polls : p.network = "read" => p.reading \in Made
    /\ newest \in Made \cup {NoReading} /\ previous \in Made \cup {NoReading}

ReadingsInOrder ==
    ~blank => \A r \in InPlay : MadeBy(r, startedAt, outages, traffic) /\ \A q \in InPlay : InOrder(r, q)

AccountsAreKept ==
    ~overtaken => /\ previous \in {NoReading, newest}
                  /\ ~blank => /\ untold = 0 \/ (newest # NoReading /\ untold <= newest.traffic)
                               /\ outages = 0 => untold = 0

ReadingsInv == ReadingsTypeOK /\ ReadingsAreMade /\ ReadingsInOrder /\ AccountsAreKept

SourceTypes ==
    /\ meter \in {"interface", "pod"} /\ present \in BOOLEAN
    /\ traffic \in 0..MaxTraffic /\ startedAt \in 0..traffic /\ outages \in 0..MaxOutages

LEMMA Bounds == MaxTraffic \in Nat /\ MaxOutages \in Nat
BY ReadingsAssumption

LEMMA ReadingTypes ==
  ASSUME ReadingsInv
  PROVE  /\ SourceTypes /\ polls \in SUBSET PollRow /\ previous \in Reading /\ newest \in Reading
         /\ untold \in 0..MaxTraffic /\ overtaken \in BOOLEAN /\ blank \in BOOLEAN
BY DEF ReadingsInv, ReadingsTypeOK, SourceTypes, PollRow

LEMMA MadeIsAReading == Made \subseteq Reading /\ NoReading \in Reading /\ NoReading \notin Made
<1>1. 0..MaxTraffic \subseteq -1..MaxTraffic /\ -1 \in -1..MaxTraffic /\ 0 \in 0..MaxOutages /\ -1 \notin 0..MaxTraffic
  BY Bounds
<1>2. Made \subseteq Reading
  BY <1>1 DEF Made, Reading
<1>3. NoReading \in Reading /\ NoReading \notin Made
  BY <1>1 DEF Made, Reading, NoReading
<1> QED BY <1>2, <1>3

\* A reading made now comes last.
LEMMA NewestReading ==
  ASSUME ReadingsInv
  PROVE  /\ Now(traffic - startedAt) \in Made
         /\ MadeBy(Now(traffic - startedAt), startedAt, outages, traffic)
         /\ Now(0) \in Made
<1>1. traffic \in 0..MaxTraffic /\ startedAt \in 0..traffic /\ outages \in 0..MaxOutages
  BY ReadingTypes DEF SourceTypes
<1>2. traffic - startedAt \in 0..MaxTraffic /\ 0 \in 0..MaxTraffic
  BY <1>1, Bounds
<1>3. Now(traffic - startedAt) \in Made /\ Now(0) \in Made
  BY <1>1, <1>2 DEF Now, Made
<1>4. Now(traffic - startedAt).outages = outages /\ Now(traffic - startedAt).traffic = traffic
      /\ Now(traffic - startedAt).counter = traffic - startedAt
  BY DEF Now
<1>5. StartOf(Now(traffic - startedAt)) = startedAt
  BY <1>1, <1>4, Bounds DEF StartOf
<1>6. MadeBy(Now(traffic - startedAt), startedAt, outages, traffic)
  BY <1>1, <1>4, <1>5, Bounds DEF MadeBy
<1> QED BY <1>3, <1>6

LEMMA MadeNumbers ==
  ASSUME NEW r \in Made
  PROVE  /\ r.counter \in Int /\ r.traffic \in Int /\ r.outages \in Int /\ StartOf(r) \in Int
         /\ r.counter >= 0 /\ r.traffic >= 0 /\ r.outages >= 0 /\ r.traffic <= MaxTraffic
<1>1. r.counter \in 0..MaxTraffic /\ r.traffic \in 0..MaxTraffic /\ r.outages \in 0..MaxOutages
  BY DEF Made
<1> QED BY <1>1, Bounds DEF StartOf

\* Readings stay in order when none is added but one made now.
LEMMA OrderKeeps ==
  ASSUME ReadingsInv, UNCHANGED <<traffic, startedAt, outages>>,
         ~blank' => ~blank /\ InPlay' \subseteq InPlay \cup {Now(traffic - startedAt)}
  PROVE  ReadingsInOrder'
<1> SUFFICES ASSUME ~blank'
             PROVE  \A r \in InPlay' : MadeBy(r, startedAt, outages, traffic) /\ \A q \in InPlay' : InOrder(r, q)
  BY DEF ReadingsInOrder
<1> DEFINE n == Now(traffic - startedAt)
<1>1. n \in Made /\ MadeBy(n, startedAt, outages, traffic)
  BY NewestReading
<1>2. n.outages = outages /\ StartOf(n) = startedAt
  <2>1. n.outages = outages
    BY DEF Now
  <2> QED BY <1>1, <2>1 DEF MadeBy
<1> HIDE DEF n
<1>3. \A r \in InPlay \cup {n} : r \in Made /\ MadeBy(r, startedAt, outages, traffic)
  BY <1>1 DEF ReadingsInv, ReadingsInOrder, InPlay
<1>4. \A r, q \in InPlay : InOrder(r, q)
  BY DEF ReadingsInv, ReadingsInOrder
<1>5. startedAt \in Int /\ outages \in Int
  BY ReadingTypes, Bounds DEF SourceTypes
<1>6. ASSUME NEW r \in InPlay \cup {n} PROVE InOrder(r, n) /\ InOrder(n, r)
  BY <1>2, <1>3, <1>5, <1>6, MadeNumbers DEF InOrder, MadeBy
<1> QED BY <1>3, <1>4, <1>6 DEF n

\* The server's traffic moves on, or the counter starts over.
LEMMA SourceSteps ==
  ASSUME ReadingsInv, Moves \/ Restarts
  PROVE  ReadingsInv'
<1>1. UNCHANGED <<meter, polls, previous, untold, newest, overtaken, blank>>
  BY DEF Moves, Restarts
<1>2. /\ traffic \in 0..MaxTraffic /\ startedAt \in 0..traffic /\ outages \in 0..MaxOutages
  BY ReadingTypes DEF SourceTypes
<1>3. /\ traffic' \in 0..MaxTraffic /\ startedAt' \in 0..traffic' /\ outages' \in 0..MaxOutages
      /\ traffic <= traffic' /\ startedAt <= startedAt' /\ outages <= outages'
      /\ outages' = outages => startedAt' = startedAt
  <2>1. CASE Moves
    <3>1. traffic < MaxTraffic /\ traffic' = traffic + 1 /\ UNCHANGED <<startedAt, outages>>
      BY <2>1 DEF Moves
    <3> QED BY <1>2, <3>1, Bounds
  <2>2. CASE Restarts
    <3>1. outages < MaxOutages /\ outages' = outages + 1 /\ startedAt' = traffic /\ traffic' = traffic
      BY <2>2 DEF Restarts
    <3> QED BY <1>2, <3>1, Bounds
  <2> QED BY <2>1, <2>2
<1>4. present' \in BOOLEAN
  BY ReadingTypes DEF Moves, Restarts, SourceTypes
<1>5. ReadingsTypeOK'
  BY <1>1, <1>3, <1>4 DEF ReadingsInv, ReadingsTypeOK, Reading
<1>6. ReadingsAreMade'
  BY <1>1 DEF ReadingsInv, ReadingsAreMade, Made
<1>7. InPlay' = InPlay
  BY <1>1 DEF InPlay, Made
<1>8. ASSUME NEW r \in InPlay, MadeBy(r, startedAt, outages, traffic) PROVE MadeBy(r, startedAt', outages', traffic')
  <2>1. r \in Made
    BY DEF InPlay
  <2> QED BY <1>2, <1>3, <1>8, <2>1, Bounds, MadeNumbers DEF MadeBy
<1>9. ReadingsInOrder'
  BY <1>1, <1>7, <1>8 DEF ReadingsInv, ReadingsInOrder, InOrder, StartOf
<1>10. outages' = 0 => outages = 0
  BY <1>2, <1>3, Bounds
<1>11. AccountsAreKept'
  BY <1>1, <1>10 DEF ReadingsInv, AccountsAreKept
<1> QED BY <1>5, <1>6, <1>9, <1>11 DEF ReadingsInv

\* A poll begins or goes on; nothing is kept yet.
LEMMA PollKeeps ==
  ASSUME ReadingsInv, UNCHANGED <<sourceVars, previous, untold, newest, overtaken>>, blank' \in BOOLEAN,
         blank => blank', polls' \in SUBSET PollRow,
         \A p \in polls' : p.network = "read" => p.reading \in Made,
         ~blank' => \A p \in polls' : p.network = "read" => p \in polls \/ p.reading = Now(traffic - startedAt)
                                         \/ \E q \in polls : q.network = "read" /\ q.reading = p.reading
  PROVE  ReadingsInv'
<1>1. UNCHANGED <<meter, present, traffic, startedAt, outages>>
  BY DEF sourceVars
<1>2. ReadingsTypeOK'
  BY <1>1 DEF ReadingsInv, ReadingsTypeOK, PollRow, Reading
<1>3. ReadingsAreMade'
  BY DEF ReadingsInv, ReadingsAreMade, Made
<1>4. ~blank' => InPlay' \subseteq InPlay \cup {Now(traffic - startedAt)}
  BY DEF InPlay, Made
<1>5. ReadingsInOrder'
  BY <1>1, <1>4, OrderKeeps
<1>6. AccountsAreKept'
  BY <1>1 DEF ReadingsInv, AccountsAreKept
<1> QED BY <1>2, <1>3, <1>5, <1>6 DEF ReadingsInv

LEMMA PollSteps ==
  ASSUME ReadingsInv, PollStarts \/ \E p \in polls : ListPods(p) \/ ReadCounters(p) \/ ReadNothing(p) \/ PollFails(p)
  PROVE  ReadingsInv'
<1>1. polls \in SUBSET PollRow /\ blank \in BOOLEAN
  BY ReadingTypes
<1>2. \A p \in polls : p.network = "read" => p.reading \in Made
  BY DEF ReadingsInv, ReadingsAreMade
<1>3. CASE PollStarts
  <2>1. Asked \in PollRow /\ Asked.network # "read"
    BY MadeIsAReading DEF Asked, PollRow
  <2>2. polls' = polls \cup {Asked} /\ UNCHANGED <<sourceVars, previous, untold, newest, overtaken, blank>>
    BY <1>3 DEF PollStarts
  <2> QED BY <1>1, <1>2, <2>1, <2>2, PollKeeps
<1>4. ASSUME NEW p \in polls, PollFails(p) PROVE ReadingsInv'
  <2>1. polls' = polls \ {p} /\ UNCHANGED <<sourceVars, previous, untold, newest, overtaken, blank>>
    BY <1>4 DEF PollFails
  <2> QED BY <1>1, <1>2, <2>1, PollKeeps
<1>5. ASSUME NEW p \in polls, ListPods(p) PROVE ReadingsInv'
  <2> DEFINE answer == IF present THEN "listed" ELSE "gone"
             q == [p EXCEPT !.pods = answer]
  <2>1. polls' = (polls \ {p}) \cup {q} /\ UNCHANGED <<sourceVars, previous, untold, newest, overtaken, blank>>
    BY <1>5 DEF ListPods, Becomes
  <2>2. answer \in {"asked", "listed", "gone"}
    OBVIOUS
  <2>3. p \in PollRow
    BY <1>1
  <2> HIDE DEF answer
  <2>4. q \in PollRow /\ q.network = p.network /\ q.reading = p.reading
    BY <2>2, <2>3 DEF PollRow
  <2> HIDE DEF q
  <2> QED BY <1>1, <1>2, <2>1, <2>4, PollKeeps
<1>6. ASSUME NEW p \in polls, ReadCounters(p) \/ ReadNothing(p) PROVE ReadingsInv'
  <2> DEFINE none == [p EXCEPT !.network = "none"]
             read == [p EXCEPT !.network = "read", !.reading = Now(traffic - startedAt)]
             blanks == [p EXCEPT !.network = "read", !.reading = Now(0)]
  <2>1. /\ \/ polls' = (polls \ {p}) \cup {none} /\ blank' = blank
           \/ polls' = (polls \ {p}) \cup {read} /\ blank' = blank
           \/ polls' = (polls \ {p}) \cup {blanks} /\ blank' = TRUE
        /\ UNCHANGED <<sourceVars, previous, untold, newest, overtaken>>
    <3>1. CASE ReadCounters(p)
      <4>1. polls' = (polls \ {p}) \cup {IF present THEN read ELSE none}
        BY <3>1 DEF ReadCounters, Becomes
      <4> QED BY <3>1, <4>1 DEF ReadCounters
    <3>2. CASE ReadNothing(p)
      BY <3>2 DEF ReadNothing, Becomes
    <3> QED BY <1>6, <3>1, <3>2
  <2>2. p \in PollRow
    BY <1>1
  <2>3. none \in PollRow /\ none.network = "none"
    BY <2>2 DEF PollRow
  <2>4. Now(traffic - startedAt) \in Made /\ Now(0) \in Made /\ Made \subseteq Reading
    BY NewestReading, MadeIsAReading
  <2>5. read \in PollRow /\ read.network = "read" /\ read.reading = Now(traffic - startedAt)
    BY <2>2, <2>4 DEF PollRow
  <2>6. blanks \in PollRow /\ blanks.network = "read" /\ blanks.reading = Now(0)
    BY <2>2, <2>4 DEF PollRow
  <2> HIDE DEF none, read, blanks
  <2>7. CASE polls' = (polls \ {p}) \cup {none} /\ blank' = blank
    BY <1>1, <1>2, <2>1, <2>3, <2>7, PollKeeps
  <2>8. CASE polls' = (polls \ {p}) \cup {read} /\ blank' = blank
    BY <1>1, <1>2, <2>1, <2>4, <2>5, <2>8, PollKeeps
  <2>9. CASE polls' = (polls \ {p}) \cup {blanks} /\ blank' = TRUE
    BY <1>1, <1>2, <2>1, <2>4, <2>6, <2>9, PollKeeps
  <2> QED BY <2>1, <2>7, <2>8, <2>9
<1> QED BY <1>3, <1>4, <1>5, <1>6

\* What is told of the traffic between two readings is at most that traffic, and
\* all of it if the counter has not started over.
LEMMA ToldOfTwo ==
  ASSUME NEW r \in Made, NEW q \in Made, InOrder(q, r), ~Older(r, q),
         NEW told, told = IF r.counter < q.counter THEN 0 ELSE r.counter - q.counter
  PROVE  /\ told \in Int /\ told <= r.traffic - q.traffic /\ q.traffic <= r.traffic /\ told >= 0
         /\ r.outages = q.outages => told = r.traffic - q.traffic
<1> DEFINE c == r.counter
           d == q.counter
           t == r.traffic
           u == q.traffic
           o == r.outages
           v == q.outages
<1>1. c \in Int /\ d \in Int /\ t \in Int /\ u \in Int /\ o \in Int /\ v \in Int
  BY MadeNumbers
<1>2. t >= u /\ o >= v
  <2>1. ~(t < u) /\ ~(o < v)
    BY DEF Older
  <2> HIDE DEF t, u, o, v
  <2> QED BY <1>1, <2>1
<1>3. (v = o => u - d = t - c) /\ (v < o => u - d <= t - c)
  BY DEF InOrder, StartOf
<1>4. told = IF c < d THEN 0 ELSE c - d
  OBVIOUS
<1> HIDE DEF c, d, t, u, o, v
<1>5. /\ told \in Int /\ told <= t - u /\ u <= t /\ told >= 0
      /\ o = v => told = t - u
  BY <1>1, <1>2, <1>3, <1>4
<1> QED BY <1>5 DEF c, d, t, u, o, v

LEMMA PollEndSteps ==
  ASSUME ReadingsInv, NEW p \in polls, PollEnds(p)
  PROVE  ReadingsInv'
<1>1. /\ polls' = polls \ {p} /\ previous' = Keeps(p) /\ UNCHANGED <<meter, present, traffic, startedAt, outages, blank>>
  BY DEF PollEnds, sourceVars
<1>2. /\ p \in PollRow /\ polls' \in SUBSET PollRow /\ previous \in Reading /\ newest \in Reading
      /\ untold \in 0..MaxTraffic /\ overtaken \in BOOLEAN /\ blank \in BOOLEAN /\ SourceTypes
  BY <1>1, ReadingTypes
<1>3. ReadingsAreMade
  BY DEF ReadingsInv
<1>4. CASE ~(p.network = "read" /\ p.pods # "gone")
  <2>1. UNCHANGED <<untold, newest, overtaken>> /\ previous' \in {previous, NoReading}
    BY <1>1, <1>4 DEF PollEnds, Keeps
  <2>2. ReadingsTypeOK'
    BY <1>1, <1>2, <2>1, MadeIsAReading DEF ReadingsTypeOK, SourceTypes, PollRow, Reading
  <2>3. ReadingsAreMade'
    BY <1>1, <1>3, <2>1 DEF ReadingsAreMade, Made, NoReading
  <2>4. InPlay' \subseteq InPlay
    BY <1>1, <2>1 DEF InPlay, Made
  <2>5. ReadingsInOrder'
    BY <1>1, <2>4, OrderKeeps
  <2>6. AccountsAreKept'
    BY <1>1, <2>1 DEF ReadingsInv, AccountsAreKept, NoReading
  <2> QED BY <2>2, <2>3, <2>5, <2>6 DEF ReadingsInv
<1>5. CASE p.network = "read" /\ p.pods # "gone"
  <2> DEFINE r == p.reading
             told == Since(p)
  <2>1. /\ previous' = r /\ overtaken' = (overtaken \/ Older(r, newest))
        /\ newest' = IF overtaken' THEN NoReading ELSE r
        /\ untold' = IF overtaken' \/ blank THEN 0
                     ELSE untold + (IF previous = NoReading THEN 0 ELSE r.traffic - previous.traffic) - told
    BY <1>1, <1>5 DEF PollEnds, Keeps, Report
  <2>2. r \in Made /\ r \in InPlay
    BY <1>3, <1>5 DEF ReadingsAreMade, InPlay
  <2>3. told = IF previous = NoReading \/ r.counter < previous.counter THEN 0 ELSE r.counter - previous.counter
    BY DEF Since
  <2> HIDE DEF r, told
  <2>4. overtaken' \in BOOLEAN
    BY <1>2, <2>1
  <2>5. ReadingsAreMade'
    BY <1>1, <1>3, <2>1, <2>2 DEF ReadingsAreMade, Made, NoReading
  <2>6. InPlay' \subseteq InPlay
    <3>1. newest' = NoReading \/ newest' = r
      BY <2>1
    <3>2. NoReading \notin Made
      BY MadeIsAReading
    <3> QED BY <1>1, <2>2, <3>1, <3>2 DEF InPlay, Made
  <2>7. ReadingsInOrder'
    BY <1>1, <2>6, OrderKeeps
  <2>8. r.traffic \in 0..MaxTraffic
    BY <2>2 DEF Made
  <2>9. untold' \in 0..MaxTraffic /\ AccountsAreKept'
    <3>1. CASE overtaken' \/ blank
      <4>1. untold' = 0
        BY <2>1, <3>1
      <4>2. AccountsAreKept'
        BY <1>1, <2>1, <3>1, <4>1 DEF AccountsAreKept
      <4> QED BY <4>1, <4>2, Bounds
    <3>2. CASE ~overtaken' /\ ~blank
      <4>1. ~overtaken /\ ~Older(r, newest) /\ newest' = r
        BY <2>1, <3>2
      <4>2. /\ previous = NoReading \/ previous = newest
            /\ untold = 0 \/ (newest # NoReading /\ untold <= newest.traffic)
            /\ outages = 0 => untold = 0
        BY <3>2, <4>1 DEF ReadingsInv, AccountsAreKept
      <4>3. untold \in 0..MaxTraffic /\ r \in Made /\ r # NoReading
        BY <1>2, <2>2, MadeIsAReading
      <4>4. newest # NoReading => newest \in Made /\ newest.traffic <= r.traffic
        <5> SUFFICES ASSUME newest # NoReading PROVE newest \in Made /\ newest.traffic <= r.traffic
          OBVIOUS
        <5>1. newest \in Made
          BY <1>3 DEF ReadingsAreMade
        <5>2. ~(r.traffic < newest.traffic)
          BY <4>1 DEF Older
        <5> QED BY <2>2, <5>1, <5>2, MadeNumbers
      <4>5. CASE previous = NoReading
        <5>1. told = 0
          BY <2>3, <4>5
        <5>2. untold' = untold + 0 - 0
          BY <2>1, <3>2, <4>5, <5>1
        <5>3. untold' = untold
          BY <4>3, <5>2, Bounds
        <5>4. untold = 0 \/ untold <= r.traffic
          BY <4>2, <4>3, <4>4, <2>2, Bounds, MadeNumbers
        <5> QED BY <1>1, <2>1, <4>1, <4>2, <4>3, <5>3, <5>4 DEF AccountsAreKept
      <4>6. CASE previous # NoReading
        <5>1. previous = newest /\ previous \in Made
          BY <4>2, <4>4, <4>6
        <5>2. newest \in InPlay
          BY <5>1 DEF InPlay
        <5>3. InOrder(newest, r) /\ r.outages <= outages /\ newest.outages <= outages
          BY <2>2, <3>2, <5>2 DEF ReadingsInv, ReadingsInOrder, MadeBy
        <5>4. told = IF r.counter < newest.counter THEN 0 ELSE r.counter - newest.counter
          BY <2>3, <4>6, <5>1
        <5>5. /\ told \in Int /\ told <= r.traffic - newest.traffic /\ newest.traffic <= r.traffic /\ told >= 0
              /\ r.outages = newest.outages => told = r.traffic - newest.traffic
          BY <2>2, <4>1, <5>1, <5>3, <5>4, ToldOfTwo
        <5>6. untold' = untold + (r.traffic - newest.traffic) - told
          BY <2>1, <3>2, <4>6, <5>1
        <5>7. /\ untold' \in Int /\ untold' >= untold /\ untold' <= r.traffic
          BY <2>2, <4>2, <4>3, <5>1, <5>5, <5>6, MadeNumbers, Bounds
        <5>8. outages = 0 => untold' = 0
          <6> SUFFICES ASSUME outages = 0 PROVE untold' = 0
            OBVIOUS
          <6>1. r.outages = newest.outages
            BY <2>2, <5>1, <5>3, MadeNumbers
          <6> QED BY <2>2, <4>2, <5>1, <5>5, <5>6, <6>1, MadeNumbers
        <5>9. untold' \in 0..MaxTraffic
          BY <2>8, <4>3, <5>7, Bounds
        <5> QED BY <1>1, <2>1, <4>1, <4>3, <5>7, <5>8, <5>9 DEF AccountsAreKept
      <4> QED BY <4>5, <4>6
    <3> QED BY <1>2, <2>4, <3>1, <3>2
  <2>10. newest' \in Reading /\ previous' \in Reading
    BY <2>1, <2>2, MadeIsAReading
  <2>11. ReadingsTypeOK'
    BY <1>1, <1>2, <2>4, <2>9, <2>10 DEF ReadingsTypeOK, SourceTypes, PollRow, Reading
  <2> QED BY <2>5, <2>7, <2>9, <2>11 DEF ReadingsInv
<1> QED BY <1>4, <1>5

LEMMA StopSteps ==
  ASSUME ReadingsInv, StopReading
  PROVE  ReadingsInv'
<1>1. previous' = NoReading /\ UNCHANGED <<meter, present, traffic, startedAt, outages, polls, untold, newest, overtaken, blank>>
  BY DEF StopReading, sourceVars
<1>2. ReadingsTypeOK'
  BY <1>1, MadeIsAReading DEF ReadingsInv, ReadingsTypeOK, Reading
<1>3. ReadingsAreMade'
  BY <1>1 DEF ReadingsInv, ReadingsAreMade, Made, NoReading
<1>4. InPlay' = InPlay
  BY <1>1 DEF InPlay, Made
<1>5. ReadingsInOrder'
  BY <1>1, <1>4, OrderKeeps
<1>6. AccountsAreKept'
  BY <1>1 DEF ReadingsInv, AccountsAreKept, NoReading
<1> QED BY <1>2, <1>3, <1>5, <1>6 DEF ReadingsInv

LEMMA InitReadings == ReadingsInit => ReadingsInv
<1> SUFFICES ASSUME ReadingsInit PROVE ReadingsInv
  OBVIOUS
<1>1. /\ meter \in {"interface", "pod"} /\ present = TRUE /\ traffic = 0 /\ startedAt = 0 /\ outages = 0 /\ polls = {}
      /\ previous = NoReading /\ untold = 0 /\ newest = NoReading /\ overtaken = FALSE /\ blank = FALSE
  BY DEF ReadingsInit
<1>2. 0 \in 0..MaxTraffic /\ 0 \in 0..MaxOutages /\ 0 \in 0..0
  BY Bounds
<1>3. ReadingsTypeOK
  BY <1>1, <1>2, MadeIsAReading DEF ReadingsTypeOK
<1>4. ReadingsAreMade /\ AccountsAreKept
  BY <1>1 DEF ReadingsAreMade, AccountsAreKept
<1>5. InPlay = {}
  BY <1>1, MadeIsAReading DEF InPlay
<1>6. ReadingsInOrder
  BY <1>5 DEF ReadingsInOrder
<1> QED BY <1>3, <1>4, <1>6 DEF ReadingsInv

LEMMA NextReadings == ReadingsInv /\ [ReadingsNext]_readingVars => ReadingsInv'
<1> SUFFICES ASSUME ReadingsInv, [ReadingsNext]_readingVars PROVE ReadingsInv'
  OBVIOUS
<1>1. CASE UNCHANGED readingVars
  BY <1>1, PollKeeps, ReadingTypes DEF readingVars, ReadingsInv, ReadingsAreMade
<1> QED
  BY <1>1, SourceSteps, PollSteps, PollEndSteps, StopSteps DEF ReadingsNext

LEMMA ReadingsImply == ReadingsInv => ReadingsTypeOK /\ ReadingsAddUp
<1> SUFFICES ASSUME ReadingsInv PROVE ReadingsTypeOK /\ ReadingsAddUp
  OBVIOUS
<1>1. untold >= 0
  BY ReadingTypes, Bounds
<1> QED BY <1>1 DEF ReadingsInv, AccountsAreKept, ReadingsAddUp

\* No traffic is reported twice, and none between two readings is missed unless the
\* counter started over, across reboots, readings that fail and monitors stopped in
\* between, but for polls that overtake each other and pods listed without counters
\* (network-monitor.ts, kubernetes-monitor.ts).
THEOREM ReadingsStayExact == ReadingsSpec => [](ReadingsTypeOK /\ ReadingsAddUp)
<1>1. ReadingsSpec => []ReadingsInv
  BY InitReadings, NextReadings, PTL DEF ReadingsSpec
<1> QED BY <1>1, ReadingsImply, PTL

-----------------------------------------------------------------------------
(* Monitors over the connection. The connection's own invariant says when  *)
(* it has a status to report; an interval that a monitor holds was set by  *)
(* a start, and the system monitor's start follows every connect.          *)

ShownStatus == [status : Status \cup {"disconnected"}, late : BOOLEAN]

WindowTypes == known \in BOOLEAN /\ shownStatus \in ShownStatus

AlertTypes ==
    /\ armed \subseteq Rule /\ enabled \subseteq Rule /\ cooling \subseteq Rule
    /\ watching \subseteq Rule /\ checked \subseteq Rule /\ silenced \subseteq Rule

IntervalTypes ==
    /\ interval \in [Monitor -> Nat] /\ held \subseteq Monitor /\ delayed \in [{"docker", "kubernetes"} -> Nat]
    /\ starts \in 0..MaxStarts /\ hasty \in Nat /\ outrun \in BOOLEAN

\* The system and docker monitors have the interval their timers maps hold, and the
\* kubernetes monitor some that it lost.
IntervalsAreHeld ==
    /\ interval["system"] = Count("system" \in held) /\ interval["docker"] = Count("docker" \in held)
    /\ interval["kubernetes"] >= Count("kubernetes" \in held)

\* Every interval and every delayed start comes from a start.
StartsAreCounted ==
    /\ interval["kubernetes"] + delayed["kubernetes"] <= starts /\ delayed["docker"] <= starts
    /\ held # {} => starts # 0
    /\ hasty <= starts

\* The kubernetes monitor loses an interval only to a start that came while another
\* was delayed: of the intervals and the delayed starts one is in order.
LostToHaste ==
    /\ interval["kubernetes"] + delayed["kubernetes"] <= hasty + 1
    /\ interval["kubernetes"] - Count("kubernetes" \in held) <= hasty

MonitorsKept == IntervalTypes /\ IntervalsAreHeld /\ StartsAreCounted /\ LostToHaste

\* Nothing runs and nothing is to come.
AllStopped == held = {} /\ delayed["docker"] = 0 /\ delayed["kubernetes"] = 0

\* A connected server is polled, one nobody wants is not.
PolledWhileWanted ==
    /\ CurrentStatus = "connected" /\ known => "system" \in held
    /\ ~wanted => "system" \notin held
    /\ ~wanted /\ ~outrun => AllStopped

MonitorsInv ==
    /\ TypeOK /\ ConnectionInv
    /\ WindowTypes /\ AlertTypes /\ MonitorsKept /\ PolledWhileWanted /\ StatusShownIsReal

LEMMA MonitorNames ==
  /\ "system" \in Monitor /\ "docker" \in Monitor /\ "kubernetes" \in Monitor
  /\ \A m \in Monitor : m = "system" \/ m = "docker" \/ m = "kubernetes"
  /\ MaxStarts \in Nat
BY MonitorAssumption DEF Monitor

\* Stopping monitors clears what their timers maps hold.
LEMMA StoppedIntervals ==
  ASSUME IntervalTypes, IntervalsAreHeld, NEW ms \in SUBSET Monitor
  PROVE  /\ AfterStop(ms) \in [Monitor -> Nat]
         /\ \A m \in Monitor : AfterStop(ms)[m] = IF m \in ms \cap held THEN interval[m] - 1 ELSE interval[m]
         /\ \A m \in held : interval[m] >= 1
<1>1. \A m \in Monitor : interval[m] \in Nat
  BY DEF IntervalTypes
<1>2. \A m \in held : interval[m] >= 1
  BY <1>1, MonitorNames DEF IntervalTypes, IntervalsAreHeld, Count
<1>3. ASSUME NEW m \in Monitor
      PROVE  interval[m] - Count(m \in ms \cap held) = IF m \in ms \cap held THEN interval[m] - 1 ELSE interval[m]
  BY <1>1 DEF Count
<1>4. ASSUME NEW m \in Monitor PROVE interval[m] - Count(m \in ms \cap held) \in Nat
  BY <1>1, <1>2 DEF Count
<1> QED BY <1>2, <1>3, <1>4 DEF AfterStop

LEMMA StartKeeps ==
  ASSUME MonitorsKept, StartMonitors
  PROVE  MonitorsKept' /\ "system" \in held' /\ outrun' = outrun
<1> DEFINE stopped == AfterStop({"system", "kubernetes"})
<1> USE DEF MonitorsKept
<1>1. /\ starts < MaxStarts /\ starts' = starts + 1 /\ held' = (held \ {"kubernetes"}) \cup {"system"}
      /\ interval' = [stopped EXCEPT !["system"] = stopped["system"] + 1]
      /\ delayed' = [m \in DOMAIN delayed |-> delayed[m] + 1]
      /\ hasty' = hasty + Count(delayed["kubernetes"] > 0) /\ outrun' = outrun
  BY DEF StartMonitors
<1>2. /\ stopped \in [Monitor -> Nat]
      /\ stopped["system"] = IF "system" \in held THEN interval["system"] - 1 ELSE interval["system"]
      /\ stopped["kubernetes"] = IF "kubernetes" \in held THEN interval["kubernetes"] - 1 ELSE interval["kubernetes"]
      /\ stopped["docker"] = interval["docker"]
  BY StoppedIntervals, MonitorNames
<1> HIDE DEF stopped
<1>3. /\ interval' \in [Monitor -> Nat] /\ interval'["system"] = stopped["system"] + 1
      /\ interval'["docker"] = stopped["docker"] /\ interval'["kubernetes"] = stopped["kubernetes"]
  BY <1>1, <1>2, MonitorNames
<1>4. held' \subseteq Monitor /\ "system" \in held' /\ "kubernetes" \notin held' /\ ("docker" \in held' <=> "docker" \in held)
  BY <1>1, MonitorNames DEF IntervalTypes
<1>5. \A m \in Monitor : interval[m] \in Nat
  BY DEF IntervalTypes
<1>6. IntervalsAreHeld'
  BY <1>2, <1>3, <1>4, <1>5, MonitorNames DEF IntervalsAreHeld, Count
<1>7. /\ delayed' \in [{"docker", "kubernetes"} -> Nat] /\ delayed'["docker"] = delayed["docker"] + 1
      /\ delayed'["kubernetes"] = delayed["kubernetes"] + 1 /\ delayed["docker"] \in Nat /\ delayed["kubernetes"] \in Nat
  BY <1>1 DEF IntervalTypes
<1>8. starts' \in 0..MaxStarts /\ starts \in Nat
  BY <1>1, MonitorNames DEF IntervalTypes
<1>9. stopped["kubernetes"] = interval["kubernetes"] - Count("kubernetes" \in held) /\ stopped["kubernetes"] \in Nat
  BY <1>2, <1>5, MonitorNames DEF Count
<1>10. hasty \in Nat /\ hasty' = IF delayed["kubernetes"] > 0 THEN hasty + 1 ELSE hasty
  BY <1>1 DEF Count, IntervalTypes
<1>11. hasty' \in Nat /\ hasty' <= hasty + 1
  BY <1>10
<1>12. StartsAreCounted'
  BY <1>1, <1>2, <1>3, <1>5, <1>7, <1>8, <1>10, <1>11, MonitorNames DEF StartsAreCounted
<1>13. LostToHaste'
  <2>1. stopped["kubernetes"] <= hasty /\ stopped["kubernetes"] + delayed["kubernetes"] <= hasty + 1
    BY <1>2, <1>5, <1>7, <1>9, <1>10, MonitorNames DEF LostToHaste
  <2>2. stopped["kubernetes"] + delayed["kubernetes"] <= hasty'
    BY <1>7, <1>9, <1>10, <2>1
  <2>3. Count("kubernetes" \in held') = 0
    BY <1>4 DEF Count
  <2>4. stopped["kubernetes"] <= hasty' /\ stopped["kubernetes"] - 0 <= hasty'
    BY <1>9, <1>10, <2>1
  <2>5. stopped["kubernetes"] + (delayed["kubernetes"] + 1) <= hasty' + 1
    BY <1>7, <1>9, <1>11, <2>2
  <2> QED BY <1>3, <1>7, <2>3, <2>4, <2>5 DEF LostToHaste
<1>14. IntervalTypes'
  BY <1>1, <1>3, <1>4, <1>7, <1>8, <1>11 DEF IntervalTypes
<1> QED BY <1>1, <1>4, <1>6, <1>12, <1>13, <1>14

\* A stop clears every interval but those the kubernetes monitor lost, and what comes
\* after it was outrun.
LEMMA StopKeeps ==
  ASSUME MonitorsKept, StopMonitors
  PROVE  MonitorsKept' /\ held' = {} /\ (~outrun' => AllStopped')
<1> USE DEF MonitorsKept
<1>1. /\ interval' = AfterStop(Monitor) /\ held' = {} /\ UNCHANGED <<delayed, starts, hasty>>
      /\ outrun' = (delayed["docker"] > 0 \/ delayed["kubernetes"] > 0)
  BY DEF StopMonitors, LeavesDelayed
<1>2. /\ interval' \in [Monitor -> Nat]
      /\ \A m \in Monitor : interval'[m] = IF m \in held THEN interval[m] - 1 ELSE interval[m]
  BY <1>1, StoppedIntervals
<1>3. \A m \in Monitor : interval[m] \in Nat
  BY DEF IntervalTypes
<1>4. IntervalsAreHeld'
  BY <1>1, <1>2, <1>3, MonitorNames DEF IntervalsAreHeld, Count
<1>5. /\ interval'["kubernetes"] <= interval["kubernetes"] /\ interval'["kubernetes"] \in Nat
      /\ interval'["kubernetes"] = interval["kubernetes"] - Count("kubernetes" \in held)
  BY <1>2, <1>3, MonitorNames DEF Count
<1>6. delayed["kubernetes"] \in Nat /\ delayed["docker"] \in Nat /\ starts \in Nat /\ hasty \in Nat
  BY MonitorNames DEF IntervalTypes
<1>7. StartsAreCounted'
  BY <1>1, <1>3, <1>5, <1>6, MonitorNames DEF StartsAreCounted
<1>8. LostToHaste'
  <2>1. Count("kubernetes" \in held') = 0
    BY <1>1 DEF Count
  <2>2. interval'["kubernetes"] + delayed["kubernetes"] <= hasty + 1
    BY <1>3, <1>5, <1>6, MonitorNames DEF LostToHaste
  <2>3. interval'["kubernetes"] - 0 <= hasty
    BY <1>5, <1>6 DEF LostToHaste
  <2> QED BY <1>1, <2>1, <2>2, <2>3 DEF LostToHaste
<1>9. IntervalTypes'
  BY <1>1, <1>2 DEF IntervalTypes
<1>10. ~outrun' => AllStopped'
  <2>1. ~outrun' => ~(delayed["docker"] > 0) /\ ~(delayed["kubernetes"] > 0)
    BY <1>1, Zenon
  <2>2. ~outrun' => delayed["docker"] = 0 /\ delayed["kubernetes"] = 0
    BY <1>6, <2>1
  <2> QED BY <1>1, <2>2 DEF AllStopped
<1> QED BY <1>1, <1>4, <1>7, <1>8, <1>9, <1>10

\* Monitors as they were: what is said of them still holds.
LEMMA MonitorsStay ==
  ASSUME MonitorsKept, UNCHANGED monitorVars
  PROVE  MonitorsKept' /\ held' = held /\ outrun' = outrun /\ (AllStopped => AllStopped')
BY DEF monitorVars, MonitorsKept, IntervalTypes, IntervalsAreHeld, StartsAreCounted, LostToHaste, AllStopped

\* A delayed start that comes.
LEMMA DelayedKeeps ==
  ASSUME MonitorsKept, DockerStarts \/ KubernetesStarts
  PROVE  MonitorsKept' /\ ("system" \in held' <=> "system" \in held) /\ outrun' = outrun /\ ~AllStopped
<1> USE DEF MonitorsKept
<1>1. \A m \in Monitor : interval[m] \in Nat
  BY DEF IntervalTypes
<1>2. /\ delayed["docker"] \in Nat /\ delayed["kubernetes"] \in Nat
      /\ starts \in Nat /\ starts \in 0..MaxStarts /\ hasty \in Nat
  BY MonitorNames DEF IntervalTypes
<1>3. UNCHANGED <<starts, hasty, outrun>>
  BY DEF DockerStarts, KubernetesStarts
<1>4. CASE DockerStarts
  <2> DEFINE stopped == AfterStop({"docker"})
  <2>1. /\ delayed["docker"] > 0 /\ delayed' = [delayed EXCEPT !["docker"] = delayed["docker"] - 1]
        /\ interval' = [stopped EXCEPT !["docker"] = stopped["docker"] + 1] /\ held' = held \cup {"docker"}
    BY <1>4 DEF DockerStarts
  <2>2. /\ stopped \in [Monitor -> Nat]
        /\ stopped["docker"] = IF "docker" \in held THEN interval["docker"] - 1 ELSE interval["docker"]
        /\ stopped["system"] = interval["system"] /\ stopped["kubernetes"] = interval["kubernetes"]
    BY StoppedIntervals, MonitorNames
  <2> HIDE DEF stopped
  <2>3. /\ interval' \in [Monitor -> Nat] /\ interval'["docker"] = stopped["docker"] + 1
        /\ interval'["system"] = interval["system"] /\ interval'["kubernetes"] = interval["kubernetes"]
    BY <2>1, <2>2, MonitorNames
  <2>4. /\ held' \subseteq Monitor /\ "docker" \in held' /\ ("system" \in held' <=> "system" \in held)
        /\ ("kubernetes" \in held' <=> "kubernetes" \in held)
    BY <2>1, MonitorNames DEF IntervalTypes
  <2>5. IntervalsAreHeld'
    BY <1>1, <2>2, <2>3, <2>4, MonitorNames DEF IntervalsAreHeld, Count
  <2>6. delayed["docker"] - 1 \in Nat
    BY <1>2, <2>1
  <2>7. /\ delayed' \in [{"docker", "kubernetes"} -> Nat] /\ delayed'["kubernetes"] = delayed["kubernetes"]
        /\ delayed'["docker"] = delayed["docker"] - 1
    BY <2>1, <2>6 DEF IntervalTypes
  <2>8. starts # 0
    BY <1>2, <2>1 DEF StartsAreCounted
  <2>9. StartsAreCounted'
    BY <1>2, <1>3, <2>3, <2>7, <2>8 DEF StartsAreCounted
  <2>10. LostToHaste'
    BY <1>3, <2>3, <2>4, <2>7 DEF LostToHaste, Count
  <2>11. IntervalTypes'
    BY <1>3, <2>3, <2>4, <2>7 DEF IntervalTypes
  <2>12. ~AllStopped
    BY <1>2, <2>1 DEF AllStopped
  <2> QED BY <1>3, <2>4, <2>5, <2>9, <2>10, <2>11, <2>12
<1>5. CASE KubernetesStarts
  <2>1. /\ delayed["kubernetes"] > 0 /\ delayed' = [delayed EXCEPT !["kubernetes"] = delayed["kubernetes"] - 1]
        /\ interval' = [interval EXCEPT !["kubernetes"] = interval["kubernetes"] + 1] /\ held' = held \cup {"kubernetes"}
    BY <1>5 DEF KubernetesStarts
  <2>3. /\ interval' \in [Monitor -> Nat] /\ interval'["kubernetes"] = interval["kubernetes"] + 1
        /\ interval'["system"] = interval["system"] /\ interval'["docker"] = interval["docker"]
    BY <1>1, <2>1, MonitorNames DEF IntervalTypes
  <2>4. /\ held' \subseteq Monitor /\ ("docker" \in held' <=> "docker" \in held) /\ ("system" \in held' <=> "system" \in held)
        /\ "kubernetes" \in held'
    BY <2>1, MonitorNames DEF IntervalTypes
  <2>5. IntervalsAreHeld'
    BY <1>1, <2>3, <2>4, MonitorNames DEF IntervalsAreHeld, Count
  <2>6. delayed["kubernetes"] - 1 \in Nat
    BY <1>2, <2>1
  <2>7. /\ delayed' \in [{"docker", "kubernetes"} -> Nat] /\ delayed'["kubernetes"] = delayed["kubernetes"] - 1
        /\ delayed'["docker"] = delayed["docker"]
    BY <2>1, <2>6 DEF IntervalTypes
  <2>8. starts # 0
    BY <1>1, <1>2, <2>1, MonitorNames DEF StartsAreCounted
  <2>9. StartsAreCounted'
    BY <1>1, <1>2, <1>3, <2>1, <2>3, <2>7, <2>8, MonitorNames DEF StartsAreCounted
  <2>10. LostToHaste'
    <3>1. interval["kubernetes"] \in Nat
      BY <1>1, MonitorNames
    <3>2. (interval["kubernetes"] + 1) + (delayed["kubernetes"] - 1) <= hasty + 1
      BY <1>2, <3>1 DEF LostToHaste
    <3>3. (interval["kubernetes"] + 1) - 1 <= hasty
      BY <1>2, <2>1, <3>1 DEF LostToHaste
    <3>4. Count("kubernetes" \in held') = 1
      BY <2>4 DEF Count
    <3> QED BY <1>3, <2>3, <2>7, <3>2, <3>3, <3>4 DEF LostToHaste
  <2>11. IntervalTypes'
    BY <1>3, <2>3, <2>4, <2>7 DEF IntervalTypes
  <2>12. ~AllStopped
    BY <1>2, <2>1 DEF AllStopped
  <2> QED BY <1>3, <2>4, <2>5, <2>9, <2>10, <2>11, <2>12
<1> QED BY <1>4, <1>5

\* A step of the application is one of its connections.
LEMMA MonitorsTakeSshSteps == [MonitorsNext]_desktopVars => [SshNext]_sshVars
<1> SUFFICES ASSUME [MonitorsNext]_desktopVars PROVE [SshNext]_sshVars
  OBVIOUS
<1>1. UNCHANGED sshVars \/ Connect \/ Disconnect \/ \E e \in Client : Event(e)
  <2>1. CASE UNCHANGED desktopVars
    BY <2>1 DEF desktopVars
  <2>2. CASE ResetServers \/ MonitorStart \/ MonitorStop \/ RemoveServer \/ DockerStarts \/ KubernetesStarts
    BY <2>2 DEF ResetServers, MonitorStart, MonitorStop, RemoveServer, DockerStarts, KubernetesStarts
  <2>3. ASSUME NEW e \in Client, Connected(e) \/ Failed(e) \/ OtherEvent(e) PROVE Event(e)
    BY <2>3 DEF Connected, Failed, OtherEvent, Drops, Event
  <2>4. ASSUME NEW r \in Rule, AlertTimerFires(r) \/ RuleCoolsDown(r) \/ EditRule(r) PROVE UNCHANGED sshVars
    BY <2>4 DEF AlertTimerFires, RuleCoolsDown, EditRule
  <2> QED BY <2>1, <2>2, <2>3, <2>4 DEF MonitorsNext
<1> QED BY <1>1 DEF SshNext

\* The status of the server changes when its own client does, or another is its client.
LEMMA OwnStatus ==
  ASSUME TypeOK, ConnectionInv
  PROVE  /\ current = 0 \/ current \in Client
         /\ 0 \notin Client
         /\ \A e \in Client : link[e] \in {"handshake", "open"} => e = current
         /\ CurrentStatus \in Status \cup {"disconnected"} /\ (CurrentStatus = "disconnected" <=> current = 0)
         /\ current # 0 => wanted
<1>1. current = 0 \/ current \in Client
  BY SshAssumption DEF TypeOK, ClientTypes, Client
<1>2. 0 \notin Client
  BY DEF Client
<1>3. \A e \in Client : link[e] \in {"handshake", "open"} => e = current
  BY DEF ConnectionInv, LiveIsCurrent, Live
<1>4. current \in Client => status[current] \in Status
  BY DEF TypeOK, ClientTypes
<1>5. "disconnected" \notin Status
  BY DEF Status
<1> QED BY <1>1, <1>2, <1>3, <1>4, <1>5 DEF CurrentStatus, ConnectionInv, NothingUnwanted

\* A new client takes the server's place, and it is connecting.
LEMMA ConnectingNow ==
  ASSUME TypeOK, ConnectionInv, \/ Connect
                                \/ \E e \in Client : RetryFires(e)
  PROVE  CurrentStatus' = "connecting" /\ wanted'
<1>1. opened \in 0..MaxClients /\ opened < MaxClients
  BY DEF TypeOK, ClientTypes, Connect, RetryFires, DoConnect
<1>2. opened + 1 \in Client /\ opened + 1 > opened /\ opened + 1 # 0
  BY <1>1, SshAssumption DEF Client
<1>3. status[opened + 1] = "connecting"
  BY <1>2 DEF ConnectionInv, NewcomersUntouched
<1>4. current' = opened + 1 /\ status' = status
  BY DEF Connect, RetryFires, DoConnect
<1>5. CurrentStatus' = "connecting"
  BY <1>2, <1>3, <1>4 DEF CurrentStatus
<1>6. wanted'
  <2>1. CASE Connect
    BY <2>1 DEF Connect
  <2>2. ASSUME NEW e \in Client, RetryFires(e) PROVE wanted'
    <3>1. e = current /\ current # 0
      BY <2>2, OwnStatus DEF RetryFires, ConnectionInv, OneTimer
    <3> QED BY <2>2, <3>1, OwnStatus DEF RetryFires
  <2> QED BY <2>1, <2>2
<1> QED BY <1>5, <1>6

\* The invariant, from what a step leaves.
LEMMA MonitorsInvFrom ==
  ASSUME MonitorsInv, MonitorsNext, MaxProbeFailures = 0,
         MonitorsKept', known' \in BOOLEAN, shownStatus' \in ShownStatus, AlertTypes',
         CurrentStatus' = "connected" /\ known' => "system" \in held',
         ~wanted' => "system" \notin held', ~wanted' /\ ~outrun' => AllStopped',
         StatusShownIsReal'
  PROVE  MonitorsInv'
<1>1. TypeOK' /\ ConnectionInv'
  <2>1. [SshNext]_sshVars
    BY MonitorsTakeSshSteps
  <2> QED BY <2>1, NextTypeOK, NextConnectionInv DEF MonitorsInv
<1>2. WindowTypes'
  BY DEF WindowTypes, ShownStatus, Status
<1>3. PolledWhileWanted'
  BY DEF PolledWhileWanted
<1> QED BY <1>1, <1>2, <1>3 DEF MonitorsInv

\* What the window is told by the call or the client itself.
LEMMA ToldTruly ==
  ASSUME NEW s, shownStatus' = [status |-> s, late |-> FALSE], s = CurrentStatus'
  PROVE  StatusShownIsReal' /\ (s \in Status \cup {"disconnected"} => shownStatus' \in ShownStatus)
BY DEF StatusShownIsReal, ShownStatus

LEMMA AlertsStay ==
  ASSUME AlertTypes, \/ ResetRules \/ \E s : ArmRules(s)
                     \/ UNCHANGED alertVars
  PROVE  AlertTypes'
BY DEF AlertTypes, ResetRules, ArmRules, alertVars

LEMMA CallSteps ==
  ASSUME MonitorsInv, MonitorsNext, MaxProbeFailures = 0,
         ResetServers \/ MonitorStart \/ MonitorStop \/ RemoveServer
  PROVE  MonitorsInv'
<1>1. /\ TypeOK /\ ConnectionInv /\ WindowTypes /\ AlertTypes /\ MonitorsKept
      /\ PolledWhileWanted /\ StatusShownIsReal
  BY DEF MonitorsInv
<1>2. known \in BOOLEAN /\ shownStatus \in ShownStatus
  BY <1>1 DEF WindowTypes
<1>3. CASE ResetServers
  <2>1. /\ known' = FALSE /\ UNCHANGED <<sshVars, shownStatus, monitorVars, armed, cooling>>
        /\ enabled' = {} /\ watching' = {} /\ checked' = {} /\ silenced' = {}
    BY <1>3 DEF ResetServers
  <2>2. UNCHANGED <<current, status, wanted>>
    BY <2>1 DEF sshVars, clientVars
  <2>3. CurrentStatus' = CurrentStatus
    BY <2>2 DEF CurrentStatus
  <2>4. AlertTypes'
    BY <1>1, <2>1 DEF AlertTypes
  <2> QED BY <1>1, <1>2, <2>1, <2>2, <2>3, <2>4, MonitorsStay, MonitorsInvFrom DEF PolledWhileWanted, StatusShownIsReal
<1>4. CASE MonitorStart /\ CurrentStatus = "connected"
  <2>1. StartMonitors /\ UNCHANGED <<sshVars, shownStatus, known, alertVars>>
    BY <1>4 DEF MonitorStart
  <2>2. UNCHANGED <<current, status, wanted>>
    BY <2>1 DEF sshVars, clientVars
  <2>3. CurrentStatus' = CurrentStatus
    BY <2>2 DEF CurrentStatus
  <2>4. wanted
    BY <1>1, <1>4, OwnStatus
  <2> QED BY <1>1, <1>2, <2>1, <2>2, <2>3, <2>4, StartKeeps, AlertsStay, MonitorsInvFrom DEF StatusShownIsReal
<1>5. CASE MonitorStart /\ CurrentStatus # "connected"
  <2>1. Connect /\ shownStatus' = StatusNow("connecting") /\ UNCHANGED <<monitorVars, known, alertVars>>
    BY <1>5 DEF MonitorStart
  <2>2. CurrentStatus' = "connecting" /\ wanted'
    BY <1>1, <2>1, ConnectingNow
  <2>3. StatusShownIsReal' /\ shownStatus' \in ShownStatus
    BY <2>1, <2>2, ToldTruly DEF Status, StatusNow
  <2> QED BY <1>1, <1>2, <2>1, <2>2, <2>3, MonitorsStay, AlertsStay, MonitorsInvFrom
<1>6. CASE MonitorStop \/ RemoveServer
  <2>1. StopMonitors /\ known' \in BOOLEAN
    BY <1>2, <1>6 DEF MonitorStop, RemoveServer
  <2>2. CurrentStatus' = "disconnected" /\ StatusShownIsReal' /\ shownStatus' \in ShownStatus
    <3>1. CASE current = 0
      <4>1. UNCHANGED <<sshVars, shownStatus>>
        BY <1>6, <3>1 DEF MonitorStop, RemoveServer
      <4>2. UNCHANGED <<current, status>>
        BY <4>1 DEF sshVars, clientVars
      <4> QED BY <1>1, <1>2, <3>1, <4>1, <4>2 DEF CurrentStatus, StatusShownIsReal
    <3>2. CASE current # 0
      <4>1. Disconnect /\ shownStatus' = StatusNow("disconnected")
        BY <1>6, <3>2 DEF MonitorStop, RemoveServer
      <4>2. CurrentStatus' = "disconnected"
        BY <4>1 DEF Disconnect, CurrentStatus
      <4> QED BY <4>1, <4>2, ToldTruly DEF StatusNow
    <3> QED BY <3>1, <3>2
  <2>3. AlertTypes'
    BY <1>1, <1>6 DEF MonitorStop, RemoveServer, AlertTypes, ArmRules, alertVars
  <2> QED BY <1>1, <2>1, <2>2, <2>3, StopKeeps, MonitorsInvFrom
<1> QED BY <1>3, <1>4, <1>5, <1>6

LEMMA TimerSteps ==
  ASSUME MonitorsInv, MonitorsNext, MaxProbeFailures = 0,
         \/ DockerStarts \/ KubernetesStarts
         \/ \E r \in Rule : AlertTimerFires(r) \/ RuleCoolsDown(r) \/ EditRule(r)
  PROVE  MonitorsInv'
<1>1. /\ TypeOK /\ ConnectionInv /\ WindowTypes /\ AlertTypes /\ MonitorsKept
      /\ PolledWhileWanted /\ StatusShownIsReal
  BY DEF MonitorsInv
<1>2. known \in BOOLEAN /\ shownStatus \in ShownStatus
  BY <1>1 DEF WindowTypes
<1>3. UNCHANGED <<sshVars, known, shownStatus>>
  BY DEF DockerStarts, KubernetesStarts, AlertTimerFires, RuleCoolsDown, EditRule
<1>4. UNCHANGED <<current, status, wanted>>
  BY <1>3 DEF sshVars, clientVars
<1>5. CurrentStatus' = CurrentStatus
  BY <1>4 DEF CurrentStatus
<1>6. CASE DockerStarts \/ KubernetesStarts
  <2>1. UNCHANGED alertVars
    BY <1>6 DEF DockerStarts, KubernetesStarts
  <2>2. MonitorsKept' /\ ("system" \in held' <=> "system" \in held) /\ outrun' = outrun /\ ~AllStopped
    BY <1>1, <1>6, DelayedKeeps
  <2> QED BY <1>1, <1>2, <1>3, <1>4, <1>5, <2>1, <2>2, AlertsStay, MonitorsInvFrom DEF PolledWhileWanted, StatusShownIsReal
<1>7. ASSUME NEW r \in Rule, AlertTimerFires(r) \/ RuleCoolsDown(r) \/ EditRule(r) PROVE MonitorsInv'
  <2>1. UNCHANGED monitorVars
    BY <1>7 DEF AlertTimerFires, RuleCoolsDown, EditRule
  <2>2. AlertTypes'
    BY <1>1, <1>7 DEF AlertTimerFires, RuleCoolsDown, EditRule, AlertTypes
  <2> QED BY <1>1, <1>2, <1>3, <1>4, <1>5, <2>1, <2>2, MonitorsStay, MonitorsInvFrom DEF PolledWhileWanted, StatusShownIsReal
<1> QED BY <1>6, <1>7

LEMMA EventSteps ==
  ASSUME MonitorsInv, MonitorsNext, MaxProbeFailures = 0,
         NEW e \in Client, Connected(e) \/ Failed(e) \/ OtherEvent(e)
  PROVE  MonitorsInv'
<1>1. /\ TypeOK /\ ConnectionInv /\ WindowTypes /\ AlertTypes /\ MonitorsKept
      /\ PolledWhileWanted /\ StatusShownIsReal
  BY DEF MonitorsInv
<1>2. known \in BOOLEAN /\ shownStatus \in ShownStatus
  BY <1>1 DEF WindowTypes
<1>3. e # 0 /\ status \in [Client -> Status]
  BY <1>1, OwnStatus DEF TypeOK, ClientTypes
<1>4. {"connected", "connecting", "reconnecting", "error"} \subseteq Status
  BY DEF Status
<1>5. CASE Connected(e)
  <2>1. Ready(e) /\ ResetRules /\ ShowStatus(e, "connected") /\ (IF known THEN StartMonitors ELSE UNCHANGED monitorVars)
        /\ UNCHANGED known
    BY <1>5 DEF Connected
  <2>2. link[e] = "handshake" /\ status' = [status EXCEPT ![e] = "connected"] /\ UNCHANGED <<current, wanted>>
    BY <2>1 DEF Ready
  <2>3. e = current /\ wanted
    BY <1>1, <1>3, <2>2, OwnStatus
  <2>4. CurrentStatus' = "connected"
    BY <1>3, <2>2, <2>3 DEF CurrentStatus
  <2>5. StatusShownIsReal' /\ shownStatus' \in ShownStatus
    BY <1>4, <2>1, <2>3, <2>4, ToldTruly DEF ShowStatus
  <2>6. CASE known
    BY <1>1, <1>2, <2>1, <2>2, <2>3, <2>4, <2>5, <2>6, StartKeeps, AlertsStay, MonitorsInvFrom
  <2>7. CASE ~known
    BY <1>1, <1>2, <2>1, <2>2, <2>3, <2>4, <2>5, <2>7, MonitorsStay, AlertsStay, MonitorsInvFrom
  <2> QED BY <2>6, <2>7
<1>6. CASE Failed(e)
  <2>1. OnError(e) /\ ArmRules("error") /\ ShowStatus(e, "error") /\ UNCHANGED <<known, monitorVars>>
    BY <1>6 DEF Failed, HandshakeFails, AbortedHandshakeFails, ConnectionFails
  <2>2. status' = [status EXCEPT ![e] = "error"] /\ UNCHANGED <<current, wanted>>
    BY <2>1 DEF OnError
  <2>3. CurrentStatus' = IF e = current THEN "error" ELSE CurrentStatus
    BY <1>1, <1>3, <2>2, OwnStatus DEF CurrentStatus
  <2>4. StatusShownIsReal' /\ shownStatus' \in ShownStatus
    BY <1>4, <2>1, <2>3 DEF ShowStatus, StatusShownIsReal, ShownStatus
  <2> QED BY <1>1, <1>2, <2>1, <2>2, <2>3, <2>4, MonitorsStay, AlertsStay, MonitorsInvFrom DEF PolledWhileWanted
<1>7. CASE OtherEvent(e) /\ RetryFires(e)
  <2>1. current' # current /\ shownStatus' = StatusNow("connecting") /\ UNCHANGED <<known, monitorVars, alertVars>>
    <3>1. UNCHANGED <<known, monitorVars, alertVars>>
      BY <1>7 DEF OtherEvent
    <3>2. current' = opened + 1 /\ opened \in Nat /\ current <= opened /\ current \in Nat
      BY <1>1, <1>7, SshAssumption DEF RetryFires, DoConnect, TypeOK, ClientTypes, ConnectionInv, NothingUnwanted
    <3>3. current' # current
      BY <3>2
    <3>4. ~ProbeStarts(e) /\ ~ProbeAnswers(e) /\ ~Drops(e)
      BY <3>3 DEF ProbeStarts, ProbeAnswers, clientVars, Drops, ConnectionEnds, SocketCloses, ProbeFails, OnClose
    <3> QED BY <1>7, <3>1, <3>3, <3>4 DEF OtherEvent
  <2>2. CurrentStatus' = "connecting" /\ wanted'
    BY <1>1, <1>7, ConnectingNow
  <2>3. StatusShownIsReal' /\ shownStatus' \in ShownStatus
    BY <1>4, <2>1, <2>2, ToldTruly DEF StatusNow
  <2> QED BY <1>1, <1>2, <2>1, <2>2, <2>3, MonitorsStay, AlertsStay, MonitorsInvFrom
<1>8. CASE OtherEvent(e) /\ ~RetryFires(e)
  <2>1. /\ UNCHANGED <<known, monitorVars, alertVars>>
        /\ Drops(e) \/ ((ProbeStarts(e) \/ ProbeAnswers(e)) /\ UNCHANGED shownStatus)
    BY <1>8 DEF OtherEvent
  <2>2. CASE (ProbeStarts(e) \/ ProbeAnswers(e)) /\ UNCHANGED shownStatus
    <3>1. UNCHANGED <<current, status, wanted>>
      BY <2>2 DEF ProbeStarts, ProbeAnswers, clientVars
    <3>2. CurrentStatus' = CurrentStatus
      BY <3>1 DEF CurrentStatus
    <3> QED BY <1>1, <1>2, <2>1, <2>2, <3>1, <3>2, MonitorsStay, AlertsStay, MonitorsInvFrom
             DEF PolledWhileWanted, StatusShownIsReal
  <2>3. CASE Drops(e)
    <3>1. /\ UNCHANGED <<current, wanted>>
          /\ \/ status' = status
             \/ /\ status[e] \in {"connected", "reconnecting"}
                /\ status' = [status EXCEPT ![e] = "reconnecting"]
      BY <2>3 DEF Drops, ConnectionEnds, SocketCloses, ProbeFails, OnClose
    <3>2. /\ UNCHANGED <<known, monitorVars, alertVars>>
          /\ IF status[e] = "connected" /\ status'[e] = "reconnecting"
             THEN ShowStatus(e, "reconnecting") ELSE UNCHANGED shownStatus
      BY <2>3 DEF Drops
    <3>3. CASE status[e] = "connected" /\ status'[e] = "reconnecting"
      <4>1. CurrentStatus' = IF e = current THEN "reconnecting" ELSE CurrentStatus
        BY <1>1, <1>3, <3>1, <3>3, OwnStatus DEF CurrentStatus
      <4>2. StatusShownIsReal' /\ shownStatus' \in ShownStatus
        <5>1. shownStatus' = [status |-> "reconnecting", late |-> e # current]
          BY <3>2, <3>3 DEF ShowStatus
        <5>2. shownStatus'.status = "reconnecting" /\ (e # current => shownStatus'.late)
          BY <5>1
        <5>3. shownStatus' \in ShownStatus
          BY <1>4, <5>1 DEF ShownStatus
        <5> QED BY <4>1, <5>2, <5>3 DEF StatusShownIsReal
      <4>3. MonitorsKept' /\ held' = held /\ outrun' = outrun /\ (AllStopped => AllStopped') /\ AlertTypes'
        BY <1>1, <3>2, MonitorsStay, AlertsStay
      <4>4. CurrentStatus' = "connected" /\ known' => "system" \in held'
        BY <1>1, <3>2, <4>1, <4>3 DEF PolledWhileWanted
      <4>5. (~wanted' => "system" \notin held') /\ (~wanted' /\ ~outrun' => AllStopped')
        BY <1>1, <3>1, <4>3 DEF PolledWhileWanted
      <4>6. known' \in BOOLEAN
        BY <1>2, <3>2
      <4> QED BY <4>2, <4>3, <4>4, <4>5, <4>6, MonitorsInvFrom
    <3>4. CASE ~(status[e] = "connected" /\ status'[e] = "reconnecting")
      <4>1. status' = status
        BY <1>3, <3>1, <3>4
      <4>2. CurrentStatus' = CurrentStatus /\ UNCHANGED shownStatus
        BY <3>1, <3>2, <3>4, <4>1 DEF CurrentStatus
      <4> QED BY <1>1, <1>2, <3>1, <3>2, <4>2, MonitorsStay, AlertsStay, MonitorsInvFrom
               DEF PolledWhileWanted, StatusShownIsReal
    <3> QED BY <3>3, <3>4
  <2> QED BY <2>1, <2>2, <2>3
<1> QED BY <1>5, <1>6, <1>7, <1>8

LEMMA InitMonitors == MonitorsInit => MonitorsInv
<1> SUFFICES ASSUME MonitorsInit PROVE MonitorsInv
  OBVIOUS
<1>1. TypeOK /\ ConnectionInv
  BY InitTypeOK, InitConnectionInv DEF MonitorsInit
<1>2. /\ current = 0 /\ wanted = FALSE /\ known = TRUE /\ shownStatus = StatusNow("disconnected")
      /\ interval = [m \in Monitor |-> 0] /\ held = {} /\ delayed = [m \in {"docker", "kubernetes"} |-> 0]
      /\ armed = {} /\ enabled = Rule /\ cooling \in SUBSET Rule
      /\ watching = {} /\ checked = {} /\ silenced = {} /\ starts = 0 /\ hasty = 0 /\ outrun = FALSE
  BY DEF MonitorsInit, Init
<1>3. 0 \in 0..MaxStarts
  BY MonitorNames
<1>4. WindowTypes /\ AlertTypes /\ IntervalTypes
  BY <1>2, <1>3 DEF WindowTypes, ShownStatus, StatusNow, AlertTypes, IntervalTypes
<1>5. MonitorsKept
  BY <1>2, <1>4, MonitorNames DEF MonitorsKept, IntervalsAreHeld, StartsAreCounted, LostToHaste, Count
<1>6. PolledWhileWanted /\ StatusShownIsReal
  BY <1>2 DEF PolledWhileWanted, AllStopped, StatusShownIsReal, StatusNow, CurrentStatus
<1> QED BY <1>1, <1>4, <1>5, <1>6 DEF MonitorsInv

LEMMA NextMonitors == ASSUME MaxProbeFailures = 0 PROVE MonitorsInv /\ [MonitorsNext]_desktopVars => MonitorsInv'
<1> SUFFICES ASSUME MonitorsInv, [MonitorsNext]_desktopVars PROVE MonitorsInv'
  OBVIOUS
<1>1. CASE UNCHANGED desktopVars
  <2>1. TypeOK' /\ ConnectionInv'
    BY MonitorsTakeSshSteps, NextTypeOK, NextConnectionInv DEF MonitorsInv
  <2>2. UNCHANGED <<current, status, wanted, known, shownStatus, monitorVars, alertVars>>
    BY <1>1 DEF desktopVars, sshVars, clientVars
  <2>3. WindowTypes' /\ AlertTypes' /\ MonitorsKept' /\ held' = held /\ outrun' = outrun /\ (AllStopped => AllStopped')
    BY <2>2, MonitorsStay, AlertsStay DEF MonitorsInv, WindowTypes, ShownStatus, Status
  <2>4. PolledWhileWanted' /\ StatusShownIsReal'
    BY <2>2, <2>3 DEF MonitorsInv, PolledWhileWanted, StatusShownIsReal, CurrentStatus
  <2> QED BY <2>1, <2>3, <2>4 DEF MonitorsInv
<1>2. CASE MonitorsNext
  BY <1>2, CallSteps, TimerSteps, EventSteps DEF MonitorsNext
<1> QED BY <1>1, <1>2

\* Types alone do not depend on what health probes find.
MonitorsShaped == TypeOK /\ WindowTypes /\ AlertTypes /\ MonitorsKept

LEMMA ShapedAreTyped == MonitorsShaped => MonitorsTypeOK
<1> SUFFICES ASSUME MonitorsShaped PROVE MonitorsTypeOK
  OBVIOUS
<1> USE DEF MonitorsKept
<1>1. \A m \in Monitor : interval[m] \in Nat
  BY DEF MonitorsShaped, IntervalTypes
<1>2. delayed["kubernetes"] \in Nat /\ delayed["docker"] \in Nat /\ starts \in 0..MaxStarts /\ hasty \in Nat
  BY DEF MonitorsShaped, IntervalTypes
<1>3. \A m \in Monitor : interval[m] \in 0..MaxStarts
  <2>1. interval["kubernetes"] \in 0..MaxStarts
    BY <1>1, <1>2, MonitorNames DEF MonitorsShaped, StartsAreCounted
  <2>2. interval["system"] \in 0..MaxStarts /\ interval["docker"] \in 0..MaxStarts
    <3>1. held # {} => 1 \in 0..MaxStarts
      BY <1>2, MonitorNames DEF MonitorsShaped, StartsAreCounted
    <3>2. 0 \in 0..MaxStarts
      BY MonitorNames
    <3> QED BY <3>1, <3>2 DEF MonitorsShaped, IntervalsAreHeld, Count
  <2> QED BY <2>1, <2>2, MonitorNames
<1>4. \A m \in {"docker", "kubernetes"} : delayed[m] \in 0..MaxStarts
  BY <1>1, <1>2, MonitorNames DEF MonitorsShaped, StartsAreCounted
<1>5. hasty \in 0..MaxStarts
  BY <1>2, MonitorNames DEF MonitorsShaped, StartsAreCounted
<1> QED BY <1>2, <1>3, <1>4, <1>5
        DEF MonitorsShaped, IntervalTypes, WindowTypes, ShownStatus, AlertTypes, MonitorsTypeOK

LEMMA NextShapedMonitors == MonitorsShaped /\ [MonitorsNext]_desktopVars => MonitorsShaped'
<1> SUFFICES ASSUME MonitorsShaped, [MonitorsNext]_desktopVars PROVE MonitorsShaped'
  OBVIOUS
<1>1. AlertTypes /\ MonitorsKept /\ known \in BOOLEAN /\ shownStatus \in ShownStatus
  BY DEF MonitorsShaped, WindowTypes
<1>2. TypeOK'
  BY MonitorsTakeSshSteps, NextTypeOK DEF MonitorsShaped
<1>3. StartMonitors \/ StopMonitors \/ DockerStarts \/ KubernetesStarts \/ UNCHANGED monitorVars
  BY DEF MonitorsNext, desktopVars, ResetServers, MonitorStart, MonitorStop, RemoveServer,
         Connected, Failed, OtherEvent, AlertTimerFires, RuleCoolsDown, EditRule
<1>4. MonitorsKept'
  BY <1>1, <1>3, StartKeeps, StopKeeps, DelayedKeeps, MonitorsStay
<1>5. known' \in BOOLEAN
  BY <1>1 DEF MonitorsNext, desktopVars, ResetServers, MonitorStart, MonitorStop, RemoveServer, DockerStarts,
              KubernetesStarts, Connected, Failed, OtherEvent, Drops, AlertTimerFires, RuleCoolsDown, EditRule
<1>6. shownStatus' \in ShownStatus
  <2>1. \/ shownStatus' = shownStatus
        \/ \E s \in {"disconnected", "connecting", "connected", "reconnecting", "error"}, l \in BOOLEAN :
             shownStatus' = [status |-> s, late |-> l]
    BY DEF MonitorsNext, desktopVars, ResetServers, MonitorStart, MonitorStop, RemoveServer, DockerStarts,
           KubernetesStarts, Connected, Failed, OtherEvent, Drops, ShowStatus, StatusNow, AlertTimerFires,
           RuleCoolsDown, EditRule
  <2> QED BY <1>1, <2>1 DEF Status, ShownStatus
<1>7. AlertTypes'
  <2>1. ASSUME NEW r \in Rule, AlertTimerFires(r) \/ RuleCoolsDown(r) \/ EditRule(r) PROVE AlertTypes'
    BY <1>1, <2>1 DEF AlertTypes, AlertTimerFires, RuleCoolsDown, EditRule
  <2>2. CASE ~ \E r \in Rule : AlertTimerFires(r) \/ RuleCoolsDown(r) \/ EditRule(r)
    <3>1. \/ UNCHANGED alertVars \/ ResetRules \/ ArmRules("error") \/ ArmRules("disconnected")
          \/ armed' = {} /\ UNCHANGED <<enabled, cooling, watching, checked, silenced>>
          \/ enabled' = {} /\ watching' = {} /\ checked' = {} /\ silenced' = {} /\ UNCHANGED <<armed, cooling>>
      BY <2>2 DEF MonitorsNext, desktopVars, ResetServers, MonitorStart, MonitorStop, RemoveServer, DockerStarts,
             KubernetesStarts, Connected, Failed, OtherEvent
    <3> QED BY <1>1, <3>1 DEF AlertTypes, ArmRules, ResetRules, alertVars
  <2> QED BY <2>1, <2>2
<1>8. WindowTypes'
  BY <1>5, <1>6 DEF WindowTypes, ShownStatus, Status
<1> QED BY <1>2, <1>4, <1>7, <1>8 DEF MonitorsShaped

\* Whatever health probes find, monitors, rules and the status shown keep their types,
\* and no monitor has more intervals than there were starts.
THEOREM MonitorsTypeCorrect == MonitorsSpec => []MonitorsTypeOK
<1>1. MonitorsInit => MonitorsShaped
  BY InitMonitors DEF MonitorsInv, MonitorsShaped
<1> QED BY <1>1, NextShapedMonitors, ShapedAreTyped, PTL DEF MonitorsSpec

LEMMA MonitorsImply == MonitorsInv => MonitorsTypeOK /\ MonitorsFollowTheUser /\ StatusShownIsReal
<1> SUFFICES ASSUME MonitorsInv PROVE MonitorsTypeOK /\ MonitorsFollowTheUser /\ StatusShownIsReal
  OBVIOUS
<1>1. MonitorsTypeOK
  BY ShapedAreTyped DEF MonitorsInv, MonitorsShaped
<1>2. /\ interval["kubernetes"] \in Nat /\ delayed["kubernetes"] \in Nat /\ hasty \in Nat
      /\ IntervalsAreHeld /\ LostToHaste /\ PolledWhileWanted
  BY MonitorNames DEF MonitorsInv, MonitorsKept, IntervalTypes
<1>3. interval["kubernetes"] <= 1 + hasty
  BY <1>2 DEF LostToHaste
<1>4. held = {} => interval["docker"] = 0 /\ interval["kubernetes"] <= hasty
  BY <1>2 DEF LostToHaste, IntervalsAreHeld, Count
<1>5. MonitorsFollowTheUser
  BY <1>2, <1>3, <1>4 DEF IntervalsAreHeld, PolledWhileWanted, AllStopped, MonitorsFollowTheUser, Count
<1> QED BY <1>1, <1>5 DEF MonitorsInv

\* As long as no health probe fails on a connection that is up: a connected server is
\* polled by one interval of the system monitor, and one that nobody wants by none; the
\* docker monitor has one interval at most and the kubernetes monitor at most one more
\* than the starts made while another was delayed; after a stop that met no delayed
\* start only those run; and the window calls a server connected only while it is, and
\* calls it so unless a torn-down client has reported since (ipc-handlers.ts:32-54,
\* 135-146, 227-246, kubernetes-monitor.ts:88-108, ssh-manager.ts:238-258).
THEOREM MonitorsStaySound ==
  ASSUME MaxProbeFailures = 0
  PROVE  MonitorsSpec => [](MonitorsTypeOK /\ MonitorsFollowTheUser /\ StatusShownIsReal)
<1>1. MonitorsInit /\ [][MonitorsNext]_desktopVars => []MonitorsInv
  BY InitMonitors, NextMonitors, PTL
<1> QED BY <1>1, MonitorsImply, PTL DEF MonitorsSpec

-----------------------------------------------------------------------------
(* The runs' properties. A step of the application is a step of one        *)
(* module or leaves it alone, so what holds of each module's               *)
(* specification holds of the application's.                               *)

\* Every module starts as it does by itself.
LEMMA DesktopStarts ==
  DesktopInit => /\ MonitorsInit /\ SessionsInit /\ AlertRulesInit /\ UpdaterInit /\ SettingsInit
                 /\ ClusterInit /\ DeployInit /\ CicdInit /\ ReadingsInit
BY DEF DesktopInit

\* A step of the application is one of a module, or leaves it alone.
LEMMA DesktopSteps ==
  [DesktopNext]_<<part, desktopVars, sessionVars, alertRuleVars, updaterVars, settingsVars,
                  clusterVars, deployVars, cicdVars, readingVars>>
    => /\ [MonitorsNext]_desktopVars /\ [SessionsNext]_sessionVars /\ [AlertRulesNext]_alertRuleVars
       /\ [UpdaterNext]_updaterVars /\ [SettingsNext]_settingsVars /\ [ClusterNext]_clusterVars
       /\ [DeployNext]_deployVars /\ [CicdNext]_cicdVars /\ [ReadingsNext]_readingVars
<1> SUFFICES ASSUME [DesktopNext]_<<part, desktopVars, sessionVars, alertRuleVars, updaterVars, settingsVars,
                                    clusterVars, deployVars, cicdVars, readingVars>>
             PROVE  /\ [MonitorsNext]_desktopVars /\ [SessionsNext]_sessionVars
                    /\ [AlertRulesNext]_alertRuleVars /\ [UpdaterNext]_updaterVars
                    /\ [SettingsNext]_settingsVars /\ [ClusterNext]_clusterVars
                    /\ [DeployNext]_deployVars /\ [CicdNext]_cicdVars /\ [ReadingsNext]_readingVars
  OBVIOUS
<1>1. [MonitorsNext]_desktopVars
  BY DEF DesktopNext
<1>2. [SessionsNext]_sessionVars
  BY DEF DesktopNext
<1>3. [AlertRulesNext]_alertRuleVars
  BY DEF DesktopNext
<1>4. [UpdaterNext]_updaterVars
  BY DEF DesktopNext
<1>5. [SettingsNext]_settingsVars
  BY DEF DesktopNext
<1>6. [ClusterNext]_clusterVars
  BY DEF DesktopNext
<1>7. [DeployNext]_deployVars
  BY DEF DesktopNext
<1>8. [CicdNext]_cicdVars
  BY DEF DesktopNext
<1>9. [ReadingsNext]_readingVars
  BY DEF DesktopNext
<1> QED BY <1>1, <1>2, <1>3, <1>4, <1>5, <1>6, <1>7, <1>8, <1>9

\* So a behaviour of the application is one of every module.
LEMMA DesktopIsOfItsModules ==
  DesktopSpec => /\ MonitorsSpec /\ SessionsSpec /\ AlertRulesSpec /\ UpdaterSpec /\ SettingsSpec
                 /\ ClusterSpec /\ DeploySpec /\ CicdSpec /\ ReadingsSpec
BY DesktopStarts, DesktopSteps, PTL
   DEF DesktopSpec, MonitorsSpec, SessionsSpec, AlertRulesSpec, UpdaterSpec, SettingsSpec, ClusterSpec,
       DeploySpec, CicdSpec, ReadingsSpec

\* Every module of the desktop application keeps its types, whichever of them runs.
THEOREM DesktopTypeCorrect == DesktopSpec => []DesktopTypeOK
<1>1. MonitorsTypeOK /\ SessionsTypeOK /\ AlertRulesTypeOK /\ UpdaterTypeOK /\ SettingsTypeOK
      /\ ClusterTypeOK /\ DeployTypeOK /\ CicdTypeOK /\ ReadingsTypeOK => DesktopTypeOK
  BY DEF DesktopTypeOK
<1> QED BY <1>1, DesktopIsOfItsModules, MonitorsTypeCorrect, SessionsStayHeld, EditsStay, UpdaterTypeCorrect,
           SettingsTypeCorrect, ClusterPageStaysReal, DeployPageStaysReal, CicdPageStaysReal,
           ReadingsStayExact, PTL

\* What runs in the main process can be ended by somebody, and the dashboard's
\* terminal runs on the server it shows, within the limits the two properties state.
THEOREM DesktopSessionsStayHeld == DesktopSpec => []SessionsAreHeld
BY DesktopIsOfItsModules, SessionsStayHeld, PTL DEF SessionsAreHeld

\* What says that something is under way says so only while it is: the updater's
\* status, the cluster page's list, and the buttons of the deploy and CI pages.
THEOREM BusyStaysReal == DesktopSpec => []BusyIsReal
BY DesktopIsOfItsModules, BusyStatusStaysReal, ClusterPageStaysReal, DeployPageStaysReal,
   CicdPageStaysReal, PTL DEF BusyIsReal

\* The cluster, deploy and CI pages show, and act on, what was read from what is
\* chosen on them, within the limits the three properties state.
THEOREM PagesStayOnTheChosen == DesktopSpec => []PagesShowTheChosen
BY DesktopIsOfItsModules, ClusterPageStaysReal, DeployPageStaysReal, CicdPageStaysReal, PTL
   DEF PagesShowTheChosen

\* As long as no health probe fails on a connection that is up: the system and docker
\* monitors poll once at most, and the kubernetes monitor once and once more for each
\* start made while another was delayed; a stop ends the polls, but those of starts
\* that were delayed when it came; readings add up, unless polls overtook each other or
\* a pod was listed without counters; and the status shown is the connection's, unless
\* a torn-down client reported last.
THEOREM MonitoringStaysSound ==
  ASSUME MaxProbeFailures = 0
  PROVE  DesktopSpec => []MonitoringIsSound
BY DesktopIsOfItsModules, MonitorsStaySound, ReadingsStayExact, PTL DEF MonitoringIsSound

\* The monitors, the pages and the dashboard drive the connection manager and
\* nothing but it: every step they take is one of its own or leaves it alone.
THEOREM MonitorsDriveTheConnections == MonitorsSpec => SshSpec
<1>1. MonitorsInit => Init
  BY DEF MonitorsInit
<1> QED BY <1>1, MonitorsTakeSshSteps, PTL DEF MonitorsSpec, SshSpec

\* So what the application's monitors do never costs a connection beyond those of
\* the health probes that failed on a connection that was up.
THEOREM DesktopConnectionsAreCounted ==
  DesktopSpec => [](Cardinality({e \in Client : Live(e)})
                      <= probeFailures + (IF wanted THEN 1 ELSE 0))
BY DesktopIsOfItsModules, MonitorsDriveTheConnections, StrayConnectionsAreCounted, PTL

===============================================================================
